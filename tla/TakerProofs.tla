----------------------------- MODULE TakerProofs ------------------------------
(***************************************************************************)
(* Theorems of module Taker, for every set of ids, any number of players   *)
(* and frames and every capacity of pkStream.  Reachable is inductive with *)
(* the types.  NoGap is not: what a handler takes first must be known to   *)
(* be the next frame, and not only a greater one.                          *)
(***************************************************************************)
EXTENDS Taker, TLAPS, SequenceTheorems

TableOK ==
  /\ made \in Nat /\ made <= MaxPlayers
  /\ \A i \in DOMAIN table : table[i] \in 1..made

PlayersOK ==
  /\ gone \in [Players -> BOOLEAN] /\ full \in [Players -> BOOLEAN]
  /\ sent \in [Players -> Nat] /\ got \in [Players -> Nat]
  /\ stream \in [Players -> Seq(Nat)]

Types == TableOK /\ PlayersOK

\* The numbers in a pkStream lie between the last the handler took and the
\* last that was routed, and grow; without a drop they follow each other.
Grows(p) ==
  /\ got[p] <= sent[p]
  /\ \A k \in 1..Len(stream[p]) : got[p] < stream[p][k] /\ stream[p][k] <= sent[p]
  /\ \A j, k \in 1..Len(stream[p]) : j < k => stream[p][j] < stream[p][k]

Follows(p) ==
  ~gone[p] /\ ~full[p] =>
    /\ got[p] + Len(stream[p]) = sent[p]
    /\ \A k \in 1..Len(stream[p]) : stream[p][k] = got[p] + k

Frames == \A p \in Players : Grows(p) /\ Follows(p)

-----------------------------------------------------------------------------
(* Types.                                                                  *)

LEMMA ClosePlayersProperties ==
  ASSUME PlayersOK, NEW ps, ClosePlayers(ps)
  PROVE  /\ gone' \in [Players -> BOOLEAN]
         /\ \A p \in Players : gone'[p] = (gone[p] \/ p \in ps)
BY Zenon DEF PlayersOK, ClosePlayers

LEMMA PlayerIsMade ==
  ASSUME Types, NEW p \in 1..made
  PROVE  p \in Players
BY TakerAssumption DEF Types, TableOK, Players

\* A step that leaves the frames alone and may close players.
LEMMA OnlyCloses ==
  ASSUME PlayersOK, Frames, UNCHANGED <<stream, sent, got, full>>,
         gone' \in [Players -> BOOLEAN], \A p \in Players : gone[p] => gone'[p]
  PROVE  PlayersOK' /\ Frames'
<1>1. PlayersOK'
  BY DEF PlayersOK
<1>2. ASSUME NEW p \in Players PROVE Grows(p)' /\ Follows(p)'
  BY DEF Frames, Grows, Follows
<1> QED
  BY <1>1, <1>2 DEF Frames

-----------------------------------------------------------------------------
(* The frames of a player.                                                 *)

\* PlayerPacket routes one to it.
LEMMA Routed ==
  ASSUME PlayersOK, Frames, NEW q \in Players, UNCHANGED <<gone, got>>,
         Keep(q) \/ DropFull(q) \/ DropClosed(q)
  PROVE  PlayersOK' /\ Frames'
<1>1. /\ \A p \in Players : stream[p] \in Seq(Nat) /\ Len(stream[p]) \in Nat
      /\ \A p \in Players : sent[p] \in Nat /\ got[p] \in Nat
  BY LenProperties DEF PlayersOK
<1>2. CASE Keep(q)
  <2> DEFINE s == stream[q]
             n == sent[q] + 1
  <2>1. /\ sent' = [sent EXCEPT ![q] = n] /\ full' = full
        /\ stream' = [stream EXCEPT ![q] = Append(s, sent'[q])]
    BY <1>2 DEF Keep
  <2>2. n \in Nat /\ sent'[q] = n
    BY <1>1, <2>1 DEF PlayersOK
  <2>3. /\ Append(s, n) \in Seq(Nat) /\ Len(Append(s, n)) = Len(s) + 1
        /\ \A k \in 1..Len(s) : Append(s, n)[k] = s[k]
        /\ Append(s, n)[Len(s) + 1] = n
    BY <1>1, <2>2, AppendProperties
  <2>4. PlayersOK'
    BY <2>1, <2>2, <2>3 DEF PlayersOK
  <2>5. stream'[q] = Append(s, n)
    BY <2>1, <2>2 DEF PlayersOK
  <2>6. \A p \in Players \ {q} : sent'[p] = sent[p] /\ stream'[p] = stream[p]
    BY <2>1 DEF PlayersOK
  <2>7. ASSUME NEW p \in Players \ {q} PROVE Grows(p)' /\ Follows(p)'
    BY <2>1, <2>6 DEF Frames, Grows, Follows
  <2>8. Grows(q) /\ Follows(q)
    BY DEF Frames
  <2>9. \A k \in 1..Len(s) : s[k] \in Nat
    BY <1>1, ElementOfSeq
  <2> DEFINE t == stream'[q]
             m == Len(stream[q])
  <2>10. /\ m \in Nat /\ Len(t) = m + 1 /\ t[m + 1] = n
         /\ \A k \in 1..m : t[k] = s[k] /\ s[k] \in Nat
    BY <1>1, <2>3, <2>5, <2>9
  <2>11. /\ got[q] <= sent[q]
         /\ \A k \in 1..m : got[q] < s[k] /\ s[k] <= sent[q]
         /\ \A j, k \in 1..m : j < k => s[j] < s[k]
    BY <2>8 DEF Grows
  <2>12. got[q] \in Nat /\ sent[q] \in Nat /\ got'[q] = got[q]
    BY <1>1
  <2> HIDE DEF s, t, m
  <2>13. /\ got[q] <= n
         /\ \A k \in 1..(m + 1) : got[q] < t[k] /\ t[k] <= n
         /\ \A j, k \in 1..(m + 1) : j < k => t[j] < t[k]
    <3> HIDE DEF n
    <3>1. n = sent[q] + 1
      BY DEF n
    <3>2. ASSUME NEW k \in 1..(m + 1) PROVE got[q] < t[k] /\ t[k] <= n
      <4>1. CASE k \in 1..m
        BY <4>1, <3>1, <2>10, <2>11, <2>12
      <4>2. CASE k = m + 1
        BY <4>2, <3>1, <2>10, <2>11, <2>12
      <4> QED BY <4>1, <4>2, <2>10
    <3>3. ASSUME NEW j \in 1..(m + 1), NEW k \in 1..(m + 1), j < k PROVE t[j] < t[k]
      <4>1. CASE k \in 1..m
        <5>1. j \in 1..m
          BY <3>3, <4>1, <2>10
        <5> QED BY <5>1, <4>1, <3>3, <2>10, <2>11
      <4>2. CASE k = m + 1
        <5>1. j \in 1..m
          BY <3>3, <4>2, <2>10
        <5> QED BY <5>1, <4>2, <3>1, <2>10, <2>11, <2>12
      <4> QED BY <4>1, <4>2, <2>10
    <3> QED BY <3>1, <3>2, <3>3, <2>11, <2>12
  <2>14. Grows(q)'
    BY <2>2, <2>10, <2>12, <2>13 DEF Grows, t
  <2>15. ~gone[q] /\ ~full[q] =>
           got[q] + (m + 1) = n /\ \A k \in 1..(m + 1) : t[k] = got[q] + k
    <3>1. SUFFICES ASSUME got[q] + m = sent[q], \A k \in 1..m : s[k] = got[q] + k
                   PROVE  got[q] + (m + 1) = n /\ \A k \in 1..(m + 1) : t[k] = got[q] + k
      BY <2>8 DEF Follows, m, s
    <3>2. ASSUME NEW k \in 1..(m + 1) PROVE t[k] = got[q] + k
      <4>1. CASE k \in 1..m
        BY <4>1, <3>1, <2>10
      <4>2. CASE k = m + 1
        BY <4>2, <3>1, <2>10, <2>12
      <4> QED BY <4>1, <4>2, <2>10
    <3> QED BY <3>1, <3>2, <2>10, <2>12
  <2>16. Follows(q)'
    BY <2>1, <2>2, <2>10, <2>12, <2>15 DEF Follows, t
  <2>17. ASSUME NEW p \in Players PROVE Grows(p)' /\ Follows(p)'
    <3>1. CASE p = q
      BY <3>1, <2>14, <2>16
    <3>2. CASE p # q
      BY <3>2, <2>7
    <3> QED BY <3>1, <3>2
  <2> QED BY <2>4, <2>17 DEF Frames
<1>3. CASE DropFull(q)
  <2>1. /\ sent' = [sent EXCEPT ![q] = sent[q] + 1] /\ full' = [full EXCEPT ![q] = TRUE]
        /\ stream' = stream
    BY <1>3 DEF DropFull
  <2>2. PlayersOK'
    BY <1>1, <2>1 DEF PlayersOK
  <2>3. /\ sent'[q] = sent[q] + 1 /\ full'[q]
        /\ \A p \in Players \ {q} : sent'[p] = sent[p] /\ full'[p] = full[p]
    BY <2>1 DEF PlayersOK
  <2>4. ASSUME NEW p \in Players \ {q} PROVE Grows(p)' /\ Follows(p)'
    BY <2>1, <2>3 DEF Frames, Grows, Follows
  <2>5. \A k \in 1..Len(stream[q]) : stream[q][k] \in Nat
    BY <1>1, ElementOfSeq
  <2>6. Grows(q)
    BY DEF Frames
  <2>7. Grows(q)'
    <3>1. got[q] \in Nat /\ got'[q] = got[q] /\ sent[q] \in Nat /\ sent[q] <= sent'[q]
      BY <1>1, <2>3
    <3>2. got'[q] <= sent'[q]
      BY <3>1, <1>1, <2>3, <2>6 DEF Grows
    <3>3. \A k \in 1..Len(stream[q]) : got[q] < stream[q][k] /\ stream[q][k] <= sent[q] + 1
      BY <3>1, <2>5, <2>6 DEF Grows
    <3>4. \A j, k \in 1..Len(stream[q]) : j < k => stream[q][j] < stream[q][k]
      BY <2>6 DEF Grows
    <3>5. got'[q] = got[q] /\ sent'[q] = sent[q] + 1 /\ stream'[q] = stream[q]
      BY <3>1, <2>1, <2>3
    <3> QED BY <3>2, <3>3, <3>4, <3>5, Zenon DEF Grows
  <2>8. Follows(q)'
    BY <2>3 DEF Follows
  <2>9. ASSUME NEW p \in Players PROVE Grows(p)' /\ Follows(p)'
    <3>1. CASE p = q
      BY <3>1, <2>7, <2>8
    <3>2. CASE p # q
      BY <3>2, <2>4
    <3> QED BY <3>1, <3>2
  <2> QED BY <2>2, <2>9 DEF Frames
<1>4. CASE DropClosed(q)
  BY <1>4, OnlyCloses DEF DropClosed, PlayersOK
<1> QED
  BY <1>2, <1>3, <1>4

\* The handler takes the first of its pkStream, and leaves if it cannot read it.
LEMMA Taken ==
  ASSUME PlayersOK, Frames, NEW q \in Players, HandlerTakes(q) \/ HandlerFails(q)
  PROVE  PlayersOK' /\ Frames'
<1> DEFINE s == stream[q]
           t == Tail(s)
<1>1. /\ s \in Seq(Nat) /\ s # <<>> /\ Len(s) \in Nat \ {0}
      /\ sent[q] \in Nat /\ got[q] \in Nat
  BY LenProperties, EmptySeq DEF PlayersOK, HandlerTakes, HandlerFails
<1>2. /\ t \in Seq(Nat) /\ Head(s) \in Nat /\ Head(s) = s[1] /\ Len(t) = Len(s) - 1
      /\ \A k \in 1..Len(t) : t[k] = s[k + 1]
  BY <1>1, HeadTailProperties
<1>3. /\ stream' = [stream EXCEPT ![q] = t] /\ sent' = sent /\ full' = full
      /\ \/ HandlerTakes(q) /\ got' = [got EXCEPT ![q] = Head(s)] /\ gone' = gone
         \/ HandlerFails(q) /\ got' = got /\ ClosePlayers({q})
  BY DEF HandlerTakes, HandlerFails
<1>4. /\ gone' \in [Players -> BOOLEAN]
      /\ \A p \in Players : gone[p] => gone'[p]
      /\ HandlerFails(q) /\ ClosePlayers({q}) => gone'[q]
  BY <1>3, ClosePlayersProperties DEF PlayersOK
<1>5. PlayersOK'
  BY <1>2, <1>3, <1>4 DEF PlayersOK
<1>6. \A p \in Players \ {q} : stream'[p] = stream[p] /\ got'[p] = got[p]
  BY <1>3 DEF PlayersOK
<1>7. ASSUME NEW p \in Players \ {q} PROVE Grows(p)' /\ Follows(p)'
  BY <1>3, <1>4, <1>6 DEF Frames, Grows, Follows
<1>8. /\ stream'[q] = t /\ sent'[q] = sent[q]
      /\ got'[q] = Head(s) \/ (got'[q] = got[q] /\ gone'[q])
  BY <1>3, <1>4 DEF PlayersOK
<1>9. \A k \in 1..Len(s) : s[k] \in Nat
  BY <1>1, ElementOfSeq
<1>10. /\ got[q] <= sent[q]
       /\ \A k \in 1..Len(s) : got[q] < s[k] /\ s[k] <= sent[q]
       /\ \A j, k \in 1..Len(s) : j < k => s[j] < s[k]
  BY DEF Frames, Grows
<1>11. ~gone[q] /\ ~full[q] =>
         got[q] + Len(s) = sent[q] /\ \A k \in 1..Len(s) : s[k] = got[q] + k
  BY DEF Frames, Follows
<1>12. got'[q] = s[1] \/ (got'[q] = got[q] /\ gone'[q])
  BY <1>2, <1>8
<1> HIDE DEF s, t
<1>0. /\ Len(t) = Len(s) - 1 /\ Len(s) \in Nat \ {0}
      /\ \A k \in 1..Len(t) : t[k] = s[k + 1]
  BY <1>1, <1>2
<1>20. \A k \in 1..Len(t) : k + 1 \in 1..Len(s) /\ 1 < k + 1
  BY <1>0
<1>21. 1 \in 1..Len(s)
  BY <1>0
<1>13. got'[q] <= sent[q]
  BY <1>1, <1>10, <1>12
<1>14. ASSUME NEW k \in 1..Len(t) PROVE got'[q] < t[k] /\ t[k] <= sent[q]
  <2>1. k + 1 \in 1..Len(s) /\ 1 \in 1..Len(s) /\ 1 < k + 1
    BY <1>20, <1>21
  <2>2. t[k] = s[k + 1] /\ s[1] < s[k + 1] /\ got[q] < s[k + 1] /\ s[k + 1] <= sent[q]
    BY <1>2, <1>10, <2>1
  <2> QED BY <2>2, <1>12
<1>15. ASSUME NEW j \in 1..Len(t), NEW k \in 1..Len(t), j < k PROVE t[j] < t[k]
  <2>1. j + 1 \in 1..Len(s) /\ k + 1 \in 1..Len(s) /\ j + 1 < k + 1
    BY <1>15, <1>20
  <2>2. t[j] = s[j + 1] /\ t[k] = s[k + 1]
    BY <1>0, Zenon
  <2> QED BY <2>1, <2>2, <1>10, Zenon
<1>16. Grows(q)'
  BY <1>8, <1>13, <1>14, <1>15 DEF Grows
<1>17. ~gone'[q] /\ ~full[q] =>
         got'[q] + Len(t) = sent[q] /\ \A k \in 1..Len(t) : t[k] = got'[q] + k
  <2>1. SUFFICES ASSUME ~gone'[q], ~full[q]
                 PROVE  got'[q] + Len(t) = sent[q] /\ \A k \in 1..Len(t) : t[k] = got'[q] + k
    OBVIOUS
  <2>2. ~gone[q] /\ got'[q] = s[1]
    BY <2>1, <1>4, <1>12
  <2>3. got[q] + Len(s) = sent[q] /\ \A k \in 1..Len(s) : s[k] = got[q] + k
    BY <2>1, <2>2, <1>11
  <2>4. s[1] = got[q] + 1
    BY <2>3, <1>1
  <2>5. ASSUME NEW k \in 1..Len(t) PROVE t[k] = got'[q] + k
    <3>1. k + 1 \in 1..Len(s) /\ t[k] = s[k + 1]
      BY <1>0, <1>20, Zenon
    <3>2. t[k] = got[q] + (k + 1)
      BY <3>1, <2>3
    <3>3. t[k] = got[q] + 1 + k /\ got'[q] = got[q] + 1
      <4>1. k \in Nat
        BY <1>0
      <4>2. got[q] \in Nat
        BY <1>1
      <4> QED BY <4>1, <4>2, <3>2, <2>2, <2>4
    <3> QED BY <3>3
  <2>6. got'[q] + Len(t) = sent[q]
    <3>1. got'[q] = got[q] + 1 /\ Len(t) = Len(s) - 1 /\ got[q] \in Nat /\ Len(s) \in Nat
      BY <2>2, <2>4, <1>0, <1>1
    <3> QED BY <3>1, <2>3
  <2> QED BY <2>5, <2>6
<1>18. Follows(q)'
  BY <1>3, <1>8, <1>17 DEF Follows
<1>19. ASSUME NEW p \in Players PROVE Grows(p)' /\ Follows(p)'
  <2>1. CASE p = q
    BY <2>1, <1>16, <1>18
  <2>2. CASE p # q
    BY <2>2, <1>7
  <2> QED BY <2>1, <2>2
<1> QED
  BY <1>5, <1>19 DEF Frames

-----------------------------------------------------------------------------
(* The steps.                                                              *)

Inv == Types /\ Frames /\ Reachable

LEMMA InitInv == Init => Inv
<1> SUFFICES ASSUME Init PROVE Inv
  OBVIOUS
<1>1. TableOK
  BY TakerAssumption DEF Init, TableOK
<1>2. PlayersOK
  BY DEF Init, PlayersOK
<1>3. ASSUME NEW p \in Players PROVE Grows(p) /\ Follows(p)
  <2>1. got[p] = 0 /\ sent[p] = 0 /\ stream[p] = <<>> /\ Len(stream[p]) = 0
    BY DEF Init
  <2> QED BY <2>1 DEF Grows, Follows
<1>4. Reachable
  BY DEF Init, Reachable
<1> QED
  BY <1>1, <1>2, <1>3, <1>4 DEF Inv, Types, Frames

\* What leaves the table and the players alone, or closes some of them.
LEMMA ClosesKeep ==
  ASSUME Inv, UNCHANGED <<table, made, orphans>>, PlayersOK',
         \A p \in Players : gone[p] => gone'[p]
  PROVE  TableOK' /\ Reachable'
<1>1. TableOK'
  BY DEF Inv, Types, TableOK
<1>2. ASSUME NEW p \in 1..made', ~gone'[p] PROVE p \in Range(table') \/ p \in orphans'
  <2>1. p \in 1..made /\ p \in Players /\ ~gone[p]
    BY <1>2, PlayerIsMade DEF Inv
  <2> QED BY <2>1 DEF Inv, Reachable
<1> QED
  BY <1>1, <1>2 DEF Reachable

\* What takes the players it closes out of the table.
LEMMA ClosesRemoved ==
  ASSUME Inv, NEW removed, UNCHANGED <<made, orphans>>,
         ClosePlayers({table[j] : j \in DOMAIN table \intersect removed}),
         table' = [j \in DOMAIN table \ removed |-> table[j]]
  PROVE  TableOK' /\ Reachable'
<1>1. TableOK'
  BY DEF Inv, Types, TableOK
<1>2. \A p \in Players :
        gone'[p] = (gone[p] \/ p \in {table[j] : j \in DOMAIN table \intersect removed})
  BY ClosePlayersProperties DEF Inv, Types
<1>3. ASSUME NEW p \in 1..made', ~gone'[p] PROVE p \in Range(table') \/ p \in orphans'
  <2>1. p \in 1..made /\ p \in Players
    BY PlayerIsMade DEF Inv
  <2>2. ~gone[p] /\ \A j \in DOMAIN table \intersect removed : p # table[j]
    BY <1>2, <1>3, <2>1
  <2>3. p \in Range(table) \/ p \in orphans
    BY <2>1, <2>2 DEF Inv, Reachable
  <2>4. ASSUME p \in Range(table) PROVE p \in Range(table')
    <3>1. PICK j \in DOMAIN table : table[j] = p
      BY <2>4 DEF Range
    <3>2. j \in DOMAIN table' /\ table'[j] = p
      BY <2>2, <3>1
    <3> QED BY <3>2 DEF Range
  <2> QED BY <2>3, <2>4
<1> QED
  BY <1>1, <1>3 DEF Reachable

\* A new player is in the table; whose entry it takes is an orphan.
LEMMA IncomingKeeps ==
  ASSUME Inv, NEW i \in Ids, IncomingPlayer(i)
  PROVE  TableOK' /\ Reachable'
<1>1. /\ made < MaxPlayers /\ made' = made + 1 /\ gone' = gone
      /\ orphans' = orphans \union {table[j] : j \in DOMAIN table \intersect {i}}
      /\ table' = [j \in DOMAIN table \union {i} |-> IF j = i THEN made' ELSE table[j]]
  BY DEF IncomingPlayer, playerVars
<1>2. made \in Nat /\ made' \in Nat /\ made' <= MaxPlayers /\ 1..made \subseteq 1..made' /\ made' \in 1..made'
  BY <1>1, TakerAssumption DEF Inv, Types, TableOK
<1>3. TableOK'
  BY <1>1, <1>2 DEF Inv, Types, TableOK
<1>4. ASSUME NEW p \in 1..made', ~gone'[p] PROVE p \in Range(table') \/ p \in orphans'
  <2>1. CASE p = made'
    <3>1. i \in DOMAIN table' /\ table'[i] = p
      BY <1>1, <2>1
    <3> QED BY <3>1 DEF Range
  <2>2. CASE p # made'
    <3>1. p \in 1..made
      BY <1>1, <1>2, <2>2
    <3>2. p \in Range(table) \/ p \in orphans
      BY <1>1, <1>4, <3>1 DEF Inv, Reachable
    <3>3. ASSUME p \in Range(table) PROVE p \in Range(table') \/ p \in orphans'
      <4>1. PICK j \in DOMAIN table : table[j] = p
        BY <3>3 DEF Range
      <4>2. CASE j = i
        BY <1>1, <4>1, <4>2
      <4>3. CASE j # i
        <5>1. j \in DOMAIN table' /\ table'[j] = p
          BY <1>1, <4>1, <4>3
        <5> QED BY <5>1 DEF Range
      <4> QED BY <4>2, <4>3
    <3> QED BY <1>1, <3>2, <3>3
  <2> QED BY <2>1, <2>2
<1> QED
  BY <1>3, <1>4 DEF Reachable

LEMMA StepInv == Inv /\ [Next]_vars => Inv'
<1> SUFFICES ASSUME Inv, [Next]_vars PROVE Inv'
  OBVIOUS
<1>0. PlayersOK /\ Frames
  BY DEF Inv, Types
<1>1. CASE UNCHANGED <<table, made, orphans, playerVars>>
  <2>1. PlayersOK' /\ Frames'
    BY <1>0, <1>1, OnlyCloses DEF playerVars, PlayersOK
  <2>2. TableOK' /\ Reachable'
    BY <1>1, <2>1, ClosesKeep DEF playerVars
  <2> QED BY <2>1, <2>2 DEF Inv, Types
<1>2. CASE Handoff
  <2>1. UNCHANGED <<table, made, orphans, gone, stream, sent, got, full>>
    BY <1>2 DEF Handoff
  <2>2. PlayersOK' /\ Frames'
    BY <1>0, <2>1, OnlyCloses DEF PlayersOK
  <2>3. TableOK' /\ Reachable'
    BY <2>1, <2>2, ClosesKeep
  <2> QED BY <2>2, <2>3 DEF Inv, Types
<1>3. CASE HandoffClosed
  <2>1. UNCHANGED <<table, made, orphans, stream, sent, got, full>> /\ ClosePlayers({made})
    BY <1>3 DEF HandoffClosed
  <2>2. gone' \in [Players -> BOOLEAN] /\ \A p \in Players : gone[p] => gone'[p]
    BY <1>0, <2>1, ClosePlayersProperties
  <2>3. PlayersOK' /\ Frames'
    BY <1>0, <2>1, <2>2, OnlyCloses
  <2>4. TableOK' /\ Reachable'
    BY <2>1, <2>2, <2>3, ClosesKeep
  <2> QED BY <2>3, <2>4 DEF Inv, Types
<1>4. ASSUME NEW i \in Ids, IncomingPlayer(i) PROVE Inv'
  <2>1. UNCHANGED playerVars
    BY <1>4 DEF IncomingPlayer
  <2>2. PlayersOK' /\ Frames'
    BY <1>0, <2>1, OnlyCloses DEF playerVars, PlayersOK
  <2> QED BY <1>4, <2>2, IncomingKeeps DEF Inv, Types
<1>5. ASSUME NEW i \in Ids, DisconnectedPlayer(i) PROVE Inv'
  <2>1. /\ UNCHANGED <<made, orphans, stream, sent, got, full>>
        /\ ClosePlayers({table[j] : j \in DOMAIN table \intersect {i}})
        /\ table' = [j \in DOMAIN table \ {i} |-> table[j]]
    BY <1>5 DEF DisconnectedPlayer
  <2>2. gone' \in [Players -> BOOLEAN] /\ \A p \in Players : gone[p] => gone'[p]
    BY <1>0, <2>1, ClosePlayersProperties
  <2>3. PlayersOK' /\ Frames'
    BY <1>0, <2>1, <2>2, OnlyCloses
  <2> QED BY <2>1, <2>3, ClosesRemoved DEF Inv, Types
<1>6. ASSUME NEW i \in Ids, PlayerPacket(i) PROVE Inv'
  <2> DEFINE q == table[i]
  <2>1. /\ UNCHANGED <<table, made, orphans, gone, got>>
        /\ i \in DOMAIN table /\ (Keep(q) \/ DropFull(q) \/ DropClosed(q))
    BY <1>6 DEF PlayerPacket
  <2>2. q \in Players
    BY <2>1, PlayerIsMade DEF Inv, Types, TableOK
  <2>3. PlayersOK' /\ Frames'
    BY <1>0, <2>1, <2>2, Routed
  <2>4. TableOK' /\ Reachable'
    BY <2>1, <2>3, ClosesKeep
  <2> QED BY <2>3, <2>4 DEF Inv, Types
<1>7. CASE Purge
  <2>1. UNCHANGED <<made, orphans, stream, sent, got, full>> /\ ClosePlayers(Range(table))
    BY <1>7 DEF Purge
  <2>2. Range(table) = {table[j] : j \in DOMAIN table \intersect DOMAIN table}
    BY DEF Range
  <2>3. table' = [j \in DOMAIN table \ DOMAIN table |-> table[j]]
    <3>1. table' = [j \in {} |-> 0]
      BY <1>7 DEF Purge
    <3> QED BY <3>1
  <2>4. gone' \in [Players -> BOOLEAN] /\ \A p \in Players : gone[p] => gone'[p]
    BY <1>0, <2>1, ClosePlayersProperties
  <2>5. PlayersOK' /\ Frames'
    BY <1>0, <2>1, <2>4, OnlyCloses
  <2>6. TableOK' /\ Reachable'
    BY <2>1, <2>2, <2>3, ClosesRemoved
  <2> QED BY <2>5, <2>6 DEF Inv, Types
<1>8. ASSUME NEW p \in Players, HandlerTakes(p) \/ HandlerFails(p) PROVE Inv'
  <2>1. PlayersOK' /\ Frames'
    BY <1>0, <1>8, Taken
  <2>2. UNCHANGED <<table, made, orphans>> /\ (gone' = gone \/ ClosePlayers({p}))
    BY <1>8 DEF HandlerTakes, HandlerFails
  <2>3. \A o \in Players : gone[o] => gone'[o]
    BY <1>0, <2>2, ClosePlayersProperties
  <2>4. TableOK' /\ Reachable'
    BY <2>1, <2>2, <2>3, ClosesKeep
  <2> QED BY <2>1, <2>4 DEF Inv, Types
<1>9. ASSUME NEW p \in Players, HandlerEnds(p) PROVE Inv'
  <2>1. UNCHANGED <<table, made, orphans, gone, stream, sent, got, full>>
    BY <1>9 DEF HandlerEnds
  <2>2. PlayersOK' /\ Frames'
    BY <1>0, <2>1, OnlyCloses DEF PlayersOK
  <2>3. TableOK' /\ Reachable'
    BY <2>1, <2>2, ClosesKeep
  <2> QED BY <2>2, <2>3 DEF Inv, Types
<1>10. CASE \/ Top \/ ReadClosed \/ Leave \/ ReadOther \/ ReadFails
            \/ CloseEnds \/ CloseElsewhere \/ RangeEnds \/ HandleTakerReturns \/ UNCHANGED vars
  BY <1>10, <1>1 DEF Top, ReadClosed, Leave, ReadOther, ReadFails, CloseEnds, CloseElsewhere,
     RangeEnds, HandleTakerReturns, vars
<1> QED
  BY <1>2, <1>3, <1>4, <1>5, <1>6, <1>7, <1>8, <1>9, <1>10 DEF Next, HandlePlayers, Peer

LEMMA Invariance == Spec => []Inv
  BY InitInv, StepInv, PTL DEF Spec

\* Every handler that waits can be told to stop: whatever the frames and
\* whoever closes the connection, an open player is in the table, but for those
\* whose id was announced again (taker.go:63-64).
THEOREM PlayersAreReachable == Spec => []Reachable
<1>1. Inv => Reachable
  BY DEF Inv
<1> QED
  BY <1>1, Invariance, PTL

\* A handler gets its player's frames in order, and without a gap unless
\* pkStream was full (acplayerconn.go:34-51).
THEOREM HandlersMissNothing == Spec => []NoGap
<1>1. Inv => NoGap
  <2> SUFFICES ASSUME Inv, NEW p \in Players
               PROVE  /\ \A k \in DOMAIN stream[p] :
                           /\ (IF k = 1 THEN got[p] ELSE stream[p][k - 1]) < stream[p][k]
                           /\ stream[p][k] <= sent[p]
                      /\ ~gone[p] /\ ~full[p] => got[p] + Len(stream[p]) = sent[p]
    BY DEF NoGap
  <2>1. Grows(p) /\ Follows(p)
    BY DEF Inv, Frames
  <2>2. DOMAIN stream[p] = 1..Len(stream[p]) /\ Len(stream[p]) \in Nat
    BY LenProperties DEF Inv, Types, PlayersOK
  <2>3. ASSUME NEW k \in 1..Len(stream[p])
        PROVE  /\ (IF k = 1 THEN got[p] ELSE stream[p][k - 1]) < stream[p][k]
               /\ stream[p][k] <= sent[p]
    <3>1. k # 1 => k - 1 \in 1..Len(stream[p]) /\ k - 1 < k
      BY <2>2
    <3> QED BY <2>1, <3>1 DEF Grows
  <2> QED BY <2>1, <2>2, <2>3 DEF Follows
<1> QED
  BY <1>1, Invariance, PTL
=============================================================================
