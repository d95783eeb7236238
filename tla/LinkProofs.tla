------------------------------ MODULE LinkProofs ------------------------------
(***************************************************************************)
(* Theorems of modules Forwarder and Link, for every set of sessions,      *)
(* every bound and with or without redialing.                              *)
(*                                                                         *)
(* The forwarder: the types, taken in four parts, and IdTable are          *)
(* inductive together: only Join and FreeSlot touch the id table, and the  *)
(* other actions of a session keep it among the ones that hold an id.      *)
(*                                                                         *)
(* The link: the taker is one of the peers that module Forwarder allows,   *)
(* so what holds of every forwarder holds here; and a forwarder that does  *)
(* not redial keeps its side of the listener's expectation.                *)
(*                                                                         *)
(* The two tables: Believes says whom the taker takes an id for once it    *)
(* has read a part of the queue.  On a connection without a ghost, reading *)
(* all of it leaves the taker with the players announced and present       *)
(* (Tracked): a packet sent, or read, keeps that so.                       *)
(***************************************************************************)
EXTENDS Link, TLAPS, SequenceTheorems

TableType ==
  /\ slots \in Seq(Sessions \union {Nobody}) /\ free \in Seq(Ids)
  /\ at \in [Sessions -> AtS] /\ id \in [Sessions -> Ids]

FlagType ==
  /\ isConnDown \in BOOLEAN /\ up \in BOOLEAN /\ ready \in BOOLEAN /\ ghost \in BOOLEAN
  /\ gen \in Dialers /\ link \in {"none", "ok", "broken"}
  /\ data \in Nat /\ tries \in [Dialers -> Nat]

WireType == queue \in Seq(Packets) /\ announced \subseteq Sessions

DialerType ==
  /\ dialer \in [Dialers -> AtD] /\ todo \in [Dialers -> Seq(Sessions \union {Nobody})]
  /\ \A d \in Dialers : dialer[d] = "replaySend" => todo[d] # <<>> /\ Head(todo[d]) # Nobody

Inv == TableType /\ FlagType /\ WireType /\ DialerType /\ IdTable

LEMMA TypeParts == TypeOK <=> TableType /\ FlagType /\ WireType /\ DialerType
  BY DEF TypeOK, TableType, FlagType, WireType, DialerType

-----------------------------------------------------------------------------
LEMMA InitInv == Init => Inv
<1> SUFFICES ASSUME Init PROVE Inv
  OBVIOUS
<1>0. <<>> \in Seq(Sessions \union {Nobody}) /\ <<>> \in Seq(Ids) /\ <<>> \in Seq(Packets)
  BY EmptySeq
<1>1. TableType
  BY <1>0 DEF Init, TableType, AtS, Ids
<1>2. 0 \in Dialers /\ 1 \in Dialers
  BY ForwarderAssumption DEF Dialers
<1>3. FlagType
  BY <1>2 DEF Init, FlagType, Dialed, Undialed
<1>4. WireType
  BY <1>0 DEF Init, WireType
<1>5. DialerType
  <2>1. dialer \in [Dialers -> {"dialGate", "dialing", "idle"}]
    BY DEF Init, Dialed, Undialed
  <2> QED
    BY <2>1, <1>0 DEF Init, DialerType, AtD
<1>6. IdTable
  BY DEF Init, IdTable, Holds
<1> QED
  BY <1>1, <1>3, <1>4, <1>5, <1>6 DEF Inv

\* The queue takes a packet; nothing else is put in it.
LEMMA PushType ==
  ASSUME WireType, NEW p \in Packets, p.kind = "inc" => p.from \in Sessions, Push(p)
  PROVE  WireType'
<1>1. Append(queue, p) \in Seq(Packets)
  BY AppendProperties DEF WireType
<1> QED
  BY <1>1 DEF Push, WireType

LEMMA PacketType ==
  ASSUME NEW k \in {"dial", "inc", "data", "disc"}, NEW i \in Ids, NEW s \in Sessions \union {Nobody}
  PROVE  Packet(k, i, s) \in Packets /\ Packet(k, i, s).kind = k /\ Packet(k, i, s).from = s
  BY DEF Packet, Packets

-----------------------------------------------------------------------------
(* The actions that change the table.                                      *)

LEMMA JoinInv ==
  ASSUME Inv, NEW s \in Sessions, Join(s) PROVE Inv'
<1> USE DEF Inv, Ids
<1> DEFINE Slot == Sessions \union {Nobody}
<1>1. FlagType' /\ WireType' /\ DialerType'
  BY DEF Join, FlagType, WireType, DialerType, connVars, dialerVars
<1>2. /\ at' = [at EXCEPT ![s] = "incGate"] /\ at[s] = "new"
      /\ at'[s] = "incGate"
      /\ \A t \in Sessions : t # s => at'[t] = at[t]
  BY DEF Join, GotoS, TableType
<1>3. CASE free = <<>>
  <2>1. /\ id' = [id EXCEPT ![s] = Len(slots)]
        /\ slots' = Append(slots, s)
        /\ free' = free
    BY <1>3 DEF Join
  <2>2. slots' \in Seq(Slot) /\ Len(slots') = Len(slots) + 1 /\ Len(slots) \in Nat
    BY <2>1, AppendProperties, LenProperties DEF TableType
  <2>3. TableType'
    BY <2>1, <2>2, <1>2 DEF TableType, AtS
  <2>4. slots'[Len(slots) + 1] = s /\ \A i \in DOMAIN slots : slots'[i] = slots[i]
    BY <2>1, AppendProperties DEF TableType
  <2>5. DOMAIN slots = 1..Len(slots) /\ DOMAIN slots' = 1..(Len(slots) + 1) /\ DOMAIN free = {}
    BY <2>2, <1>3, LenProperties DEF TableType
  <2>6. IdTable'
    BY <2>1, <2>2, <2>4, <2>5, <1>2, <1>3, ForwarderAssumption DEF IdTable, Holds, TableType
  <2> QED
    BY <1>1, <2>3, <2>6
<1>4. CASE free # <<>>
  <2> DEFINE i == Last(free)
  <2>1. /\ id' = [id EXCEPT ![s] = i]
        /\ free' = Front(free)
        /\ slots' = [slots EXCEPT ![i + 1] = s]
    BY <1>4 DEF Join
  <2>2. /\ Len(free) \in Nat \ {0} /\ DOMAIN free = 1..Len(free)
        /\ i = free[Len(free)] /\ i \in Nat
    BY <1>4, LenProperties, ElementOfSeq DEF TableType, Last
  <2>3. /\ Front(free) \in Seq(Nat) /\ DOMAIN Front(free) = 1..(Len(free) - 1)
        /\ \A k \in 1..(Len(free) - 1) : Front(free)[k] = free[k]
    BY <2>2, SubSeqProperties DEF TableType, Front
  <2>4. i + 1 \in DOMAIN slots /\ slots[i + 1] = Nobody
    BY <2>2 DEF IdTable
  <2>5. /\ slots' \in Seq(Slot) /\ DOMAIN slots' = DOMAIN slots /\ slots'[i + 1] = s
        /\ \A j \in DOMAIN slots : j # i + 1 => slots'[j] = slots[j]
    BY <2>1, <2>4, ExceptSeq, LenProperties DEF TableType
  <2>6. TableType'
    BY <2>1, <2>2, <2>3, <2>5, <1>2 DEF TableType, AtS
  <2>7. \A t \in Sessions : Holds(t)' <=> Holds(t) \/ t = s
    BY <1>2 DEF Holds
  <2>8. \A t \in Sessions : id'[t] = IF t = s THEN i ELSE id[t]
    BY <2>1 DEF TableType
  <2>9. \A t \in Sessions : Holds(t)' => id'[t] + 1 \in DOMAIN slots' /\ slots'[id'[t] + 1] = t
    <3> SUFFICES ASSUME NEW t \in Sessions, Holds(t)'
                 PROVE  id'[t] + 1 \in DOMAIN slots' /\ slots'[id'[t] + 1] = t
      OBVIOUS
    <3>1. CASE t = s
      BY <3>1, <2>8, <2>5, <2>4
    <3>2. CASE t # s
      <4>1. id[t] + 1 \in DOMAIN slots /\ slots[id[t] + 1] = t
        BY <3>2, <2>7 DEF IdTable
      <4>2. id[t] + 1 # i + 1
        BY <4>1, <2>4, ForwarderAssumption
      <4> QED
        BY <4>1, <4>2, <3>2, <2>5, <2>8
    <3> QED
      BY <3>1, <3>2
  <2>10. \A j \in DOMAIN slots' :
           IF slots'[j] = Nobody THEN \E k \in DOMAIN free' : free'[k] = j - 1
           ELSE at'[slots'[j]] \notin {"new", "gone"} /\ id'[slots'[j]] = j - 1
    <3> SUFFICES ASSUME NEW j \in DOMAIN slots
                 PROVE  IF slots'[j] = Nobody THEN \E k \in DOMAIN free' : free'[k] = j - 1
                        ELSE at'[slots'[j]] \notin {"new", "gone"} /\ id'[slots'[j]] = j - 1
      BY <2>5
    <3>0. slots[j] \in Slot /\ j \in Nat
      BY ElementOfSeq, LenProperties DEF TableType
    <3>1. CASE j = i + 1
      <4>1. slots'[j] = s /\ s # Nobody /\ id'[s] = i
        BY <3>1, <2>5, <2>8, ForwarderAssumption
      <4> QED
        BY <4>1, <3>1, <1>2, <2>2
    <3>2. CASE j # i + 1 /\ slots[j] = Nobody
      <4>1. PICK k \in DOMAIN free : free[k] = j - 1
        BY <3>2 DEF IdTable
      <4>2. k # Len(free)
        BY <4>1, <3>2, <3>0, <2>2
      <4>3. k \in 1..(Len(free) - 1)
        BY <4>2, <2>2
      <4> QED
        BY <4>1, <4>3, <3>2, <2>1, <2>3, <2>5
    <3>3. CASE j # i + 1 /\ slots[j] # Nobody
      <4>1. Holds(slots[j]) /\ id[slots[j]] = j - 1 /\ slots[j] \in Sessions
        BY <3>3, <3>0 DEF IdTable
      <4>2. slots[j] # s
        BY <4>1, <1>2 DEF Holds
      <4> QED
        BY <4>1, <4>2, <3>3, <2>5, <2>8, <1>2 DEF Holds
    <3> QED
      BY <3>1, <3>2, <3>3
  <2>11. \A k \in DOMAIN free' : free'[k] + 1 \in DOMAIN slots' /\ slots'[free'[k] + 1] = Nobody
    <3> SUFFICES ASSUME NEW k \in 1..(Len(free) - 1)
                 PROVE  free[k] + 1 \in DOMAIN slots /\ slots'[free[k] + 1] = Nobody
      BY <2>1, <2>3, <2>5
    <3>0. \A n \in Nat \ {0} : \A m \in 1..(n - 1) : m \in 1..n /\ n \in 1..n /\ m # n
      OBVIOUS
    <3>1. k \in DOMAIN free /\ Len(free) \in DOMAIN free /\ k # Len(free)
      BY <3>0, <2>2, Zenon
    <3>2. free[k] # i /\ free[k] \in Nat
      BY <3>1, <2>2, ElementOfSeq DEF IdTable, TableType
    <3> QED
      BY <3>1, <3>2, <2>2, <2>5 DEF IdTable
  <2>12. \A j, k \in DOMAIN free' : free'[j] = free'[k] => j = k
    <3>1. \A j, k \in 1..Len(free) : free[j] = free[k] => j = k
      BY <2>2 DEF IdTable
    <3>2. \A k \in 1..(Len(free) - 1) : k \in 1..Len(free) /\ free'[k] = free[k]
      BY <2>1, <2>2, <2>3
    <3>3. DOMAIN free' = 1..(Len(free) - 1)
      BY <2>1, <2>3
    <3> HIDE DEF Inv, Join
    <3> QED
      BY <3>1, <3>2, <3>3, Zenon
  <2> QED
    BY <1>1, <2>6, <2>9, <2>10, <2>11, <2>12 DEF IdTable, Holds
<1> QED
  BY <1>3, <1>4

LEMMA FreeSlotInv ==
  ASSUME Inv, NEW s \in Sessions, FreeSlot(s) PROVE Inv'
<1> USE DEF Inv, Ids
<1> DEFINE Slot == Sessions \union {Nobody}
<1> DEFINE i == id[s]
<1>1. FlagType' /\ WireType' /\ DialerType'
  BY DEF FreeSlot, FlagType, WireType, DialerType, connVars, dialerVars
<1>2. /\ at[s] = "free" /\ id' = id
      /\ at' = [at EXCEPT ![s] = "gone"]
      /\ free' = Append(free, i)
      /\ slots' = [slots EXCEPT ![i + 1] = Nobody]
  BY DEF FreeSlot, GotoS
<1>3. i \in Nat /\ i + 1 \in DOMAIN slots /\ slots[i + 1] = s
  BY <1>2 DEF IdTable, Holds, TableType
<1>4. /\ slots' \in Seq(Slot) /\ DOMAIN slots' = DOMAIN slots /\ slots'[i + 1] = Nobody
      /\ \A j \in DOMAIN slots : j # i + 1 => slots'[j] = slots[j]
  BY <1>2, <1>3, ExceptSeq, LenProperties DEF TableType
<1>5. /\ free' \in Seq(Nat) /\ Len(free) \in Nat
      /\ DOMAIN free = 1..Len(free) /\ DOMAIN free' = 1..(Len(free) + 1)
      /\ free'[Len(free) + 1] = i /\ \A k \in 1..Len(free) : free'[k] = free[k]
  BY <1>2, <1>3, AppendProperties, LenProperties DEF TableType
<1>6. TableType'
  BY <1>2, <1>4, <1>5 DEF TableType, AtS
<1>7. \A t \in Sessions : Holds(t)' <=> Holds(t) /\ t # s
  BY <1>2 DEF Holds, TableType
<1>8. \A t \in Sessions : Holds(t)' => id'[t] + 1 \in DOMAIN slots' /\ slots'[id'[t] + 1] = t
  BY <1>2, <1>3, <1>4, <1>7 DEF IdTable
<1>9. \A j \in DOMAIN slots' :
        IF slots'[j] = Nobody THEN \E k \in DOMAIN free' : free'[k] = j - 1
        ELSE at'[slots'[j]] \notin {"new", "gone"} /\ id'[slots'[j]] = j - 1
  <2> SUFFICES ASSUME NEW j \in DOMAIN slots
               PROVE  IF slots'[j] = Nobody THEN \E k \in DOMAIN free' : free'[k] = j - 1
                      ELSE at'[slots'[j]] \notin {"new", "gone"} /\ id'[slots'[j]] = j - 1
    BY <1>4
  <2>0. slots[j] \in Slot /\ j \in Nat
    BY ElementOfSeq, LenProperties DEF TableType
  <2>1. CASE j = i + 1
    <3>1. slots'[j] = Nobody /\ j - 1 = i
      BY <2>1, <1>3, <1>4
    <3>2. Len(free) + 1 \in DOMAIN free' /\ free'[Len(free) + 1] = i
      BY <1>5
    <3> QED
      BY <3>1, <3>2
  <2>2. CASE j # i + 1 /\ slots[j] = Nobody
    <3>1. PICK k \in DOMAIN free : free[k] = j - 1
      BY <2>2 DEF IdTable
    <3> QED
      BY <3>1, <2>2, <1>4, <1>5
  <2>3. CASE j # i + 1 /\ slots[j] # Nobody
    <3>1. Holds(slots[j]) /\ id[slots[j]] = j - 1 /\ slots[j] \in Sessions
      BY <2>3, <2>0 DEF IdTable
    <3>2. slots[j] # s
      BY <3>1, <2>3, <2>0, <1>3
    <3> QED
      BY <3>1, <3>2, <2>3, <1>2, <1>4 DEF Holds, TableType
  <2> QED
    BY <2>1, <2>2, <2>3
<1>10. \A k \in DOMAIN free : free[k] \in Nat /\ free[k] + 1 \in DOMAIN slots
                              /\ slots[free[k] + 1] = Nobody /\ free[k] # i
  <2> SUFFICES ASSUME NEW k \in DOMAIN free
               PROVE  /\ free[k] \in Nat /\ free[k] + 1 \in DOMAIN slots
                      /\ slots[free[k] + 1] = Nobody /\ free[k] # i
    OBVIOUS
  <2>1. free[k] \in Nat
    BY ElementOfSeq, <1>5 DEF TableType
  <2>2. free[k] + 1 \in DOMAIN slots /\ slots[free[k] + 1] = Nobody
    BY DEF IdTable
  <2>3. free[k] # i
    BY <2>2, <1>3, ForwarderAssumption
  <2> QED
    BY <2>1, <2>2, <2>3
<1>11. \A k \in DOMAIN free' : free'[k] + 1 \in DOMAIN slots' /\ slots'[free'[k] + 1] = Nobody
  <2> SUFFICES ASSUME NEW k \in 1..(Len(free) + 1)
               PROVE  free'[k] + 1 \in DOMAIN slots /\ slots'[free'[k] + 1] = Nobody
    BY <1>4, <1>5
  <2>1. CASE k = Len(free) + 1
    BY <2>1, <1>3, <1>4, <1>5
  <2>2. CASE k # Len(free) + 1
    <3>1. k \in 1..Len(free)
      BY <2>2, <1>5
    <3>2. free'[k] = free[k] /\ k \in DOMAIN free
      BY <3>1, <1>5
    <3>3. free[k] \in Nat /\ i \in Nat /\ free[k] + 1 # i + 1
      BY <3>2, <1>3, <1>10
    <3> QED
      BY <3>2, <3>3, <1>4, <1>10
  <2> QED
    BY <2>1, <2>2
<1>12. \A j, k \in DOMAIN free' : free'[j] = free'[k] => j = k
  <2>1. \A j, k \in DOMAIN free : free[j] = free[k] => j = k
    BY DEF IdTable
  <2> QED
    BY <2>1, <1>10, <1>5
<1> QED
  BY <1>1, <1>6, <1>8, <1>9, <1>11, <1>12 DEF IdTable, Holds

-----------------------------------------------------------------------------
(* A session that moves between places where it holds its id leaves the    *)
(* table as it was.                                                        *)
Holding == AtS \ {"new", "gone"}

LEMMA MoveTable ==
  ASSUME TableType, IdTable, NEW s \in Sessions, NEW there \in Holding,
         at[s] \in Holding, GotoS(s, there), UNCHANGED <<slots, free, id>>
  PROVE  TableType' /\ IdTable'
<1>1. TableType'
  BY DEF TableType, GotoS, Holding
<1>2. \A t \in Sessions : Holds(t)' <=> Holds(t)
  BY DEF TableType, GotoS, Holding, Holds, AtS
<1>3. \A j \in DOMAIN slots : slots[j] # Nobody => slots[j] \in Sessions
  BY ElementOfSeq, LenProperties DEF TableType
<1> QED
  BY <1>1, <1>2, <1>3 DEF IdTable

LEMMA GateInv ==
  ASSUME Inv, NEW s \in Sessions, NEW g \in Holding, NEW t \in Holding, NEW r \in Holding,
         Gate(s, g, t, r), data' \in Nat, ghost' \in BOOLEAN
  PROVE  Inv'
<1>1. TableType' /\ IdTable'
  BY MoveTable DEF Inv, Gate, tableVars
<1>2. FlagType' /\ WireType' /\ DialerType'
  BY DEF Inv, Gate, FlagType, WireType, DialerType, connVars, dialerVars
<1> QED
  BY <1>1, <1>2 DEF Inv

LEMMA SendInv ==
  ASSUME Inv, NEW s \in Sessions, NEW g \in Holding, NEW t \in Holding,
         NEW k \in {"inc", "data", "disc"}, Send(s, g, k, t)
  PROVE  Inv'
<1>1. TableType' /\ IdTable'
  BY MoveTable DEF Inv, Send, tableVars
<1>2. FlagType' /\ DialerType'
  BY DEF Inv, Send, FlagType, DialerType, connVars, dialerVars
<1>3. WireType'
  <2>1. id[s] \in Ids
    BY DEF Inv, TableType
  <2>2. Packet(k, id[s], s) \in Packets /\ Packet(k, id[s], s).from = s
    BY <2>1, PacketType
  <2> QED
    BY <2>2, PushType DEF Inv, Send
<1> QED
  BY <1>1, <1>2, <1>3 DEF Inv

LEMMA SessionInv ==
  ASSUME Inv, NEW s \in Sessions, Session(s) PROVE Inv'
<1> USE DEF Holding, AtS
<1>0. data \in Nat /\ data + 1 \in Nat /\ ghost \in BOOLEAN
  BY DEF Inv, FlagType
<1>1. CASE SendIncPlayer(s)
  BY <1>0, <1>1, GateInv, SendInv DEF SendIncPlayer
<1>2. CASE ForwardPacket(s)
  BY <1>0, <1>2, GateInv, SendInv DEF ForwardPacket
<1>3. CASE Retire(s)
  <2>1. (ghost \/ (isConnDown /\ s \in announced)) \in BOOLEAN
    OBVIOUS
  <2> QED
    BY <1>0, <1>3, <2>1, GateInv, SendInv DEF Retire
<1> QED
  BY <1>1, <1>2, <1>3, JoinInv, FreeSlotInv DEF Session

-----------------------------------------------------------------------------
(* The dialers and the connection do not touch the table.                  *)
LEMMA TableStays ==
  ASSUME TableType, IdTable, UNCHANGED <<slots, free, at, id>>
  PROVE  TableType' /\ IdTable'
  BY DEF TableType, IdTable, Holds

LEMMA DialerInv ==
  ASSUME Inv, NEW d \in Dialers, Dialer(d) PROVE Inv'
<1> USE DEF Inv
<1>1. TableType' /\ IdTable'
  <2>1. UNCHANGED <<slots, free, at, id>>
    BY DEF Dialer, DialFails, GiveUp, Reset, Truncate, StoreUp, NewDialGate, NewDialSend,
           Snapshot, ReplayGate, ReplaySend, OndialDone, tableVars, sessionVars
  <2> QED
    BY <2>1, TableStays
<1>2. FlagType'
  <2>1. CASE DialFails(d)
    BY <2>1 DEF DialFails, FlagType, connVars, sessionVars
  <2>2. CASE Reset(d)
    <3>1. gen + 1 \in Dialers
      BY <2>2, ForwarderAssumption DEF Reset, FlagType, Dialers
    <3> QED
      BY <2>2, <3>1 DEF Reset, FlagType, sessionVars
  <2>3. CASE Truncate(d)
    BY <2>3 DEF Truncate, FlagType, sessionVars
  <2>4. CASE NewDialSend(d)
    BY <2>4, Zenon DEF NewDialSend, FlagType, connVars, sessionVars
  <2>5. CASE ReplaySend(d)
    BY <2>5, Zenon DEF ReplaySend, FlagType, connVars, sessionVars
  <2>6. CASE StoreUp(d) \/ OndialDone(d)
    BY <2>6 DEF StoreUp, OndialDone, FlagType, connVars, sessionVars
  <2>7. CASE GiveUp(d) \/ NewDialGate(d) \/ Snapshot(d) \/ ReplayGate(d)
    BY <2>7 DEF GiveUp, NewDialGate, Snapshot, ReplayGate, FlagType, connVars, sessionVars
  <2> QED
    BY <2>1, <2>2, <2>3, <2>4, <2>5, <2>6, <2>7 DEF Dialer
<1>3. WireType'
  <2>1. CASE NewDialSend(d)
    <3>1. Packet("dial", 0, Nobody) \in Packets /\ Packet("dial", 0, Nobody).kind = "dial"
      BY PacketType DEF Ids
    <3> QED
      BY <2>1, <3>1, PushType DEF NewDialSend
  <2>2. CASE ReplaySend(d)
    <3> DEFINE s == Head(todo[d])
    <3>1. s \in Sessions
      BY <2>2, HeadTailProperties DEF ReplaySend, DialerType
    <3>2. id[s] \in Ids
      BY <3>1 DEF TableType
    <3>3. Packet("inc", id[s], s) \in Packets /\ Packet("inc", id[s], s).from = s
      BY <3>1, <3>2, PacketType
    <3> QED
      BY <2>2, <3>1, <3>3, PushType DEF ReplaySend
  <2>3. <<>> \in Seq(Packets)
    BY EmptySeq
  <2>4. CASE Reset(d) \/ Truncate(d)
    BY <2>3, <2>4 DEF Reset, Truncate, WireType
  <2>5. CASE DialFails(d) \/ GiveUp(d) \/ StoreUp(d) \/ NewDialGate(d) \/ Snapshot(d)
             \/ ReplayGate(d) \/ OndialDone(d)
    BY <2>5 DEF DialFails, GiveUp, StoreUp, NewDialGate, Snapshot, ReplayGate, OndialDone, WireType
  <2> QED
    BY <2>1, <2>2, <2>4, <2>5 DEF Dialer
<1>4. DialerType'
  <2> DEFINE Slot == Sessions \union {Nobody}
  <2>1. CASE DialFails(d)
    BY <2>1 DEF DialFails, DialerType
  <2>2. CASE GiveUp(d) \/ Reset(d) \/ Truncate(d) \/ StoreUp(d) \/ NewDialGate(d) \/ NewDialSend(d)
             \/ OndialDone(d)
    <3>1. todo' = todo /\ \E there \in AtD \ {"replaySend"} : dialer' = [dialer EXCEPT ![d] = there]
      BY <2>2 DEF GiveUp, Reset, Truncate, StoreUp, NewDialGate, NewDialSend, OndialDone, GotoD, AtD
    <3> QED
      BY <3>1 DEF DialerType
  <2>3. CASE Snapshot(d)
    BY <2>3 DEF Snapshot, GotoD, DialerType, TableType, AtD
  <2>4. CASE ReplayGate(d)
    <3>1. todo[d] # <<>> /\ todo[d] \in Seq(Slot) /\ dialer[d] = "replay"
      BY <2>4 DEF ReplayGate, DialerType
    <3>2. Tail(todo[d]) \in Seq(Slot)
      BY <3>1, HeadTailProperties
    <3>3. CASE isConnDown \/ Head(todo[d]) = Nobody
      BY <2>4, <3>1, <3>2, <3>3 DEF ReplayGate, DialerType
    <3>4. CASE ~(isConnDown \/ Head(todo[d]) = Nobody)
      BY <2>4, <3>1, <3>4 DEF ReplayGate, DialerType, GotoD, AtD
    <3> QED
      BY <3>3, <3>4
  <2>5. CASE ReplaySend(d)
    <3>1. todo[d] # <<>> /\ todo[d] \in Seq(Slot)
      BY <2>5 DEF ReplaySend, DialerType
    <3>2. Tail(todo[d]) \in Seq(Slot)
      BY <3>1, HeadTailProperties
    <3> QED
      BY <2>5, <3>2 DEF ReplaySend, DialerType, GotoD, AtD
  <2> QED
    BY <2>1, <2>2, <2>3, <2>4, <2>5 DEF Dialer
<1> QED
  BY <1>1, <1>2, <1>3, <1>4

LEMMA ConnInv ==
  ASSUME Inv, CloseConn \/ CloseDone \/ Break \/ Deliver PROVE Inv'
<1> USE DEF Inv
<1>1. TableType' /\ IdTable'
  BY TableStays DEF CloseConn, CloseDone, Break, Deliver, tableVars, sessionVars
<1>2. FlagType'
  <2>1. CASE CloseConn
    BY <2>1, Zenon DEF CloseConn, FlagType, connVars, sessionVars
  <2>2. CASE CloseDone
    BY <2>2 DEF CloseDone, FlagType, sessionVars
  <2>3. CASE Break \/ Deliver
    BY <2>3 DEF Break, Deliver, FlagType, sessionVars, dialerVars
  <2> QED
    BY <2>1, <2>2, <2>3
<1>3. WireType'
  <2>1. queue # <<>> => Tail(queue) \in Seq(Packets)
    BY HeadTailProperties DEF WireType
  <2> QED
    BY <2>1 DEF CloseConn, CloseDone, Break, Deliver, WireType
<1>4. DialerType'
  <2>1. CASE CloseConn \/ CloseDone
    <3>1. gen \in Dialers
      BY DEF FlagType
    <3>2. todo' = todo /\ \E there \in {"closing", "dialing", "finished"} : dialer' = [dialer EXCEPT ![gen] = there]
      BY <2>1 DEF CloseConn, CloseDone, GotoD
    <3> QED
      BY <3>1, <3>2 DEF DialerType, AtD
  <2>2. CASE Break \/ Deliver
    BY <2>2 DEF Break, Deliver, DialerType, dialerVars
  <2> QED
    BY <2>1, <2>2
<1> QED
  BY <1>1, <1>2, <1>3, <1>4

LEMMA StepInv == Inv /\ [Next \/ Deliver]_vars => Inv'
<1> SUFFICES ASSUME Inv, [Next \/ Deliver]_vars PROVE Inv'
  OBVIOUS
<1>1. ASSUME NEW s \in Sessions, Session(s) PROVE Inv'
  BY <1>1, SessionInv
<1>2. ASSUME NEW d \in Dialers, Dialer(d) PROVE Inv'
  BY <1>2, DialerInv
<1>3. CASE CloseConn \/ CloseDone \/ Break \/ Deliver
  BY <1>3, ConnInv
<1>4. CASE UNCHANGED vars
  BY <1>4 DEF Inv, vars, tableVars, connVars, sessionVars, dialerVars,
              TableType, FlagType, WireType, DialerType, IdTable, Holds
<1> QED
  BY <1>1, <1>2, <1>3, <1>4 DEF Next

LEMMA Invariance == Spec => []Inv
<1> QED
  BY InitInv, StepInv, PTL DEF Spec

\* Type correctness of the forwarder's end of the link.
THEOREM ForwarderTypes == Spec => []TypeOK
<1>1. Inv => TypeOK
  BY TypeParts DEF Inv
<1> QED
  BY <1>1, Invariance, PTL

\* The id table: two players that hold an id hold different ones, and no id
\* is lost, whatever the order of joins and departures (forwarder.go:168-178,
\* playerconn.go:51-54), for any number of players, with or without redialing.
THEOREM IdTableHolds == Spec => []IdTable
<1>1. Inv => IdTable
  BY DEF Inv
<1> QED
  BY <1>1, Invariance, PTL

-----------------------------------------------------------------------------
(* isConnDown, and the dialer that is to clear it.                         *)

\* Where a dialer is that has yet to clear isConnDown.
Redialing == {"closing", "dialing", "truncate", "store"}

DownInv ==
  /\ isConnDown => ShouldRedial
  /\ \A d \in Dialers : Retries > 0 => tries[d] <= Retries
  /\ DownMeansDialing

\* It is enough that no dialer leaves these places but by giving up.
LEMMA DownStays ==
  ASSUME DownInv, isConnDown' => isConnDown,
         \A d \in Dialers : tries'[d] = tries[d] /\ (dialer[d] \in Redialing \union {"finished"} => dialer'[d] = dialer[d])
  PROVE  DownInv'
BY DEF DownInv, DownMeansDialing, Redialing

LEMMA DownDialer ==
  ASSUME Inv, DownInv, NEW d \in Dialers, Dialer(d)
  PROVE  DownInv'
<1>1. dialer \in [Dialers -> AtD] /\ tries \in [Dialers -> Nat] /\ Retries \in Nat
  BY ForwarderAssumption DEF Inv, DialerType, FlagType
<1>2. CASE DialFails(d)
  <2>1. tries' = [tries EXCEPT ![d] = @ + 1] /\ tries[d] < Retries /\ dialer[d] = "dialing"
        /\ UNCHANGED <<dialer, isConnDown>>
    BY <1>2 DEF DialFails, MayDial
  <2>2. tries'[d] = tries[d] + 1 /\ \A e \in Dialers : e # d => tries'[e] = tries[e]
    BY <1>1, <2>1
  <2>3. tries'[d] <= Retries
    BY <1>1, <2>1, <2>2
  <2>4. DownMeansDialing'
    BY <2>1, <2>2 DEF DownInv, DownMeansDialing
  <2> QED BY <2>1, <2>2, <2>3, <2>4 DEF DownInv
<1>3. CASE GiveUp(d)
  <2>1. dialer' = [dialer EXCEPT ![d] = "finished"] /\ UNCHANGED <<tries, isConnDown>>
        /\ Retries > 0 /\ ~(tries[d] < Retries)
    BY <1>3 DEF GiveUp, MayDial, GotoD
  <2>2. tries[d] = Retries
    BY <1>1, <2>1 DEF DownInv
  <2>3. dialer'[d] = "finished"
    BY <1>1, <2>1
  <2> QED BY <2>1, <2>2, <2>3 DEF DownInv, DownMeansDialing
<1>4. CASE Reset(d) \/ Truncate(d)
  <2>1. UNCHANGED <<tries, isConnDown>>
        /\ \E there \in {"truncate", "store"} : dialer' = [dialer EXCEPT ![d] = there]
    BY <1>4 DEF Reset, Truncate, GotoD
  <2>2. dialer'[d] \in {"truncate", "store"}
    BY <1>1, <2>1
  <2> QED BY <2>1, <2>2 DEF DownInv, DownMeansDialing
<1>5. CASE StoreUp(d)
  <2>1. ~isConnDown' /\ UNCHANGED tries
    BY <1>5 DEF StoreUp
  <2> QED BY <2>1 DEF DownInv, DownMeansDialing
<1>6. CASE NewDialGate(d) \/ NewDialSend(d) \/ Snapshot(d) \/ ReplayGate(d) \/ ReplaySend(d) \/ OndialDone(d)
  <2>1. UNCHANGED <<tries, isConnDown>> /\ dialer[d] \notin Redialing \union {"finished"}
    BY <1>6 DEF NewDialGate, NewDialSend, Snapshot, ReplayGate, ReplaySend, OndialDone, Redialing
  <2>2. dialer' = dialer \/ \E there \in AtD : dialer' = [dialer EXCEPT ![d] = there]
    BY <1>6 DEF NewDialGate, NewDialSend, Snapshot, ReplayGate, ReplaySend, OndialDone, GotoD, AtD
  <2>3. \A e \in Dialers : e # d => dialer'[e] = dialer[e]
    BY <1>1, <2>2
  <2> QED BY <2>1, <2>3, DownStays
<1> QED
  BY <1>2, <1>3, <1>4, <1>5, <1>6 DEF Dialer

LEMMA DownConn ==
  ASSUME Inv, DownInv, CloseConn \/ CloseDone \/ Break \/ Deliver
  PROVE  DownInv'
<1>1. dialer \in [Dialers -> AtD] /\ gen \in Dialers
  BY DEF Inv, DialerType, FlagType
<1>2. CASE CloseConn
  <2>1. dialer[gen] = "idle" /\ UNCHANGED tries /\ dialer' = [dialer EXCEPT ![gen] = "closing"]
        /\ (isConnDown' <=> isConnDown \/ ShouldRedial)
    BY <1>2 DEF CloseConn, GotoD
  <2>2. dialer'[gen] = "closing"
    BY <1>1, <2>1
  <2> QED BY <1>1, <2>1, <2>2 DEF DownInv, DownMeansDialing
<1>3. CASE CloseDone
  <2>1. /\ UNCHANGED <<tries, isConnDown>>
        /\ dialer' = [dialer EXCEPT ![gen] = IF ShouldRedial THEN "dialing" ELSE "finished"]
    BY <1>3 DEF CloseDone, GotoD
  <2>2. ShouldRedial => dialer'[gen] = "dialing"
    BY <1>1, <2>1
  <2> QED BY <1>1, <2>1, <2>2 DEF DownInv, DownMeansDialing
<1>4. CASE Break \/ Deliver
  BY <1>4, DownStays DEF Break, Deliver, dialerVars
<1> QED
  BY <1>2, <1>3, <1>4

LEMMA DownStep == Inv /\ DownInv /\ [Next \/ Deliver]_vars => DownInv'
<1> SUFFICES ASSUME Inv, DownInv, [Next \/ Deliver]_vars PROVE DownInv'
  OBVIOUS
<1>1. ASSUME NEW s \in Sessions, Session(s) PROVE DownInv'
  <2>1. UNCHANGED <<dialerVars, isConnDown>>
    BY <1>1 DEF Session, Join, SendIncPlayer, ForwardPacket, Retire, FreeSlot, Gate, Send
  <2> QED BY <2>1, DownStays DEF dialerVars
<1>2. ASSUME NEW d \in Dialers, Dialer(d) PROVE DownInv'
  BY <1>2, DownDialer
<1>3. CASE CloseConn \/ CloseDone \/ Break \/ Deliver
  BY <1>3, DownConn
<1>4. CASE UNCHANGED vars
  BY <1>4, DownStays DEF vars, dialerVars
<1> QED
  BY <1>1, <1>2, <1>3, <1>4 DEF Next

\* Nobody waits for a redial that no goroutine is making: as long as
\* isConnDown is set, some dialer is on its way to clear it or has made all the
\* dials it may (forwarder.go:82-106), whoever else has come and gone.
THEOREM SomebodyRedials == Spec => []DownMeansDialing
<1>1. Init => DownInv
  <2> SUFFICES ASSUME Init PROVE DownInv
    OBVIOUS
  <2>1. 0 \in Dialers /\ \A d \in Dialers : tries[d] = 0
    BY ForwarderAssumption DEF Init, Dialers
  <2> QED BY <2>1, ForwarderAssumption DEF Init, Dialed, Undialed, DownInv, DownMeansDialing
<1>2. DownInv => DownMeansDialing
  BY DEF DownInv
<1> QED
  BY <1>1, <1>2, DownStep, Invariance, PTL DEF Spec

-----------------------------------------------------------------------------
(* The composition with the taker.                                         *)

LEMMA LinkStep == [LinkNext]_<<vars, takerVars>> => [Next \/ Deliver]_vars
<1> SUFFICES ASSUME [LinkNext]_<<vars, takerVars>> PROVE [Next \/ Deliver]_vars
  OBVIOUS
<1>1. CASE T!Next /\ UNCHANGED forwarderVars
  <2>1. CASE queue # <<>> /\ T!Handle(Head(queue))
    <3>1. queue' = Tail(queue) /\ link' \in {link, "broken"}
      BY <2>1 DEF T!Handle, T!Unexpected, T!NewDial, T!IncomingPlayer, T!DisconnectedPlayer,
                  T!PlayerPacket, T!Reads
    <3> QED
      BY <1>1, <2>1, <3>1 DEF Deliver, forwarderVars
  <2>2. CASE T!Eof
    BY <1>1, <2>2 DEF T!Eof, forwarderVars, vars, connVars
  <2> QED
    BY <1>1, <2>1, <2>2 DEF T!Next
<1> QED
  BY <1>1 DEF LinkNext

\* What the composition does to the forwarder's variables, a forwarder with
\* some peer does: its theorems hold of the composition.
THEOREM LinkImplementsForwarder == LinkSpec => Spec
<1>1. LinkInit => Init
  BY DEF LinkInit
<1> QED
  BY <1>1, LinkStep, PTL DEF LinkSpec, Spec

\* Two players that hold an id hold different ones, and no id is lost, in the
\* composition too (forwarder.go:168-178, playerconn.go:51-54).
THEOREM LinkIdTable == LinkSpec => []IdTable
  BY LinkImplementsForwarder, IdTableHolds, PTL

\* Whatever the taker does to the connection, isConnDown is never left set
\* while nobody is going to redial (forwarder.go:82-106).
THEOREM LinkDownMeansDialing == LinkSpec => []DownMeansDialing
  BY LinkImplementsForwarder, SomebodyRedials, PTL

-----------------------------------------------------------------------------
(* Without redialing.  No player joins before Dial returns, and Dial       *)
(* returns when its ondial is over: while the taker still expects the      *)
(* NewDialPacket, that packet is the next one, or has yet to be sent.      *)
Quiet ==
  /\ ~ready => \A s \in Sessions : at[s] = "new"
  /\ ~ready => slots = <<>>
  /\ todo[0] = <<>>
  /\ dialer[0] \in {"dialGate", "dialSend", "snapshot", "replay", "finished"}
  /\ ready => dialer[0] = "finished"
  /\ \A d \in Dialers : d # 0 => dialer[d] \in {"idle", "closing", "finished"}
  /\ isConnDown = FALSE

DialNext ==
  expects => /\ queue # <<>> => Head(queue).kind = "dial"
             /\ queue = <<>> /\ Open => dialer[0] \in {"dialGate", "dialSend"}

Once == Quiet /\ DialNext /\ NewDialFirst

LEMMA OnceInit == ASSUME ~ShouldRedial, LinkInit PROVE Once
  BY ForwarderAssumption
     DEF LinkInit, Init, T!Init, Dialed, Undialed, Once, Quiet, DialNext, NewDialFirst, Open, Dialers

\* Appending keeps the head of a queue that has one.
LEMMA AppendHead ==
  ASSUME NEW S, NEW q \in Seq(S), NEW p
  PROVE  /\ q # <<>> => Head(Append(q, p)) = Head(q) /\ Append(q, p) # <<>>
         /\ q = <<>> => Head(Append(q, p)) = p /\ Append(q, p) # <<>>
<1>1. q \in Seq(S \union {p})
  BY SeqMonotonic
<1>2. Append(q, p) # <<>>
  BY <1>1, AppendProperties
<1>3. Head(Append(q, p)) = IF q = <<>> THEN p ELSE Head(q)
  BY HeadTailAppend
<1> QED
  BY <1>2, <1>3

\* A packet sent once ondial is past the NewDialPacket is not the first.
LEMMA PushLater ==
  ASSUME Inv, DialNext, NEW p, Push(p), UNCHANGED <<up, link, expects, dialer>>,
         dialer[0] \notin {"dialGate", "dialSend"}
  PROVE  DialNext'
<1>1. queue \in Seq(Packets)
  BY DEF Inv, WireType
<1> QED
  BY <1>1, AppendHead DEF DialNext, Push, Open

LEMMA OnceSession ==
  ASSUME Inv, Once, NEW s \in Sessions, Session(s), UNCHANGED takerVars
  PROVE  Once'
<1> USE DEF Once
<1>1. ready /\ dialer[0] = "finished"
  BY DEF Quiet, Session, Join, SendIncPlayer, ForwardPacket, Retire, FreeSlot, Gate, Send
<1>2. UNCHANGED <<connVars, dialerVars, isConnDown, ready>>
  BY DEF Session, Join, SendIncPlayer, ForwardPacket, Retire, FreeSlot, Gate, Send
<1>3. Quiet' /\ NewDialFirst'
  BY <1>1, <1>2 DEF Quiet, NewDialFirst, dialerVars, takerVars
<1>4. DialNext'
  <2>1. CASE UNCHANGED queue
    BY <1>2, <2>1 DEF DialNext, Open, connVars, dialerVars, takerVars
  <2>2. ASSUME NEW p, Push(p) PROVE DialNext'
    BY <1>1, <1>2, <2>2, PushLater DEF connVars, dialerVars, takerVars
  <2> QED
    BY <2>1, <2>2 DEF Session, Join, SendIncPlayer, ForwardPacket, Retire, FreeSlot, Gate, Send
<1> QED
  BY <1>3, <1>4

LEMMA OnceDialer ==
  ASSUME Inv, Once, NEW d \in Dialers, Dialer(d), UNCHANGED takerVars
  PROVE  Once'
<1> USE DEF Once
<1>1. d = 0 /\ (NewDialGate(0) \/ NewDialSend(0) \/ Snapshot(0) \/ OndialDone(0))
  BY DEF Quiet, Dialer, DialFails, GiveUp, Reset, Truncate, StoreUp, NewDialGate, NewDialSend,
         Snapshot, ReplayGate, ReplaySend, OndialDone
<1>2. dialer \in [Dialers -> AtD] /\ todo \in [Dialers -> Seq(Sessions \union {Nobody})] /\ 0 \in Dialers
  BY <1>1 DEF Inv, DialerType
<1>3. NewDialFirst'
  BY DEF NewDialFirst, takerVars
<1>4. CASE NewDialGate(0)
  BY <1>2, <1>3, <1>4 DEF NewDialGate, GotoD, Quiet, DialNext, Open, tableVars, connVars, sessionVars, takerVars
<1>5. CASE NewDialSend(0)
  <2>1. Quiet'
    BY <1>2, <1>5 DEF NewDialSend, GotoD, Quiet, tableVars, sessionVars
  <2>2. queue \in Seq(Packets) /\ Packet("dial", 0, Nobody).kind = "dial"
    BY DEF Inv, WireType, Packet
  <2>3. DialNext'
    BY <1>2, <1>5, <2>2, AppendHead DEF NewDialSend, Push, DialNext, Open, connVars, takerVars
  <2> QED
    BY <1>3, <2>1, <2>3
<1>6. CASE Snapshot(0)
  BY <1>2, <1>3, <1>6 DEF Snapshot, GotoD, Quiet, DialNext, Open, tableVars, connVars, sessionVars, takerVars
<1>7. CASE OndialDone(0)
  BY <1>2, <1>3, <1>7 DEF OndialDone, GotoD, Quiet, DialNext, Open, tableVars, connVars, sessionVars, takerVars
<1> QED
  BY <1>1, <1>4, <1>5, <1>6, <1>7

LEMMA OnceConn ==
  ASSUME ~ShouldRedial, Inv, Once, CloseConn \/ CloseDone \/ Break, gen # 0, UNCHANGED takerVars
  PROVE  Once'
<1>1. dialer \in [Dialers -> AtD] /\ gen \in Dialers /\ 0 \in Dialers
  BY ForwarderAssumption DEF Inv, DialerType, FlagType, Dialers
<1>2. UNCHANGED <<tableVars, sessionVars, todo, queue, ready>>
  BY DEF CloseConn, CloseDone, Break, dialerVars
<1>3. Open' => Open
  BY DEF CloseConn, CloseDone, Break, Open, connVars
<1>4. isConnDown' = FALSE
  BY Zenon DEF CloseConn, CloseDone, Break, Once, Quiet
<1>5. dialer'[0] = dialer[0] /\ \A d \in Dialers : dialer'[d] # dialer[d] => dialer'[d] \in {"closing", "finished"}
  BY <1>1 DEF CloseConn, CloseDone, Break, GotoD, dialerVars
<1> QED
  BY <1>2, <1>3, <1>4, <1>5 DEF Once, Quiet, DialNext, NewDialFirst, tableVars, sessionVars, takerVars

LEMMA OnceTaker ==
  ASSUME Inv, Once, T!Next, UNCHANGED forwarderVars
  PROVE  Once'
<1>1. Quiet'
  BY DEF Once, Quiet, forwarderVars, tableVars, sessionVars, dialerVars
<1>2. CASE T!Eof
  BY <1>1, <1>2 DEF T!Eof, Once, DialNext, NewDialFirst, Open, forwarderVars, dialerVars
<1>3. CASE queue # <<>> /\ T!Handle(Head(queue))
  <2>1. T!Expected(Head(queue)) /\ (expects => Head(queue).kind = "dial")
    BY <1>3 DEF Once, DialNext, T!Expected
  <2>2. ~expects' /\ refused' = refused
    BY <1>3, <2>1 DEF T!Handle, T!Unexpected, T!NewDial, T!IncomingPlayer, T!DisconnectedPlayer,
                      T!PlayerPacket, T!Reads, T!Expected
  <2> QED
    BY <1>1, <2>2 DEF Once, DialNext, NewDialFirst
<1> QED
  BY <1>2, <1>3 DEF T!Next

\* Without redialing there is one incarnation from the start.
First == gen # 0

LEMMA OnceStep ==
  ASSUME ~ShouldRedial, Inv, Once, First, [LinkNext]_<<vars, takerVars>>
  PROVE  Once' /\ First'
<1>1. CASE Next /\ (IF Connects THEN T!Accept ELSE UNCHANGED takerVars)
  <2>1. \A d \in Dialers : ~Reset(d) /\ ~Truncate(d)
    BY DEF Once, Quiet, Reset, Truncate
  <2>2. link' = "ok" => link = "ok"
    BY <1>1, <2>1 DEF Next, Session, Join, SendIncPlayer, ForwardPacket, Retire, FreeSlot, Gate, Send,
         Dialer, DialFails, GiveUp, StoreUp, NewDialGate, NewDialSend, Snapshot, ReplayGate, ReplaySend,
         OndialDone, CloseConn, CloseDone, Break, connVars
  <2>3. UNCHANGED takerVars
    BY <1>1, <2>2 DEF Connects
  <2>4. gen' = gen
    BY <1>1, <2>1 DEF Next, Session, Join, SendIncPlayer, ForwardPacket, Retire, FreeSlot, Gate, Send,
         Dialer, DialFails, GiveUp, StoreUp, NewDialGate, NewDialSend, Snapshot, ReplayGate, ReplaySend,
         OndialDone, CloseConn, CloseDone, Break, connVars
  <2> QED
    BY <1>1, <2>3, <2>4, OnceSession, OnceDialer, OnceConn DEF Next, First
<1>2. CASE T!Next /\ UNCHANGED forwarderVars
  BY <1>2, OnceTaker DEF First, forwarderVars
<1>3. CASE UNCHANGED <<vars, takerVars>>
  BY <1>3 DEF Once, First, Quiet, DialNext, NewDialFirst, Open, vars, takerVars, tableVars, connVars,
              sessionVars, dialerVars
<1> QED
  BY <1>1, <1>2, <1>3 DEF LinkNext

\* The listener's expectation (listener.go:66) is met by every forwarder that
\* does not redial: HandlePlayers never leaves over an unexpected packet,
\* whatever players come and go.  With redialing it is refuted by TLC.
THEOREM NewDialComesFirst ==
  ASSUME ~ShouldRedial
  PROVE  LinkSpec => []NewDialFirst
<1>1. LinkInit => Once /\ First
  <2> SUFFICES ASSUME LinkInit PROVE Once /\ First
    OBVIOUS
  <2>1. gen = 1
    BY DEF LinkInit, Init, Dialed, Undialed
  <2> QED
    BY <2>1, OnceInit DEF First
<1>2. Inv /\ Once /\ First /\ [LinkNext]_<<vars, takerVars>> => Once' /\ First'
  BY OnceStep
<1>3. LinkSpec => []Inv
  BY LinkImplementsForwarder, Invariance, PTL
<1>4. Once => NewDialFirst
  BY DEF Once
<1> QED
  BY <1>1, <1>2, <1>3, <1>4, PTL DEF LinkSpec

-----------------------------------------------------------------------------
(* Whom the taker takes a packet for.  Believes says which player it will  *)
(* know by an id once it has read the next packets of the queue.           *)

Has(known, i, s) == i \in DOMAIN known /\ known[i] = s
Settles(p, i) == p.kind \in {"inc", "disc"} /\ p.id = i

Believes(known, q, k, i, s) ==
  \/ \E j \in 1..k : /\ q[j].kind = "inc" /\ q[j].id = i /\ q[j].from = s
                     /\ \A m \in 1..k : m > j => ~Settles(q[m], i)
  \/ Has(known, i, s) /\ \A m \in 1..k : ~Settles(q[m], i)

\* A packet that joins the queue changes nothing of what comes before it.
LEMMA BelievesBefore ==
  ASSUME NEW known, NEW q \in Seq(Packets), NEW p \in Packets, NEW k \in 0..Len(q), NEW i, NEW s
  PROVE  Believes(known, Append(q, p), k, i, s) <=> Believes(known, q, k, i, s)
<1>1. \A j \in 1..k : Append(q, p)[j] = q[j]
  BY AppendProperties, LenProperties
<1> QED BY <1>1, Zenon DEF Believes

LEMMA BelievesLast ==
  ASSUME NEW known, NEW q \in Seq(Packets), NEW p \in Packets, NEW i, NEW s
  PROVE  Believes(known, Append(q, p), Len(q) + 1, i, s) <=>
           IF Settles(p, i) THEN p.kind = "inc" /\ p.from = s
           ELSE Believes(known, q, Len(q), i, s)
<1> DEFINE r == Append(q, p)
           n == Len(q)
<1>1. n \in Nat /\ r[n + 1] = p /\ \A j \in 1..n : r[j] = q[j]
  BY AppendProperties, LenProperties
<1> HIDE DEF r, n
<1>2. /\ \A j \in 1..(n + 1) : j \in 1..n \/ j = n + 1
      /\ \A j \in 1..n : j \in 1..(n + 1) /\ n + 1 > j /\ j # n + 1
      /\ n + 1 \in 1..(n + 1) /\ \A m \in 1..(n + 1) : ~(m > n + 1)
  BY <1>1
<1>3. CASE Settles(p, i)
  <2>1. ASSUME Believes(known, r, n + 1, i, s) PROVE p.kind = "inc" /\ p.from = s
    <3>1. ~(\A m \in 1..(n + 1) : ~Settles(r[m], i))
      BY <1>1, <1>2, <1>3
    <3>2. PICK j \in 1..(n + 1) : /\ r[j].kind = "inc" /\ r[j].id = i /\ r[j].from = s
                                  /\ \A m \in 1..(n + 1) : m > j => ~Settles(r[m], i)
      BY <2>1, <3>1, Zenon DEF Believes
    <3>3. j = n + 1
      BY <1>1, <1>2, <1>3, <3>2
    <3> QED BY <1>1, <3>2, <3>3
  <2>2. ASSUME p.kind = "inc", p.from = s PROVE Believes(known, r, n + 1, i, s)
    <3>1. r[n + 1].kind = "inc" /\ r[n + 1].id = i /\ r[n + 1].from = s
      BY <1>1, <1>3, <2>2 DEF Settles
    <3> QED BY <1>2, <3>1, Zenon DEF Believes
  <2> QED BY <1>3, <2>1, <2>2 DEF r, n
<1>4. CASE ~Settles(p, i)
  <2>1. ~Settles(r[n + 1], i) /\ ~(r[n + 1].kind = "inc" /\ r[n + 1].id = i)
    BY <1>1, <1>4 DEF Settles
  <2>2. ASSUME Believes(known, r, n + 1, i, s) PROVE Believes(known, q, n, i, s)
    <3>1. CASE Has(known, i, s) /\ \A m \in 1..(n + 1) : ~Settles(r[m], i)
      <4>1. \A m \in 1..n : ~Settles(q[m], i)
        BY <1>1, <1>2, <3>1, Zenon
      <4> QED BY <3>1, <4>1, Zenon DEF Believes
    <3>2. ASSUME NEW j \in 1..(n + 1), r[j].kind = "inc", r[j].id = i, r[j].from = s,
                 \A m \in 1..(n + 1) : m > j => ~Settles(r[m], i)
          PROVE  Believes(known, q, n, i, s)
      <4>1. j \in 1..n
        BY <1>2, <2>1, <3>2, Zenon
      <4>2. q[j].kind = "inc" /\ q[j].id = i /\ q[j].from = s
        BY <1>1, <3>2, <4>1
      <4>3. \A m \in 1..n : m > j => ~Settles(q[m], i)
        BY <1>1, <1>2, <3>2, Zenon
      <4> QED BY <4>1, <4>2, <4>3, Zenon DEF Believes
    <3> QED BY <2>2, <3>1, <3>2, Zenon DEF Believes
  <2>3. ASSUME Believes(known, q, n, i, s) PROVE Believes(known, r, n + 1, i, s)
    <3>1. CASE Has(known, i, s) /\ \A m \in 1..n : ~Settles(q[m], i)
      <4>1. \A m \in 1..(n + 1) : ~Settles(r[m], i)
        BY <1>1, <1>2, <2>1, <3>1
      <4> QED BY <3>1, <4>1, Zenon DEF Believes
    <3>2. ASSUME NEW j \in 1..n, q[j].kind = "inc", q[j].id = i, q[j].from = s,
                 \A m \in 1..n : m > j => ~Settles(q[m], i)
          PROVE  Believes(known, r, n + 1, i, s)
      <4>1. j \in 1..(n + 1) /\ r[j].kind = "inc" /\ r[j].id = i /\ r[j].from = s
        BY <1>1, <1>2, <3>2
      <4>2. \A m \in 1..(n + 1) : m > j => ~Settles(r[m], i)
        BY <1>1, <1>2, <2>1, <3>2
      <4> QED BY <4>1, <4>2, Zenon DEF Believes
    <3> QED BY <2>3, <3>1, <3>2, Zenon DEF Believes
  <2> QED BY <1>4, <2>2, <2>3 DEF r, n
<1> QED BY <1>3, <1>4

\* Reading the head of the queue as the taker does changes nothing of what it
\* will know later.
HasRead(known, after, p) ==
  \A i, s : Has(after, i, s) <=>
    IF Settles(p, i) THEN p.kind = "inc" /\ p.from = s ELSE Has(known, i, s)

LEMMA BelievesTail ==
  ASSUME NEW known, NEW after, NEW q \in Seq(Packets), q # <<>>, HasRead(known, after, Head(q)),
         NEW k \in 0..Len(Tail(q)), NEW i, NEW s
  PROVE  Believes(after, Tail(q), k, i, s) <=> Believes(known, q, k + 1, i, s)
<1> DEFINE t == Tail(q)
           p == Head(q)
<1>1. k \in Nat /\ q[1] = p /\ \A j \in 1..k : t[j] = q[j + 1]
  <2>1. Len(t) = Len(q) - 1 /\ Len(q) \in Nat /\ p = q[1] /\ \A j \in 1..Len(t) : t[j] = q[j + 1]
    BY HeadTailProperties, LenProperties
  <2> HIDE DEF t, p
  <2>2. \A j \in 1..k : j \in 1..Len(t)
    BY <2>1 DEF t
  <2> QED BY <2>1, <2>2
<1>2. Has(after, i, s) <=> IF Settles(p, i) THEN p.kind = "inc" /\ p.from = s ELSE Has(known, i, s)
  BY Zenon DEF HasRead
<1> HIDE DEF t, p
<1>3. /\ \A j \in 1..(k + 1) : j = 1 \/ (j - 1 \in 1..k /\ (j - 1) + 1 = j)
      /\ \A j \in 1..k : j + 1 \in 1..(k + 1)
      /\ \A j, m \in 1..k : m + 1 > j + 1 <=> m > j
      /\ 1 \in 1..(k + 1) /\ \A m \in 1..k : m + 1 > 1
      /\ \A j \in 1..k : ~(1 > j + 1)
      /\ ~(1 > 1)
  BY <1>1
<1>4. (\A m \in 1..(k + 1) : ~Settles(q[m], i)) <=> ~Settles(p, i) /\ \A m \in 1..k : ~Settles(t[m], i)
  BY <1>1, <1>3
<1>5. ASSUME Believes(after, t, k, i, s) PROVE Believes(known, q, k + 1, i, s)
  <2>1. ASSUME NEW j \in 1..k, t[j].kind = "inc", t[j].id = i, t[j].from = s,
               \A m \in 1..k : m > j => ~Settles(t[m], i)
        PROVE  Believes(known, q, k + 1, i, s)
    <3>1. j + 1 \in 1..(k + 1) /\ q[j + 1].kind = "inc" /\ q[j + 1].id = i /\ q[j + 1].from = s
      BY <1>1, <1>3, <2>1
    <3>2. ASSUME NEW m \in 1..(k + 1), m > j + 1 PROVE ~Settles(q[m], i)
      <4>1. m - 1 \in 1..k /\ (m - 1) + 1 = m
        BY <1>3, <3>2
      <4>2. m - 1 > j
        BY <1>1, <3>2
      <4> QED BY <1>1, <2>1, <4>1, <4>2
    <3> QED BY <3>1, <3>2, Zenon DEF Believes
  <2>2. CASE Has(after, i, s) /\ \A m \in 1..k : ~Settles(t[m], i)
    <3>1. CASE Settles(p, i)
      <4>1. q[1].kind = "inc" /\ q[1].id = i /\ q[1].from = s
        BY <1>1, <1>2, <2>2, <3>1 DEF Settles
      <4>2. ASSUME NEW m \in 1..(k + 1), m > 1 PROVE ~Settles(q[m], i)
        BY <1>1, <1>3, <2>2, <4>2
      <4> QED BY <1>3, <4>1, <4>2, Zenon DEF Believes
    <3>2. CASE ~Settles(p, i)
      BY <1>2, <1>4, <2>2, <3>2, Zenon DEF Believes
    <3> QED BY <3>1, <3>2
  <2> QED BY <1>5, <2>1, <2>2, Zenon DEF Believes
<1>6. ASSUME Believes(known, q, k + 1, i, s) PROVE Believes(after, t, k, i, s)
  <2>1. CASE Has(known, i, s) /\ \A m \in 1..(k + 1) : ~Settles(q[m], i)
    BY <1>2, <1>4, <2>1, Zenon DEF Believes
  <2>2. ASSUME NEW j \in 1..(k + 1), q[j].kind = "inc", q[j].id = i, q[j].from = s,
               \A m \in 1..(k + 1) : m > j => ~Settles(q[m], i)
        PROVE  Believes(after, t, k, i, s)
    <3>1. CASE j = 1
      <4>1. Settles(p, i) /\ p.kind = "inc" /\ p.from = s
        BY <1>1, <2>2, <3>1 DEF Settles
      <4>2. \A m \in 1..k : ~Settles(t[m], i)
        BY <1>1, <1>3, <2>2, <3>1
      <4> QED BY <1>2, <4>1, <4>2, Zenon DEF Believes
    <3>2. CASE j # 1
      <4> DEFINE h == j - 1
      <4>1. h \in 1..k /\ h + 1 = j
        BY <1>3, <3>2
      <4> HIDE DEF h
      <4>2. t[h].kind = "inc" /\ t[h].id = i /\ t[h].from = s
        BY <1>1, <2>2, <4>1
      <4>3. ASSUME NEW m \in 1..k, m > h PROVE ~Settles(t[m], i)
        <5>1. m + 1 \in 1..(k + 1) /\ m + 1 > j /\ t[m] = q[m + 1]
          BY <1>1, <1>3, <4>1, <4>3
        <5> QED BY <2>2, <5>1
      <4> QED BY <4>1, <4>2, <4>3, Zenon DEF Believes
    <3> QED BY <3>1, <3>2
  <2> QED BY <1>6, <2>1, <2>2, Zenon DEF Believes
<1> QED BY <1>5, <1>6 DEF t

Present(s) == at[s] \notin {"new", "free", "gone"}

\* What is given to the player of an id was sent by that player, and only a
\* redialer announces a player again.
Rightly(known, q, k, s) ==
  q[k].kind \in {"data", "inc"} /\ Believes(known, q, k - 1, q[k].id, s)
    => s = q[k].from /\ (q[k].kind = "inc" => ShouldRedial)
QueueOK == \A k \in 1..Len(queue) : \A s : Rightly(table, queue, k, s)

\* Once it has read all, the taker knows the players announced and present.
KnowsOnly ==
  Open => \A i, s : Believes(table, queue, Len(queue), i, s)
                      => s \in Sessions /\ Present(s) /\ id[s] = i /\ s \in announced
KnowsAll ==
  Open => \A s \in Sessions : Present(s) /\ s \in announced
                                => Believes(table, queue, Len(queue), id[s], s)

Tracked == alive /\ link # "none" /\ ~ghost => QueueOK /\ KnowsOnly /\ KnowsAll

\* No two players that hold an id hold the same.
LEMMA IdsDiffer ==
  ASSUME Inv, NEW s \in Sessions, NEW t \in Sessions, Holds(s), Holds(t), id[s] = id[t]
  PROVE  s = t
BY DEF Inv, IdTable

\* A step that sends nothing, and changes who is present for no announced player.
LEMMA TrackStays ==
  ASSUME Tracked, UNCHANGED <<queue, table, announced>>, Open' => Open, alive' => alive,
         ghost => ghost', link' # "none" => link # "none",
         \A s \in Sessions : Open' /\ ~ghost' /\ s \in announced =>
           (Present(s)' <=> Present(s)) /\ (Present(s) => id'[s] = id[s])
  PROVE  Tracked'
<1> SUFFICES ASSUME alive', link' # "none", ~ghost' PROVE QueueOK' /\ KnowsOnly' /\ KnowsAll'
  BY DEF Tracked
<1>1. QueueOK /\ KnowsOnly /\ KnowsAll
  BY DEF Tracked
<1>2. QueueOK'
  BY <1>1, Zenon DEF QueueOK
<1>3. ASSUME Open', NEW i, NEW s, Believes(table, queue, Len(queue), i, s)
      PROVE  s \in Sessions /\ Present(s)' /\ id'[s] = i /\ s \in announced
  <2>1. s \in Sessions /\ Present(s) /\ id[s] = i /\ s \in announced
    BY <1>1, <1>3, Zenon DEF KnowsOnly
  <2> QED BY <1>3, <2>1
<1>4. ASSUME Open', NEW s \in Sessions, Present(s)', s \in announced
      PROVE  Believes(table, queue, Len(queue), id'[s], s)
  <2>1. Present(s) /\ id'[s] = id[s]
    BY <1>4
  <2>2. Believes(table, queue, Len(queue), id[s], s)
    BY <1>1, <1>4, <2>1, Zenon DEF KnowsAll
  <2> QED BY <2>1, <2>2
<1>5. KnowsOnly'
  BY <1>3, Zenon DEF KnowsOnly
<1>6. KnowsAll'
  BY <1>4, Zenon DEF KnowsAll
<1> QED BY <1>2, <1>5, <1>6

\* A step that sends a packet about a player that is present.
LEMMA TrackPush ==
  ASSUME Inv, Tracked, NEW p \in Packets, Open,
         queue' = Append(queue, p), UNCHANGED <<table, id, alive, up, link>>, ghost => ghost',
         announced' = IF p.kind = "inc" THEN announced \union {p.from} ELSE announced,
         p.kind # "dial" /\ ~ghost' => p.from \in Sessions /\ p.id = id[p.from] /\ Present(p.from),
         p.kind = "inc" /\ ~ghost' => ShouldRedial \/ p.from \notin announced,
         \A s \in Sessions : ~ghost' =>
           (Present(s)' <=> Present(s) /\ ~(p.kind = "disc" /\ s = p.from))
  PROVE  Tracked'
<1> SUFFICES ASSUME alive', link' # "none", ~ghost' PROVE QueueOK' /\ KnowsOnly' /\ KnowsAll'
  BY DEF Tracked
<1> DEFINE n == Len(queue)
<1>1. QueueOK /\ KnowsOnly /\ KnowsAll
  BY DEF Tracked
<1>2. queue \in Seq(Packets) /\ n \in Nat
  BY LenProperties DEF Inv, WireType
<1>3. /\ queue' \in Seq(Packets) /\ Len(queue') = n + 1 /\ queue'[n + 1] = p
      /\ \A k \in 1..n : queue'[k] = queue[k]
  BY <1>2, AppendProperties
<1>4. \A k \in 0..n : \A i, s : Believes(table', queue', k, i, s) <=> Believes(table, queue, k, i, s)
  BY <1>2, BelievesBefore
<1>5. \A i, s : Believes(table', queue', n + 1, i, s) <=>
                  IF Settles(p, i) THEN p.kind = "inc" /\ p.from = s
                  ELSE Believes(table, queue, n, i, s)
  BY <1>2, BelievesLast
<1>6. \A i, s : Believes(table, queue, n, i, s)
                  => s \in Sessions /\ Present(s) /\ id[s] = i /\ s \in announced
  BY <1>1, Zenon DEF KnowsOnly
<1>7. \A s \in Sessions : Present(s) => Holds(s)
  BY DEF Present, Holds
<1>8. \A s \in Sessions : Present(s) /\ p.kind # "dial" /\ id[s] = p.id => s = p.from
  BY <1>7, IdsDiffer
<1> HIDE DEF n
<1>9. ASSUME NEW k \in 1..(n + 1), NEW s PROVE Rightly(table', queue', k, s)
  <2>1. CASE k \in 1..n
    <3>1. queue'[k] = queue[k] /\ k - 1 \in 0..n
      BY <1>2, <1>3, <2>1
    <3>2. Rightly(table, queue, k, s)
      BY <1>1, <2>1 DEF QueueOK, n
    <3> QED BY <1>4, <3>1, <3>2 DEF Rightly
  <2>2. CASE k = n + 1
    <3>1. queue'[k] = p /\ k - 1 = n /\ n \in 0..n
      BY <1>2, <1>3, <2>2
    <3>2. ASSUME p.kind \in {"data", "inc"}, Believes(table, queue, n, p.id, s)
          PROVE  s = p.from /\ (p.kind = "inc" => ShouldRedial)
      <4>1. s \in Sessions /\ Present(s) /\ id[s] = p.id /\ s \in announced
        BY <1>6, <3>2
      <4>2. s = p.from
        BY <1>8, <3>2, <4>1
      <4> QED BY <3>2, <4>1, <4>2
    <3> QED BY <1>4, <3>1, <3>2 DEF Rightly
  <2>3. k \in 1..n \/ k = n + 1
    BY <1>2
  <2> QED BY <2>1, <2>2, <2>3
<1>10. QueueOK'
  <2>1. 1..Len(queue') = 1..(n + 1)
    BY <1>3
  <2> QED BY <1>9, <2>1 DEF QueueOK
<1>11. ASSUME NEW i, NEW s, Believes(table', queue', n + 1, i, s)
       PROVE  s \in Sessions /\ Present(s)' /\ id'[s] = i /\ s \in announced'
  <2>1. CASE Settles(p, i)
    <3>1. p.kind = "inc" /\ p.from = s /\ p.id = i
      BY <1>5, <1>11, <2>1 DEF Settles
    <3>2. s \in Sessions /\ id[s] = i /\ Present(s) /\ s \in announced'
      BY <3>1
    <3> QED BY <3>1, <3>2
  <2>2. CASE ~Settles(p, i)
    <3>1. Believes(table, queue, n, i, s)
      BY <1>5, <1>11, <2>2
    <3>2. s \in Sessions /\ Present(s) /\ id[s] = i /\ s \in announced
      BY <1>6, <3>1
    <3>3. ~(p.kind = "disc" /\ s = p.from)
      BY <2>2, <3>2 DEF Settles
    <3> QED BY <3>2, <3>3
  <2> QED BY <2>1, <2>2
<1>12. KnowsOnly'
  <2>1. Len(queue') = n + 1
    BY <1>3
  <2>2. ASSUME NEW i, NEW s, Believes(table', queue', Len(queue'), i, s)
        PROVE  s \in Sessions /\ Present(s)' /\ id'[s] = i /\ s \in announced'
    <3>1. Believes(table', queue', n + 1, i, s)
      BY <2>1, <2>2
    <3> QED BY <1>11, <3>1
  <2> QED BY <2>2, Zenon DEF KnowsOnly
<1>13. ASSUME NEW s \in Sessions, Present(s)', s \in announced'
       PROVE  Believes(table', queue', n + 1, id'[s], s)
  <2>1. Present(s) /\ ~(p.kind = "disc" /\ s = p.from)
    BY <1>13
  <2>2. CASE p.kind = "inc" /\ s = p.from
    <3>1. Settles(p, id[s])
      BY <2>2 DEF Settles
    <3> QED BY <1>5, <2>2, <3>1
  <2>3. CASE ~(p.kind = "inc" /\ s = p.from)
    <3>1. s \in announced
      BY <1>13, <2>3
    <3>2. Believes(table, queue, n, id[s], s)
      BY <1>1, <2>1, <3>1, Zenon DEF KnowsAll, n
    <3>3. ~Settles(p, id[s])
      BY <1>8, <2>1, <2>3 DEF Settles
    <3> QED BY <1>5, <3>2, <3>3
  <2> QED BY <2>2, <2>3
<1>14. KnowsAll'
  BY <1>3, <1>13, Zenon DEF KnowsAll
<1> QED BY <1>10, <1>12, <1>14

\* What the taker does with a packet is what Believes says of it.
LEMMA TakerReads ==
  ASSUME Inv, queue # <<>>, T!Handle(Head(queue)), alive'
  PROVE  /\ queue' = Tail(queue) /\ link' = link /\ alive
         /\ HasRead(table, table', Head(queue))
<1> DEFINE p == Head(queue)
<1>1. ~T!Unexpected(p)
  BY DEF T!Unexpected
<1>2. p.kind \in {"dial", "inc", "data", "disc"}
  <2>1. queue \in Seq(Packets)
    BY DEF Inv, WireType
  <2>2. p \in Packets
    BY <2>1, HeadTailProperties
  <2> QED BY <2>2 DEF Packets
<1> HIDE DEF p
<1>3. CASE T!NewDial(p) \/ T!PlayerPacket(p)
  <2>1. /\ queue' = Tail(queue) /\ link' = link /\ alive /\ table' = table
        /\ p.kind \in {"dial", "data"}
    BY <1>3 DEF T!NewDial, T!PlayerPacket, T!Reads
  <2> QED BY <2>1 DEF HasRead, Settles, p
<1>4. CASE T!IncomingPlayer(p)
  <2>1. /\ queue' = Tail(queue) /\ link' = link /\ alive /\ p.kind = "inc"
        /\ table' = [i \in DOMAIN table \union {p.id} |-> IF i = p.id THEN p.from ELSE table[i]]
    BY <1>4 DEF T!IncomingPlayer, T!Reads
  <2>2. HasRead(table, table', p)
    BY <2>1 DEF HasRead, Has, Settles
  <2> QED BY <2>1, <2>2 DEF p
<1>5. CASE T!DisconnectedPlayer(p)
  <2>1. /\ queue' = Tail(queue) /\ link' = link /\ alive /\ p.kind = "disc"
        /\ table' = [i \in DOMAIN table \ {p.id} |-> table[i]]
    BY <1>5 DEF T!DisconnectedPlayer, T!Reads
  <2>2. HasRead(table, table', p)
    BY <2>1 DEF HasRead, Has, Settles
  <2> QED BY <2>1, <2>2 DEF p
<1> QED BY <1>1, <1>3, <1>4, <1>5 DEF T!Handle, p

LEMMA TrackTaker ==
  ASSUME Inv, Tracked, T!Next, UNCHANGED forwarderVars
  PROVE  Tracked'
<1> SUFFICES ASSUME alive', link' # "none", ~ghost' PROVE QueueOK' /\ KnowsOnly' /\ KnowsAll'
  BY DEF Tracked
<1>1. queue # <<>> /\ T!Handle(Head(queue))
  BY DEF T!Next, T!Eof
<1>2. queue' = Tail(queue) /\ link' = link /\ alive /\ HasRead(table, table', Head(queue))
  BY <1>1, TakerReads
<1>3. UNCHANGED <<up, ghost, at, id, announced>>
  BY DEF forwarderVars, sessionVars
<1>4. QueueOK /\ KnowsOnly /\ KnowsAll
  BY <1>2, <1>3 DEF Tracked
<1> DEFINE n == Len(queue)
           t == Tail(queue)
<1>5. /\ queue \in Seq(Packets) /\ n \in Nat \ {0} /\ t \in Seq(Packets) /\ Len(t) = n - 1
      /\ \A k \in 1..(n - 1) : t[k] = queue[k + 1]
  <2>1. queue \in Seq(Packets) /\ n \in Nat /\ (n = 0 => queue = <<>>)
    BY LenProperties, EmptySeq DEF Inv, WireType
  <2> QED BY <1>1, <2>1, HeadTailProperties
<1>6. \A k \in 0..(n - 1) : \A i, s : Believes(table', t, k, i, s) <=> Believes(table, queue, k + 1, i, s)
  BY <1>1, <1>2, <1>5, BelievesTail
<1> HIDE DEF n, t
<1>7. queue' = t /\ Len(queue') = n - 1
  BY <1>2, <1>5 DEF t
<1>8. ASSUME NEW k \in 1..(n - 1), NEW s PROVE Rightly(table', t, k, s)
  <2>1. k + 1 \in 1..n /\ (k + 1) - 1 = k /\ k - 1 \in 0..(n - 1) /\ (k - 1) + 1 = k
    BY <1>5
  <2>2. t[k] = queue[k + 1]
    BY <1>5
  <2>3. Rightly(table, queue, k + 1, s)
    BY <1>4, <2>1 DEF QueueOK, n
  <2>4. Believes(table', t, k - 1, t[k].id, s) <=> Believes(table, queue, k, t[k].id, s)
    BY <1>6, <2>1
  <2> QED BY <2>1, <2>2, <2>3, <2>4 DEF Rightly
<1>9. QueueOK'
  <2>1. 1..Len(queue') = 1..(n - 1)
    BY <1>7
  <2> QED BY <1>7, <1>8, <2>1 DEF QueueOK
<1>10. n - 1 \in 0..(n - 1) /\ (n - 1) + 1 = n
  BY <1>5
<1>11. \A i, s : Believes(table', t, n - 1, i, s) <=> Believes(table, queue, n, i, s)
  BY <1>6, <1>10
<1>12. Open' <=> Open
  BY <1>2, <1>3 DEF Open
<1>13. KnowsOnly'
  <2>1. ASSUME Open', NEW i, NEW s, Believes(table', queue', Len(queue'), i, s)
        PROVE  s \in Sessions /\ Present(s)' /\ id'[s] = i /\ s \in announced'
    <3>1. Believes(table, queue, n, i, s)
      BY <1>7, <1>11, <2>1
    <3>2. s \in Sessions /\ Present(s) /\ id[s] = i /\ s \in announced
      BY <1>4, <1>12, <2>1, <3>1, Zenon DEF KnowsOnly, n
    <3> QED BY <1>3, <3>2 DEF Present
  <2> QED BY <2>1, Zenon DEF KnowsOnly
<1>14. KnowsAll'
  BY <1>3, <1>4, <1>7, <1>11, <1>12, Zenon DEF KnowsAll, Present, n
<1> QED BY <1>9, <1>13, <1>14

-----------------------------------------------------------------------------
(* What the announcements rest on.                                         *)

\* Dialer d redials after incarnation d, and no other does meanwhile.
Latest ==
  \A d \in Dialers :
    /\ dialer[d] \in {"closing", "dialing"} => d = gen
    /\ dialer[d] = "closing" => link # "none"
    /\ dialer[d] = "truncate" => d + 1 = gen /\ link = "none" /\ dialer[gen] = "idle"
    /\ d > gen => dialer[d] = "idle"

\* Only an ondial that is under way has players to announce.
Drained == \A d \in Dialers : dialer[d] \notin {"replay", "replaySend"} => todo[d] = <<>>

\* Nobody is announced, or is going to be, before it has joined.
Unheard ==
  \A s \in Sessions : at[s] = "new" => s \notin announced /\ \A d \in Dialers : s \notin ToSet(todo[d])

LEMMA ToSetTail ==
  ASSUME NEW S, NEW q \in Seq(S), q # <<>>
  PROVE  ToSet(q) = {Head(q)} \union ToSet(Tail(q))
<1>1. /\ Len(q) \in Nat \ {0} /\ DOMAIN q = 1..Len(q) /\ Head(q) = q[1]
      /\ Tail(q) \in Seq(S) /\ Len(Tail(q)) = Len(q) - 1
      /\ \A i \in 1..Len(Tail(q)) : Tail(q)[i] = q[i + 1]
  BY HeadTailProperties, LenProperties, EmptySeq
<1>2. DOMAIN Tail(q) = 1..(Len(q) - 1)
  BY <1>1, LenProperties
<1> DEFINE n == Len(q)
           t == Tail(q)
<1>3. n \in Nat \ {0} /\ DOMAIN q = 1..n /\ DOMAIN t = 1..(n - 1)
      /\ \A i \in 1..(n - 1) : t[i] = q[i + 1]
  BY <1>1, <1>2
<1> HIDE DEF n, t
<1>4. \A i \in 1..n : i = 1 \/ (i - 1 \in 1..(n - 1) /\ (i - 1) + 1 = i)
  BY <1>3
<1>5. \A i \in 1..(n - 1) : i + 1 \in 1..n
  BY <1>3
<1>6. 1 \in 1..n
  BY <1>3
<1>7. \A x : (\E i \in 1..n : x = q[i]) <=> (x = q[1] \/ \E i \in 1..(n - 1) : x = t[i])
  BY <1>3, <1>4, <1>5, <1>6
<1>8. ToSet(q) = {q[i] : i \in 1..n} /\ ToSet(t) = {t[i] : i \in 1..(n - 1)}
  BY <1>3 DEF ToSet
<1>9. \A x : x \in ToSet(q) <=> x = Head(q) \/ x \in ToSet(t)
  <2>1. \A x : x \in ToSet(q) <=> \E i \in 1..n : x = q[i]
    BY <1>8, Zenon
  <2>2. \A x : x \in ToSet(t) <=> \E i \in 1..(n - 1) : x = t[i]
    BY <1>8, Zenon
  <2>3. Head(q) = q[1]
    BY <1>1
  <2> QED BY <1>7, <2>1, <2>2, <2>3, Zenon
<1> QED BY <1>9 DEF t

\* A dialer that is past its dial, or gives up.
LEMMA LatestMoves ==
  ASSUME Inv, Latest, NEW d \in Dialers, dialer[d] # "idle",
         NEW there \in AtD \ {"closing", "dialing", "truncate", "idle"},
         GotoD(d, there), UNCHANGED <<gen, link>>
  PROVE  Latest'
<1>1. /\ dialer \in [Dialers -> AtD] /\ gen \in Dialers
      /\ dialer'[d] = there /\ \A e \in Dialers : e # d => dialer'[e] = dialer[e]
  BY DEF Inv, DialerType, FlagType, GotoD
<1> QED BY <1>1 DEF Latest

LEMMA LatestDialer ==
  ASSUME Inv, Latest, NEW d \in Dialers, Dialer(d)
  PROVE  Latest'
<1>1. CASE DialFails(d)
  BY <1>1 DEF DialFails, Latest, connVars
<1>2. CASE Reset(d)
  <2>1. /\ dialer \in [Dialers -> AtD] /\ gen \in Dialers /\ d = gen /\ gen' = gen + 1 /\ link' = "none"
        /\ gen' \in Dialers /\ dialer[d] = "dialing"
        /\ dialer'[d] = "truncate" /\ \A e \in Dialers : e # d => dialer'[e] = dialer[e]
    BY <1>2, ForwarderAssumption DEF Reset, GotoD, Inv, DialerType, FlagType, Latest, Dialers
  <2>2. \A e \in Dialers : e # d => dialer[e] \notin {"closing", "dialing", "truncate"}
    BY <2>1 DEF Latest
  <2>3. \A e \in Dialers : e \in Int
    BY DEF Dialers
  <2> QED BY <2>1, <2>2, <2>3 DEF Latest
<1>3. CASE Truncate(d)
  <2>1. /\ dialer \in [Dialers -> AtD] /\ gen \in Dialers /\ gen' = gen /\ d + 1 = gen
        /\ dialer[gen] = "idle"
        /\ dialer'[d] = "store" /\ \A e \in Dialers : e # d => dialer'[e] = dialer[e]
    BY <1>3 DEF Truncate, GotoD, Inv, DialerType, FlagType, Latest
  <2>2. \A e \in Dialers : e \in Int
    BY DEF Dialers
  <2> QED BY <2>1, <2>2 DEF Latest
<1>4. CASE GiveUp(d)
  BY <1>4, LatestMoves DEF GiveUp, connVars, AtD
<1>5. CASE StoreUp(d)
  BY <1>5, LatestMoves DEF StoreUp, connVars, AtD
<1>6. CASE NewDialGate(d)
  BY <1>6, LatestMoves DEF NewDialGate, connVars, AtD
<1>7. CASE NewDialSend(d)
  BY <1>7, LatestMoves DEF NewDialSend, connVars, AtD
<1>8. CASE Snapshot(d)
  BY <1>8, LatestMoves DEF Snapshot, connVars, AtD
<1>9. CASE ReplayGate(d)
  <2>1. CASE UNCHANGED dialer
    BY <1>9, <2>1 DEF ReplayGate, Latest, connVars
  <2>2. CASE GotoD(d, "replaySend")
    BY <1>9, <2>2, LatestMoves DEF ReplayGate, connVars, AtD
  <2> QED BY <1>9, <2>1, <2>2 DEF ReplayGate
<1>10. CASE ReplaySend(d)
  BY <1>10, LatestMoves DEF ReplaySend, connVars, AtD
<1>11. CASE OndialDone(d)
  BY <1>11, LatestMoves DEF OndialDone, connVars, AtD
<1> QED BY <1>1, <1>2, <1>3, <1>4, <1>5, <1>6, <1>7, <1>8, <1>9, <1>10, <1>11 DEF Dialer

LEMMA LatestConn ==
  ASSUME Inv, Latest, CloseConn \/ CloseDone \/ Break
  PROVE  Latest'
<1>1. dialer \in [Dialers -> AtD] /\ gen \in Dialers /\ \A e \in Dialers : e \in Int
  BY DEF Inv, DialerType, FlagType, Dialers
<1>2. gen' = gen
  BY DEF CloseConn, CloseDone, Break, connVars
<1>3. CASE CloseConn
  <2>1. link # "none" /\ link' = link /\ dialer[gen] = "idle"
    BY <1>3 DEF CloseConn, connVars
  <2>2. dialer'[gen] = "closing" /\ \A e \in Dialers : e # gen => dialer'[e] = dialer[e]
    BY <1>1, <1>3 DEF CloseConn, GotoD
  <2> QED BY <1>1, <1>2, <2>1, <2>2 DEF Latest
<1>4. CASE CloseDone
  <2>1. dialer[gen] = "closing" /\ dialer'[gen] \in {"dialing", "finished"}
        /\ \A e \in Dialers : e # gen => dialer'[e] = dialer[e]
    BY <1>1, <1>4 DEF CloseDone, GotoD
  <2> QED BY <1>1, <1>2, <2>1 DEF Latest
<1>5. CASE Break
  BY <1>2, <1>5 DEF Break, Latest, dialerVars
<1> QED BY <1>3, <1>4, <1>5

LEMMA DrainedDialer ==
  ASSUME Inv, Drained, NEW d \in Dialers, Dialer(d)
  PROVE  Drained'
<1>1. /\ dialer \in [Dialers -> AtD] /\ todo \in [Dialers -> Seq(Sessions \union {Nobody})]
  BY DEF Inv, DialerType
<1>2. \A e \in Dialers : e # d => dialer'[e] = dialer[e] /\ todo'[e] = todo[e]
  BY <1>1 DEF Dialer, DialFails, GiveUp, Reset, Truncate, StoreUp, NewDialGate, NewDialSend,
              Snapshot, ReplayGate, ReplaySend, OndialDone, GotoD
<1>3. dialer'[d] \notin {"replay", "replaySend"} => todo'[d] = <<>>
  <2>1. CASE Snapshot(d) \/ ReplayGate(d) \/ ReplaySend(d)
    BY <1>1, <2>1 DEF Snapshot, ReplayGate, ReplaySend, GotoD
  <2>2. CASE OndialDone(d)
    BY <2>2 DEF OndialDone
  <2>3. CASE DialFails(d) \/ GiveUp(d) \/ Reset(d) \/ Truncate(d) \/ StoreUp(d) \/ NewDialGate(d) \/ NewDialSend(d)
    BY <2>3 DEF Drained, DialFails, GiveUp, Reset, Truncate, StoreUp, NewDialGate, NewDialSend
  <2> QED BY <2>1, <2>2, <2>3 DEF Dialer
<1> QED BY <1>2, <1>3 DEF Drained

LEMMA DrainedConn ==
  ASSUME Inv, Drained, CloseConn \/ CloseDone \/ Break
  PROVE  Drained'
<1>1. dialer \in [Dialers -> AtD] /\ gen \in Dialers
  BY DEF Inv, DialerType, FlagType
<1>2. todo' = todo
  BY DEF CloseConn, CloseDone, Break, dialerVars
<1>3. \A d \in Dialers : dialer'[d] # dialer[d] => dialer[d] \in {"idle", "closing"}
  BY <1>1 DEF CloseConn, CloseDone, Break, dialerVars, GotoD
<1> QED BY <1>2, <1>3 DEF Drained

LEMMA UnheardStays ==
  ASSUME Unheard, \A s \in Sessions : at'[s] = "new" => at[s] = "new",
         \A s \in Sessions : at[s] = "new" /\ s \in announced' => s \in announced,
         \A d \in Dialers : \A s \in Sessions : at[s] = "new" /\ s \in ToSet(todo'[d]) => s \in ToSet(todo[d])
  PROVE  Unheard'
BY DEF Unheard

-----------------------------------------------------------------------------
(* A redial forgets nobody.                                                *)
Reading(d) == dialer[d] \in {"truncate", "store", "dialGate", "dialSend", "snapshot"}

Noted ==
  \A s \in Sessions : at[s] \in {"live", "dataSend"} /\ Open /\ ~isConnDown =>
    \/ s \in announced
    \/ \E d \in Dialers : Reading(d) \/ s \in ToSet(todo[d])

LEMMA NotedStays ==
  ASSUME Noted, Open' => Open, isConnDown => isConnDown',
         announced \subseteq announced',
         \A s \in Sessions : at'[s] \in {"live", "dataSend"} /\ Open' /\ ~isConnDown' =>
           at[s] \in {"live", "dataSend"} \/ s \in announced',
         \A d \in Dialers : Open' /\ ~isConnDown' /\ Reading(d) => Reading(d)',
         \A d \in Dialers : \A s \in Sessions : Open' /\ ~isConnDown' /\ s \in ToSet(todo[d]) =>
           s \in ToSet(todo'[d]) \/ s \in announced'
  PROVE  Noted'
<1> SUFFICES ASSUME NEW s \in Sessions, at'[s] \in {"live", "dataSend"}, Open', ~isConnDown',
                    s \notin announced'
             PROVE  \E d \in Dialers : Reading(d)' \/ s \in ToSet(todo'[d])
  BY DEF Noted
<1>1. PICK d \in Dialers : Reading(d) \/ s \in ToSet(todo[d])
  BY DEF Noted
<1> QED BY <1>1

LEMMA UpholdsSession ==
  ASSUME Inv, Unheard, Noted, NEW s \in Sessions, Session(s)
  PROVE  Unheard' /\ Noted'
<1>1. /\ at \in [Sessions -> AtS]
      /\ UNCHANGED <<connVars, dialerVars, isConnDown>>
      /\ \A t \in Sessions : t # s => at'[t] = at[t]
  BY DEF Inv, TableType, Session, Join, SendIncPlayer, ForwardPacket, Retire, FreeSlot, Gate, Send, GotoS
<1>2. Open' = Open /\ todo' = todo /\ dialer' = dialer
  BY <1>1 DEF Open, connVars, dialerVars
<1>3. /\ at'[s] # "new"
      /\ announced' = announced \/ (at[s] # "new" /\ announced' = announced \union {s})
  BY <1>1 DEF Session, Join, SendIncPlayer, ForwardPacket, Retire, FreeSlot, Gate, Send, GotoS, Push, Packet
<1>4. at'[s] \in {"live", "dataSend"} /\ Open /\ ~isConnDown =>
        at[s] \in {"live", "dataSend"} \/ s \in announced'
  <2>1. CASE at[s] = "incSend"
    BY <2>1 DEF Session, Join, SendIncPlayer, ForwardPacket, Retire, FreeSlot, Gate, Send, GotoS, Push, Packet
  <2>2. CASE at[s] = "incGate"
    BY <1>1, <2>2 DEF Session, Join, SendIncPlayer, ForwardPacket, Retire, FreeSlot, Gate, Send, GotoS
  <2>3. CASE at[s] \notin {"incSend", "incGate", "live", "dataSend"}
    BY <1>1, <2>3 DEF Session, Join, SendIncPlayer, ForwardPacket, Retire, FreeSlot, Gate, Send, GotoS
  <2> QED BY <2>1, <2>2, <2>3
<1> HIDE DEF Session
<1>5. Unheard'
  <2>1. \A t \in Sessions : at'[t] = "new" => at[t] = "new"
    BY <1>1, <1>3
  <2>2. \A t \in Sessions : at[t] = "new" /\ t \in announced' => t \in announced
    BY <1>3
  <2> QED BY <1>2, <2>1, <2>2, UnheardStays
<1>6. Noted'
  <2>1. \A t \in Sessions : at'[t] \in {"live", "dataSend"} /\ Open' /\ ~isConnDown' =>
           at[t] \in {"live", "dataSend"} \/ t \in announced'
    BY <1>1, <1>2, <1>4
  <2>2. announced \subseteq announced' /\ (isConnDown => isConnDown')
    BY <1>1, <1>3
  <2>3. \A d \in Dialers : Reading(d) => Reading(d)'
    BY <1>2 DEF Reading
  <2> QED BY <1>2, <2>1, <2>2, <2>3, NotedStays
<1> QED BY <1>5, <1>6

LEMMA UpholdsConn ==
  ASSUME Inv, Unheard, Noted, CloseConn \/ CloseDone \/ Break
  PROVE  Unheard' /\ Noted'
<1>1. /\ UNCHANGED <<at, todo, announced>> /\ dialer \in [Dialers -> AtD] /\ gen \in Dialers
      /\ (isConnDown => isConnDown')
  BY DEF CloseConn, CloseDone, Break, dialerVars, sessionVars, Inv, DialerType, FlagType
<1>2. Open' => Open
  BY DEF CloseConn, CloseDone, Break, connVars, Open
<1>3. \A d \in Dialers : Reading(d) => Reading(d)'
  BY <1>1 DEF CloseConn, CloseDone, Break, dialerVars, GotoD, Reading
<1>4. Unheard'
  BY <1>1, UnheardStays
<1>5. Noted'
  BY <1>1, <1>2, <1>3, NotedStays
<1> QED BY <1>4, <1>5

LEMMA UpholdsDialer ==
  ASSUME Inv, Unheard, Noted, NEW d \in Dialers, Dialer(d)
  PROVE  Unheard' /\ Noted'
<1>1. /\ dialer \in [Dialers -> AtD] /\ todo \in [Dialers -> Seq(Sessions \union {Nobody})]
      /\ at' = at
  BY DEF Inv, DialerType, Dialer, DialFails, GiveUp, Reset, Truncate, StoreUp, NewDialGate, NewDialSend,
         Snapshot, ReplayGate, ReplaySend, OndialDone, sessionVars
<1>2. \A e \in Dialers : e # d => dialer'[e] = dialer[e] /\ todo'[e] = todo[e]
  BY <1>1 DEF Dialer, DialFails, GiveUp, Reset, Truncate, StoreUp, NewDialGate, NewDialSend,
              Snapshot, ReplayGate, ReplaySend, OndialDone, GotoD
<1>3. CASE DialFails(d) \/ GiveUp(d) \/ OndialDone(d)
  <2>1. UNCHANGED <<connVars, todo, isConnDown, announced>>
    BY <1>3 DEF DialFails, GiveUp, OndialDone
  <2>2. Open' = Open
    BY <2>1 DEF Open, connVars
  <2>3. \A e \in Dialers : Reading(e) => Reading(e)'
    BY <1>1, <1>2, <1>3 DEF DialFails, GiveUp, OndialDone, Reading
  <2>4. Unheard'
    BY <1>1, <2>1, UnheardStays
  <2>5. Noted'
    BY <1>1, <2>1, <2>2, <2>3, NotedStays
  <2> QED BY <2>4, <2>5
<1>4. CASE Reset(d)
  <2>1. link' = "none" /\ UNCHANGED <<todo, announced>>
    BY <1>4 DEF Reset
  <2>2. Unheard'
    BY <1>1, <2>1, UnheardStays
  <2> QED BY <2>1, <2>2 DEF Noted, Open
<1>5. CASE Truncate(d) \/ StoreUp(d) \/ NewDialGate(d)
  <2>1. todo' = todo /\ announced' \subseteq announced
    BY <1>5 DEF Truncate, StoreUp, NewDialGate
  <2>2. Reading(d)'
    BY <1>1, <1>5 DEF Truncate, StoreUp, NewDialGate, GotoD, Reading
  <2>3. Unheard'
    BY <1>1, <2>1, UnheardStays
  <2>4. Noted'
    BY <2>2 DEF Noted
  <2> QED BY <2>3, <2>4
<1>6. CASE NewDialSend(d)
  <2>1. todo' = todo /\ announced' = announced /\ up' = up
    BY <1>6 DEF NewDialSend, Push, Packet, connVars
  <2>2. Unheard'
    BY <1>1, <2>1, UnheardStays
  <2>3. Open' => Reading(d)'
    BY <1>1, <1>6, <2>1 DEF NewDialSend, GotoD, Reading, Open
  <2> QED BY <2>2, <2>3 DEF Noted
<1>7. CASE Snapshot(d)
  <2>1. todo'[d] = slots /\ announced' = announced
    BY <1>1, <1>7 DEF Snapshot
  <2>2. \A s \in Sessions : at[s] \notin {"new", "gone"} => s \in ToSet(slots)
    BY DEF Inv, IdTable, Holds, ToSet
  <2>3. \A s \in Sessions : s \in ToSet(slots) => at[s] # "new"
    BY ForwarderAssumption DEF Inv, IdTable, Holds, ToSet
  <2>4. Unheard'
    <3>1. \A e \in Dialers : \A s \in Sessions :
             at[s] = "new" /\ s \in ToSet(todo'[e]) => s \in ToSet(todo[e])
      BY <1>2, <2>1, <2>3
    <3> QED BY <1>1, <2>1, <3>1, UnheardStays
  <2>5. \A s \in Sessions : at'[s] \in {"live", "dataSend"} => s \in ToSet(todo'[d])
    BY <1>1, <2>1, <2>2
  <2>6. Noted'
    BY <2>5 DEF Noted
  <2> QED BY <2>4, <2>6
<1>8. CASE ReplayGate(d) \/ ReplaySend(d)
  <2> DEFINE p == Head(todo[d])
  <2>1. /\ todo[d] # <<>> /\ todo[d] \in Seq(Sessions \union {Nobody})
        /\ (todo'[d] = todo[d] \/ todo'[d] = Tail(todo[d]))
    BY <1>1, <1>8 DEF ReplayGate, ReplaySend, Inv, DialerType
  <2>2. ToSet(todo[d]) = {p} \union ToSet(Tail(todo[d]))
    BY <2>1, ToSetTail
  <2>3. /\ UNCHANGED <<connVars, isConnDown>>
        /\ \A e \in Dialers : Reading(e) => Reading(e)'
    BY <1>1, <1>2, <1>8 DEF ReplayGate, ReplaySend, Reading
  <2>4. Open' = Open
    BY <2>3 DEF Open, connVars
  <2>5. announced' = announced \/ announced' = announced \union {p}
    BY <1>8 DEF ReplayGate, ReplaySend, Push, Packet
  <2>6. p \in Sessions /\ Open /\ ~isConnDown => todo'[d] = todo[d] \/ p \in announced'
    <3>1. CASE ReplayGate(d)
      BY <3>1, ForwarderAssumption DEF ReplayGate
    <3>2. CASE ReplaySend(d)
      BY <3>2 DEF ReplaySend, Push, Packet
    <3> QED BY <1>8, <3>1, <3>2
  <2> HIDE DEF p
  <2>7. Unheard'
    <3>1. \A s \in Sessions : at[s] = "new" /\ s \in announced' => s \in announced
      BY <2>2, <2>5 DEF Unheard
    <3>2. \A e \in Dialers : \A s \in Sessions : s \in ToSet(todo'[e]) => s \in ToSet(todo[e])
      BY <1>2, <2>1, <2>2
    <3> QED BY <1>1, <3>1, <3>2, UnheardStays
  <2>8. Noted'
    <3>1. \A e \in Dialers : \A s \in Sessions : Open' /\ ~isConnDown' /\ s \in ToSet(todo[e]) =>
             s \in ToSet(todo'[e]) \/ s \in announced'
      BY <1>2, <2>1, <2>2, <2>3, <2>4, <2>6
    <3>2. announced \subseteq announced'
      BY <2>5
    <3> QED BY <1>1, <2>3, <2>4, <3>1, <3>2, NotedStays
  <2> QED BY <2>7, <2>8
<1> QED BY <1>3, <1>4, <1>5, <1>6, <1>7, <1>8 DEF Dialer

-----------------------------------------------------------------------------
(* Without redialing nobody is announced by another, nobody leaves while   *)
(* isConnDown is set, and an announcement is a player's first packet.      *)
Single ==
  ~ShouldRedial =>
    /\ Once /\ First /\ ~ghost
    /\ \A s \in announced : at[s] \notin {"new", "incGate", "incSend"}

LEMMA SingleStep ==
  ASSUME Inv, Single, [LinkNext]_<<vars, takerVars>>
  PROVE  Single'
<1> SUFFICES ASSUME ~ShouldRedial
             PROVE  /\ Once' /\ First' /\ ~ghost'
                    /\ \A s \in announced' : at'[s] \notin {"new", "incGate", "incSend"}
  BY DEF Single
<1>1. /\ Once /\ First /\ ~ghost /\ ~isConnDown
      /\ \A s \in announced : at[s] \notin {"new", "incGate", "incSend"}
  BY DEF Single, Once, Quiet
<1>2. Once' /\ First'
  BY <1>1, OnceStep
<1>3. /\ at \in [Sessions -> AtS] /\ announced \subseteq Sessions
  BY DEF Inv, TableType, WireType
<1>4. ASSUME NEW s \in Sessions, Session(s)
      PROVE  ~ghost' /\ \A t \in announced' : at'[t] \notin {"new", "incGate", "incSend"}
  <2>1. \A t \in Sessions : t # s => at'[t] = at[t]
    BY <1>3, <1>4 DEF Session, Join, SendIncPlayer, ForwardPacket, Retire, FreeSlot, Gate, Send, GotoS
  <2>2. ~ghost'
    BY <1>1, <1>4, Zenon DEF Session, Join, SendIncPlayer, ForwardPacket, Retire, FreeSlot, Gate, Send
  <2>3. CASE at'[s] \in {"new", "incGate", "incSend"}
    <3>1. s \notin announced
      <4>1. at[s] \in {"new", "incGate", "incSend"} \/ Join(s)
        BY <1>3, <1>4, <2>3 DEF Session, SendIncPlayer, ForwardPacket, Retire, FreeSlot, Gate, Send, GotoS
      <4>2. Join(s) => at[s] = "new"
        BY DEF Join
      <4> QED BY <1>1, <4>1, <4>2
    <3>2. announced' = announced
      BY <1>3, <1>4, <2>3 DEF Session, Join, SendIncPlayer, ForwardPacket, Retire, FreeSlot, Gate, Send, GotoS
    <3> QED BY <1>1, <1>3, <2>1, <2>2, <3>1, <3>2
  <2>4. CASE at'[s] \notin {"new", "incGate", "incSend"}
    <3>1. announced' \subseteq announced \union {s}
      BY <1>4 DEF Session, Join, SendIncPlayer, ForwardPacket, Retire, FreeSlot, Gate, Send, Push, Packet
    <3> QED BY <1>1, <1>3, <2>1, <2>2, <2>4, <3>1
  <2> QED BY <2>3, <2>4
<1>5. ASSUME NEW d \in Dialers, Dialer(d) PROVE UNCHANGED <<at, announced, ghost>>
  <2>1. dialer[d] \notin {"dialing", "truncate", "store", "replaySend"}
    BY <1>1 DEF Once, Quiet
  <2>2. CASE NewDialSend(d)
    BY <2>2 DEF NewDialSend, Push, Packet, sessionVars
  <2>3. CASE DialFails(d) \/ GiveUp(d) \/ NewDialGate(d) \/ Snapshot(d) \/ ReplayGate(d) \/ OndialDone(d)
    BY <2>3 DEF DialFails, GiveUp, NewDialGate, Snapshot, ReplayGate, OndialDone, sessionVars
  <2> QED BY <1>5, <2>1, <2>2, <2>3 DEF Dialer, Reset, Truncate, StoreUp, ReplaySend
<1>6. CASE CloseConn \/ CloseDone \/ Break \/ UNCHANGED forwarderVars \/ UNCHANGED <<vars, takerVars>>
  <2>1. UNCHANGED <<at, announced, ghost>>
    BY <1>6 DEF CloseConn, CloseDone, Break, sessionVars, forwarderVars, vars
  <2> QED BY <1>1, <1>2, <2>1
<1> QED BY <1>1, <1>2, <1>4, <1>5, <1>6 DEF LinkNext, Next

-----------------------------------------------------------------------------
(* What the taker has done with what it read.                              *)
History ==
  ~ghost => /\ \A r \in routed : r[1] = r[2]
            /\ \A o \in orphans : ShouldRedial /\ o[1] = o[2]

LEMMA HistoryTaker ==
  ASSUME Inv, Tracked, History, T!Next, UNCHANGED forwarderVars
  PROVE  History'
<1> SUFFICES ASSUME ~ghost
             PROVE  /\ \A r \in routed' : r[1] = r[2]
                    /\ \A o \in orphans' : ShouldRedial /\ o[1] = o[2]
  BY DEF History, forwarderVars
<1>1. /\ \A r \in routed : r[1] = r[2]
      /\ \A o \in orphans : ShouldRedial /\ o[1] = o[2]
  BY DEF History
<1>2. CASE T!Eof
  BY <1>1, <1>2 DEF T!Eof
<1> DEFINE p == Head(queue)
<1>3. CASE queue # <<>> /\ T!Handle(p)
  <2>1. alive /\ link # "none"
    BY <1>3 DEF T!Handle, T!Unexpected, T!NewDial, T!IncomingPlayer, T!DisconnectedPlayer,
                T!PlayerPacket, T!Reads
  <2>2. 1 \in 1..Len(queue) /\ queue[1] = p
    <3>1. queue \in Seq(Packets)
      BY DEF Inv, WireType
    <3>2. Len(queue) \in Nat /\ Len(queue) # 0 /\ p = queue[1]
      BY <1>3, <3>1, HeadTailProperties, LenProperties, EmptySeq
    <3> HIDE DEF p
    <3> QED BY <3>2
  <2> HIDE DEF p
  <2>3. ASSUME p.kind \in {"data", "inc"}, T!Knows(p.id)
        PROVE  table[p.id] = p.from /\ (p.kind = "inc" => ShouldRedial)
    <3>1. Rightly(table, queue, 1, table[p.id])
      BY <2>1, <2>2 DEF Tracked, QueueOK
    <3>2. 1 - 1 = 0 /\ \A m : m \notin 1..0
      OBVIOUS
    <3>3. Believes(table, queue, 0, p.id, table[p.id])
      BY <2>3, <3>2 DEF Believes, Has, T!Knows
    <3> QED BY <2>2, <2>3, <3>1, <3>2, <3>3 DEF Rightly
  <2>4. CASE T!IncomingPlayer(p)
    <3>1. /\ routed' = routed /\ p.kind = "inc"
          /\ orphans' = orphans \union (IF T!Knows(p.id) THEN {<<table[p.id], p.from>>} ELSE {})
      BY <2>4 DEF T!IncomingPlayer, T!Reads
    <3> QED BY <1>1, <2>3, <3>1
  <2>5. CASE T!PlayerPacket(p)
    <3>1. /\ orphans' = orphans /\ p.kind = "data"
          /\ routed' = routed \union (IF T!Knows(p.id) THEN {<<p.from, table[p.id]>>} ELSE {})
      BY <2>5 DEF T!PlayerPacket, T!Reads
    <3> QED BY <1>1, <2>3, <3>1
  <2>6. CASE T!Unexpected(p) \/ T!NewDial(p) \/ T!DisconnectedPlayer(p)
    BY <1>1, <2>6 DEF T!Unexpected, T!NewDial, T!DisconnectedPlayer
  <2> QED BY <1>3, <2>4, <2>5, <2>6 DEF T!Handle
<1> QED BY <1>2, <1>3 DEF T!Next

-----------------------------------------------------------------------------
(* The forwarder's steps keep the taker on track.                          *)
LEMMA TrackSession ==
  ASSUME Inv, Single, Unheard, Tracked, NEW s \in Sessions, Session(s), UNCHANGED takerVars
  PROVE  Tracked'
<1>1. /\ at \in [Sessions -> AtS] /\ id \in [Sessions -> Ids]
      /\ UNCHANGED <<up, link, alive, table>> /\ (ghost => ghost')
      /\ \A t \in Sessions : t # s => at'[t] = at[t]
  <2>1. at \in [Sessions -> AtS] /\ id \in [Sessions -> Ids]
    BY DEF Inv, TableType
  <2>2. UNCHANGED <<up, link, alive, table>>
    BY DEF Session, Join, SendIncPlayer, ForwardPacket, Retire, FreeSlot, Gate, Send, connVars, takerVars
  <2>3. ghost => ghost'
    BY Zenon DEF Session, Join, SendIncPlayer, ForwardPacket, Retire, FreeSlot, Gate, Send
  <2>4. \A t \in Sessions : t # s => at'[t] = at[t]
    BY <2>1 DEF Session, Join, SendIncPlayer, ForwardPacket, Retire, FreeSlot, Gate, Send, GotoS
  <2> QED BY <2>1, <2>2, <2>3, <2>4
<1>2. Open' = Open
  BY <1>1 DEF Open
<1>3. CASE Join(s)
  <2>1. /\ at[s] = "new" /\ UNCHANGED <<queue, announced>>
        /\ \A t \in Sessions : t # s => id'[t] = id[t]
    BY <1>1, <1>3 DEF Join
  <2>2. \A t \in Sessions : t \in announced => t # s
    BY <2>1 DEF Unheard
  <2>3. \A t \in Sessions : t \in announced => at'[t] = at[t] /\ id'[t] = id[t]
    BY <1>1, <2>1, <2>2
  <2>4. \A t \in Sessions : Open' /\ ~ghost' /\ t \in announced =>
           (Present(t)' <=> Present(t)) /\ (Present(t) => id'[t] = id[t])
    BY <2>3 DEF Present
  <2> QED BY <1>1, <1>2, <2>1, <2>4, TrackStays
<1>4. CASE FreeSlot(s)
  <2>1. /\ at[s] = "free" /\ at'[s] = "gone" /\ UNCHANGED <<queue, announced, id>>
    BY <1>1, <1>4 DEF FreeSlot, GotoS
  <2>2. \A t \in Sessions : Present(t)' <=> Present(t)
    BY <1>1, <2>1 DEF Present
  <2> QED BY <1>1, <1>2, <2>1, <2>2, TrackStays
<1>5. ASSUME NEW g \in {"incGate", "live"}, NEW k \in {"incSend", "dataSend", "discSend"},
             NEW r \in {"live", "free"}, Gate(s, g, k, r),
             r = "free" => ghost' = (ghost \/ (isConnDown /\ s \in announced))
      PROVE  Tracked'
  <2>1. /\ at[s] = g /\ at'[s] = (IF isConnDown THEN r ELSE k) /\ UNCHANGED <<queue, announced, id>>
    BY <1>1, <1>5 DEF Gate, GotoS
  <2>2. \A t \in Sessions : ~ghost' /\ t \in announced => (Present(t)' <=> Present(t))
    BY <1>1, <1>5, <2>1 DEF Present
  <2> QED BY <1>1, <1>2, <2>1, <2>2, TrackStays
<1>6. ASSUME NEW g \in {"incSend", "dataSend", "discSend"}, NEW there \in {"live", "free"},
             NEW kind \in {"inc", "data", "disc"}, Send(s, g, kind, there),
             kind = "inc" => g = "incSend", kind = "disc" <=> there = "free"
      PROVE  Tracked'
  <2> DEFINE p == Packet(kind, id[s], s)
  <2>1. /\ at[s] = g /\ at'[s] = there /\ id' = id /\ Push(p) /\ ghost' = ghost
    BY <1>1, <1>6 DEF Send, GotoS
  <2>2. CASE ~Open
    BY <1>1, <1>2, <2>1, <2>2, TrackStays DEF Push
  <2>3. CASE Open
    <3>1. p \in Packets /\ p.kind = kind /\ p.id = id[s] /\ p.from = s
      BY <1>1 DEF Packet, Packets, Ids
    <3>2. /\ queue' = Append(queue, p)
          /\ announced' = IF p.kind = "inc" THEN announced \union {p.from} ELSE announced
      BY <2>1, <2>3 DEF Push
    <3> HIDE DEF p
    <3>3. Present(s)
      BY <1>6, <2>1 DEF Present
    <3>4. p.kind = "inc" => ShouldRedial \/ s \notin announced
      BY <1>6, <2>1, <3>1 DEF Single
    <3>5. \A t \in Sessions : Present(t)' <=> Present(t) /\ ~(p.kind = "disc" /\ t = p.from)
      BY <1>1, <1>6, <2>1, <3>1, <3>3 DEF Present
    <3> QED BY <1>1, <2>1, <2>3, <3>1, <3>2, <3>3, <3>4, <3>5, TrackPush
  <2> QED BY <2>2, <2>3
<1>7. CASE SendIncPlayer(s)
  <2>1. CASE Gate(s, "incGate", "incSend", "live")
    BY <1>5, <2>1
  <2>2. CASE Send(s, "incSend", "inc", "live")
    BY <1>6, <2>2
  <2> QED BY <1>7, <2>1, <2>2 DEF SendIncPlayer
<1>8. CASE ForwardPacket(s)
  <2>1. CASE Gate(s, "live", "dataSend", "live")
    BY <1>5, <2>1
  <2>2. CASE Send(s, "dataSend", "data", "live")
    BY <1>6, <2>2
  <2> QED BY <1>8, <2>1, <2>2 DEF ForwardPacket
<1>9. CASE Retire(s)
  <2>1. CASE /\ Gate(s, "live", "discSend", "free")
             /\ ghost' = (ghost \/ (isConnDown /\ s \in announced))
    BY <1>5, <2>1
  <2>2. CASE Send(s, "discSend", "disc", "free")
    BY <1>6, <2>2
  <2> QED BY <1>9, <2>1, <2>2 DEF Retire
<1> QED BY <1>3, <1>4, <1>7, <1>8, <1>9 DEF Session

LEMMA TrackDialer ==
  ASSUME Inv, Single, Unheard, Tracked, NEW d \in Dialers, Dialer(d), ~Truncate(d), UNCHANGED takerVars
  PROVE  Tracked'
<1>1. UNCHANGED <<at, id, alive, table>>
  BY DEF Dialer, DialFails, GiveUp, Reset, StoreUp, NewDialGate, NewDialSend,
         Snapshot, ReplayGate, ReplaySend, OndialDone, sessionVars, takerVars
<1>2. \A t \in Sessions : (Present(t)' <=> Present(t)) /\ id'[t] = id[t]
  BY <1>1 DEF Present
<1>3. CASE Reset(d)
  BY <1>3 DEF Reset, Tracked
<1>4. CASE \/ DialFails(d) \/ GiveUp(d) \/ StoreUp(d) \/ NewDialGate(d)
           \/ Snapshot(d) \/ ReplayGate(d) \/ OndialDone(d)
  <2>1. UNCHANGED <<queue, announced, up, link, ghost>>
    BY <1>4 DEF DialFails, GiveUp, StoreUp, NewDialGate, Snapshot, ReplayGate, OndialDone, connVars
  <2>2. Open' = Open
    BY <2>1 DEF Open
  <2> QED BY <1>1, <1>2, <2>1, <2>2, TrackStays
<1>5. CASE NewDialSend(d)
  <2> DEFINE p == Packet("dial", 0, Nobody)
  <2>1. Push(p) /\ UNCHANGED <<up, link, ghost>> /\ Open' = Open
    BY <1>5 DEF NewDialSend, connVars, Open
  <2>2. p \in Packets /\ p.kind = "dial"
    BY DEF Packet, Packets, Ids
  <2> HIDE DEF p
  <2>3. CASE ~Open
    BY <1>1, <1>2, <2>1, <2>3, TrackStays DEF Push
  <2>4. CASE Open
    BY <1>1, <1>2, <2>1, <2>2, <2>4, TrackPush DEF Push
  <2> QED BY <2>3, <2>4
<1>6. CASE ReplaySend(d)
  <2> DEFINE s == Head(todo[d])
             p == Packet("inc", id[s], s)
  <2>1. /\ Push(p) /\ UNCHANGED <<up, link>> /\ Open' = Open
        /\ ghost' = (ghost \/ (Open /\ at[s] \in {"free", "gone"}))
        /\ dialer[d] = "replaySend"
    BY <1>6 DEF ReplaySend, connVars, Open
  <2>2. s \in Sessions /\ s \in ToSet(todo[d])
    <3>1. todo[d] \in Seq(Sessions \union {Nobody}) /\ todo[d] # <<>> /\ s # Nobody
      BY <2>1 DEF Inv, DialerType
    <3>2. s \in Sessions \union {Nobody}
      BY <3>1, HeadTailProperties
    <3>3. s \in ToSet(todo[d])
      BY <3>1, ToSetTail
    <3> QED BY <3>1, <3>2, <3>3
  <2> HIDE DEF s
  <2>3. p \in Packets /\ p.kind = "inc" /\ p.id = id[s] /\ p.from = s
    BY <2>2 DEF Packet, Packets, Inv, TableType
  <2> HIDE DEF p
  <2>4. CASE ~Open
    BY <1>1, <1>2, <2>1, <2>4, TrackStays DEF Push
  <2>5. CASE Open
    <3>1. ~ghost' => Present(s)
      BY <2>1, <2>2, <2>5 DEF Unheard, Present
    <3>2. ShouldRedial
      BY <2>1 DEF Single, Once, Quiet
    <3>3. /\ queue' = Append(queue, p)
          /\ announced' = IF p.kind = "inc" THEN announced \union {p.from} ELSE announced
      BY <2>1, <2>5 DEF Push
    <3> QED BY <1>1, <1>2, <2>1, <2>2, <2>3, <2>5, <3>1, <3>2, <3>3, TrackPush
  <2> QED BY <2>4, <2>5
<1> QED BY <1>3, <1>4, <1>5, <1>6 DEF Dialer

LEMMA TrackAccept ==
  ASSUME NEW d \in Dialers, Truncate(d), T!Accept
  PROVE  Tracked' /\ History'
<1>1. /\ queue' = <<>> /\ announced' = {} /\ table' = T!NoTable
      /\ orphans' = {} /\ routed' = {}
  BY DEF Truncate, T!Accept
<1>2. Len(queue') = 0 /\ 1..0 = {}
  BY <1>1
<1>3. QueueOK'
  BY <1>2 DEF QueueOK
<1>4. \A i, s : ~Believes(table', queue', Len(queue'), i, s)
  BY <1>1, <1>2 DEF Believes, Has, T!NoTable
<1>5. KnowsOnly' /\ KnowsAll'
  BY <1>1, <1>4 DEF KnowsOnly, KnowsAll
<1> QED BY <1>1, <1>3, <1>5 DEF Tracked, History

LEMMA TrackConn ==
  ASSUME Inv, Latest, Tracked, CloseConn \/ CloseDone \/ Break, UNCHANGED takerVars
  PROVE  Tracked'
<1>1. UNCHANGED <<at, id, alive, table, queue, announced, ghost>>
  BY DEF CloseConn, CloseDone, Break, sessionVars, takerVars
<1>2. Open' => Open
  BY DEF CloseConn, CloseDone, Break, connVars, Open
<1>3. link' # "none" => link # "none"
  <2>1. CASE CloseConn \/ Break
    BY <2>1 DEF CloseConn, Break
  <2>2. CASE CloseDone
    BY <2>2 DEF CloseDone, Latest, Inv, FlagType
  <2> QED BY <2>1, <2>2
<1>4. \A t \in Sessions : (Present(t)' <=> Present(t)) /\ id'[t] = id[t]
  BY <1>1 DEF Present
<1> QED BY <1>1, <1>2, <1>3, <1>4, TrackStays

-----------------------------------------------------------------------------
Ledger == /\ Inv /\ Latest /\ Drained /\ Unheard /\ Noted /\ Single
          /\ Tracked /\ History

LEMMA LedgerInit == LinkInit => Ledger
<1> SUFFICES ASSUME LinkInit PROVE Ledger
  OBVIOUS
<1>1. /\ queue = <<>> /\ announced = {} /\ ghost = FALSE
      /\ \A s \in Sessions : at[s] = "new"
      /\ \A d \in Dialers : todo[d] = <<>>
      /\ table = T!NoTable /\ orphans = {} /\ routed = {}
  BY DEF LinkInit, Init, T!Init
<1>2. Inv
  BY InitInv DEF LinkInit
<1>3. Latest
  BY ForwarderAssumption DEF LinkInit, Init, Dialed, Undialed, Latest, Dialers
<1>4. Drained /\ Noted /\ History
  BY <1>1 DEF Drained, Noted, History
<1>5. Unheard
  BY <1>1 DEF Unheard, ToSet
<1>6. Single
  <2>1. ~ShouldRedial => First
    BY DEF LinkInit, Init, Dialed, Undialed, First
  <2> QED BY <1>1, <2>1, OnceInit DEF Single
<1>7. Tracked
  <2>1. Len(queue) = 0 /\ 1..0 = {}
    BY <1>1
  <2>2. \A i, s : ~Believes(table, queue, Len(queue), i, s)
    BY <1>1, <2>1 DEF Believes, Has, T!NoTable
  <2> QED BY <1>1, <2>1, <2>2 DEF Tracked, QueueOK, KnowsOnly, KnowsAll
<1> QED BY <1>2, <1>3, <1>4, <1>5, <1>6, <1>7 DEF Ledger

\* Only Truncate completes a connection, and it had none.
LEMMA OnlyTruncateConnects ==
  ASSUME Inv, Latest, Next
  PROVE  Connects <=> \E d \in Dialers : Truncate(d)
<1>1. ASSUME NEW d \in Dialers, Truncate(d) PROVE Connects
  BY <1>1 DEF Truncate, Latest, Connects
<1>2. ASSUME NEW d \in Dialers, Dialer(d), ~Truncate(d) PROVE link' \in {link, "none"}
  BY <1>2 DEF Dialer, DialFails, GiveUp, Reset, StoreUp, NewDialGate, NewDialSend,
              Snapshot, ReplayGate, ReplaySend, OndialDone, connVars
<1>3. ASSUME NEW s \in Sessions, Session(s) PROVE link' = link
  BY <1>3 DEF Session, Join, SendIncPlayer, ForwardPacket, Retire, FreeSlot, Gate, Send, connVars
<1>4. CloseConn \/ CloseDone \/ Break => link' \in {link, "broken"}
  BY DEF CloseConn, CloseDone, Break, connVars
<1> QED BY <1>1, <1>2, <1>3, <1>4 DEF Next, Connects

LEMMA LedgerStep == Ledger /\ [LinkNext]_<<vars, takerVars>> => Ledger'
<1> SUFFICES ASSUME Ledger, [LinkNext]_<<vars, takerVars>> PROVE Ledger'
  OBVIOUS
<1>1. Inv /\ Latest /\ Drained /\ Unheard /\ Noted /\ Single /\ Tracked /\ History
  BY DEF Ledger
<1>2. Inv' /\ Single'
  BY <1>1, LinkStep, StepInv, SingleStep
<1>3. ASSUME NEW s \in Sessions, Session(s), UNCHANGED takerVars PROVE Ledger'
  <2>1. UNCHANGED <<dialer, todo, gen, link, orphans, routed>> /\ (ghost => ghost')
    <3>1. UNCHANGED <<dialer, todo, gen, link, orphans, routed>>
      BY <1>3 DEF Session, Join, SendIncPlayer, ForwardPacket, Retire, FreeSlot, Gate, Send,
                  connVars, dialerVars, takerVars
    <3>2. ghost => ghost'
      BY <1>3, Zenon DEF Session, Join, SendIncPlayer, ForwardPacket, Retire, FreeSlot, Gate, Send
    <3> QED BY <3>1, <3>2
  <2>2. Latest' /\ Drained' /\ History'
    BY <1>1, <2>1 DEF Latest, Drained, History
  <2> QED BY <1>1, <1>2, <1>3, <2>2, UpholdsSession, TrackSession DEF Ledger
<1>4. ASSUME NEW d \in Dialers, Dialer(d), (IF Connects THEN T!Accept ELSE UNCHANGED takerVars), Next
      PROVE  Ledger'
  <2>1. Latest' /\ Drained' /\ Unheard' /\ Noted'
    BY <1>1, <1>4, LatestDialer, DrainedDialer, UpholdsDialer
  <2>2. Tracked' /\ History'
    <3>1. CASE \E e \in Dialers : Truncate(e)
      BY <1>1, <1>4, <3>1, OnlyTruncateConnects, TrackAccept
    <3>2. CASE ~ \E e \in Dialers : Truncate(e)
      <4>1. UNCHANGED takerVars
        BY <1>1, <1>4, <3>2, OnlyTruncateConnects
      <4>2. ghost => ghost'
        BY <1>4, <3>2, Zenon DEF Dialer, DialFails, GiveUp, Reset, StoreUp, NewDialGate, NewDialSend,
                  Snapshot, ReplayGate, ReplaySend, OndialDone
      <4>3. History'
        BY <1>1, <4>1, <4>2 DEF History, takerVars
      <4> QED BY <1>1, <1>4, <3>2, <4>1, <4>3, TrackDialer
    <3> QED BY <3>1, <3>2
  <2> QED BY <1>2, <2>1, <2>2 DEF Ledger
<1>5. ASSUME CloseConn \/ CloseDone \/ Break, UNCHANGED takerVars PROVE Ledger'
  <2>1. History'
    BY <1>1, <1>5 DEF CloseConn, CloseDone, Break, History, takerVars
  <2> QED BY <1>1, <1>2, <1>5, <2>1, LatestConn, DrainedConn, UpholdsConn, TrackConn DEF Ledger
<1>6. ASSUME Next, (IF Connects THEN T!Accept ELSE UNCHANGED takerVars) PROVE Ledger'
  <2>1. Connects <=> \E d \in Dialers : Truncate(d)
    BY <1>1, <1>6, OnlyTruncateConnects
  <2>2. CASE Connects
    <3>1. PICK d \in Dialers : Truncate(d)
      BY <2>1, <2>2
    <3> QED BY <1>4, <1>6, <3>1 DEF Dialer
  <2>3. CASE ~Connects
    BY <1>3, <1>4, <1>5, <1>6, <2>3 DEF Next
  <2> QED BY <2>2, <2>3
<1>7. ASSUME T!Next, UNCHANGED forwarderVars PROVE Ledger'
  <2>1. UNCHANGED <<dialer, todo, gen, at, announced, up, isConnDown>>
    BY <1>7 DEF forwarderVars, sessionVars, dialerVars
  <2>2. link' = link \/ (link # "none" /\ link' = "broken")
    BY <1>7 DEF T!Next, T!Eof, T!Handle, T!Unexpected, T!NewDial, T!IncomingPlayer, T!DisconnectedPlayer,
                T!PlayerPacket, T!Reads
  <2>3. Latest' /\ Drained' /\ Unheard'
    BY <1>1, <2>1, <2>2 DEF Latest, Drained, Unheard
  <2>4. Noted'
    BY <1>1, <2>1, <2>2, NotedStays DEF Open, Reading
  <2> QED BY <1>1, <1>2, <1>7, <2>3, <2>4, HistoryTaker, TrackTaker DEF Ledger
<1>8. ASSUME UNCHANGED <<vars, takerVars>> PROVE Ledger'
  <2>1. /\ UNCHANGED <<dialer, todo, gen, at, id, announced, up, link, isConnDown, ghost, queue>>
        /\ UNCHANGED <<alive, table, orphans, routed>>
    BY <1>8 DEF vars, connVars, sessionVars, dialerVars, takerVars
  <2>2. Latest' /\ Drained' /\ Unheard' /\ History'
    BY <1>1, <2>1 DEF Latest, Drained, Unheard, History
  <2>3. Open' = Open /\ \A t \in Sessions : (Present(t)' <=> Present(t)) /\ id'[t] = id[t]
    BY <2>1 DEF Open, Present
  <2>4. Tracked'
    BY <1>1, <2>1, <2>3, TrackStays
  <2>5. Noted'
    BY <1>1, <2>1, <2>3, NotedStays DEF Reading
  <2> QED BY <1>2, <2>2, <2>4, <2>5 DEF Ledger
<1> QED BY <1>6, <1>7, <1>8 DEF LinkNext

LEMMA LedgerHolds == LinkSpec => []Ledger
  BY LedgerInit, LedgerStep, PTL DEF LinkSpec

\* With any number of players and of redials, a player's packet reaches
\* another player's handler only on a connection with a ghost: an announcement
\* of one who had left, or a departure that isConnDown kept back
\* (forwarder.go:98-99, 140-147, playerconn.go:50, taker.go:60-91).
THEOREM StrangersNeedAGhost == LinkSpec => []MisattributionNeedsGhost
<1>1. Ledger => MisattributionNeedsGhost
  BY DEF Ledger, History, MisattributionNeedsGhost
<1> QED BY <1>1, LedgerHolds, PTL

\* Nor is an entry overwritten but by its own player, and by that only when a
\* redialer announced it too (forwarder.go:100, 140-147, taker.go:60-71).
THEOREM OrphansNeedAGhost == LinkSpec => []OrphanNeedsGhost
<1>1. Ledger => OrphanNeedsGhost
  BY DEF Ledger, History, OrphanNeedsGhost
<1> QED BY <1>1, LedgerHolds, PTL

\* However joins, departures and redials interleave, a live player on an open
\* connection has been announced on it, or some ondial has yet to read the
\* table, or read it with the player in it (forwarder.go:98-100, 133-149).
THEOREM RedialForgetsNobody == LinkSpec => []NobodyForgotten
<1>1. Ledger => NobodyForgotten
  BY DEF Ledger, Noted, NobodyForgotten, Reading
<1> QED BY <1>1, LedgerHolds, PTL

\* At rest the two tables agree: every player is known by its own id, and
\* without redialing nobody else is (forwarder.go:168-178, taker.go:60-80).
THEOREM TablesAgree == LinkSpec => []Mirror
<1>1. ASSUME Ledger, Settled
      PROVE  /\ ~ghost => \A s \in Sessions : at[s] = "live" => T!Knows(id[s]) /\ table[id[s]] = s
             /\ ~ShouldRedial => \A i \in DOMAIN table : at[table[i]] = "live"
  <2>1. /\ Open /\ ~isConnDown /\ alive /\ link # "none" /\ queue = <<>>
        /\ \A s \in Sessions : at[s] \in {"new", "live", "gone"}
        /\ \A d \in Dialers : dialer[d] \in {"idle", "finished"}
    BY <1>1 DEF Settled, Open
  <2>2. \A i, s : Believes(table, queue, Len(queue), i, s) <=> Has(table, i, s)
    <3>1. Len(queue) = 0 /\ 1..0 = {}
      BY <2>1
    <3> QED BY <3>1 DEF Believes
  <2>3. ~ghost => KnowsOnly /\ KnowsAll
    BY <1>1, <2>1 DEF Ledger, Tracked
  <2>4. ASSUME ~ghost, NEW s \in Sessions, at[s] = "live"
        PROVE  T!Knows(id[s]) /\ table[id[s]] = s
    <3>1. \A d \in Dialers : ~Reading(d) /\ s \notin ToSet(todo[d])
      BY <1>1, <2>1 DEF Ledger, Drained, Reading, ToSet
    <3>2. s \in announced
      BY <1>1, <2>1, <2>4, <3>1 DEF Ledger, Noted
    <3>3. Believes(table, queue, Len(queue), id[s], s)
      BY <2>1, <2>3, <2>4, <3>2 DEF KnowsAll, Present
    <3> QED BY <2>2, <3>3 DEF Has, T!Knows
  <2>5. ASSUME ~ShouldRedial, NEW i \in DOMAIN table
        PROVE  at[table[i]] = "live"
    <3>1. ~ghost
      BY <1>1, <2>5 DEF Ledger, Single
    <3>2. Believes(table, queue, Len(queue), i, table[i])
      BY <2>2 DEF Has
    <3>3. table[i] \in Sessions /\ Present(table[i])
      BY <2>1, <2>3, <3>1, <3>2 DEF KnowsOnly
    <3> QED BY <2>1, <3>3 DEF Present
  <2> QED BY <2>4, <2>5
<1>2. Ledger => Mirror
  BY <1>1 DEF Mirror
<1> QED BY <1>2, LedgerHolds, PTL
=============================================================================
