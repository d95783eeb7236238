-------------------------- MODULE PlayerCacheProofs ---------------------------
(***************************************************************************)
(* Theorems of modules EvictingMap, PlayerCache and RingCache, for every   *)
(* set of integer keys and every size.                                     *)
(*                                                                         *)
(* The map: TypeOK, SameKeys, Sorted and FirstIsLeast are inductive        *)
(* together; the steps follow from what Tail and InsertAt do to a list.    *)
(*                                                                         *)
(* serverEffects within playerCache: the cache does nothing to its map but *)
(* set, so what holds of the map holds in it, and the ticks add their      *)
(* meaning: what has yet to be applied is not what is evicted, and what is *)
(* held for a tick makes the same of any effects as all that was sent for  *)
(* it (HeldIsSent), so that each tick applies what the server sent.        *)
(*                                                                         *)
(* The ring: the loop of swaps ends, with the key where the list has it    *)
(* (SiftedInserts), so that ring and list go on holding the same keys in   *)
(* the same order (RingOK), and each Set of the ring is one of the list.   *)
(***************************************************************************)
EXTENDS RingCache, TLAPS, SequenceTheorems, WellFoundedInduction

Inv == TypeOK /\ SameKeys /\ Sorted /\ FirstIsLeast

\* InsertAt, element by element.
LEMMA InsertAtProperties ==
  ASSUME NEW S, NEW q \in Seq(S), NEW e \in S, NEW p \in 1..(Len(q) + 1)
  PROVE  /\ InsertAt(q, p, e) \in Seq(S)
         /\ Len(InsertAt(q, p, e)) = Len(q) + 1
         /\ \A i \in 1..(Len(q) + 1) :
              InsertAt(q, p, e)[i] = IF i < p THEN q[i] ELSE IF i = p THEN e ELSE q[i - 1]
<1> DEFINE a == SubSeq(q, 1, p - 1)
           b == SubSeq(q, p, Len(q))
<1>1. Len(q) \in Nat /\ \A i \in 1..Len(q) : q[i] \in S
  BY LenProperties, ElementOfSeq
<1>2. a \in Seq(S) /\ Len(a) = p - 1 /\ \A i \in 1..(p - 1) : a[i] = q[i]
  BY <1>1, SubSeqProperties
<1>3. b \in Seq(S) /\ Len(b) = Len(q) + 1 - p /\ \A i \in 1..(Len(q) + 1 - p) : b[i] = q[p + i - 1]
  BY <1>1, SubSeqProperties
<1>4. <<e>> \in Seq(S) /\ Len(<<e>>) = 1 /\ <<e>>[1] = e
  OBVIOUS
<1> DEFINE c == a \o <<e>>
<1>5. c \in Seq(S) /\ Len(c) = p /\ \A i \in 1..p : c[i] = IF i < p THEN q[i] ELSE e
  BY <1>2, <1>4, ConcatProperties
<1>6. (c \o b) \in Seq(S) /\ Len(c \o b) = Len(q) + 1
      /\ \A i \in 1..(Len(q) + 1) : (c \o b)[i] = IF i <= p THEN c[i] ELSE b[i - p]
  <2>1. Len(c) + Len(b) = Len(q) + 1
    BY <1>1, <1>3, <1>5
  <2> HIDE DEF c, b
  <2> QED
    BY <2>1, <1>3, <1>5, ConcatProperties
<1>7. \A i \in 1..(Len(q) + 1) : (c \o b)[i] = IF i < p THEN q[i] ELSE IF i = p THEN e ELSE q[i - 1]
  <2> HIDE DEF c, b
  <2> QED
    BY <1>1, <1>3, <1>5, <1>6
<1> QED
  BY <1>6, <1>7 DEF InsertAt

\* The list with room for one more: the list, or all of it but the first.
LEMMA RestProperties ==
  ASSUME TypeOK, SameKeys, Sorted
  PROVE  /\ Rest \in Seq(Keys) /\ Len(Rest) \in Nat /\ Len(Rest) < Size
         /\ Len(order) < Size => Rest = order
         /\ Len(order) = Size =>
              \A i, j \in 1..Len(Rest) : i < j => Rest[i] < Rest[j]
         /\ \A i, j \in 1..Len(Rest) : Rest[i] = Rest[j] => i = j
         /\ \A i, j \in 2..Len(Rest) : i < j => Rest[i] < Rest[j]
         /\ Range(Rest) \subseteq Range(order)
<1>1. Len(order) \in Nat /\ DOMAIN order = 1..Len(order) /\ Len(order) <= Size
  BY LenProperties DEF TypeOK, SameKeys
<1>0. Len(order) < Size \/ Len(order) = Size
  <2>1. Len(order) \in Nat /\ Len(order) <= Size /\ Size \in Nat
    BY <1>1, MapAssumption, Zenon
  <2> QED
    BY <2>1
<1>2. \A i, j \in 1..Len(order) : order[i] = order[j] => i = j
  BY <1>1 DEF SameKeys, IsInjective
<1>3. CASE Len(order) < Size
  <2>1. Rest = order /\ ~(Len(order) = Size)
    <3>1. \A a, b \in Nat : a < b => ~(a = b)
      OBVIOUS
    <3>2. Len(order) \in Nat /\ Size \in Nat
      BY <1>1, MapAssumption, Zenon
    <3>3. ~(Len(order) = Size)
      BY <3>1, <3>2, <1>3, Zenon
    <3> QED
      BY <3>3, Zenon DEF Rest
  <2>2. order \in Seq(Keys) /\ \A i, j \in 2..Len(order) : i < j => order[i] < order[j]
    BY DEF TypeOK, Sorted
  <2>3. Len(order) \in Nat /\ Len(order) < Size
    BY <1>1, <1>3
  <2> QED
    BY <2>1, <2>2, <2>3, <1>2, Zenon
<1>4. CASE Len(order) = Size
  <2>1. order # <<>> /\ Len(order) >= 1
    BY <1>1, <1>4, MapAssumption
  <2>2. /\ Rest = Tail(order) /\ Rest \in Seq(Keys) /\ Len(Rest) = Len(order) - 1
        /\ \A i \in 1..Len(Rest) : Rest[i] = order[i + 1]
    BY <1>1, <1>4, <2>1, HeadTailProperties DEF Rest, TypeOK
  <2>3. DOMAIN Rest = 1..Len(Rest)
    BY <2>2, LenProperties
  <2>4. Range(Rest) \subseteq Range(order)
    BY <1>1, <2>1, <2>2, <2>3 DEF Range
  <2>5. \A i, j \in 1..Len(Rest) : i < j => Rest[i] < Rest[j]
    BY <1>1, <2>1, <2>2 DEF Sorted
  <2>6. \A i, j \in 1..Len(Rest) : Rest[i] = Rest[j] => i = j
    BY <1>1, <1>2, <2>1, <2>2
  <2>7. Len(Rest) \in Nat /\ Len(Rest) < Size /\ ~(Len(order) < Size)
    BY <1>1, <1>4, <2>1, <2>2
  <2>8. \A i, j \in 2..Len(Rest) : i < j => Rest[i] < Rest[j]
    BY <2>5, <2>7
  <2> QED
    BY <2>2, <2>4, <2>5, <2>6, <2>7, <2>8, Zenon
<1> QED
  BY <1>0, <1>3, <1>4, Zenon

LEMMA InitInv == Init => Inv
<1> SUFFICES ASSUME Init PROVE Inv
  OBVIOUS
<1>1. order = <<>> /\ late = FALSE /\ DOMAIN store = {}
  BY DEF Init
<1>2. order \in Seq(Keys) /\ Len(order) = 0 /\ DOMAIN order = {}
  BY <1>1
<1>3. TypeOK
  BY <1>1, <1>2 DEF TypeOK
<1>4. Range(order) = {} /\ IsInjective(order)
  BY <1>2 DEF Range, IsInjective
<1>5. SameKeys
  BY <1>1, <1>2, <1>4, MapAssumption DEF SameKeys
<1>6. Sorted /\ FirstIsLeast
  BY <1>2 DEF Sorted, FirstIsLeast
<1> QED
  BY <1>3, <1>5, <1>6 DEF Inv

LEMMA ReplaceInv ==
  ASSUME Inv, NEW k \in Keys, NEW d \in Data, Replace(k, d)
  PROVE  Inv'
  BY DEF Inv, Replace, Holds, TypeOK, SameKeys, Sorted, FirstIsLeast

LEMMA InsertInv ==
  ASSUME Inv, NEW k \in Keys, NEW d \in Data, Insert(k, d)
  PROVE  Inv'
<1> DEFINE q == Rest
           m == Len(q)
<1>1. TypeOK /\ SameKeys /\ Sorted /\ FirstIsLeast
  BY DEF Inv
<1>2. PICK p \in Places(q, k) : order' = InsertAt(q, p, k)
  BY DEF Insert
<1>3. /\ q \in Seq(Keys) /\ m \in Nat /\ m < Size
      /\ Len(order) < Size => q = order
      /\ Len(order) = Size => \A i, j \in 1..m : i < j => q[i] < q[j]
      /\ \A i, j \in 1..m : q[i] = q[j] => i = j
      /\ \A i, j \in 2..m : i < j => q[i] < q[j]
      /\ Range(q) \subseteq Range(order)
  BY <1>1, RestProperties
<1>4. DOMAIN q = 1..m /\ \A i \in 1..m : q[i] \in Keys /\ q[i] \in Int /\ q[i] # k
  <2>1. DOMAIN q = 1..m /\ \A i \in 1..m : q[i] \in Keys
    BY <1>3, LenProperties, ElementOfSeq
  <2>2. k \notin Range(order)
    BY <1>1 DEF Insert, Holds, SameKeys
  <2>3. \A i \in 1..m : q[i] # k
    BY <2>1, <2>2, <1>3 DEF Range
  <2> QED
    BY <2>1, <2>3, MapAssumption
<1>5. p \in 1..(m + 1) /\ (m > 0 => p > 1) /\ k \in Int
  BY <1>2, <1>3, MapAssumption DEF Places
<1>6. /\ order' \in Seq(Keys) /\ Len(order') = m + 1
      /\ \A i \in 1..(m + 1) : order'[i] = IF i < p THEN q[i] ELSE IF i = p THEN k ELSE q[i - 1]
  <2> HIDE DEF q
  <2> QED
    BY <1>2, <1>3, <1>5, InsertAtProperties
<1>7. DOMAIN order' = 1..(m + 1)
  BY <1>6, LenProperties
<1>8. Range(order') = Range(q) \union {k}
  <2> HIDE DEF q
  <2>1. ASSUME NEW i \in 1..(m + 1) PROVE order'[i] \in Range(q) \union {k}
    <3>1. CASE i < p
      <4>1. order'[i] = q[i] /\ i \in DOMAIN q
        BY <1>3, <1>4, <1>5, <1>6, <3>1
      <4> QED
        BY <4>1 DEF Range
    <3>2. CASE i = p
      BY <1>6, <3>2
    <3>3. CASE i > p
      <4>1. order'[i] = q[i - 1] /\ i - 1 \in DOMAIN q
        BY <1>3, <1>4, <1>5, <1>6, <3>3
      <4> QED
        BY <4>1 DEF Range
    <3> QED
      BY <3>1, <3>2, <3>3, <1>5, <1>3
  <2>2. k \in Range(order')
    BY <1>5, <1>6, <1>7 DEF Range
  <2>3. ASSUME NEW i \in 1..m PROVE q[i] \in Range(order')
    <3>1. CASE i < p
      <4>1. order'[i] = q[i] /\ i \in DOMAIN order'
        BY <1>3, <1>6, <1>7, <3>1
      <4> QED
        BY <4>1 DEF Range
    <3>2. CASE i >= p
      <4>1. order'[i + 1] = q[i] /\ i + 1 \in DOMAIN order'
        BY <1>3, <1>5, <1>6, <1>7, <3>2
      <4> QED
        BY <4>1 DEF Range
    <3> QED
      BY <3>1, <3>2, <1>5, <1>3
  <2> QED
    BY <2>1, <2>2, <2>3, <1>4, <1>7 DEF Range
<1>9. TypeOK'
  <2>1. DOMAIN store' = Range(q) \union {k} /\ \A j \in DOMAIN store' : store'[j] = IF j = k THEN d ELSE store[j]
    BY DEF Insert
  <2>2. late' \in BOOLEAN
    BY DEF Insert
  <2>3. Range(order) = DOMAIN store
    BY <1>1 DEF SameKeys
  <2> QED
    BY <1>1, <1>3, <1>6, <2>1, <2>2, <2>3 DEF TypeOK
<1>10. SameKeys'
  <2>1. DOMAIN store' = Range(order')
    BY <1>8 DEF Insert
  <2>2. IsInjective(order')
    <3> HIDE DEF q
    <3>1. \A i, j \in 1..(m + 1) : order'[i] = order'[j] => i = j
      BY <1>3, <1>4, <1>5, <1>6
    <3> QED
      BY <3>1, <1>7 DEF IsInjective
  <2>3. Len(order') <= Size
    BY <1>3, <1>6, MapAssumption
  <2> QED
    BY <2>1, <2>2, <2>3 DEF SameKeys
<1>11. m > 0 => /\ \A i \in p..m : k < q[i]
                /\ \A i \in 2..(p - 1) : q[i] < k
  <2> SUFFICES ASSUME m > 0 PROVE (\A i \in p..m : k < q[i]) /\ (\A i \in 2..(p - 1) : q[i] < k)
    OBVIOUS
  <2>1. q # <<>>
    BY <1>3
  <2>2. (\A i \in p..m : k < q[i]) /\ (p > 2 => q[p - 1] <= k)
    BY <1>2, <2>1 DEF Places
  <2> HIDE DEF q
  <2>3. p > 2 => q[p - 1] < k
    BY <2>2, <1>3, <1>4, <1>5
  <2>4. ASSUME NEW i \in 2..(p - 1) PROVE q[i] < k
    <3>1. CASE i = p - 1
      BY <3>1, <2>3, <1>3, <1>5
    <3>2. CASE i < p - 1
      <4>1. q[i] < q[p - 1] /\ q[i] \in Int /\ q[p - 1] \in Int
        BY <3>2, <1>3, <1>4, <1>5
      <4> QED
        BY <4>1, <3>2, <2>3, <1>5
    <3> QED
      BY <3>1, <3>2, <1>3, <1>5
  <2> QED
    BY <2>2, <2>4
<1>12. Sorted'
  <2> HIDE DEF q
  <2>1. CASE m = 0
    BY <2>1, <1>6 DEF Sorted
  <2>2. CASE m > 0
    <3> SUFFICES ASSUME NEW i \in 2..(m + 1), NEW j \in 2..(m + 1), i < j
                 PROVE  order'[i] < order'[j]
      BY <1>6 DEF Sorted
    <3>1. (\A h \in p..m : k < q[h]) /\ (\A h \in 2..(p - 1) : q[h] < k) /\ p > 1
      BY <2>2, <1>5, <1>11
    <3>2. CASE i < p /\ j < p
      BY <3>2, <1>3, <1>5, <1>6
    <3>3. CASE i < p /\ j = p
      <4>1. i \in 1..(m + 1) /\ j \in 1..(m + 1) /\ i \in 2..(p - 1)
        BY <3>3, <1>3, <1>5
      <4>2. order'[i] = q[i] /\ order'[j] = k
        BY <4>1, <3>3, <1>5, <1>6
      <4> QED
        BY <4>1, <4>2, <3>1
    <3>4. CASE i < p /\ j > p
      <4>1. order'[i] = q[i] /\ order'[j] = q[j - 1] /\ i \in 2..m /\ j - 1 \in 2..m
        BY <3>4, <1>3, <1>5, <1>6
      <4>2. i \in 2..(p - 1) /\ j - 1 \in p..m
        BY <3>4, <1>3, <1>5
      <4>3. q[i] < k /\ k < q[j - 1]
        BY <4>2, <3>1
      <4>4. q[i] \in Int /\ q[j - 1] \in Int /\ k \in Int
        BY <4>1, <1>4, <1>3, <1>5
      <4> QED
        BY <4>1, <4>3, <4>4
    <3>5. CASE i = p
      <4>1. i \in 1..(m + 1) /\ j \in 1..(m + 1) /\ ~(j < p) /\ j # p /\ j - 1 \in p..m
        BY <3>5, <1>3, <1>5
      <4>2. order'[i] = k /\ order'[j] = q[j - 1]
        BY <4>1, <3>5, <1>5, <1>6
      <4> QED
        BY <4>1, <4>2, <3>1
    <3>6. CASE i > p
      <4>0. /\ i \in 1..(m + 1) /\ ~(i < p) /\ i # p
            /\ j \in 1..(m + 1) /\ ~(j < p) /\ j # p
        BY <3>6, <1>3, <1>5
      <4>1. /\ order'[i] = q[i - 1] /\ order'[j] = q[j - 1]
            /\ i - 1 \in 2..m /\ j - 1 \in 2..m /\ i - 1 < j - 1
        <5>1. order'[i] = q[i - 1] /\ order'[j] = q[j - 1]
          BY <4>0, <1>6
        <5> QED
          BY <5>1, <3>1, <3>6, <1>3, <1>5
      <4> QED
        BY <4>1, <1>3
    <3> QED
      BY <3>2, <3>3, <3>4, <3>5, <3>6, <1>5, <1>3
  <2> QED
    BY <2>1, <2>2, <1>3
<1>13. FirstIsLeast'
  <2> SUFFICES ASSUME ~late' PROVE \A i \in 2..Len(order') : order'[1] < order'[i]
    BY DEF FirstIsLeast
  <2>1. CASE m = 0
    BY <2>1, <1>6
  <2>2. CASE m > 0
    <3>1. q # <<>> /\ Head(q) = q[1]
      BY <1>3, <2>2
    <3>2. ~(k < q[1]) /\ (Len(order) < Size => ~late)
      BY <3>1 DEF Insert
    <3>3. \A i \in 2..m : q[1] < q[i]
      <4>1. CASE Len(order) = Size
        BY <4>1, <1>3, <2>2
      <4>2. CASE Len(order) < Size
        <5>1. ~late /\ q = order
          BY <4>2, <3>2, <1>3
        <5> QED
          BY <5>1, <1>1 DEF FirstIsLeast
      <4>3. Len(order) <= Size /\ Len(order) \in Nat
        BY <1>1, LenProperties DEF SameKeys, TypeOK
      <4> QED
        BY <4>1, <4>2, <4>3, MapAssumption
    <3> HIDE DEF q
    <3>4. q[1] < k
      BY <3>2, <1>3, <1>4, <1>5, <2>2
    <3> SUFFICES ASSUME NEW i \in 2..(m + 1) PROVE order'[1] < order'[i]
      BY <1>6
    <3>5. order'[1] = q[1]
      BY <2>2, <1>3, <1>5, <1>6
    <3>6. CASE i < p
      BY <3>3, <3>5, <3>6, <1>3, <1>5, <1>6
    <3>7. CASE i = p
      BY <3>4, <3>5, <3>7, <1>6
    <3>8. CASE i > p
      <4>1. order'[i] = q[i - 1] /\ i - 1 \in 2..m
        BY <3>8, <2>2, <1>3, <1>5, <1>6
      <4> QED
        BY <4>1, <3>3, <3>5
    <3> QED
      BY <3>6, <3>7, <3>8, <1>5, <1>3
  <2> QED
    BY <2>1, <2>2, <1>3
<1> QED
  BY <1>9, <1>10, <1>12, <1>13 DEF Inv

LEMMA StepInv == Inv /\ [Next]_vars => Inv'
<1> SUFFICES ASSUME Inv, [Next]_vars PROVE Inv'
  OBVIOUS
<1>1. ASSUME NEW k \in Keys, NEW d \in Data, Set(k, d) PROVE Inv'
  BY <1>1, ReplaceInv, InsertInv DEF Set
<1>2. CASE UNCHANGED vars
  BY <1>2 DEF vars, Inv, TypeOK, SameKeys, Sorted, FirstIsLeast
<1> QED
  BY <1>1, <1>2 DEF Next

LEMMA Invariance == Spec => []Inv
  BY InitInv, StepInv, PTL DEF Spec

\* unorderedMap and the list hold the same keys, each once, and never more
\* than Size of them: the map neither leaks nor loses a key
\* (ordered_map.go:22-35).
THEOREM MapKeepsItsKeys == Spec => []SameKeys
<1>1. Inv => SameKeys
  BY DEF Inv
<1> QED
  BY <1>1, Invariance, PTL

\* Whatever the order in which ticks arrive, the list is sorted behind its
\* first key (ordered_map.go:36-41).
THEOREM MapStaysSorted == Spec => []Sorted
<1>1. Inv => Sorted
  BY DEF Inv
<1> QED
  BY <1>1, Invariance, PTL

\* The map evicts its least key, unless a lesser one was set while the first
\* was first (ordered_map.go:28-32, 37).
THEOREM MapEvictsTheLeast == Spec => []FirstIsLeast
<1>1. Inv => FirstIsLeast
  BY DEF Inv
<1> QED
  BY <1>1, Invariance, PTL

-----------------------------------------------------------------------------
(* serverEffects.                                                          *)

allVars == <<vars, cacheVars, historyVars>>

\* Every step of the cache is a step of the map or leaves it alone.
LEMMA CacheStepIsMapStep == [CacheNext]_allVars => [Next]_vars
<1>1. ASSUME NEW k \in Keys, NEW d \in Data, HandleMobEffect(k, d) PROVE Next
  BY <1>1 DEF HandleMobEffect, Next
<1>2. (\E tick \in 1..MaxTick : TickTo(tick)) \/ Tick => UNCHANGED vars
  BY DEF TickTo, Tick
<1>3. UNCHANGED allVars => UNCHANGED vars
  BY DEF allVars
<1> QED BY <1>1, <1>2, <1>3 DEF CacheNext

LEMMA CacheKeepsMap == CacheSpec => []Inv
<1>1. CacheInit => Inv
  BY InitInv DEF CacheInit
<1>2. Inv /\ [CacheNext]_allVars => Inv'
  BY StepInv, CacheStepIsMapStep
<1>3. Inv /\ [CacheNext]_<<vars, cacheVars, historyVars>> => Inv'
  BY <1>2 DEF allVars
<1> QED BY <1>1, <1>3, PTL DEF CacheSpec

LEMMA TicksAreNumbers == CacheSpec => [](lastTick \in Nat)
<1>1. CacheInit => lastTick \in Nat
  BY DEF CacheInit
<1>2. lastTick \in Nat /\ [CacheNext]_<<vars, cacheVars, historyVars>> => (lastTick \in Nat)'
  <2>1. ASSUME NEW k \in Keys, NEW d \in Data, HandleMobEffect(k, d) PROVE lastTick' = lastTick
    BY <2>1, Zenon DEF HandleMobEffect, cacheVars
  <2>2. ASSUME NEW tick \in 1..MaxTick, TickTo(tick) PROVE lastTick' = lastTick
    BY <2>2, Zenon DEF TickTo
  <2>3. Tick => lastTick' = lastTick + 1
    BY Zenon DEF Tick
  <2>4. UNCHANGED <<vars, cacheVars, historyVars>> => lastTick' = lastTick
    BY Zenon DEF cacheVars
  <2>5. [CacheNext]_<<vars, cacheVars, historyVars>> => lastTick' = lastTick \/ lastTick' = lastTick + 1
    BY <2>1, <2>2, <2>3, <2>4, Zenon DEF CacheNext
  <2> QED BY <2>5
<1> QED BY <1>1, <1>2, PTL DEF CacheSpec

\* What Set evicts is the first key of a full list.
LEMMA EvictedIsFirst ==
  ASSUME Inv, NEW k \in Keys, NEW d \in Data, Set(k, d), NEW j \in DOMAIN store \ DOMAIN store'
  PROVE  Len(order) > 0 /\ j = order[1]
<1>1. Insert(k, d)
  BY DEF Set, Replace
<1>2. Range(Rest) \subseteq DOMAIN store'
  BY <1>1 DEF Insert
<1>3. PICK i \in 1..Len(order) : j = order[i]
  BY DEF Inv, SameKeys, TypeOK, Range
<1>4. order \in Seq(Keys)
  BY DEF Inv, TypeOK
<1>5. CASE Len(order) # Size
  <2>1. Rest = order
    BY <1>5 DEF Rest
  <2> QED BY <2>1, <1>2, <1>3, <1>4 DEF Range
<1>6. CASE Len(order) = Size
  <2>1. Rest = Tail(order) /\ Len(order) > 0
    BY <1>6, MapAssumption DEF Rest
  <2>2. i # 1 => Tail(order)[i - 1] = j /\ i - 1 \in 1..Len(Tail(order))
    BY <2>1, <1>3, <1>4
  <2>3. i = 1
    BY <2>1, <2>2, <1>2, <1>4 DEF Range
  <2> QED BY <2>1, <2>3, <1>3
<1> QED BY <1>5, <1>6

\* For every size and any order of packets and ticks: what waits for its tick
\* is evicted only when all that is held waits, or after a key less than the
\* first was set while it was first (cache.go:49-66, ordered_map.go:28-41).
THEOREM WaitingEffectsAreKept == CacheSpec => WaitingIsKept
<1>1. ASSUME Inv, lastTick \in Nat, CacheNext, NEW k \in DOMAIN store \ DOMAIN store', Waits(k), ~late
      PROVE  \A j \in DOMAIN store : Waits(j)
  <2>1. PICK t \in Keys, d \in Data : HandleMobEffect(t, d)
    BY <1>1 DEF CacheNext, TickTo, Tick, vars
  <2>2. Len(order) > 0 /\ k = order[1]
    BY <1>1, <2>1, EvictedIsFirst DEF HandleMobEffect
  <2>3. lastTick < order[1]
    BY <1>1, <2>2 DEF Waits
  <2> SUFFICES ASSUME NEW j \in DOMAIN store PROVE Waits(j)
    OBVIOUS
  <2>4. PICK i \in 1..Len(order) : j = order[i]
    BY <1>1 DEF Inv, SameKeys, TypeOK, Range
  <2>5. order[1] \in Int /\ order[i] \in Int
    BY <1>1, <2>2, <2>4, MapAssumption DEF Inv, TypeOK
  <2>6. i = 1 \/ order[1] < order[i]
    BY <1>1 DEF Inv, FirstIsLeast
  <2> QED
    BY <1>1, <2>3, <2>4, <2>5, <2>6 DEF Waits
<1>2. Inv /\ lastTick \in Nat /\ [CacheNext]_<<vars, cacheVars, historyVars>>
        => [ \A k \in DOMAIN store \ DOMAIN store' :
               Waits(k) => late \/ \A j \in DOMAIN store : Waits(j) ]_<<vars, cacheVars, historyVars>>
  BY <1>1
<1> QED BY <1>2, CacheKeepsMap, TicksAreNumbers, PTL DEF CacheSpec, WaitingIsKept

-----------------------------------------------------------------------------
(***************************************************************************)
(* The effects of the player.  Replayed and AfterAll are recursive         *)
(* functions: that there is one, and that its value at a place rests only  *)
(* on what was sent up to it, are proved by induction.                     *)
(***************************************************************************)

\* Induction, with a set in the place of a predicate: the library's minimal
\* element of a set that has one outside of T.
LEMMA NatByNat ==
  ASSUME NEW T, 0 \in T, \A i \in Nat : i \in T => i + 1 \in T
  PROVE  Nat \subseteq T
<1> DEFINE R == OpToRel(<, Nat)
<1> SUFFICES ASSUME Nat \ T # {} PROVE FALSE
  OBVIOUS
<1>1. IsWellFoundedOn(R, Nat)
  BY NatLessThanWellFounded
<1>2. \A k, m \in Nat : k < m => <<k, m>> \in R
  BY DEF OpToRel
<1> HIDE DEF R
<1>3. PICK m \in Nat \ T : \A k \in Nat \ T : ~(<<k, m>> \in R)
  BY <1>1, WFMin
<1>4. m # 0 /\ m - 1 \in Nat /\ m - 1 < m /\ (m - 1) + 1 = m
  BY <1>3
<1>5. m - 1 \in T
  BY <1>2, <1>3, <1>4
<1> QED BY <1>3, <1>4, <1>5

\* The effects after ds up to the ith, when f has those before.
AppliedAt(f, e, s, i) == IF i = 0 THEN e ELSE After(f[i - 1], s[i])

\* f is the effects after each of the first m of s.
AppliesAll(f, e, s, m) == f = [i \in 0..m |-> AppliedAt(f, e, s, i)]

LEMMA Applying ==
  ASSUME NEW m \in Nat, NEW f, NEW e, NEW s, AppliesAll(f, e, s, m)
  PROVE  DOMAIN f = 0..m /\ \A i \in 0..m : f[i] = AppliedAt(f, e, s, i)
BY Zenon DEF AppliesAll

LEMMA AppliedExists ==
  ASSUME NEW e, NEW s, NEW m \in Nat
  PROVE  \E f : AppliesAll(f, e, s, m)
<1> DEFINE T == {i \in Nat : \E f : AppliesAll(f, e, s, i)}
<1>1. 0 \in T
  <2> DEFINE f == [i \in 0..0 |-> e]
  <2>1. \A i \in 0..0 : f[i] = AppliedAt(f, e, s, i)
    BY DEF AppliedAt
  <2>2. f = [i \in 0..0 |-> f[i]]
    OBVIOUS
  <2> HIDE DEF f
  <2>3. f = [i \in 0..0 |-> AppliedAt(f, e, s, i)]
    BY <2>1, <2>2
  <2> QED BY <2>3 DEF AppliesAll
<1>2. ASSUME NEW i \in Nat, i \in T PROVE i + 1 \in T
  <2>1. PICK f : AppliesAll(f, e, s, i)
    BY <1>2
  <2> DEFINE g == [k \in 0..(i + 1) |-> IF k = i + 1 THEN AppliedAt(f, e, s, i + 1) ELSE f[k]]
  <2>2. ASSUME NEW k \in 0..(i + 1) PROVE g[k] = AppliedAt(g, e, s, k)
    <3>1. CASE k = i + 1
      <4>1. k # 0 /\ k - 1 = i /\ i \in 0..(i + 1) /\ i # i + 1
        BY <3>1
      <4>2. g[k - 1] = f[k - 1] /\ g[k] = AppliedAt(f, e, s, k)
        BY <4>1, <3>1
      <4> HIDE DEF g
      <4> QED BY <4>1, <4>2 DEF AppliedAt
    <3>2. CASE k # i + 1
      <4>1. k \in 0..i
        BY <3>2
      <4>2. g[k] = f[k] /\ f[k] = AppliedAt(f, e, s, k)
        BY <4>1, <3>2, <2>1, Applying
      <4>3. k # 0 => g[k - 1] = f[k - 1]
        <5> SUFFICES ASSUME k # 0 PROVE g[k - 1] = f[k - 1]
          OBVIOUS
        <5>1. k - 1 \in 0..(i + 1) /\ k - 1 # i + 1
          BY <4>1
        <5> QED BY <5>1
      <4> HIDE DEF g
      <4> QED BY <4>2, <4>3 DEF AppliedAt
    <3> QED BY <3>1, <3>2
  <2>3. g = [k \in 0..(i + 1) |-> g[k]]
    OBVIOUS
  <2> HIDE DEF g
  <2>4. g = [k \in 0..(i + 1) |-> AppliedAt(g, e, s, k)]
    BY <2>2, <2>3
  <2> QED BY <2>4 DEF AppliesAll
<1> HIDE DEF T
<1>3. m \in T
  BY <1>1, <1>2, NatByNat
<1> QED BY <1>3 DEF T

LEMMA AppliedAgree ==
  ASSUME NEW l \in Nat, NEW m \in Nat, NEW k \in Nat, l <= m, l <= k,
         NEW f, NEW g, NEW e, NEW s, NEW u, AppliesAll(f, e, s, m), AppliesAll(g, e, u, k),
         \A j \in 1..l : s[j] = u[j]
  PROVE  f[l] = g[l]
<1> DEFINE T == {i \in Nat : i <= l => f[i] = g[i]}
<1>0. /\ \A i \in 0..m : f[i] = AppliedAt(f, e, s, i)
      /\ \A i \in 0..k : g[i] = AppliedAt(g, e, u, i)
  BY Applying
<1>1. 0 \in T
  <2>1. 0 \in 0..m /\ 0 \in 0..k
    OBVIOUS
  <2> QED BY <1>0, <2>1 DEF AppliedAt
<1>2. ASSUME NEW i \in Nat, i \in T PROVE i + 1 \in T
  <2> SUFFICES ASSUME i + 1 <= l PROVE f[i + 1] = g[i + 1]
    OBVIOUS
  <2>1. /\ i + 1 \in 0..m /\ i + 1 \in 0..k /\ i + 1 \in 1..l
        /\ i + 1 # 0 /\ (i + 1) - 1 = i /\ i <= l
    OBVIOUS
  <2>2. f[i] = g[i]
    BY <1>2, <2>1
  <2> HIDE DEF T
  <2>3. f[i + 1] = AppliedAt(f, e, s, i + 1) /\ g[i + 1] = AppliedAt(g, e, u, i + 1)
    BY <1>0, <2>1
  <2>4. AppliedAt(f, e, s, i + 1) = AppliedAt(g, e, u, i + 1)
    BY <2>1, <2>2 DEF AppliedAt
  <2> QED BY <2>3, <2>4
<1> HIDE DEF T
<1>3. l \in T
  BY <1>1, <1>2, NatByNat
<1> QED BY <1>3 DEF T

LEMMA AfterAllApplies ==
  ASSUME NEW e, NEW s, Len(s) \in Nat
  PROVE  \E f : AppliesAll(f, e, s, Len(s)) /\ AfterAll(e, s) = f[Len(s)]
<1> DEFINE f == CHOOSE x : AppliesAll(x, e, s, Len(s))
<1>1. AfterAll(e, s) = f[Len(s)]
  BY DEF AfterAll, AppliesAll, AppliedAt
<1>2. AppliesAll(f, e, s, Len(s))
  BY AppliedExists
<1> QED BY <1>1, <1>2

\* Nothing sent, nothing changed.
LEMMA AfterNone == ASSUME NEW e PROVE AfterAll(e, <<>>) = e
<1>1. Len(<<>>) = 0 /\ 0 \in 0..0 /\ 0 \in Nat
  OBVIOUS
<1>2. PICK f : AppliesAll(f, e, <<>>, 0) /\ AfterAll(e, <<>>) = f[0]
  BY <1>1, AfterAllApplies
<1>3. f[0] = AppliedAt(f, e, <<>>, 0)
  BY <1>1, <1>2, Applying
<1> QED BY <1>2, <1>3 DEF AppliedAt

\* What is sent last is applied last.
LEMMA AfterAppend ==
  ASSUME NEW e, NEW s \in Seq(Data), NEW d \in Data
  PROVE  AfterAll(e, Append(s, d)) = After(AfterAll(e, s), d)
<1> DEFINE t == Append(s, d)
           l == Len(s)
<1>1. l \in Nat /\ Len(t) = l + 1 /\ t[l + 1] = d /\ \A j \in 1..l : s[j] = t[j]
  BY LenProperties, AppendProperties
<1> HIDE DEF t, l
<1>2. PICK f : AppliesAll(f, e, s, l) /\ AfterAll(e, s) = f[l]
  BY <1>1, AfterAllApplies DEF l
<1>3. l + 1 \in Nat /\ l <= l + 1 /\ l <= l /\ l + 1 \in 0..(l + 1) /\ l + 1 # 0 /\ (l + 1) - 1 = l
  BY <1>1
<1>4. PICK g : AppliesAll(g, e, t, l + 1) /\ AfterAll(e, t) = g[l + 1]
  BY <1>1, <1>3, AfterAllApplies
<1>5. f[l] = g[l]
  BY <1>1, <1>2, <1>3, <1>4, AppliedAgree
<1>6. g[l + 1] = AppliedAt(g, e, t, l + 1)
  BY <1>3, <1>4, Applying
<1>7. g[l + 1] = After(g[l], d)
  BY <1>1, <1>3, <1>6 DEF AppliedAt
<1> QED BY <1>2, <1>4, <1>5, <1>7 DEF t

-----------------------------------------------------------------------------
\* An effect entered, and one taken away.
Put(e, t, v) == [u \in DOMAIN e \union {t} |-> IF u = t THEN v ELSE e[u]]
Drop(e, t) == [u \in DOMAIN e \ {t} |-> e[u]]

LEMMA AfterCases ==
  ASSUME NEW e, NEW d \in Data
  PROVE  /\ d.op \in {"add", "modify", "remove"}
         /\ d.op = "add" => After(e, d) = Put(e, d.type, d.level)
         /\ d.op = "modify" /\ d.type \in DOMAIN e => After(e, d) = Put(e, d.type, d.level)
         /\ d.op = "modify" /\ d.type \notin DOMAIN e => After(e, d) = e
         /\ d.op = "remove" => After(e, d) = Drop(e, d.type)
<1>1. d.op \in {"add", "modify", "remove"}
  BY CacheAssumption DEF EffectData
<1>2. "add" # "remove" /\ "modify" # "remove" /\ "add" # "modify"
  OBVIOUS
<1>3. CASE d.op = "add"
  BY <1>2, <1>3, Zenon DEF After, Put
<1>4. CASE d.op = "modify" /\ d.type \in DOMAIN e
  BY <1>2, <1>4, Zenon DEF After, Put
<1>5. CASE d.op = "modify" /\ d.type \notin DOMAIN e
  BY <1>2, <1>5, Zenon DEF After
<1>6. CASE d.op = "remove"
  BY <1>2, <1>6, Zenon DEF After, Drop
<1> QED BY <1>1, <1>2, <1>3, <1>4, <1>5, <1>6

\* What is sent changes its own effect only.
LEMMA OthersStay ==
  ASSUME NEW e, NEW c \in Data
  PROVE  /\ DOMAIN After(e, c) \union {c.type} = DOMAIN e \union {c.type}
         /\ DOMAIN After(e, c) \ {c.type} = DOMAIN e \ {c.type}
         /\ \A u \in DOMAIN e \ {c.type} : After(e, c)[u] = e[u]
<1>1. /\ DOMAIN Put(e, c.type, c.level) = DOMAIN e \union {c.type}
      /\ \A u \in DOMAIN e \ {c.type} : Put(e, c.type, c.level)[u] = e[u]
  BY DEF Put
<1>2. /\ DOMAIN Drop(e, c.type) = DOMAIN e \ {c.type}
      /\ \A u \in DOMAIN e \ {c.type} : Drop(e, c.type)[u] = e[u]
  BY DEF Drop
<1>3. After(e, c) \in {Put(e, c.type, c.level), Drop(e, c.type), e}
  BY AfterCases
<1> QED BY <1>1, <1>2, <1>3

\* What is replaced by one that supersedes it is of no account.
LEMMA SupersededIsLost ==
  ASSUME NEW e, NEW c \in Data, NEW d \in Data, Supersedes(d, c)
  PROVE  After(After(e, c), d) = After(e, d)
<1> DEFINE x == After(e, c)
<1>1. /\ DOMAIN x \union {d.type} = DOMAIN e \union {d.type}
      /\ DOMAIN x \ {d.type} = DOMAIN e \ {d.type}
      /\ \A u \in DOMAIN e \ {d.type} : x[u] = e[u]
      /\ d.type = c.type /\ (d.op = "modify" => c.op = "modify")
  BY OthersStay DEF Supersedes
<1>2. c.op = "modify" => \/ d.type \in DOMAIN e /\ d.type \in DOMAIN x
                         \/ d.type \notin DOMAIN e /\ x = e
  <2>1. ASSUME c.op = "modify", c.type \in DOMAIN e PROVE c.type \in DOMAIN x
    BY <2>1, AfterCases DEF Put
  <2>2. ASSUME c.op = "modify", c.type \notin DOMAIN e PROVE x = e
    BY <2>2, AfterCases
  <2> QED BY <1>1, <2>1, <2>2
<1> HIDE DEF x
<1>3. Put(x, d.type, d.level) = Put(e, d.type, d.level)
  <2>1. \A u \in DOMAIN e \union {d.type} :
          (IF u = d.type THEN d.level ELSE x[u]) = (IF u = d.type THEN d.level ELSE e[u])
    BY <1>1
  <2> QED BY <1>1, <2>1 DEF Put
<1>4. Drop(x, d.type) = Drop(e, d.type)
  BY <1>1 DEF Drop
<1>5. /\ d.op \in {"add", "modify", "remove"}
      /\ d.op = "add" => After(x, d) = Put(x, d.type, d.level) /\ After(e, d) = Put(e, d.type, d.level)
      /\ d.op = "remove" => After(x, d) = Drop(x, d.type) /\ After(e, d) = Drop(e, d.type)
  BY AfterCases
<1>6. CASE d.op = "modify"
  <2>1. CASE d.type \in DOMAIN e /\ d.type \in DOMAIN x
    BY <1>3, <1>6, <2>1, AfterCases DEF x
  <2>2. CASE d.type \notin DOMAIN e /\ x = e
    BY <2>2 DEF x
  <2> QED BY <1>1, <1>2, <1>6, <2>1, <2>2
<1> QED BY <1>3, <1>4, <1>5, <1>6 DEF x

-----------------------------------------------------------------------------
\* The effects after tick i of what s sends, when f has those up to i - 1.
EffectsAt(f, s, i) == IF i = 0 THEN NoEffects ELSE AfterAll(f[i - 1], s[i])

\* f is the effects of what s sends, tick by tick up to m.
Replays(f, s, m) == f = [i \in 0..m |-> EffectsAt(f, s, i)]

LEMMA Replaying ==
  ASSUME NEW m \in Nat, NEW f, NEW s, Replays(f, s, m)
  PROVE  DOMAIN f = 0..m /\ \A i \in 0..m : f[i] = EffectsAt(f, s, i)
BY Zenon DEF Replays

LEMMA ReplayExists ==
  ASSUME NEW s, NEW m \in Nat
  PROVE  \E f : Replays(f, s, m)
<1> DEFINE T == {i \in Nat : \E f : Replays(f, s, i)}
<1>1. 0 \in T
  <2> DEFINE f == [i \in 0..0 |-> NoEffects]
  <2>1. \A i \in 0..0 : f[i] = EffectsAt(f, s, i)
    BY DEF EffectsAt
  <2>2. f = [i \in 0..0 |-> f[i]]
    OBVIOUS
  <2> HIDE DEF f
  <2>3. f = [i \in 0..0 |-> EffectsAt(f, s, i)]
    BY <2>1, <2>2
  <2> QED BY <2>3 DEF Replays
<1>2. ASSUME NEW i \in Nat, i \in T PROVE i + 1 \in T
  <2>1. PICK f : Replays(f, s, i)
    BY <1>2
  <2> DEFINE g == [k \in 0..(i + 1) |-> IF k = i + 1 THEN EffectsAt(f, s, i + 1) ELSE f[k]]
  <2>2. ASSUME NEW k \in 0..(i + 1) PROVE g[k] = EffectsAt(g, s, k)
    <3>1. CASE k = i + 1
      <4>1. k # 0 /\ k - 1 = i /\ i \in 0..(i + 1) /\ i # i + 1
        BY <3>1
      <4>2. g[k - 1] = f[k - 1] /\ g[k] = EffectsAt(f, s, k)
        BY <4>1, <3>1
      <4> HIDE DEF g
      <4> QED BY <4>1, <4>2 DEF EffectsAt
    <3>2. CASE k # i + 1
      <4>1. k \in 0..i
        BY <3>2
      <4>2. g[k] = f[k] /\ f[k] = EffectsAt(f, s, k)
        BY <4>1, <3>2, <2>1, Replaying
      <4>3. k # 0 => g[k - 1] = f[k - 1]
        <5> SUFFICES ASSUME k # 0 PROVE g[k - 1] = f[k - 1]
          OBVIOUS
        <5>1. k - 1 \in 0..(i + 1) /\ k - 1 # i + 1
          BY <4>1
        <5> QED BY <5>1
      <4> HIDE DEF g
      <4> QED BY <4>2, <4>3 DEF EffectsAt
    <3> QED BY <3>1, <3>2
  <2>3. g = [k \in 0..(i + 1) |-> g[k]]
    OBVIOUS
  <2> HIDE DEF g
  <2>4. g = [k \in 0..(i + 1) |-> EffectsAt(g, s, k)]
    BY <2>2, <2>3
  <2> QED BY <2>4 DEF Replays
<1> HIDE DEF T
<1>3. m \in T
  BY <1>1, <1>2, NatByNat
<1> QED BY <1>3 DEF T

\* What is sent after tick l says nothing of the effects up to l.
LEMMA ReplaysAgree ==
  ASSUME NEW m \in Nat, NEW l \in 0..m, NEW f, NEW g, NEW s, NEW u,
         Replays(f, s, m), Replays(g, u, m),
         \A k \in 1..l : s[k] = u[k]
  PROVE  f[l] = g[l]
<1> DEFINE T == {i \in Nat : i <= l => f[i] = g[i]}
<1>0. /\ \A i \in 0..m : f[i] = EffectsAt(f, s, i)
      /\ \A i \in 0..m : g[i] = EffectsAt(g, u, i)
  BY Replaying
<1>1. 0 \in T
  <2>1. 0 \in 0..m
    OBVIOUS
  <2> QED BY <1>0, <2>1 DEF EffectsAt
<1>2. ASSUME NEW i \in Nat, i \in T PROVE i + 1 \in T
  <2> SUFFICES ASSUME i + 1 <= l PROVE f[i + 1] = g[i + 1]
    OBVIOUS
  <2>1. i + 1 \in 0..m /\ i + 1 \in 1..l /\ i + 1 # 0 /\ (i + 1) - 1 = i /\ i <= l
    OBVIOUS
  <2>2. f[i] = g[i]
    BY <1>2, <2>1
  <2> HIDE DEF T
  <2>3. f[i + 1] = EffectsAt(f, s, i + 1) /\ g[i + 1] = EffectsAt(g, u, i + 1)
    BY <1>0, <2>1
  <2>4. EffectsAt(f, s, i + 1) = EffectsAt(g, u, i + 1)
    BY <2>1, <2>2 DEF EffectsAt
  <2> QED BY <2>3, <2>4
<1> HIDE DEF T
<1>3. l \in T
  BY <1>1, <1>2, NatByNat
<1> QED BY <1>3 DEF T

LEMMA ReplayedReplays == Replays(Replayed, sent, MaxTick)
<1>1. MaxTick \in Nat
  BY CacheAssumption
<1>2. Replayed = CHOOSE f : Replays(f, sent, MaxTick)
  BY DEF Replayed, Replays, EffectsAt
<1> QED BY <1>1, <1>2, ReplayExists

LEMMA ReplayedReplaysNext == Replays(Replayed', sent', MaxTick)
<1>1. MaxTick \in Nat
  BY CacheAssumption
<1>2. Replayed' = CHOOSE f : Replays(f, sent', MaxTick)
  BY DEF Replayed, Replays, EffectsAt
<1> QED BY <1>1, <1>2, ReplayExists

-----------------------------------------------------------------------------
\* The ticks are in bounds.
TicksOK == /\ lastTick \in Nat /\ to \in Nat /\ lastTick <= to /\ to <= MaxTick
           /\ sent \in [Keys -> Seq(Data)]

\* What is held for tick k makes of the effects.
Held(e, k) == IF k \in DOMAIN store THEN After(e, store[k]) ELSE e

\* Unless something is lost: what is held for a tick to come makes the same of
\* any effects as all that was sent for it.
HeldIsSent ==
  ~missed => \A k \in Keys : Waits(k) => \A e : AfterAll(e, sent[k]) = Held(e, k)

Following == TicksOK /\ HeldIsSent /\ EffectsFollow

LEMMA InitFollowing == CacheInit => Following
<1> SUFFICES ASSUME CacheInit PROVE Following
  OBVIOUS
<1>1. /\ lastTick = 0 /\ to = 0 /\ lastTickEffects = NoEffects /\ DOMAIN store = {}
      /\ sent = [j \in Keys |-> <<>>]
  BY DEF CacheInit, Init
<1>2. TicksOK
  <2>1. <<>> \in Seq(Data)
    OBVIOUS
  <2> QED BY <1>1, <2>1, CacheAssumption DEF TicksOK
<1>3. HeldIsSent
  <2>1. ASSUME NEW k \in Keys, NEW e PROVE AfterAll(e, sent[k]) = Held(e, k)
    <3>1. sent[k] = <<>> /\ Held(e, k) = e
      BY <1>1 DEF Held
    <3> QED BY <3>1, AfterNone
  <2> QED BY <2>1 DEF HeldIsSent
<1>4. Replayed[0] = NoEffects
  <2>1. MaxTick \in Nat /\ 0 \in 0..MaxTick
    BY CacheAssumption
  <2>2. Replayed[0] = EffectsAt(Replayed, sent, 0)
    BY <2>1, ReplayedReplays, Replaying
  <2> QED BY <2>2 DEF EffectsAt
<1> QED BY <1>1, <1>2, <1>3, <1>4 DEF Following, EffectsFollow

\* What Set does to what is held.
LEMMA SetKeeps ==
  ASSUME Inv, NEW k \in Keys, NEW d \in Data, Set(k, d)
  PROVE  /\ k \in DOMAIN store' /\ store'[k] = d
         /\ \A j \in DOMAIN store' : j # k => j \in DOMAIN store /\ store'[j] = store[j]
<1>1. CASE Replace(k, d)
  BY <1>1 DEF Replace, Holds
<1>2. CASE Insert(k, d)
  <2>1. DOMAIN store' = Range(Rest) \union {k}
        /\ \A j \in DOMAIN store' : store'[j] = IF j = k THEN d ELSE store[j]
    BY <1>2 DEF Insert
  <2>2. Range(Rest) \subseteq DOMAIN store
    BY RestProperties DEF Inv, SameKeys
  <2> QED BY <2>1, <2>2
<1> QED BY <1>1, <1>2 DEF Set

LEMMA HandleFollowing ==
  ASSUME Inv, Following, NEW k \in Keys, NEW d \in Data, HandleMobEffect(k, d)
  PROVE  Following'
<1>1. /\ Set(k, d)
      /\ sent' = IF missed' THEN [j \in Keys |-> <<>>] ELSE [sent EXCEPT ![k] = Append(@, d)]
      /\ lastTick' = lastTick /\ to' = to /\ lastTickEffects' = lastTickEffects
  BY Zenon DEF HandleMobEffect, cacheVars
<1>2. ~missed' => /\ ~missed /\ Waits(k)
                  /\ \A j \in DOMAIN store : Waits(j) => j \in DOMAIN store'
                  /\ k \in DOMAIN store => Supersedes(d, store[k])
  BY Zenon DEF HandleMobEffect, Loses, Holds
<1>3. /\ k \in DOMAIN store' /\ store'[k] = d
      /\ \A j \in DOMAIN store' : j # k => j \in DOMAIN store /\ store'[j] = store[j]
  BY <1>1, SetKeeps
<1>4. TicksOK'
  <2>1. sent \in [Keys -> Seq(Data)]
    BY DEF Following, TicksOK
  <2>2. Append(sent[k], d) \in Seq(Data) /\ <<>> \in Seq(Data)
    BY <2>1
  <2>3. sent' \in [Keys -> Seq(Data)]
    BY <1>1, <2>1, <2>2
  <2> QED BY <1>1, <2>3 DEF Following, TicksOK
<1>5. \A j : Waits(j)' <=> Waits(j)
  BY <1>1 DEF Waits
<1>6. ~missed' => \A j \in Keys : sent'[j] = IF j = k THEN Append(sent[k], d) ELSE sent[j]
  BY <1>1 DEF Following, TicksOK
<1>7. HeldIsSent'
  <2> SUFFICES ASSUME ~missed', NEW j \in Keys, Waits(j), NEW e
               PROVE  AfterAll(e, sent'[j]) = Held(e, j)'
    BY <1>5 DEF HeldIsSent
  <2>1. AfterAll(e, sent[j]) = Held(e, j) /\ Waits(k) /\ sent[k] \in Seq(Data)
    BY <1>2 DEF Following, HeldIsSent, TicksOK
  <2>2. CASE j = k
    <3>1. AfterAll(e, sent'[j]) = After(Held(e, k), d)
      BY <1>6, <2>1, <2>2, AfterAppend
    <3>2. Held(e, j)' = After(e, d)
      BY <1>3, <2>2 DEF Held
    <3>3. CASE k \in DOMAIN store
      <4>1. Held(e, k) = After(e, store[k]) /\ Supersedes(d, store[k]) /\ store[k] \in Data
        BY <1>2, <3>3 DEF Held, Inv, TypeOK
      <4> QED BY <3>1, <3>2, <4>1, SupersededIsLost
    <3>4. CASE k \notin DOMAIN store
      BY <3>1, <3>2, <3>4 DEF Held
    <3> QED BY <3>3, <3>4
  <2>3. CASE j # k
    <3>1. (j \in DOMAIN store' <=> j \in DOMAIN store) /\ (j \in DOMAIN store => store'[j] = store[j])
      BY <1>2, <1>3, <2>3
    <3>2. Held(e, j)' = Held(e, j)
      BY <3>1 DEF Held
    <3> QED BY <1>6, <2>1, <2>3, <3>2
  <2> QED BY <2>2, <2>3
<1>8. EffectsFollow'
  <2> SUFFICES ASSUME ~missed' PROVE lastTickEffects' = Replayed'[lastTick']
    BY DEF EffectsFollow
  <2>1. lastTickEffects = Replayed[lastTick] /\ k > lastTick
    BY <1>2 DEF Following, EffectsFollow, Waits
  <2>2. MaxTick \in Nat /\ lastTick \in 0..MaxTick /\ Keys = 0..MaxTick
    BY CacheAssumption DEF Following, TicksOK
  <2>3. \A j \in 1..lastTick : j # k /\ j \in Keys
    BY <2>1, <2>2
  <2>4. \A j \in 1..lastTick : sent[j] = sent'[j]
    BY <1>6, <2>3
  <2>5. Replayed[lastTick] = Replayed'[lastTick]
    BY <2>2, <2>4, ReplayedReplays, ReplayedReplaysNext, ReplaysAgree
  <2> QED BY <2>1, <2>5, <1>1
<1> QED BY <1>4, <1>7, <1>8 DEF Following

LEMMA TickFollowing ==
  ASSUME Following, Tick
  PROVE  Following'
<1> DEFINE k == lastTick + 1
<1>1. /\ lastTick < to /\ lastTick' = k /\ to' = to
      /\ lastTickEffects' = Held(lastTickEffects, k)
  BY DEF Tick, Applies, Holds, Held
<1>2. sent' = sent /\ missed' = missed /\ store' = store
  BY DEF Tick, vars, historyVars
<1>3. TicksOK'
  BY <1>1, <1>2 DEF Following, TicksOK
<1>4. \A j \in Keys : Waits(j)' => Waits(j)
  <2>1. lastTick \in Nat /\ Keys \subseteq 0..MaxTick /\ MaxTick \in Nat
    BY CacheAssumption DEF Following, TicksOK
  <2> QED BY <2>1, <1>1 DEF Waits
<1>5. HeldIsSent'
  BY <1>2, <1>4 DEF Following, HeldIsSent, Held
<1>6. EffectsFollow'
  <2> SUFFICES ASSUME ~missed PROVE lastTickEffects' = Replayed'[lastTick']
    BY <1>2 DEF EffectsFollow
  <2>1. /\ MaxTick \in Nat /\ k \in 0..MaxTick /\ k # 0 /\ k - 1 = lastTick /\ k > lastTick
        /\ lastTick \in 0..MaxTick /\ k \in Keys
    BY <1>1, CacheAssumption DEF Following, TicksOK
  <2>2. \A j \in 1..k : sent[j] = sent'[j]
    BY <1>2
  <2>3. lastTickEffects = Replayed[lastTick]
    BY DEF Following, EffectsFollow
  <2>4. AfterAll(lastTickEffects, sent[k]) = Held(lastTickEffects, k)
    BY <2>1 DEF Following, HeldIsSent, Waits
  <2> HIDE DEF k
  <2>5. Replayed[k] = Replayed'[k]
    BY <2>1, <2>2, ReplayedReplays, ReplayedReplaysNext, ReplaysAgree
  <2>6. Replayed[k] = AfterAll(Replayed[lastTick], sent[k])
    <3>1. Replayed[k] = EffectsAt(Replayed, sent, k)
      BY <2>1, ReplayedReplays, Replaying
    <3> QED BY <3>1, <2>1 DEF EffectsAt
  <2>7. lastTickEffects' = Replayed[k]
    BY <2>3, <2>4, <2>6, <1>1
  <2> QED BY <2>5, <2>7, <1>1
<1> QED BY <1>3, <1>5, <1>6 DEF Following

LEMMA TickToFollowing ==
  ASSUME Following, NEW tick \in 1..MaxTick, TickTo(tick)
  PROVE  Following'
<1>1. /\ lastTick' = lastTick /\ to' = tick /\ tick > lastTick /\ lastTickEffects' = lastTickEffects
      /\ sent' = sent /\ missed' = missed /\ store' = store
  BY DEF TickTo, vars, historyVars
<1>2. tick \in Nat /\ tick <= MaxTick
  BY CacheAssumption
<1>3. TicksOK'
  BY <1>1, <1>2 DEF Following, TicksOK
<1>4. HeldIsSent'
  BY <1>1 DEF Following, HeldIsSent, Held, Waits
<1>5. EffectsFollow'
  BY <1>1 DEF Following, EffectsFollow, Replayed
<1> QED BY <1>3, <1>4, <1>5 DEF Following

LEMMA StutterFollowing ==
  ASSUME Following, UNCHANGED <<vars, cacheVars, historyVars>>
  PROVE  Following'
<1>1. /\ lastTick' = lastTick /\ to' = to /\ lastTickEffects' = lastTickEffects
      /\ sent' = sent /\ missed' = missed /\ store' = store
  BY DEF vars, cacheVars, historyVars
<1>2. TicksOK' /\ HeldIsSent'
  BY <1>1 DEF Following, TicksOK, HeldIsSent, Held, Waits
<1>3. EffectsFollow'
  BY <1>1 DEF Following, EffectsFollow, Replayed
<1> QED BY <1>2, <1>3 DEF Following

\* For every number of ticks, every size of the map and every order of packets
\* and ticks: the effects of the player are those the server has sent, in the
\* order of their ticks and of the packets for one tick, unless one came after
\* its tick, was evicted before it, or was replaced for its tick by one that
\* does not make up for it (cache.go:49-87, ordered_map.go:23-32).
THEOREM EffectsFollowTheServer == CacheSpec => []EffectsFollow
<1>1. Inv /\ Following /\ [CacheNext]_<<vars, cacheVars, historyVars>> => Following'
  BY HandleFollowing, TickFollowing, TickToFollowing, StutterFollowing DEF CacheNext
<1>2. Following => EffectsFollow
  BY DEF Following
<1> QED BY InitFollowing, <1>1, <1>2, CacheKeepsMap, PTL DEF CacheSpec

-----------------------------------------------------------------------------
(***************************************************************************)
(* The ring.  Slot j of the ring, from the first, is where the list has its*)
(* jth key.                                                                *)
(***************************************************************************)
Slot(first, j) == (first + j - 1) % Size

\* A remainder is what is less than the divisor.
LEMMA Remainder ==
  ASSUME NEW m \in Nat \ {0}, NEW y \in Int, NEW r \in 0..(m - 1)
  PROVE  (m * y + r) % m = r
<1> DEFINE x == m * y + r
           q == x \div m
           e == x % m
<1>1. x \in Int /\ q \in Int /\ e \in 0..(m - 1) /\ x = m * q + e
  OBVIOUS
<1>2. m * y + r = m * q + e /\ r \in Int /\ e \in Int
  BY <1>1
<1> HIDE DEF q, e
<1>3. m * (y - q) = m * y - m * q
  BY <1>1
<1>4. m * (y - q) = e - r
  BY <1>1, <1>2, <1>3
<1>5. \A d \in Int : m * d < m /\ -m < m * d => d = 0
  OBVIOUS
<1>6. y = q
  BY <1>1, <1>4, <1>5
<1> QED BY <1>2, <1>6, <1>1 DEF e

\* The slot before, as the loop computes it twice.
LEMMA Before ==
  ASSUME NEW x \in Nat
  PROVE  /\ x % Size \in 0..(Size - 1)
         /\ (x - 1) % Size = IF x % Size = 0 THEN Size - 1 ELSE (x % Size) - 1
         /\ (x + Size - 1) % Size = (x - 1) % Size
<1> DEFINE y == x \div Size
           r == x % Size
<1>1. Size \in Nat \ {0}
  BY MapAssumption
<1>2. x = Size * y + r /\ y \in Int /\ r \in 0..(Size - 1)
  BY <1>1
<1> HIDE DEF y
<1>3. CASE r = 0
  <2>1. x - 1 = Size * (y - 1) + (Size - 1) /\ x + Size - 1 = Size * y + (Size - 1)
    BY <1>1, <1>2, <1>3
  <2>2. y - 1 \in Int /\ Size - 1 \in 0..(Size - 1)
    BY <1>1, <1>2
  <2>3. (x - 1) % Size = Size - 1 /\ (x + Size - 1) % Size = Size - 1
    BY <1>1, <1>2, <2>1, <2>2, Remainder
  <2> QED BY <1>2, <1>3, <2>3
<1>4. CASE r # 0
  <2> HIDE DEF r
  <2>1. x - 1 = Size * y + (r - 1) /\ x + Size - 1 = Size * (y + 1) + (r - 1)
    BY <1>1, <1>2, <1>4
  <2>2. y + 1 \in Int /\ r - 1 \in 0..(Size - 1)
    BY <1>1, <1>2, <1>4
  <2>3. (x - 1) % Size = r - 1 /\ (x + Size - 1) % Size = r - 1
    BY <1>1, <1>2, <2>1, <2>2, Remainder
  <2> QED BY <1>2, <1>4, <2>3 DEF r
<1> QED BY <1>3, <1>4

LEMMA Slots ==
  ASSUME NEW first \in 0..(Size - 1)
  PROVE  /\ \A j \in 1..Size : Slot(first, j) = IF first + j - 1 < Size THEN first + j - 1 ELSE first + j - 1 - Size
         /\ \A j \in 1..Size : Slot(first, j) \in 0..(Size - 1)
         /\ \A i, j \in 1..Size : Slot(first, i) = Slot(first, j) => i = j
         /\ Slot(first, 1) = first
<1>1. Size \in Nat \ {0}
  BY MapAssumption
<1>2. ASSUME NEW j \in 1..Size
      PROVE  Slot(first, j) = IF first + j - 1 < Size THEN first + j - 1 ELSE first + j - 1 - Size
  <2>1. CASE first + j - 1 < Size
    <3>1. first + j - 1 = Size * 0 + (first + j - 1) /\ first + j - 1 \in 0..(Size - 1)
      BY <1>1, <2>1
    <3> QED BY <1>1, <2>1, <3>1, Remainder DEF Slot
  <2>2. CASE ~(first + j - 1 < Size)
    <3>1. first + j - 1 = Size * 1 + (first + j - 1 - Size) /\ first + j - 1 - Size \in 0..(Size - 1)
      BY <1>1, <2>2
    <3>2. (Size * 1 + (first + j - 1 - Size)) % Size = first + j - 1 - Size
      BY <1>1, <3>1, Remainder
    <3> QED BY <1>1, <2>2, <3>1, <3>2 DEF Slot
  <2> QED BY <2>1, <2>2
<1>3. /\ \A j \in 1..Size : Slot(first, j) \in 0..(Size - 1)
      /\ \A i, j \in 1..Size : Slot(first, i) = Slot(first, j) => i = j
  BY <1>1, <1>2
<1>4. Slot(first, 1) = first
  BY <1>1, <1>2
<1> QED BY <1>2, <1>3, <1>4

LEMMA SlotBefore ==
  ASSUME NEW first \in 0..(Size - 1), NEW p \in 2..Size, NEW x \in Nat, x % Size = Slot(first, p)
  PROVE  (x - 1) % Size = Slot(first, p - 1) /\ (x + Size - 1) % Size = Slot(first, p - 1)
<1>1. Size \in Nat \ {0} /\ p \in 1..Size /\ p - 1 \in 1..Size /\ (p - 1) + 1 = p
  BY MapAssumption
<1>2. (x - 1) % Size = IF Slot(first, p) = 0 THEN Size - 1 ELSE Slot(first, p) - 1
  BY Before
<1>3. /\ Slot(first, p) = IF first + p - 1 < Size THEN first + p - 1 ELSE first + p - 1 - Size
      /\ Slot(first, p - 1) = IF first + (p - 1) - 1 < Size THEN first + (p - 1) - 1 ELSE first + (p - 1) - 1 - Size
  BY <1>1, Slots
<1>4. (x - 1) % Size = Slot(first, p - 1)
  BY <1>1, <1>2, <1>3
<1> QED BY <1>4, Before

\* The state of the loop of Set after a round more.
RoundMore(s, first) == IF Ring!Sinks(s, first) THEN Ring!Sunk(s) ELSE s

\* f is its states, from s on, in the first m rounds.
Rounds(f, s, first, m) ==
  f = [j \in 0..m |-> IF j = 0 THEN s ELSE RoundMore(f[j - 1], first)]

LEMMA Rounding ==
  ASSUME NEW m \in Nat, NEW f, NEW s, NEW first, Rounds(f, s, first, m)
  PROVE  f[0] = s /\ \A j \in 0..(m - 1) : f[j + 1] = RoundMore(f[j], first)
<1>1. \A j \in 0..m : f[j] = IF j = 0 THEN s ELSE RoundMore(f[j - 1], first)
  BY Zenon DEF Rounds
<1>2. ASSUME NEW j \in 0..(m - 1) PROVE f[j + 1] = RoundMore(f[j], first)
  <2>1. j + 1 \in 0..m /\ j + 1 # 0 /\ (j + 1) - 1 = j
    OBVIOUS
  <2> QED BY <1>1, <2>1
<1>3. 0 \in 0..m
  OBVIOUS
<1> QED BY <1>1, <1>2, <1>3

LEMMA RoundsExist ==
  ASSUME NEW m \in Nat, NEW s, NEW first
  PROVE  \E f : Rounds(f, s, first, m)
<1> DEFINE T == {i \in Nat : \E f : Rounds(f, s, first, i)}
<1>1. 0 \in T
  <2> DEFINE f == [j \in 0..0 |-> s]
  <2>1. \A j \in 0..0 : f[j] = IF j = 0 THEN s ELSE RoundMore(f[j - 1], first)
    OBVIOUS
  <2>2. f = [j \in 0..0 |-> f[j]]
    OBVIOUS
  <2> HIDE DEF f
  <2>3. f = [j \in 0..0 |-> IF j = 0 THEN s ELSE RoundMore(f[j - 1], first)]
    BY <2>1, <2>2
  <2> QED BY <2>3 DEF Rounds
<1>2. ASSUME NEW i \in Nat, i \in T PROVE i + 1 \in T
  <2>1. PICK f : Rounds(f, s, first, i)
    BY <1>2
  <2> DEFINE g == [j \in 0..(i + 1) |-> IF j = i + 1 THEN RoundMore(f[i], first) ELSE f[j]]
  <2>0. \A j \in 0..i : f[j] = IF j = 0 THEN s ELSE RoundMore(f[j - 1], first)
    BY <2>1, Zenon DEF Rounds
  <2>2. ASSUME NEW j \in 0..(i + 1) PROVE g[j] = IF j = 0 THEN s ELSE RoundMore(g[j - 1], first)
    <3>1. CASE j = i + 1
      <4>1. j # 0 /\ j - 1 = i /\ i \in 0..(i + 1) /\ i # i + 1
        BY <3>1
      <4>2. g[j - 1] = f[i] /\ g[j] = RoundMore(f[i], first)
        BY <4>1, <3>1
      <4> HIDE DEF g
      <4> QED BY <4>1, <4>2
    <3>2. CASE j # i + 1
      <4>1. j \in 0..i
        BY <3>2
      <4>2. g[j] = f[j]
        BY <4>1, <3>2
      <4>3. j # 0 => g[j - 1] = f[j - 1]
        <5> SUFFICES ASSUME j # 0 PROVE g[j - 1] = f[j - 1]
          OBVIOUS
        <5>1. j - 1 \in 0..(i + 1) /\ j - 1 # i + 1
          BY <4>1
        <5> QED BY <5>1
      <4> HIDE DEF g
      <4> QED BY <4>1, <4>2, <4>3, <2>0
    <3> QED BY <3>1, <3>2
  <2>3. g = [j \in 0..(i + 1) |-> g[j]]
    OBVIOUS
  <2> HIDE DEF g
  <2>4. g = [j \in 0..(i + 1) |-> IF j = 0 THEN s ELSE RoundMore(g[j - 1], first)]
    BY <2>2, <2>3
  <2> QED BY <2>4 DEF Rounds
<1> HIDE DEF T
<1>3. m \in T
  BY <1>1, <1>2, NatByNat
<1> QED BY <1>3 DEF T

\* Where the loop leaves the ring.
LEMMA SiftedRounds ==
  ASSUME NEW ring, NEW first, NEW count, count > 0
  PROVE  \E f : /\ Rounds(f, [i |-> first + count, ring |-> ring], first, Size)
                /\ Ring!Sifted(ring, first, count) = f[Size].ring
<1> DEFINE s == [i |-> first + count, ring |-> ring]
           f == CHOOSE g : Rounds(g, s, first, Size)
<1>1. Rounds(f, s, first, Size)
  BY MapAssumption, RoundsExist
<1>2. Ring!Sifted(ring, first, count) = f[Size].ring
  BY DEF Ring!Sifted, Rounds, RoundMore
<1> QED BY <1>1, <1>2

\* The keys of the list, and a key k on its way to its place.  The key is at
\* slot p, those of the list before it are where they were, and those behind
\* it, all of them greater, are one slot further.
OnItsWay(s, p, first, q, k) ==
  /\ s.i \in Nat /\ s.i % Size = Slot(first, p)
  /\ s.ring \in [0..(Size - 1) -> Int]
  /\ p \in 2..(Len(q) + 1)
  /\ \A j \in 1..(Len(q) + 1) :
       s.ring[Slot(first, j)] = IF j < p THEN q[j] ELSE IF j = p THEN k ELSE q[j - 1]
  /\ \A h \in p..Len(q) : k < q[h]

\* The guard of the loop, in terms of the list.
LEMMA SinksBehindGreater ==
  ASSUME NEW first \in 0..(Size - 1), NEW q \in Seq(Int), Len(q) < Size, NEW k \in Int,
         NEW s, NEW p, OnItsWay(s, p, first, q, k)
  PROVE  Ring!Sinks(s, first) <=> k < q[p - 1] /\ p # 2
<1>1. /\ Size \in Nat \ {0} /\ Len(q) \in Nat /\ p \in 2..Size /\ p \in 1..Size /\ p - 1 \in 1..Size
      /\ p \in 1..(Len(q) + 1) /\ p - 1 \in 1..(Len(q) + 1) /\ p - 1 < p /\ ~(p < p) /\ p \in Int /\ 1 \in 1..Size
  BY MapAssumption DEF OnItsWay
<1>2. s.i % Size = Slot(first, p) /\ (s.i - 1) % Size = Slot(first, p - 1)
  BY <1>1, SlotBefore DEF OnItsWay
<1>3. s.ring[Slot(first, p)] = k /\ s.ring[Slot(first, p - 1)] = q[p - 1]
  BY <1>1 DEF OnItsWay
<1>4. Slot(first, p - 1) = first <=> p = 2
  <2>1. Slot(first, p - 1) = first <=> p - 1 = 1
    BY <1>1, Slots
  <2> QED BY <2>1, <1>1
<1>5. Ring!Sinks(s, first) <=> k < q[p - 1] /\ Slot(first, p - 1) # first
  BY <1>2, <1>3 DEF Ring!Sinks
<1> QED BY <1>4, <1>5

\* A round of the loop takes the key one place towards the first.
LEMMA SunkByOne ==
  ASSUME NEW first \in 0..(Size - 1), NEW q \in Seq(Int), Len(q) < Size, NEW k \in Int,
         NEW s, NEW p, OnItsWay(s, p, first, q, k), k < q[p - 1], p # 2
  PROVE  OnItsWay(Ring!Sunk(s), p - 1, first, q, k)
<1> DEFINE t == Ring!Sunk(s)
           at == Slot(first, p)
           before == Slot(first, p - 1)
<1>0. /\ Size \in Nat \ {0} /\ Len(q) \in Nat /\ p \in 2..(Len(q) + 1)
      /\ s.i \in Nat /\ s.i % Size = at
  BY MapAssumption DEF OnItsWay
<1>1. /\ Size \in Nat \ {0} /\ Len(q) \in Nat /\ p \in 3..(Len(q) + 1) /\ p \in 2..Size /\ p \in 1..Size /\ p - 1 \in 1..Size
      /\ p \in 1..(Len(q) + 1) /\ p - 1 \in 1..(Len(q) + 1) /\ p - 1 < p /\ ~(p < p) /\ p \in Int
      /\ p - 1 \in 2..(Len(q) + 1)
  BY <1>0
<1>2. /\ s.i % Size = at /\ (s.i - 1) % Size = before /\ (s.i + Size - 1) % Size = before
      /\ s.i + Size - 1 \in Nat
  <2>1. (s.i - 1) % Size = before /\ (s.i + Size - 1) % Size = before
    BY <1>0, <1>1, SlotBefore
  <2>2. s.i + Size - 1 \in Nat
    BY <1>0
  <2> QED BY <1>0, <2>1, <2>2
<1>3. s.ring[at] = k /\ s.ring[before] = q[p - 1]
  BY <1>1 DEF OnItsWay
<1>4. /\ at \in 0..(Size - 1) /\ before \in 0..(Size - 1) /\ at # before
      /\ \A j \in 1..Size : (Slot(first, j) = at <=> j = p) /\ (Slot(first, j) = before <=> j = p - 1)
      /\ \A j \in 1..Size : Slot(first, j) \in 0..(Size - 1)
  BY <1>1, Slots
<1>5. t.i = s.i + Size - 1 /\ t.ring = [s.ring EXCEPT ![at] = q[p - 1], ![before] = k]
  BY <1>2, <1>3 DEF Ring!Sunk
<1>6. /\ t.ring \in [0..(Size - 1) -> Int]
      /\ t.ring[at] = q[p - 1] /\ t.ring[before] = k
      /\ \A a \in 0..(Size - 1) : a # at /\ a # before => t.ring[a] = s.ring[a]
  <2>1. q[p - 1] \in Int /\ s.ring \in [0..(Size - 1) -> Int]
    BY <1>1 DEF OnItsWay
  <2> HIDE DEF t, at, before
  <2> QED BY <2>1, <1>4, <1>5
<1> HIDE DEF t
<1>7. ASSUME NEW j \in 1..(Len(q) + 1)
      PROVE  t.ring[Slot(first, j)] = IF j < p - 1 THEN q[j] ELSE IF j = p - 1 THEN k ELSE q[j - 1]
  <2>1. j \in 1..Size
    BY <1>1
  <2>2. CASE j = p
    BY <2>2, <1>1, <1>6
  <2>3. CASE j = p - 1
    BY <2>3, <1>1, <1>6
  <2>4. CASE j # p /\ j # p - 1
    <3>1. t.ring[Slot(first, j)] = s.ring[Slot(first, j)]
      BY <2>1, <2>4, <1>4, <1>6
    <3>2. s.ring[Slot(first, j)] = IF j < p THEN q[j] ELSE q[j - 1]
      BY <2>4 DEF OnItsWay
    <3>3. j < p <=> j < p - 1
      BY <1>1, <2>4
    <3> QED BY <3>1, <3>2, <3>3, <2>4
  <2> QED BY <2>2, <2>3, <2>4
<1>8. \A h \in (p - 1)..Len(q) : k < q[h]
  <2>1. \A h \in (p - 1)..Len(q) : h = p - 1 \/ h \in p..Len(q)
    BY <1>1
  <2>2. \A h \in p..Len(q) : k < q[h]
    BY DEF OnItsWay
  <2> QED BY <2>1, <2>2
<1>9. t.i \in Nat /\ t.i % Size = Slot(first, p - 1)
  BY <1>2, <1>5
<1>10. OnItsWay(t, p - 1, first, q, k)
  <2> DEFINE w == p - 1
  <2>1. \A j \in 1..(Len(q) + 1) :
          t.ring[Slot(first, j)] = IF j < w THEN q[j] ELSE IF j = w THEN k ELSE q[j - 1]
    BY <1>7
  <2>2. w \in 2..(Len(q) + 1) /\ t.i % Size = Slot(first, w) /\ (\A h \in w..Len(q) : k < q[h])
    BY <1>1, <1>8, <1>9
  <2> HIDE DEF w
  <2>3. OnItsWay(t, w, first, q, k)
    BY <2>1, <2>2, <1>6, <1>9 DEF OnItsWay
  <2> QED BY <2>3 DEF w
<1> QED BY <1>10 DEF t

\* The loop ends with the key in its place, and never takes more than Size
\* rounds (ordered_map.go:36-41).
THEOREM SiftEnds ==
  ASSUME NEW first \in 0..(Size - 1), NEW q \in Seq(Int), Len(q) < Size, NEW k \in Int,
         NEW s, NEW f, Rounds(f, s, first, Size), OnItsWay(s, Len(q) + 1, first, q, k)
  PROVE  ~Ring!Sinks(f[Size], first) /\ \E p \in Int : OnItsWay(f[Size], p, first, q, k)
<1> DEFINE Still(j) == \E p \in Int : /\ OnItsWay(f[j], p, first, q, k)
                                      /\ Ring!Sinks(f[j], first) => p <= Len(q) + 1 - j
           T == {j \in Nat : j <= Size => Still(j)}
<1>0. /\ Size \in Nat /\ Len(q) \in Nat
      /\ f[0] = s /\ \A j \in 0..(Size - 1) : f[j + 1] = RoundMore(f[j], first)
  BY MapAssumption, Rounding
<1>1. 0 \in T
  <2>1. OnItsWay(f[0], Len(q) + 1, first, q, k) /\ Len(q) + 1 \in Int /\ Len(q) + 1 <= Len(q) + 1 - 0
    BY <1>0
  <2>2. Still(0)
    BY <2>1
  <2> QED BY <2>2
<1>2. ASSUME NEW j \in Nat, j \in T PROVE j + 1 \in T
  <2> SUFFICES ASSUME j + 1 <= Size PROVE Still(j + 1)
    OBVIOUS
  <2>1. j <= Size /\ j \in 0..(Size - 1)
    BY <1>0
  <2>2. PICK p \in Int : OnItsWay(f[j], p, first, q, k) /\ (Ring!Sinks(f[j], first) => p <= Len(q) + 1 - j)
    BY <1>2, <2>1
  <2>3. f[j + 1] = RoundMore(f[j], first)
    BY <1>0, <2>1
  <2>4. CASE ~Ring!Sinks(f[j], first)
    BY <2>2, <2>3, <2>4 DEF RoundMore
  <2>5. CASE Ring!Sinks(f[j], first)
    <3>1. f[j + 1] = Ring!Sunk(f[j])
      BY <2>3, <2>5 DEF RoundMore
    <3>2. k < q[p - 1] /\ p # 2
      BY <2>2, <2>5, SinksBehindGreater
    <3>3. OnItsWay(f[j + 1], p - 1, first, q, k)
      BY <2>2, <3>1, <3>2, SunkByOne
    <3>4. p - 1 \in Int /\ p - 1 <= Len(q) + 1 - (j + 1)
      BY <1>0, <2>2, <2>5
    <3> QED BY <3>3, <3>4
  <2> QED BY <2>4, <2>5
<1> HIDE DEF T
<1>3. Size \in T
  BY <1>0, <1>1, <1>2, NatByNat
<1>4. PICK p \in Int : OnItsWay(f[Size], p, first, q, k) /\ (Ring!Sinks(f[Size], first) => p <= Len(q) + 1 - Size)
  BY <1>0, <1>3 DEF T
<1>5. p >= 2
  BY <1>0, <1>4 DEF OnItsWay
<1>6. ~(p <= Len(q) + 1 - Size)
  BY <1>0, <1>5
<1> QED BY <1>4, <1>6

\* What the ring holds after Set has written the key behind the list and sifted
\* it: the list with the key at a place where EvictingMap may put it.
LEMMA SiftedInserts ==
  ASSUME NEW first \in 0..(Size - 1), NEW q \in Seq(Int), Len(q) < Size, NEW k \in Int,
         NEW ring \in [0..(Size - 1) -> Int],
         \A j \in 1..Len(q) : ring[Slot(first, j)] = q[j],
         ring[Slot(first, Len(q) + 1)] = k
  PROVE  /\ Ring!Sifted(ring, first, Len(q)) \in [0..(Size - 1) -> Int]
         /\ \E p \in Places(q, k) : \A j \in 1..(Len(q) + 1) :
              Ring!Sifted(ring, first, Len(q))[Slot(first, j)] = InsertAt(q, p, k)[j]
<1> DEFINE r == Ring!Sifted(ring, first, Len(q))
<1>0. Size \in Nat \ {0} /\ Len(q) \in Nat
  BY MapAssumption
<1>1. \A p \in 1..(Len(q) + 1), j \in 1..(Len(q) + 1) :
        InsertAt(q, p, k)[j] = IF j < p THEN q[j] ELSE IF j = p THEN k ELSE q[j - 1]
  <2> SUFFICES ASSUME NEW p \in 1..(Len(q) + 1)
               PROVE  \A j \in 1..(Len(q) + 1) :
                        InsertAt(q, p, k)[j] = IF j < p THEN q[j] ELSE IF j = p THEN k ELSE q[j - 1]
    OBVIOUS
  <2>1. \A S : q \in Seq(S) /\ k \in S =>
          \A j \in 1..(Len(q) + 1) :
            InsertAt(q, p, k)[j] = IF j < p THEN q[j] ELSE IF j = p THEN k ELSE q[j - 1]
    BY InsertAtProperties
  <2> QED BY <2>1
<1>2. CASE Len(q) = 0
  <2>1. r = ring
    BY <1>2 DEF Ring!Sifted
  <2>2. q = <<>> /\ Places(q, k) = {1}
    BY <1>2 DEF Places
  <2>3. InsertAt(q, 1, k)[1] = k /\ ring[Slot(first, 1)] = k
    BY <1>1, <1>2
  <2>4. \A j \in 1..(Len(q) + 1) : j = 1
    BY <1>2
  <2> HIDE DEF r
  <2>5. \A j \in 1..(Len(q) + 1) : r[Slot(first, j)] = InsertAt(q, 1, k)[j]
    BY <2>1, <2>3, <2>4
  <2> QED BY <2>1, <2>2, <2>5 DEF r
<1>3. CASE Len(q) > 0
  <2> DEFINE s == [i |-> first + Len(q), ring |-> ring]
  <2>1. PICK f : Rounds(f, s, first, Size) /\ r = f[Size].ring
    BY <1>3, SiftedRounds
  <2>2. OnItsWay(s, Len(q) + 1, first, q, k)
    <3>1. s.i = first + Len(q) /\ s.ring = ring /\ first + Len(q) \in Nat
      BY <1>0
    <3> HIDE DEF s
    <3>2. s.i % Size = Slot(first, Len(q) + 1)
      <4>1. first + (Len(q) + 1) - 1 = first + Len(q)
        BY <1>0
      <4> QED BY <3>1, <4>1 DEF Slot
    <3>3. \A j \in 1..(Len(q) + 1) : (j < Len(q) + 1 /\ j \in 1..Len(q)) \/ j = Len(q) + 1
      BY <1>0
    <3>4. \A j \in 1..(Len(q) + 1) :
            s.ring[Slot(first, j)] = IF j < Len(q) + 1 THEN q[j] ELSE IF j = Len(q) + 1 THEN k ELSE q[j - 1]
      BY <1>0, <3>1, <3>3
    <3>5. \A h \in (Len(q) + 1)..Len(q) : FALSE
      BY <1>0
    <3>6. Len(q) + 1 \in 2..(Len(q) + 1)
      BY <1>0, <1>3
    <3> DEFINE w == Len(q) + 1
    <3> HIDE DEF w
    <3> QED BY <3>1, <3>2, <3>4, <3>5, <3>6 DEF OnItsWay
  <2>3. /\ ~Ring!Sinks(f[Size], first) /\ \E p \in Int : OnItsWay(f[Size], p, first, q, k)
    BY <2>1, <2>2, SiftEnds
  <2>4. PICK p \in Int : OnItsWay(f[Size], p, first, q, k)
    BY <2>3
  <2>5. ~(k < q[p - 1] /\ p # 2)
    BY <2>3, <2>4, SinksBehindGreater
  <2>6. /\ p \in 2..(Len(q) + 1) /\ r \in [0..(Size - 1) -> Int]
        /\ \A h \in p..Len(q) : k < q[h]
        /\ \A j \in 1..(Len(q) + 1) : r[Slot(first, j)] = IF j < p THEN q[j] ELSE IF j = p THEN k ELSE q[j - 1]
    BY <2>1, <2>4 DEF OnItsWay
  <2> HIDE DEF r
  <2>7. p > 2 => q[p - 1] <= k
    <3>1. p > 2 => p - 1 \in 1..Len(q) /\ p # 2
      BY <1>0, <2>6
    <3>2. p > 2 => q[p - 1] \in Int
      BY <3>1
    <3> QED BY <2>5, <3>1, <3>2
  <2>8. p \in Places(q, k)
    <3>1. q # <<>>
      BY <1>3
    <3> QED BY <3>1, <2>6, <2>7 DEF Places
  <2>9. \A j \in 1..(Len(q) + 1) : r[Slot(first, j)] = InsertAt(q, p, k)[j]
    <3>1. p \in 1..(Len(q) + 1)
      BY <1>0, <2>6
    <3> QED BY <3>1, <2>6, <1>1
  <2> QED BY <2>6, <2>8, <2>9 DEF r
<1>4. Len(q) = 0 \/ Len(q) > 0
  BY <1>0
<1> QED BY <1>2, <1>3, <1>4, Zenon

\* The ring while the cache runs: its list is the list of the map, and the rest
\* of its state is that of the map too.
RingOK ==
  /\ sortedRing \in [0..(Size - 1) -> Int]
  /\ ringStart \in 0..(Size - 1)
  /\ n = Len(order)
  /\ \A j \in 1..Len(order) : sortedRing[Slot(ringStart, j)] = order[j]
  /\ unorderedMap = store /\ ringLate = late

LEMMA InitRing == RingInit => RingOK
<1> SUFFICES ASSUME RingInit PROVE RingOK
  OBVIOUS
<1>1. /\ order = <<>> /\ late = FALSE /\ store = [x \in {} |-> CHOOSE d \in Data : TRUE]
      /\ sortedRing = [i \in 0..(Size - 1) |-> 0] /\ ringStart = 0 /\ n = 0
      /\ unorderedMap = [x \in {} |-> CHOOSE d \in Data : TRUE] /\ ringLate = FALSE
  BY Zenon DEF RingInit, CacheInit, Init, Ring!Init, Ring!Unset
<1>2. Len(order) = 0 /\ 0 \in 0..(Size - 1)
  BY <1>1, MapAssumption
<1>3. sortedRing \in [0..(Size - 1) -> Int]
  BY <1>1
<1>4. unorderedMap = store /\ ringLate = late
  BY <1>1, Zenon
<1>5. n = Len(order) /\ ringStart \in 0..(Size - 1)
  BY <1>1, <1>2
<1>6. \A j \in 1..Len(order) : sortedRing[Slot(ringStart, j)] = order[j]
  BY <1>2
<1> QED BY <1>3, <1>4, <1>5, <1>6 DEF RingOK

\* What Listed is.
LEMMA RingLists ==
  ASSUME Inv, RingOK
  PROVE  Ring!Listed = order
<1>1. order = [j \in 1..Len(order) |-> order[j]]
  BY DEF Inv, TypeOK
<1>2. \A j \in 1..Len(order) : sortedRing[(ringStart + j - 1) % Size] = order[j]
  BY DEF RingOK, Slot
<1>3. Ring!Listed = [j \in 1..Len(order) |-> sortedRing[(ringStart + j - 1) % Size]]
  BY DEF RingOK, Ring!Listed
<1> QED BY <1>1, <1>2, <1>3

\* Where there is room for one more, and what the rest of the ring lists then.
LEMMA RestInRing ==
  ASSUME Inv, RingOK, NEW first, NEW count,
         first = (IF n = Size THEN (ringStart + 1) % Size ELSE ringStart),
         count = (IF n = Size THEN n - 1 ELSE n)
  PROVE  /\ first \in 0..(Size - 1) /\ count = Len(Rest) /\ count < Size
         /\ \A j \in 1..Len(Rest) : sortedRing[Slot(first, j)] = Rest[j]
<1>0. Size \in Nat \ {0} /\ order \in Seq(Keys) /\ n = Len(order) /\ n \in Nat /\ n <= Size /\ ringStart \in 0..(Size - 1)
  <2>1. order \in Seq(Keys) /\ Len(order) <= Size /\ n = Len(order) /\ ringStart \in 0..(Size - 1)
    BY Zenon DEF Inv, TypeOK, SameKeys, RingOK
  <2> QED BY <2>1, MapAssumption
<1>1. CASE n # Size
  <2>1. Rest = order /\ first = ringStart /\ count = n
    BY <1>0, <1>1 DEF Rest
  <2>2. count < Size
    BY <1>0, <1>1, <2>1
  <2> QED BY <1>0, <2>1, <2>2 DEF RingOK
<1>2. CASE n = Size
  <2>1. Rest = Tail(order) /\ first = Slot(ringStart, 2) /\ count = n - 1
    <3>1. ringStart + 1 = ringStart + 2 - 1
      BY <1>0
    <3> QED BY <1>0, <1>2, <3>1 DEF Rest, Slot
  <2>2. Len(Rest) = n - 1 /\ \A j \in 1..Len(Rest) : Rest[j] = order[j + 1]
    <3>1. order # <<>>
      BY <1>0, <1>2
    <3>2. Len(Rest) = Len(order) - 1 /\ \A j \in 1..Len(Rest) : Rest[j] = order[j + 1]
      BY <1>0, <2>1, <3>1, HeadTailProperties
    <3> QED BY <1>0, <3>2
  <2>3. first = IF ringStart + 1 < Size THEN ringStart + 1 ELSE ringStart + 1 - Size
    <3>1. CASE Size = 1
      <4>1. ringStart = 0 /\ first = (0 + 1) % Size
        BY <1>0, <1>2, <3>1
      <4>2. (0 + 1) % Size = 0
        BY <3>1
      <4> QED BY <3>1, <4>1, <4>2
    <3>2. CASE Size # 1
      <4>1. 2 \in 1..Size
        BY <1>0, <3>2
      <4>2. first = IF ringStart + 2 - 1 < Size THEN ringStart + 2 - 1 ELSE ringStart + 2 - 1 - Size
        BY <1>0, <2>1, <4>1, Slots
      <4> QED BY <1>0, <4>2
    <3> QED BY <3>1, <3>2
  <2>4. first \in 0..(Size - 1)
    BY <1>0, <2>3
  <2>5. ASSUME NEW j \in 1..Len(Rest) PROVE Slot(first, j) = Slot(ringStart, j + 1)
    <3>1. j \in 1..Size /\ j + 1 \in 1..Size
      BY <1>0, <1>2, <2>2
    <3>2. Slot(first, j) = IF first + j - 1 < Size THEN first + j - 1 ELSE first + j - 1 - Size
      BY <2>4, <3>1, Slots
    <3>3. Slot(ringStart, j + 1) = IF ringStart + (j + 1) - 1 < Size THEN ringStart + (j + 1) - 1
                                   ELSE ringStart + (j + 1) - 1 - Size
      BY <1>0, <3>1, Slots
    <3> QED BY <1>0, <2>3, <3>1, <3>2, <3>3
  <2>6. ASSUME NEW j \in 1..Len(Rest) PROVE sortedRing[Slot(first, j)] = Rest[j]
    <3>1. j + 1 \in 1..Len(order)
      BY <1>0, <2>2
    <3> QED BY <2>2, <2>5, <3>1 DEF RingOK
  <2> QED BY <1>0, <1>2, <2>1, <2>2, <2>4, <2>6
<1> QED BY <1>1, <1>2

\* There is at most one place for a key.
LEMMA OnePlace ==
  ASSUME NEW q \in Seq(Int), NEW k \in Int, NEW a \in Places(q, k), NEW b \in Places(q, k)
  PROVE  a = b
<1>1. CASE q = <<>>
  BY <1>1 DEF Places
<1>2. CASE q # <<>>
  <2>1. /\ a \in 2..(Len(q) + 1) /\ b \in 2..(Len(q) + 1)
        /\ \A i \in a..Len(q) : k < q[i]
        /\ \A i \in b..Len(q) : k < q[i]
        /\ a > 2 => q[a - 1] <= k
        /\ b > 2 => q[b - 1] <= k
    BY <1>2 DEF Places
  <2>2. \A i \in 1..Len(q) : q[i] \in Int
    OBVIOUS
  <2>3. Len(q) \in Nat
    OBVIOUS
  <2>4. ~(a < b)
    <3> SUFFICES ASSUME a < b PROVE FALSE
      OBVIOUS
    <3>1. b - 1 \in a..Len(q) /\ b > 2 /\ b - 1 \in 1..Len(q)
      BY <2>1, <2>3
    <3> QED BY <2>1, <2>2, <3>1
  <2>5. ~(b < a)
    <3> SUFFICES ASSUME b < a PROVE FALSE
      OBVIOUS
    <3>1. a - 1 \in b..Len(q) /\ a > 2 /\ a - 1 \in 1..Len(q)
      BY <2>1, <2>3
    <3> QED BY <2>1, <2>2, <3>1
  <2> QED BY <2>1, <2>4, <2>5
<1> QED BY <1>1, <1>2

\* The keys the ring keeps are those of the list that is kept.
LEMMA KeptIsRest ==
  ASSUME Inv, RingOK
  PROVE  Ring!Kept = Range(Rest)
<1>0. /\ Size \in Nat \ {0} /\ order \in Seq(Keys) /\ Len(order) \in Nat /\ DOMAIN order = 1..Len(order)
      /\ n = Len(order) /\ unorderedMap = store /\ DOMAIN store = Range(order)
      /\ \A i, j \in DOMAIN order : order[i] = order[j] => i = j
  BY MapAssumption DEF Inv, TypeOK, SameKeys, RingOK, IsInjective
<1>1. CASE n # Size
  BY <1>0, <1>1 DEF Ring!Kept, Ring!Full, Rest
<1>2. CASE n = Size
  <2>1. order # <<>> /\ Rest = Tail(order)
    BY <1>0, <1>2 DEF Rest
  <2>2. /\ Len(Rest) = Len(order) - 1 /\ \A j \in 1..Len(Rest) : Rest[j] = order[j + 1]
        /\ DOMAIN Rest = 1..Len(Rest)
    BY <1>0, <2>1, HeadTailProperties
  <2>3. sortedRing[ringStart] = order[1]
    <3>1. 1 \in 1..Len(order) /\ Slot(ringStart, 1) = ringStart
      BY <1>0, <1>2, Slots DEF RingOK
    <3> QED BY <3>1 DEF RingOK
  <2>4. Ring!Kept = Range(order) \ {order[1]}
    BY <1>0, <1>2, <2>3 DEF Ring!Kept, Ring!Full
  <2>5. ASSUME NEW x \in Range(order), x # order[1] PROVE x \in Range(Rest)
    <3>1. PICK i \in 1..Len(order) : x = order[i]
      BY <1>0 DEF Range
    <3>2. i - 1 \in 1..Len(Rest) /\ (i - 1) + 1 = i
      BY <1>0, <2>2, <2>5, <3>1
    <3> QED BY <2>2, <3>1, <3>2 DEF Range
  <2>6. ASSUME NEW x \in Range(Rest) PROVE x \in Range(order) /\ x # order[1]
    <3>1. PICK i \in 1..Len(Rest) : x = Rest[i]
      BY <2>2 DEF Range
    <3>2. x = order[i + 1] /\ i + 1 \in DOMAIN order /\ 1 \in DOMAIN order /\ i + 1 # 1
      BY <1>0, <2>2, <3>1
    <3> QED BY <1>0, <3>2 DEF Range
  <2> QED BY <2>4, <2>5, <2>6
<1> QED BY <1>1, <1>2

\* A key more in the ring is a key more in the list.
LEMMA RingInserts ==
  ASSUME Inv, RingOK, NEW k \in Keys, NEW d \in Data, Insert(k, d), Ring!Insert(k, d), Inv'
  PROVE  RingOK'
<1> DEFINE first == IF n = Size THEN (ringStart + 1) % Size ELSE ringStart
           count == IF n = Size THEN n - 1 ELSE n
           ring == [sortedRing EXCEPT ![(first + count) % Size] = k]
<1>1. /\ first \in 0..(Size - 1) /\ count = Len(Rest) /\ count < Size
      /\ \A j \in 1..Len(Rest) : sortedRing[Slot(first, j)] = Rest[j]
  <2>1. first = (IF n = Size THEN (ringStart + 1) % Size ELSE ringStart)
        /\ count = (IF n = Size THEN n - 1 ELSE n)
    OBVIOUS
  <2> HIDE DEF first, count
  <2> QED BY <2>1, RestInRing
<1>2. /\ unorderedMap' = [j \in Ring!Kept \union {k} |-> IF j = k THEN d ELSE unorderedMap[j]]
      /\ sortedRing' = Ring!Sifted(ring, first, count)
      /\ ringStart' = first /\ n' = count + 1
      /\ ringLate' = ((n # Size /\ ringLate) \/ (count > 0 /\ k < sortedRing[first]))
  BY Zenon DEF Ring!Insert, Ring!Full
<1>3. /\ Size \in Nat \ {0} /\ Keys \subseteq Int /\ k \in Int
      /\ Rest \in Seq(Keys) /\ Rest \in Seq(Int) /\ Len(Rest) \in Nat
      /\ sortedRing \in [0..(Size - 1) -> Int]
  <2>1. Rest \in Seq(Keys) /\ Len(Rest) \in Nat
    BY RestProperties DEF Inv
  <2>2. Size \in Nat \ {0} /\ Keys \subseteq Int /\ k \in Int
    BY MapAssumption
  <2>3. Rest \in Seq(Int)
    BY <2>1, <2>2, SeqMonotonic
  <2>4. sortedRing \in [0..(Size - 1) -> Int]
    BY DEF RingOK
  <2> QED BY <2>1, <2>2, <2>3, <2>4, Zenon
<1>4. PICK b \in Places(Rest, k) : order' = InsertAt(Rest, b, k)
  BY DEF Insert
<1> HIDE DEF first, count
<1>5. /\ ring \in [0..(Size - 1) -> Int]
      /\ \A j \in 1..Len(Rest) : ring[Slot(first, j)] = Rest[j]
      /\ ring[Slot(first, Len(Rest) + 1)] = k
  <2>1. (first + count) % Size = Slot(first, Len(Rest) + 1)
    <3>1. first + (Len(Rest) + 1) - 1 = first + count
      BY <1>1, <1>3
    <3> QED BY <3>1 DEF Slot
  <2>2. Len(Rest) + 1 \in 1..Size /\ \A j \in 1..Len(Rest) : j \in 1..Size /\ j # Len(Rest) + 1
    BY <1>1, <1>3
  <2>3. /\ Slot(first, Len(Rest) + 1) \in 0..(Size - 1)
        /\ \A j \in 1..Len(Rest) : /\ Slot(first, j) \in 0..(Size - 1)
                                   /\ Slot(first, j) # Slot(first, Len(Rest) + 1)
    BY <1>1, <2>2, Slots
  <2> QED BY <1>1, <1>3, <2>1, <2>3
<1> HIDE DEF ring
<1>6. /\ sortedRing' \in [0..(Size - 1) -> Int]
      /\ \E p \in Places(Rest, k) : \A j \in 1..(Len(Rest) + 1) :
           sortedRing'[Slot(first, j)] = InsertAt(Rest, p, k)[j]
  <2>1. sortedRing' = Ring!Sifted(ring, first, Len(Rest)) /\ Len(Rest) < Size
    BY <1>1, <1>2
  <2>2. \A q \in Seq(Int) :
          /\ Len(q) < Size
          /\ \A j \in 1..Len(q) : ring[Slot(first, j)] = q[j]
          /\ ring[Slot(first, Len(q) + 1)] = k
          => /\ Ring!Sifted(ring, first, Len(q)) \in [0..(Size - 1) -> Int]
             /\ \E p \in Places(q, k) : \A j \in 1..(Len(q) + 1) :
                  Ring!Sifted(ring, first, Len(q))[Slot(first, j)] = InsertAt(q, p, k)[j]
    <3> SUFFICES ASSUME NEW q \in Seq(Int), Len(q) < Size,
                        \A j \in 1..Len(q) : ring[Slot(first, j)] = q[j],
                        ring[Slot(first, Len(q) + 1)] = k
                 PROVE  /\ Ring!Sifted(ring, first, Len(q)) \in [0..(Size - 1) -> Int]
                        /\ \E p \in Places(q, k) : \A j \in 1..(Len(q) + 1) :
                             Ring!Sifted(ring, first, Len(q))[Slot(first, j)] = InsertAt(q, p, k)[j]
      OBVIOUS
    <3>1. first \in 0..(Size - 1) /\ k \in Int /\ ring \in [0..(Size - 1) -> Int]
      BY <1>1, <1>3, <1>5
    <3> QED BY <3>1, SiftedInserts, Zenon
  <2> QED BY <1>3, <1>5, <2>1, <2>2, Zenon
<1>7. PICK a \in Places(Rest, k) : \A j \in 1..(Len(Rest) + 1) :
        sortedRing'[Slot(first, j)] = InsertAt(Rest, a, k)[j]
  BY <1>6
<1>8. a = b
  BY <1>3, OnePlace
<1>9. Len(order') = Len(Rest) + 1
  <2>1. b \in 1..(Len(Rest) + 1)
    BY <1>3 DEF Places
  <2>2. \A S : Rest \in Seq(S) /\ k \in S => Len(InsertAt(Rest, b, k)) = Len(Rest) + 1
    BY <2>1, InsertAtProperties
  <2> QED BY <1>3, <1>4, <2>2
<1>10. \A j \in 1..Len(order') : sortedRing'[Slot(ringStart', j)] = order'[j]
  BY <1>2, <1>4, <1>7, <1>8, <1>9
<1>11. unorderedMap' = store'
  <2>1. store' = [j \in Range(Rest) \union {k} |-> IF j = k THEN d ELSE store[j]]
    BY DEF Insert
  <2>2. unorderedMap = store
    BY DEF RingOK
  <2> QED BY <1>2, <2>1, <2>2, KeptIsRest
<1>12. ringLate' = late'
  <2>1. late' = ((Len(order) < Size /\ late) \/ (Rest # <<>> /\ k < Head(Rest)))
    BY DEF Insert
  <2>2. n # Size <=> Len(order) < Size
    <3>1. n = Len(order) /\ Len(order) <= Size /\ order \in Seq(Keys)
      BY DEF RingOK, Inv, SameKeys, TypeOK
    <3> QED BY <3>1, <1>3
  <2>3. Rest # <<>> <=> count > 0
    BY <1>1, <1>3
  <2>4. count > 0 => sortedRing[first] = Head(Rest)
    <3> SUFFICES ASSUME count > 0 PROVE sortedRing[first] = Head(Rest)
      OBVIOUS
    <3>1. 1 \in 1..Len(Rest)
      BY <1>1, <1>3
    <3>2. Slot(first, 1) = first
      BY <1>1, Slots, Zenon
    <3>3. sortedRing[first] = Rest[1]
      BY <1>1, <3>1, <3>2, Zenon
    <3> QED BY <3>3
  <2>5. ringLate = late
    BY DEF RingOK
  <2> QED BY <1>2, <2>1, <2>2, <2>3, <2>4, <2>5
<1> QED
  <2>1. n' = Len(order') /\ ringStart' \in 0..(Size - 1)
    BY <1>1, <1>2, <1>9
  <2> QED BY <2>1, <1>6, <1>10, <1>11, <1>12 DEF RingOK

\* A datum more for a key there is leaves list and ring as they are.
LEMMA RingReplaces ==
  ASSUME RingOK, NEW k \in Keys, NEW d \in Data, Replace(k, d), Ring!Replace(k, d)
  PROVE  RingOK'
<1>1. order' = order /\ late' = late /\ store' = [store EXCEPT ![k] = d]
  BY DEF Replace
<1>2. /\ sortedRing' = sortedRing /\ ringStart' = ringStart /\ n' = n /\ ringLate' = ringLate
      /\ unorderedMap' = [unorderedMap EXCEPT ![k] = d]
  BY DEF Ring!Replace
<1> QED BY <1>1, <1>2, Zenon DEF RingOK, Slot

\* Map and ring make the same choice.
LEMMA RingSets ==
  ASSUME Inv, RingOK, NEW k \in Keys, NEW d \in Data, Set(k, d), Ring!Set(k, d)
  PROVE  Inv' /\ RingOK'
<1>1. Inv'
  BY StepInv DEF Next
<1>2. unorderedMap = store
  BY DEF RingOK
<1>3. CASE k \in DOMAIN store
  BY <1>1, <1>2, <1>3, RingReplaces DEF Set, Ring!Set, Insert, Ring!Insert, Holds
<1>4. CASE k \notin DOMAIN store
  BY <1>1, <1>2, <1>4, RingInserts DEF Set, Ring!Set, Replace, Ring!Replace, Holds
<1> QED BY <1>3, <1>4

LEMMA RingStands ==
  ASSUME RingOK, UNCHANGED vars, UNCHANGED ringVars
  PROVE  RingOK'
BY DEF RingOK, vars, ringVars, Slot

LEMMA NextRing ==
  Inv /\ RingOK /\ [RingNext]_<<vars, cacheVars, historyVars, ringVars>> => Inv' /\ RingOK'
<1> SUFFICES ASSUME Inv, RingOK, [RingNext]_<<vars, cacheVars, historyVars, ringVars>> PROVE Inv' /\ RingOK'
  OBVIOUS
<1>1. ASSUME NEW k \in Keys, NEW d \in Data, HandleMobEffect(k, d), Ring!Set(k, d) PROVE Inv' /\ RingOK'
  BY <1>1, RingSets DEF HandleMobEffect
<1>2. CASE UNCHANGED vars /\ UNCHANGED ringVars
  BY <1>2, RingStands, StepInv
<1>3. (\E tick \in 1..MaxTick : TickTo(tick)) \/ Tick => UNCHANGED vars
  BY DEF TickTo, Tick
<1>4. UNCHANGED <<vars, cacheVars, historyVars, ringVars>> => UNCHANGED vars /\ UNCHANGED ringVars
  OBVIOUS
<1> QED BY <1>1, <1>2, <1>3, <1>4 DEF RingNext

LEMMA RingHolds == RingSpec => [](Inv /\ RingOK)
<1>1. RingInit => Inv /\ RingOK
  BY InitRing, InitInv DEF RingInit, CacheInit
<1> QED BY <1>1, NextRing, PTL DEF RingSpec

\* The state of the list as the ring has it is the state of the map.
LEMMA RingIsMap ==
  ASSUME Inv, RingOK, RingOK', Inv', NEW k \in Keys, NEW d \in Data, Set(k, d)
  PROVE  Ring!Abstract!Set(k, d)
<1>1. Ring!Listed = order /\ unorderedMap = store /\ ringLate = late
  BY RingLists DEF RingOK
<1>2. (Ring!Listed)' = order' /\ unorderedMap' = store' /\ ringLate' = late'
  <2>1. (Inv /\ RingOK => Ring!Listed = order)'
    BY RingLists, PTL
  <2> QED BY <2>1 DEF RingOK
<1>3. Ring!Abstract!Rest = Rest
  BY <1>1, Zenon DEF Ring!Abstract!Rest, Rest
<1>4. \A q : Ring!Abstract!Places(q, k) = Places(q, k)
  BY Zenon DEF Ring!Abstract!Places, Places
<1>5. Replace(k, d) => Ring!Abstract!Replace(k, d)
  BY <1>1, <1>2 DEF Replace, Ring!Abstract!Replace, Holds, Ring!Abstract!Holds
<1>6. Insert(k, d) => Ring!Abstract!Insert(k, d)
  <2> SUFFICES ASSUME Insert(k, d) PROVE Ring!Abstract!Insert(k, d)
    OBVIOUS
  <2>1. Range(Rest) = Ring!Abstract!Range(Rest)
    BY DEF Range, Ring!Abstract!Range
  <2>2. \A p : InsertAt(Rest, p, k) = Ring!Abstract!InsertAt(Rest, p, k)
    BY DEF InsertAt, Ring!Abstract!InsertAt
  <2>3. ~Ring!Abstract!Holds(k)
    BY <1>1 DEF Insert, Holds, Ring!Abstract!Holds
  <2>4. \E p \in Ring!Abstract!Places(Ring!Abstract!Rest, k) :
          (Ring!Listed)' = Ring!Abstract!InsertAt(Ring!Abstract!Rest, p, k)
    BY <1>2, <1>3, <1>4, <2>2 DEF Insert
  <2>5. unorderedMap' = [j \in Ring!Abstract!Range(Ring!Abstract!Rest) \union {k} |->
                            IF j = k THEN d ELSE unorderedMap[j]]
    BY <1>1, <1>2, <1>3, <2>1 DEF Insert
  <2>6. ringLate' = (\/ Len(Ring!Listed) < Size /\ ringLate
                     \/ Ring!Abstract!Rest # <<>> /\ k < Head(Ring!Abstract!Rest))
    BY <1>1, <1>2, <1>3 DEF Insert
  <2> QED BY <2>3, <2>4, <2>5, <2>6 DEF Ring!Abstract!Insert
<1> QED BY <1>5, <1>6 DEF Set, Ring!Abstract!Set

\* What is proved of the cache is proved of the cache over the ring.
LEMMA RingIsCache == RingSpec => CacheSpec
<1>1. RingInit => CacheInit
  BY DEF RingInit
<1>2. [RingNext]_<<vars, cacheVars, historyVars, ringVars>> => [CacheNext]_<<vars, cacheVars, historyVars>>
  BY DEF RingNext, CacheNext
<1> QED BY <1>1, <1>2, PTL DEF RingSpec, CacheSpec

\* When the map is the ring buffer, too, the effects of the player are those the
\* server has sent, unless one came late, was evicted, or was replaced by one for
\* its tick that does not make up for it (cache.go:20-24, 49-87).
THEOREM EffectsFollowInTheRing == RingSpec => []EffectsFollow
BY RingIsCache, EffectsFollowTheServer, PTL

\* For every size and every sequence of packets and ticks, whatever the keys:
\* the ring buffer, its wrapping and its loop of swaps implement the list that
\* PlayerCache is about (ordered_map.go:22-43).
THEOREM RingImplements == RingSpec => RingImplementsMap
<1>1. RingInit => Ring!Abstract!Init
  <2> SUFFICES ASSUME RingInit PROVE Ring!Abstract!Init
    OBVIOUS
  <2>1. Inv /\ RingOK
    BY InitRing, InitInv DEF RingInit, CacheInit
  <2>2. Ring!Listed = order /\ unorderedMap = store /\ ringLate = late
    BY <2>1, RingLists DEF RingOK
  <2> QED BY <2>2 DEF RingInit, CacheInit, Init, Ring!Abstract!Init
<1>2. ASSUME Inv, RingOK, Inv', RingOK', [RingNext]_<<vars, cacheVars, historyVars, ringVars>>
      PROVE  [Ring!Abstract!Next]_(Ring!Abstract!vars)
  <2>1. ASSUME NEW k \in Keys, NEW d \in Data, HandleMobEffect(k, d) PROVE Ring!Abstract!Next
    <3>1. Set(k, d)
      BY <2>1 DEF HandleMobEffect
    <3>2. Ring!Abstract!Set(k, d)
      BY <1>2, <3>1, RingIsMap
    <3> QED BY <3>2 DEF Ring!Abstract!Next
  <2>2. UNCHANGED ringVars => UNCHANGED Ring!Abstract!vars
    BY DEF ringVars, Ring!Abstract!vars, Ring!Listed
  <2>3. UNCHANGED <<vars, cacheVars, historyVars, ringVars>> => UNCHANGED ringVars
    OBVIOUS
  <2> QED BY <1>2, <2>1, <2>2, <2>3 DEF RingNext
<1> QED
  BY <1>1, <1>2, RingHolds, PTL DEF RingSpec, RingImplementsMap, Ring!ImplementsEvictingMap, Ring!Abstract!Spec
=============================================================================
