----------------------------- MODULE OrderedMap -------------------------------
(***************************************************************************)
(* utils.OrderedMap (ordered_map.go): a map whose keys are also in a ring  *)
(* buffer.  The caches of the movement history (diohandler/cache.go:20-24) *)
(* are OrderedMaps from ticks to what the server did to the player.        *)
(***************************************************************************)
EXTENDS Integers, Sequences, SequencesExt

CONSTANTS Keys, Data, Size

VARIABLES
  unorderedMap,
  sortedRing,   \* indexed from 0, as in Go
  ringStart,
  n,
  late          \* history: a key less than the first has been set since it is first

vars == <<unorderedMap, sortedRing, ringStart, n, late>>

Unset == 0      \* what make([]T, size) holds

Init ==
  /\ unorderedMap = [k \in {} |-> CHOOSE d \in Data : TRUE]
  /\ sortedRing = [i \in 0..(Size - 1) |-> Unset]
  /\ ringStart = 0 /\ n = 0
  /\ late = FALSE

\* The loop of Set: its guard, and a round of it, with s.i where the key is.
Sinks(s, first) ==
  LET at == s.i % Size  before == (s.i - 1) % Size
  IN  s.ring[at] < s.ring[before] /\ before # first

Sunk(s) ==
  LET at == s.i % Size  before == (s.i - 1) % Size
  IN  [i |-> s.i + Size - 1,
       ring |-> [s.ring EXCEPT ![at] = s.ring[before], ![before] = s.ring[at]]]

\* Mutant: no sifting.
Sifted_Not(ring, first, count) == ring

\* The ring when the loop ends.  Bound: Size rounds, after which its guard is
\* false whatever the keys (theorem SiftEnds of PlayerCacheProofs).
Sifted(ring, first, count) ==
  LET Round[j \in 0..Size] ==
        IF j = 0 THEN [i |-> first + count, ring |-> ring]
        ELSE IF Sinks(Round[j - 1], first) THEN Sunk(Round[j - 1]) ELSE Round[j - 1]
  IN  IF count > 0 THEN Round[Size].ring ELSE ring

Replace(k, d) ==
  /\ k \in DOMAIN unorderedMap
  /\ unorderedMap' = [unorderedMap EXCEPT ![k] = d]
  /\ UNCHANGED <<sortedRing, ringStart, n, late>>

Full == n = Size

Kept == IF Full THEN DOMAIN unorderedMap \ {sortedRing[ringStart]} ELSE DOMAIN unorderedMap

Insert(k, d) ==
  LET first == IF Full THEN (ringStart + 1) % Size ELSE ringStart
      count == IF Full THEN n - 1 ELSE n
  IN  /\ k \notin DOMAIN unorderedMap
      /\ unorderedMap' = [j \in Kept \union {k} |-> IF j = k THEN d ELSE unorderedMap[j]]
      /\ sortedRing' = Sifted([sortedRing EXCEPT ![(first + count) % Size] = k], first, count)
      /\ ringStart' = first
      /\ n' = count + 1
      /\ late' = ((~Full /\ late) \/ (count > 0 /\ k < sortedRing[first]))

Set(k, d) == Replace(k, d) \/ Insert(k, d)

Next == \E k \in Keys, d \in Data : Set(k, d)

Spec == Init /\ [][Next]_vars

-----------------------------------------------------------------------------
\* The keys in the ring, from the first.
Listed == [i \in 1..n |-> sortedRing[(ringStart + i - 1) % Size]]

Abstract == INSTANCE EvictingMap WITH store <- unorderedMap, order <- Listed

\* The ring buffer, its wrapping and its loop of swaps implement the list
\* (ordered_map.go:22-43).
ImplementsEvictingMap == Abstract!Spec
=============================================================================
