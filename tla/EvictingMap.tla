----------------------------- MODULE EvictingMap ------------------------------
(***************************************************************************)
(* What utils.OrderedMap promises: a map that holds the last Size keys set,*)
(* kept in a list.  Setting a key it holds replaces the datum; a new key   *)
(* goes behind the keys that are not greater, but never before the first   *)
(* of the list, and when the map is full the first goes.  The order of the *)
(* list is that of the keys, then, but for its first.                      *)
(***************************************************************************)
EXTENDS Integers, Sequences, SequencesExt

CONSTANTS
  Keys,    \* a set of integers
  Data,
  Size     \* len(sortedRing)

ASSUME MapAssumption == Keys \subseteq Int /\ Size \in Nat \ {0}

VARIABLES
  store,   \* unorderedMap, a function whose domain is the keys it holds
  order,   \* those keys
  late     \* history: a key less than the first has been set since it is first

vars == <<store, order, late>>

Init == store = [k \in {} |-> CHOOSE d \in Data : TRUE] /\ order = <<>> /\ late = FALSE

Holds(k) == k \in DOMAIN store

\* The place of a new key in list q (there is one when Sorted): behind the
\* first, and behind the last of those that are not greater.
Places(q, k) ==
  IF q = <<>> THEN {1}
  ELSE {p \in 2..(Len(q) + 1) :
          /\ \A i \in p..Len(q) : k < q[i]
          /\ p > 2 => q[p - 1] <= k}

\* Mutant: the last makes room.
Rest_Last == IF Len(order) = Size THEN Front(order) ELSE order

\* The list when there is room for one more.
Rest == IF Len(order) = Size THEN Tail(order) ELSE order

Replace(k, d) ==
  /\ Holds(k)
  /\ store' = [store EXCEPT ![k] = d]
  /\ UNCHANGED <<order, late>>

Insert(k, d) ==
  /\ ~Holds(k)
  /\ \E p \in Places(Rest, k) : order' = InsertAt(Rest, p, k)
  /\ store' = [j \in Range(Rest) \union {k} |-> IF j = k THEN d ELSE store[j]]
  /\ late' = ((Len(order) < Size /\ late) \/ (Rest # <<>> /\ k < Head(Rest)))

Set(k, d) == Replace(k, d) \/ Insert(k, d)

Next == \E k \in Keys, d \in Data : Set(k, d)

Spec == Init /\ [][Next]_vars

-----------------------------------------------------------------------------
TypeOK ==
  /\ order \in Seq(Keys)
  /\ DOMAIN store \subseteq Keys /\ \A k \in DOMAIN store : store[k] \in Data
  /\ late \in BOOLEAN

\* The list holds the keys of the map, each once, and is no longer than Size:
\* unorderedMap neither leaks nor loses a key (ordered_map.go:27-35).
SameKeys ==
  /\ DOMAIN store = Range(order)
  /\ IsInjective(order)
  /\ Len(order) <= Size

\* Behind the first the keys are in order (ordered_map.go:36-41).
Sorted == \A i, j \in 2..Len(order) : i < j => order[i] < order[j]

\* The key to be evicted next is the least, unless a lesser one was set while
\* it was first: keys that arrive a little late are put in their place, keys
\* that arrive too late are not.
FirstIsLeast == ~late => \A i \in 2..Len(order) : order[1] < order[i]
=============================================================================
