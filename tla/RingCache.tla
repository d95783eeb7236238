------------------------------- MODULE RingCache -------------------------------
(***************************************************************************)
(* PlayerCache over the OrderedMap it is built on: serverEffects is set in *)
(* the ring (cache.go:20-24, 49-66) and, in the same step, in the list     *)
(* that PlayerCache reads.  The ring never disables a step, so whatever    *)
(* holds of the list holds of the ring that implements it.                 *)
(***************************************************************************)
EXTENDS PlayerCache

VARIABLES unorderedMap, sortedRing, ringStart, n, ringLate

Ring == INSTANCE OrderedMap WITH late <- ringLate

ringVars == <<unorderedMap, sortedRing, ringStart, n, ringLate>>

RingInit == CacheInit /\ Ring!Init

RingNext ==
  \/ \E k \in Keys, d \in Data : HandleMobEffect(k, d) /\ Ring!Set(k, d)
  \/ (\E tick \in 1..MaxTick : TickTo(tick)) /\ UNCHANGED ringVars
  \/ Tick /\ UNCHANGED ringVars

RingSpec == RingInit /\ [][RingNext]_<<vars, cacheVars, historyVars, ringVars>>

-----------------------------------------------------------------------------
\* The ring buffer, its wrapping and its loop of swaps implement the list that
\* PlayerCache is about (ordered_map.go:22-43): for every sequence of packets
\* and ticks, including those after which the ring has wrapped.
RingImplementsMap == Ring!ImplementsEvictingMap
=============================================================================
