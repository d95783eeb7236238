---------------------------- MODULE MCPlayerCache -----------------------------
(***************************************************************************)
(* A small instance of RingCache: an effect that begins, changes, ends, or *)
(* begins for a time, and another effect.                                  *)
(***************************************************************************)
EXTENDS RingCache

Effect(op, type, level, timed) == [op |-> op, type |-> type, level |-> level, timed |-> timed]

Adds == Effect("add", 1, 1, FALSE)
AddsTimed == Effect("add", 1, 1, TRUE)
Modifies == Effect("modify", 1, 2, FALSE)
Removes == Effect("remove", 1, 1, FALSE)
AddsOther == Effect("add", 2, 1, FALSE)

MCTypes == {1, 2}
MCData == {Adds, AddsTimed, Modifies, Removes, AddsOther}
MCTicks == 0..MaxTick

\* Bounds: what the server sends for which tick, and how much for one tick.
\* (What lasts for a time begins at tick 3, where tickTo panics.)
MCFor(k) ==
  CASE k = 0 -> {Adds}
    [] k = 1 -> {Adds, AddsOther}
    [] k = 2 -> {Modifies, Removes, AddsOther}
    [] k = 3 -> {AddsTimed, Modifies, Removes}
    [] OTHER -> {Adds, Modifies, Removes}
MCStore == \A k \in DOMAIN store : store[k] \in MCFor(k)
MCSent == \A k \in Keys : Len(sent[k]) <= 2
=============================================================================
