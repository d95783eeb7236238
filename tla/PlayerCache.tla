------------------------------ MODULE PlayerCache -----------------------------
(***************************************************************************)
(* The effects of a player as playerCache keeps them                       *)
(* (diohandler/cache.go:13-99).  The map is serverEffects: handlePacket    *)
(* sets what the server does to the player's effects under the tick it     *)
(* does it in, and tickTo applies it when the simulation gets there.       *)
(* tickTODOs is nil at all times, so that no deferred end of an effect     *)
(* ever runs, and the first effect that has one panics.                    *)
(***************************************************************************)
EXTENDS EvictingMap

CONSTANTS
  Types,      \* of effects
  MaxTick     \* bound of the ticks

\* effectData; timed is: duration > 0.
EffectData ==
  [op : {"add", "modify", "remove"}, type : Types, level : Nat, timed : BOOLEAN]

ASSUME CacheAssumption == MaxTick \in Nat /\ Keys = 0..MaxTick /\ Data \subseteq EffectData

VARIABLES
  lastTick,
  lastTickEffects,   \* from the types of the player's effects to their levels
  to,                \* the tick tickTo is on its way to
  panicked,
  sent,              \* history: what the server has sent for each tick, in order
  missed             \* history: something sent was lost, see Loses

cacheVars == <<lastTick, lastTickEffects, to, panicked>>
historyVars == <<sent, missed>>

NoEffects == [t \in {} |-> 0]

CacheInit ==
  /\ Init
  /\ lastTick = 0 /\ to = 0 /\ panicked = FALSE
  /\ lastTickEffects = NoEffects
  /\ sent = [k \in Keys |-> <<>>] /\ missed = FALSE

\* Waits(k): the datum for tick k has yet to be applied.
Waits(k) == k > lastTick

\* After c, d leaves the effects as it leaves them without c.
Supersedes(d, c) == d.type = c.type /\ (d.op = "modify" => c.op = "modify")

\* What the server sends for tick k is lost when it comes after its tick; so is
\* what waits when k takes its place in the map; and what waits for the same
\* tick, which d replaces, unless it is of no account after d.
Loses(k, d) ==
  \/ ~Waits(k)
  \/ \E j \in DOMAIN store : Waits(j) /\ j \notin DOMAIN store'
  \/ Holds(k) /\ ~Supersedes(d, store[k])

\* dioHandleMobEffect, between two calls of tickTo.  The history is kept until
\* something is lost.
HandleMobEffect(k, d) ==
  /\ to = lastTick /\ ~panicked
  /\ Set(k, d)
  /\ missed' = (missed \/ Loses(k, d))
  /\ sent' = IF missed' THEN [j \in Keys |-> <<>>] ELSE [sent EXCEPT ![k] = Append(@, d)]
  /\ UNCHANGED cacheVars

TickTo(tick) ==
  /\ to = lastTick /\ ~panicked
  /\ tick > lastTick
  /\ to' = tick
  /\ UNCHANGED <<vars, lastTick, lastTickEffects, panicked, historyVars>>

\* handleEffectData: the effects after d.
After(effects, d) ==
  CASE d.op = "add" \/ (d.op = "modify" /\ d.type \in DOMAIN effects) ->
         [t \in DOMAIN effects \union {d.type} |-> IF t = d.type THEN d.level ELSE effects[t]]
    [] d.op = "remove" -> [t \in DOMAIN effects \ {d.type} |-> effects[t]]
    [] OTHER -> effects

\* addTODO, which writes to tickTODOs.
Defers(d) == d.op = "add" /\ d.timed

\* Mutant: the tick tickTo ends at is not looked at.
Applies_NotLast(k) == Holds(k) /\ k < to

Applies(k) == Holds(k)

\* A round of tickTo: the next tick, and what the server did in it.
Tick ==
  LET k == lastTick + 1
  IN  /\ lastTick < to /\ ~panicked
      /\ lastTick' = k
      /\ lastTickEffects' = IF Applies(k) THEN After(lastTickEffects, store[k]) ELSE lastTickEffects
      /\ panicked' = (Applies(k) /\ Defers(store[k]))
      /\ UNCHANGED <<vars, to, historyVars>>

CacheNext ==
  \/ \E k \in Keys, d \in Data : HandleMobEffect(k, d)
  \/ \E tick \in 1..MaxTick : TickTo(tick)
  \/ Tick

CacheSpec == CacheInit /\ [][CacheNext]_<<vars, cacheVars, historyVars>>

-----------------------------------------------------------------------------
\* The effects after all of ds, one after the other.
AfterAll(effects, ds) ==
  LET f[j \in 0..Len(ds)] == IF j = 0 THEN effects ELSE After(f[j - 1], ds[j])
  IN  f[Len(ds)]

\* The effects after the first n ticks of all that the server sent.
Replayed[n \in 0..MaxTick] ==
  IF n = 0 THEN NoEffects ELSE AfterAll(Replayed[n - 1], sent[n])

\* Whatever the order in which the server's packets and the ticks come, the
\* effects are those the server has sent, up to lastTick, in the order of the
\* ticks and of the packets for one tick; unless one came after its tick, was
\* evicted before it, or was replaced by a later one of the same tick that does
\* not make up for it: one of another type, or a change of what it added or
\* removed (cache.go:49-87, ordered_map.go:23-32, handle_packet.go:62).
EffectsFollow == ~missed => lastTickEffects = Replayed[lastTick]

\* What waits for its tick is evicted only when all that is held waits, or
\* when a key less than the first was set while it was first.
WaitingIsKept ==
  [][ \A k \in DOMAIN store \ DOMAIN store' :
        Waits(k) => late \/ \A j \in DOMAIN store : Waits(j) ]_<<vars, cacheVars, historyVars>>
=============================================================================
