--------------------------------- MODULE Link ---------------------------------
(***************************************************************************)
(* Forwarder and Registry on the two ends of a link.  The forwarder        *)
(* appends to queue and the taker pops it; either end, or the world,       *)
(* breaks link; a new connection comes with a new Taker.                   *)
(***************************************************************************)
EXTENDS Forwarder

VARIABLES alive, expects, table, orphans, routed, refused

T == INSTANCE Registry

takerVars == <<alive, expects, table, orphans, routed, refused>>
forwarderVars == <<tableVars, gen, up, sessionVars, dialerVars, isConnDown, ready, announced, ghost>>

LinkInit == Init /\ T!Init

Connects == link # "ok" /\ link' = "ok"

LinkNext ==
  \/ Next /\ (IF Connects THEN T!Accept ELSE UNCHANGED takerVars)
  \/ T!Next /\ UNCHANGED forwarderVars

LinkSpec == LinkInit /\ [][LinkNext]_<<vars, takerVars>>

\* Goroutines that are not blocked run on; DialF succeeds eventually.  No
\* fairness on players coming and going, nor on failures.
TakerFor(d) == Dialer(d) /\ (IF Connects THEN T!Accept ELSE UNCHANGED takerVars)
LinkFairSpec ==
  /\ LinkSpec
  /\ \A s \in Sessions : WF_<<vars, takerVars>>(SendIncPlayer(s) /\ at[s] \in {"incGate", "incSend"} /\ UNCHANGED takerVars)
  /\ \A d \in Dialers : WF_<<vars, takerVars>>(TakerFor(d))
  /\ WF_<<vars, takerVars>>(CloseDone /\ UNCHANGED takerVars)
  /\ WF_<<vars, takerVars>>(T!Next /\ UNCHANGED forwarderVars)

-----------------------------------------------------------------------------
\* Nothing is under way: every goroutine is at rest, the connection is up on
\* both ends, and the taker has read everything.
Settled ==
  /\ ready /\ Open /\ ~isConnDown
  /\ \A s \in Sessions : at[s] \in {"new", "live", "gone"}
  /\ \A d \in Dialers : dialer[d] \in {"idle", "finished"}
  /\ alive /\ queue = <<>>

\* A player's packet is handed to another player's handler only if, on that
\* connection, ondial announced a player of its snapshot who had left by then
\* (forwarder.go:140-147), or a player it knew left while isConnDown kept the
\* DisconnectedPlayerPacket back (playerconn.go:50, forwarder.go:98-99).
\* Without redialing it never happens.
MisattributionNeedsGhost == \A r \in routed : r[1] # r[2] => ghost

\* Once settled, the anti-cheat's table maps the id of every player to that
\* player, with the same exception; without redialing it holds nobody else.
Mirror ==
  Settled =>
    /\ ~ghost => \A s \in Sessions : at[s] = "live" => T!Knows(id[s]) /\ table[id[s]] = s
    /\ ~ShouldRedial => \A i \in DOMAIN table : at[table[i]] = "live"

\* With the same exception, the entry of a player whose handler is open is
\* overwritten by that player alone: announced twice, by its own goroutine and
\* by a redialer's replay.  Without redialing no entry is: an ACplayerConn is
\* closed by its DisconnectedPlayerPacket (forwarder.go:100, 140-147, 180,
\* taker.go:60-80).
OrphanNeedsGhost == ~ghost => \A o \in orphans : ShouldRedial /\ o[1] = o[2]

\* The listener expects a NewDialPacket before anything else (listener.go:66).
NewDialFirst == ~refused

\* Nobody is forgotten by a redial: a live player has been announced on the
\* current connection, or some dialer has yet to read the table, or has the
\* player in what it read (forwarder.go:98-100, 133-149).
NobodyForgotten ==
  \A s \in Sessions : at[s] = "live" /\ Open /\ ~isConnDown =>
    \/ s \in announced
    \/ \E d \in Dialers :
         \/ dialer[d] \in {"truncate", "store", "dialGate", "dialSend", "snapshot"}
         \/ s \in ToSet(todo[d])

\* After redials and joins in any order, the anti-cheat comes to know a player
\* who stays, as long as the connection does, and unless a ghost has taken the
\* entry of its id (forwarder.go:98-100, 140-147, taker.go:60-71).
ComesToKnow ==
  \A s \in Sessions :
    (at[s] = "live" /\ link = "ok") ~>
      (at[s] # "live" \/ link # "ok" \/ ghost \/ (T!Knows(id[s]) /\ table[id[s]] = s))
=============================================================================
