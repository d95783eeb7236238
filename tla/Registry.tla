------------------------------- MODULE Registry -------------------------------
(***************************************************************************)
(* The anti-cheat's end of a link: what Taker.HandlePlayers does with each *)
(* packet of its connection (taker.go:22-113).  The taker pops the packets *)
(* from queue; link breaks under it, or it breaks link.  An ACplayerConn   *)
(* is named by its player; what becomes of the packets it is given is      *)
(* module Taker's.                                                         *)
(***************************************************************************)
EXTENDS Sequences

CONSTANTS Sessions, Nobody

VARIABLES
  queue,     \* packets on their way to the taker
  link,      \* its connection: "none", "ok" or "broken"
  alive,     \* HandlePlayers is running
  expects,   \* t.expects holds the NewDialPacket accept() put there
  table,     \* idToPlayer, a function whose domain is the ids it holds
  orphans,   \* history: whose entry was overwritten, not closed, and by whom
  routed,    \* history: <<from, to>>: a packet of from was given to to
  refused    \* history: HandlePlayers left because of an unexpected packet

takerVars == <<alive, expects, table, orphans, routed, refused>>

NoTable == [i \in {} |-> Nobody]

Init ==
  /\ alive = (link = "ok")
  /\ expects = TRUE
  /\ table = NoTable
  /\ orphans = {} /\ routed = {} /\ refused = FALSE

\* Mutant: the table outlives the connection.
Accept_KeepsTable ==
  /\ alive' = TRUE
  /\ expects' = TRUE
  /\ orphans' = {} /\ routed' = {} /\ refused' = FALSE
  /\ UNCHANGED table

\* accept() makes a Taker of a connection; the previous one no longer counts.
Accept ==
  /\ alive' = TRUE
  /\ expects' = TRUE
  /\ table' = NoTable
  /\ orphans' = {} /\ routed' = {} /\ refused' = FALSE

Knows(i) == i \in DOMAIN table

\* HandlePlayers reads packet p, and it is of the given kind.
Reads(p, kind) ==
  /\ alive
  /\ link # "none"
  /\ p.kind = kind
  /\ queue' = Tail(queue)

\* asExpected takes the expectation, if there is one, and compares it.
Expected(p) == expects => p.kind = "dial"

Unexpected(p) ==
  /\ ~Expected(p)
  /\ Reads(p, p.kind) /\ p.kind # "data"
  /\ refused' = TRUE
  /\ alive' = FALSE
  /\ expects' = FALSE
  /\ table' = NoTable
  /\ link' = "broken"
  /\ UNCHANGED <<orphans, routed>>

NewDial(p) ==
  /\ Reads(p, "dial")
  /\ expects' = FALSE
  /\ UNCHANGED <<link, alive, table, orphans, routed, refused>>

IncomingPlayer(p) ==
  /\ Reads(p, "inc")
  /\ Expected(p)
  /\ table' = [i \in DOMAIN table \union {p.id} |-> IF i = p.id THEN p.from ELSE table[i]]
  /\ orphans' = orphans \union (IF Knows(p.id) THEN {<<table[p.id], p.from>>} ELSE {})
  /\ UNCHANGED <<link, alive, expects, routed, refused>>

\* Mutant: the player is closed, and its entry stays.
DisconnectedPlayer_KeepsEntry(p) ==
  /\ Reads(p, "disc")
  /\ Expected(p)
  /\ UNCHANGED <<link, alive, expects, table, orphans, routed, refused>>

DisconnectedPlayer(p) ==
  /\ Reads(p, "disc")
  /\ Expected(p)
  /\ table' = [i \in DOMAIN table \ {p.id} |-> table[i]]
  /\ UNCHANGED <<link, alive, expects, orphans, routed, refused>>

\* A packet whose id is not the server's is given to that id's player, if any.
PlayerPacket(p) ==
  /\ Reads(p, "data")
  /\ routed' = routed \union (IF Knows(p.id) THEN {<<p.from, table[p.id]>>} ELSE {})
  /\ UNCHANGED <<link, alive, expects, table, orphans, refused>>

\* The read fails: the deferred calls close every player of the table.
Eof ==
  /\ alive
  /\ link = "broken"
  /\ alive' = FALSE
  /\ table' = NoTable
  /\ UNCHANGED <<queue, link, expects, orphans, routed, refused>>

Handle(p) ==
  \/ Unexpected(p) \/ NewDial(p) \/ IncomingPlayer(p)
  \/ DisconnectedPlayer(p) \/ PlayerPacket(p)

Next ==
  \/ queue # <<>> /\ Handle(Head(queue))
  \/ Eof
=============================================================================
