-------------------------------- MODULE Taker ---------------------------------
(***************************************************************************)
(* One connection of the anti-cheat with all its goroutines: HandlePlayers *)
(* (taker.go:22-91), which reads it, keeps the table and closes the        *)
(* players; handleTaker (anticheat.go:76-82), which takes each new player  *)
(* from the unbuffered t.inc and starts its handler; and the handlers      *)
(* (acplayerconn.go:44-73), which read their own pkStream.                 *)
(*                                                                         *)
(* What the frames hold is the peer's choice: any kind, any id, in any     *)
(* order.  The frames of a player are numbered from 1, so that pkStream    *)
(* holds numbers.  Conn.Close is two steps, close(c.close) and, once       *)
(* flushLoop has ended, the closing of the socket; it is module Conn's.    *)
(***************************************************************************)
EXTENDS Naturals, Sequences, Functions

CONSTANTS
  Ids,          \* player ids on the wire
  MaxPlayers,   \* bound: ACplayerConns made
  MaxFrames,    \* bound: frames of players
  StreamCap     \* capacity of pkStream, 32

ASSUME TakerAssumption ==
  MaxPlayers \in Nat /\ MaxFrames \in Nat /\ StreamCap \in Nat \ {0}

Players == 1..MaxPlayers

VARIABLES
  reader,    \* where HandlePlayers is
  accepter,  \* where handleTaker is
  closed,    \* t.close is closed
  down,      \* the socket is closed
  table,     \* idToPlayer, a function whose domain is the ids it holds
  made,      \* ACplayerConns made; the last is the one being handed over
  gone,      \* per player: p.close is closed
  stream,    \* per player: pkStream
  handler,   \* per player: its handler: "none", "running" or "done"
  sent,      \* per player: frames routed to it while it was open
  got,       \* per player: the last frame its handler took
  full,      \* history, per player: a frame was dropped on a full pkStream
  orphans    \* history: players whose entry was overwritten

connVars == <<closed, down>>
playerVars == <<gone, stream, handler, sent, got, full>>
vars == <<reader, accepter, connVars, table, made, playerVars, orphans>>

Init ==
  /\ reader = "top" /\ accepter = "range"
  /\ closed = FALSE /\ down = FALSE
  /\ table = [i \in {} |-> 0] /\ made = 0
  /\ gone = [p \in Players |-> FALSE]
  /\ stream = [p \in Players |-> <<>>]
  /\ handler = [p \in Players |-> "none"]
  /\ sent = [p \in Players |-> 0] /\ got = [p \in Players |-> 0]
  /\ full = [p \in Players |-> FALSE]
  /\ orphans = {}

ClosePlayers(ps) == gone' = [p \in Players |-> gone[p] \/ p \in ps]

-----------------------------------------------------------------------------
(* HandlePlayers.                                                          *)

\* The top of the loop looks at t.close, without waiting.
Top ==
  /\ reader = "top"
  /\ reader' = IF closed THEN "leaving" ELSE "read"
  /\ UNCHANGED <<accepter, connVars, table, made, playerVars, orphans>>

\* A frame arrives: what it is changes nothing here (NewDialPacket, a packet
\* that does not decode, an id without a player).
ReadOther ==
  /\ reader = "read" /\ ~down
  /\ reader' = "top"
  /\ UNCHANGED <<accepter, connVars, table, made, playerVars, orphans>>

\* The peer breaks the connection or its framing, or sends a packet that was
\* not expected.
ReadFails ==
  /\ reader = "read" /\ ~down
  /\ reader' = "leaving"
  /\ UNCHANGED <<accepter, connVars, table, made, playerVars, orphans>>

ReadClosed ==
  /\ reader = "read" /\ down
  /\ reader' = "leaving"
  /\ UNCHANGED <<accepter, connVars, table, made, playerVars, orphans>>

\* IncomingPlayerPacket: the new player is in the table before it has a handler.
IncomingPlayer(i) ==
  /\ reader = "read" /\ ~down
  /\ made < MaxPlayers
  /\ made' = made + 1
  /\ orphans' = orphans \union {table[j] : j \in DOMAIN table \intersect {i}}
  /\ table' = [j \in DOMAIN table \union {i} |-> IF j = i THEN made' ELSE table[j]]
  /\ reader' = "handoff"
  /\ UNCHANGED <<accepter, connVars, playerVars>>

\* t.inc <- a meets AcceptPlayerConn, whose body starts the handler.
Handoff ==
  /\ reader = "handoff" /\ accepter = "range"
  /\ handler' = [handler EXCEPT ![made] = "running"]
  /\ reader' = "top"
  /\ UNCHANGED <<accepter, connVars, table, made, gone, stream, sent, got, full, orphans>>

\* Mutant: t.inc <- a without the select.
HandoffClosed_Never == FALSE

HandoffClosed ==
  /\ reader = "handoff" /\ closed
  /\ ClosePlayers({made})
  /\ reader' = "leaving"
  /\ UNCHANGED <<accepter, connVars, table, made, stream, handler, sent, got, full, orphans>>

\* Mutant: the player leaves the table and is not closed.
DisconnectedPlayer_NoClose(i) ==
  /\ reader = "read" /\ ~down
  /\ table' = [j \in DOMAIN table \ {i} |-> table[j]]
  /\ reader' = "top"
  /\ UNCHANGED <<accepter, connVars, made, playerVars, orphans>>

DisconnectedPlayer(i) ==
  /\ reader = "read" /\ ~down
  /\ ClosePlayers({table[j] : j \in DOMAIN table \intersect {i}})
  /\ table' = [j \in DOMAIN table \ {i} |-> table[j]]
  /\ reader' = "top"
  /\ UNCHANGED <<accepter, connVars, made, stream, handler, sent, got, full, orphans>>

\* sendPacketToPlayer never waits: the frame goes into pkStream, or is
\* dropped when that is full, or (its select may choose so) when p is closed.
Keep(p) ==
  /\ Len(stream[p]) < StreamCap
  /\ sent' = [sent EXCEPT ![p] = @ + 1]
  /\ stream' = [stream EXCEPT ![p] = Append(@, sent'[p])]
  /\ UNCHANGED full

\* Mutant: the oldest frame makes room.
DropFull_Oldest(p) ==
  /\ ~gone[p] /\ Len(stream[p]) = StreamCap
  /\ sent' = [sent EXCEPT ![p] = @ + 1]
  /\ stream' = [stream EXCEPT ![p] = Append(Tail(@), sent'[p])]
  /\ UNCHANGED full

DropFull(p) ==
  /\ ~gone[p] /\ Len(stream[p]) = StreamCap
  /\ sent' = [sent EXCEPT ![p] = @ + 1]
  /\ full' = [full EXCEPT ![p] = TRUE]
  /\ UNCHANGED stream

DropClosed(p) ==
  /\ gone[p]
  /\ UNCHANGED <<sent, stream, full>>

PlayerPacket(i) ==
  /\ reader = "read" /\ ~down
  /\ i \in DOMAIN table
  /\ sent[table[i]] < MaxFrames
  /\ Keep(table[i]) \/ DropFull(table[i]) \/ DropClosed(table[i])
  /\ reader' = "top"
  /\ UNCHANGED <<accepter, connVars, table, made, gone, handler, got, orphans>>

\* The deferred calls: t.Close, which returns once the socket is closed, and
\* then Close of every player of the table.
Leave ==
  /\ reader = "leaving"
  /\ closed' = TRUE
  /\ reader' = "closing"
  /\ UNCHANGED <<accepter, down, table, made, playerVars, orphans>>

\* Mutant: the table is cleared, its players stay open.
Purge_NoClose ==
  /\ reader = "closing" /\ down
  /\ table' = [i \in {} |-> 0]
  /\ reader' = "done"
  /\ UNCHANGED <<accepter, connVars, made, playerVars, orphans>>

Purge ==
  /\ reader = "closing" /\ down
  /\ ClosePlayers(Range(table))
  /\ table' = [i \in {} |-> 0]
  /\ reader' = "done"
  /\ UNCHANGED <<accepter, connVars, made, stream, handler, sent, got, full, orphans>>

HandlePlayers ==
  \/ Top \/ ReadClosed \/ Handoff \/ HandoffClosed \/ Leave \/ Purge

\* What the peer decides.
Peer ==
  \/ ReadOther \/ ReadFails
  \/ \E i \in Ids : IncomingPlayer(i) \/ DisconnectedPlayer(i) \/ PlayerPacket(i)

-----------------------------------------------------------------------------
(* Conn.Close, and who else calls it.                                      *)

CloseEnds ==
  /\ closed /\ ~down
  /\ down' = TRUE
  /\ UNCHANGED <<reader, accepter, closed, table, made, playerVars, orphans>>

\* Listener.Close, or flushLoop after a failed write.
CloseElsewhere ==
  /\ ~closed
  /\ closed' = TRUE
  /\ UNCHANGED <<reader, accepter, down, table, made, playerVars, orphans>>

\* handleTaker: AcceptPlayerConn ends when t.close is closed.
RangeEnds ==
  /\ accepter = "range" /\ closed
  /\ accepter' = "closing"
  /\ UNCHANGED <<reader, connVars, table, made, playerVars, orphans>>

HandleTakerReturns ==
  /\ accepter = "closing" /\ down
  /\ accepter' = "done"
  /\ UNCHANGED <<reader, connVars, table, made, playerVars, orphans>>

-----------------------------------------------------------------------------
(* A player's handler: ReadPacketTilDisconnect, whose deferred call closes *)
(* the player.                                                             *)

HandlerEnds(p) ==
  /\ handler[p] = "running" /\ gone[p]
  /\ handler' = [handler EXCEPT ![p] = "done"]
  /\ UNCHANGED <<reader, accepter, connVars, table, made, gone, stream, sent, got, full, orphans>>

HandlerTakes(p) ==
  /\ handler[p] = "running" /\ stream[p] # <<>>
  /\ got' = [got EXCEPT ![p] = Head(stream[p])]
  /\ stream' = [stream EXCEPT ![p] = Tail(@)]
  /\ UNCHANGED <<reader, accepter, connVars, table, made, gone, handler, sent, full, orphans>>

\* The frame has an unknown packet id: the handler leaves, the table keeps p.
HandlerFails(p) ==
  /\ handler[p] = "running" /\ stream[p] # <<>>
  /\ stream' = [stream EXCEPT ![p] = Tail(@)]
  /\ handler' = [handler EXCEPT ![p] = "done"]
  /\ ClosePlayers({p})
  /\ UNCHANGED <<reader, accepter, connVars, table, made, sent, got, full, orphans>>

Next ==
  \/ HandlePlayers \/ Peer
  \/ CloseEnds \/ CloseElsewhere \/ RangeEnds \/ HandleTakerReturns
  \/ \E p \in Players : HandlerEnds(p) \/ HandlerTakes(p) \/ HandlerFails(p)

\* Goroutines that can move do; the peer, and Close from elsewhere, need not.
Fairness ==
  /\ WF_vars(HandlePlayers) /\ WF_vars(CloseEnds)
  /\ WF_vars(RangeEnds) /\ WF_vars(HandleTakerReturns)
  /\ \A p \in Players : WF_vars(HandlerEnds(p)) /\ WF_vars(HandlerTakes(p))

Spec == Init /\ [][Next]_vars
FairSpec == Spec /\ Fairness

-----------------------------------------------------------------------------
\* A handler that waits can be told to stop: its player is in the table, where
\* DisconnectedPlayerPacket and the end of HandlePlayers find it, or it is
\* closed already.  The exception is a player whose id was announced again:
\* its entry is overwritten and nothing closes it (taker.go:63-64).
Reachable ==
  \A p \in 1..made : ~gone[p] => p \in Range(table) \/ p \in orphans

\* A handler never sees an older frame after a newer one; and as long as its
\* player is open and pkStream has had room, it has had every frame routed to
\* the player, those in pkStream excepted (acplayerconn.go:34-51).
NoGap ==
  \A p \in Players :
    /\ \A k \in DOMAIN stream[p] :
         (IF k = 1 THEN got[p] ELSE stream[p][k - 1]) < stream[p][k] /\ stream[p][k] <= sent[p]
    /\ ~gone[p] /\ ~full[p] => got[p] + Len(stream[p]) = sent[p]

\* Once t.close is closed, whoever closed it, HandlePlayers and handleTaker
\* return: neither waits for the other at t.inc (taker.go:66-71, 124-138).
TakerEnds == closed ~> (reader = "done" /\ accepter = "done")

\* ... and so does every handler, the overwritten ones excepted.
HandlersEnd ==
  \A p \in Players :
    closed ~> (p \in orphans \/ (reader = "done" /\ handler[p] # "running"))
=============================================================================
