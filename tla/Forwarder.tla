------------------------------ MODULE Forwarder -------------------------------
(***************************************************************************)
(* The forwarder's end of a link to the anti-cheat (forwarder.go,          *)
(* playerconn.go): the table of player ids, the packets that announce and  *)
(* retire a player, and the redialing of a lost connection, with every     *)
(* player's goroutine and every redialing goroutine interleaved.           *)
(*                                                                         *)
(* A connection is abstracted to what FrameStream promises of it: a FIFO   *)
(* queue of the frames its current incarnation accepted and the peer has   *)
(* not read, which may break and lose the rest.  What an earlier           *)
(* incarnation accepted no longer matters to the forwarder.  forwardPacket *)
(* is two steps: the look at isConnDown, and the append under sendBufMu,   *)
(* which goes to the incarnation that is current by then.                  *)
(***************************************************************************)
EXTENDS Integers, Sequences, SequencesExt

CONSTANTS
  Sessions,       \* stays of players, one goroutine each
  Nobody,         \* an empty slot of idToPconn
  ShouldRedial,   \* conf.ShouldRedial
  Retries,        \* conf.Redialretrys; 0 is "for ever"
  MaxConns,       \* bound: connections made; a redialer's last is not closed
  MaxData,        \* bound: packets the sessions forward
  MaxInFlight     \* bound: frames on their way to the peer

\* Dialer 0 is the call of Dial, or the goroutine it starts when its dial
\* fails; dialer g is the one that Close of incarnation g starts.
Dialers == 0..MaxConns

ASSUME ForwarderAssumption ==
  /\ Nobody \notin Sessions
  /\ ShouldRedial \in BOOLEAN
  /\ Retries \in Nat /\ MaxConns \in Nat \ {0} /\ MaxData \in Nat
  /\ MaxInFlight \in Nat \ {0}

\* The packets, and whose they are (XUID of an announcement; of a forwarded
\* packet, the goroutine it came from, which is not on the wire).
Ids == Nat
Packet(kind, id, from) == [kind |-> kind, id |-> id, from |-> from]
Packets == [kind : {"dial", "inc", "data", "disc"}, id : Ids,
            from : Sessions \union {Nobody}]

VARIABLES
  slots,     \* idToPconn; the id of a slot is its index, from 0
  free,      \* emptyIdSlot, a stack
  isConnDown,
  gen,       \* the current incarnation of Conn, 0 before the first
  up,        \* its c.close is open
  link,      \* its connection: "none", "ok" or "broken"
  queue,     \* frames it has accepted and the peer has not read
  at,        \* where each session's goroutine is
  id,        \* the id of each session
  data,      \* packets the sessions have forwarded
  dialer,    \* where each dialer is
  todo,      \* players each dialer has still to announce
  tries,     \* dials each dialer has made
  ready,     \* Dial has returned the Forwarder
  announced, \* history: players announced on the current incarnation
  ghost      \* history: one of them left, and the peer is not told

tableVars == <<slots, free>>
connVars == <<gen, up, link>>
sessionVars == <<at, id, data>>
dialerVars == <<dialer, todo, tries>>
vars == <<tableVars, connVars, sessionVars, dialerVars, isConnDown, queue, ready, announced, ghost>>

\* Dial connected, or (with ShouldRedial) it did not and returned all the same.
Dialed ==
  /\ gen = 1 /\ up = TRUE /\ isConnDown = FALSE /\ ready = FALSE
  /\ link = "ok"
  /\ dialer = [d \in Dialers |-> IF d = 0 THEN "dialGate" ELSE "idle"]
Undialed ==
  /\ ShouldRedial
  /\ gen = 0 /\ up = FALSE /\ isConnDown = TRUE /\ ready = TRUE
  /\ link = "none"
  /\ dialer = [d \in Dialers |-> IF d = 0 THEN "dialing" ELSE "idle"]

Init ==
  /\ slots = <<>> /\ free = <<>>
  /\ queue = <<>> /\ announced = {}
  /\ at = [s \in Sessions |-> "new"]
  /\ id = [s \in Sessions |-> 0]
  /\ data = 0
  /\ todo = [d \in Dialers |-> <<>>]
  /\ tries = [d \in Dialers |-> 0]
  /\ ghost = FALSE
  /\ Dialed \/ Undialed

GotoS(s, there) == at' = [at EXCEPT ![s] = there]
GotoD(d, there) == dialer' = [dialer EXCEPT ![d] = there]

\* A session that has an id.
Holds(s) == at[s] \notin {"new", "gone"}

\* The current incarnation takes frames and can still deliver them.
Open == up /\ link = "ok"

\* writePacket refuses the packet if the incarnation is closed.  A frame it
\* takes on a broken connection is lost, as is one it takes before Truncate.
Push(packet) ==
  /\ Open => Len(queue) < MaxInFlight
  /\ queue' = IF Open THEN Append(queue, packet) ELSE queue
  /\ announced' = IF Open /\ packet.kind = "inc" THEN announced \union {packet.from}
                  ELSE announced

-----------------------------------------------------------------------------
(* A player's goroutine.                                                   *)

\* Mutant: the freed id is used, and stays in emptyIdSlot.
Join_KeepsId(s) ==
  /\ at[s] = "new"
  /\ ready
  /\ IF free # <<>>
     THEN /\ id' = [id EXCEPT ![s] = Last(free)]
          /\ slots' = [slots EXCEPT ![Last(free) + 1] = s]
     ELSE /\ id' = [id EXCEPT ![s] = Len(slots)]
          /\ slots' = Append(slots, s)
  /\ GotoS(s, "incGate")
  /\ UNCHANGED <<free, connVars, dialerVars, isConnDown, queue, data, ready, announced, ghost>>

\* The locked part of NewIncomingPlayer: a freed id is taken first.
Join(s) ==
  /\ at[s] = "new"
  /\ ready
  /\ IF free # <<>>
     THEN /\ id' = [id EXCEPT ![s] = Last(free)]
          /\ free' = Front(free)
          /\ slots' = [slots EXCEPT ![Last(free) + 1] = s]
     ELSE /\ id' = [id EXCEPT ![s] = Len(slots)]
          /\ slots' = Append(slots, s)
          /\ UNCHANGED free
  /\ GotoS(s, "incGate")
  /\ UNCHANGED <<connVars, dialerVars, isConnDown, queue, data, ready, announced, ghost>>

\* forwardPacket looks at isConnDown: the packet is dropped if it is set.
Gate(s, gate, send, dropped) ==
  /\ at[s] = gate
  /\ GotoS(s, IF isConnDown THEN dropped ELSE send)
  /\ UNCHANGED <<tableVars, connVars, dialerVars, isConnDown, queue, id, ready, announced>>

Send(s, send, kind, there) ==
  /\ at[s] = send
  /\ Push(Packet(kind, id[s], s))
  /\ GotoS(s, there)
  /\ UNCHANGED <<tableVars, connVars, dialerVars, isConnDown, id, data, ready, ghost>>

SendIncPlayer(s) ==
  \/ Gate(s, "incGate", "incSend", "live") /\ UNCHANGED <<data, ghost>>
  \/ Send(s, "incSend", "inc", "live")

ForwardPacket(s) ==
  \/ /\ data < MaxData
     /\ data' = data + 1
     /\ Gate(s, "live", "dataSend", "live")
     /\ UNCHANGED ghost
  \/ Send(s, "dataSend", "data", "live")

\* Mutant: no DisconnectedPlayerPacket.
Retire_Silently(s) ==
  /\ at[s] = "live"
  /\ GotoS(s, "free")
  /\ UNCHANGED <<tableVars, connVars, dialerVars, isConnDown, queue, id, data, ready, announced, ghost>>

\* DisconnectedPlayer: the packet first, then the slot.
Retire(s) ==
  \/ /\ Gate(s, "live", "discSend", "free")
     /\ ghost' = (ghost \/ (isConnDown /\ s \in announced))
     /\ UNCHANGED data
  \/ Send(s, "discSend", "disc", "free")

FreeSlot(s) ==
  /\ at[s] = "free"
  /\ free' = Append(free, id[s])
  /\ slots' = [slots EXCEPT ![id[s] + 1] = Nobody]
  /\ GotoS(s, "gone")
  /\ UNCHANGED <<connVars, dialerVars, isConnDown, queue, id, data, ready, announced, ghost>>

Session(s) ==
  Join(s) \/ SendIncPlayer(s) \/ ForwardPacket(s) \/ Retire(s) \/ FreeSlot(s)

-----------------------------------------------------------------------------
(* The connection goes down: flushLoop's deferred Close after a failed     *)
(* write, or a Close from outside.  onClose runs before close(c.close).    *)

CloseConn ==
  /\ link # "none"
  /\ dialer[gen] = "idle"
  /\ ShouldRedial => gen < MaxConns
  /\ isConnDown' = (isConnDown \/ ShouldRedial)
  /\ GotoD(gen, "closing")
  /\ UNCHANGED <<tableVars, connVars, sessionVars, todo, tries, queue, ready, announced, ghost>>

CloseDone ==
  /\ dialer[gen] = "closing"
  /\ up' = FALSE
  /\ link' = "broken"
  /\ GotoD(gen, IF ShouldRedial THEN "dialing" ELSE "finished")
  /\ UNCHANGED <<tableVars, gen, sessionVars, todo, tries, isConnDown, queue, ready, announced, ghost>>

\* External: the peer goes away; the forwarder has not noticed yet.
Break ==
  /\ link = "ok"
  /\ link' = "broken"
  /\ UNCHANGED <<tableVars, gen, up, sessionVars, dialerVars, isConnDown, queue, ready, announced, ghost>>

-----------------------------------------------------------------------------
(* onAfterClose, the goroutine that redials.                               *)

\* Mutant: one dial too few.
MayDial_OneLess(d) == Retries > 0 => tries[d] < Retries - 1

MayDial(d) == Retries > 0 => tries[d] < Retries

DialFails(d) ==
  /\ dialer[d] = "dialing"
  /\ MayDial(d)
  /\ Retries > 0
  /\ tries' = [tries EXCEPT ![d] = @ + 1]
  /\ UNCHANGED <<tableVars, connVars, sessionVars, dialer, todo, isConnDown, queue, ready, announced, ghost>>

GiveUp(d) ==
  /\ dialer[d] = "dialing"
  /\ ~MayDial(d)
  /\ GotoD(d, "finished")
  /\ UNCHANGED <<tableVars, connVars, sessionVars, todo, tries, isConnDown, queue, ready, announced, ghost>>

\* newNetConn: reset makes a new c.close, and only then empties sendBuf:
\* what is appended in between is thrown away by Truncate.
Reset(d) ==
  /\ dialer[d] = "dialing"
  /\ MayDial(d)
  /\ gen < MaxConns
  /\ gen' = gen + 1
  /\ up' = TRUE
  /\ link' = "none"
  /\ queue' = <<>>
  /\ GotoD(d, "truncate")
  /\ UNCHANGED <<tableVars, sessionVars, todo, tries, isConnDown, ready, announced, ghost>>

Truncate(d) ==
  /\ dialer[d] = "truncate"
  /\ queue' = <<>> /\ announced' = {} /\ ghost' = FALSE
  /\ link' = "ok"
  /\ GotoD(d, "store")
  /\ UNCHANGED <<tableVars, gen, up, sessionVars, todo, tries, isConnDown, ready>>

\* Mutant: isConnDown is not cleared after the redial.
StoreUp_Forgotten(d) ==
  /\ dialer[d] = "store"
  /\ GotoD(d, "dialGate")
  /\ UNCHANGED <<tableVars, connVars, sessionVars, todo, tries, isConnDown, queue, ready, announced, ghost>>

StoreUp(d) ==
  /\ dialer[d] = "store"
  /\ isConnDown' = FALSE
  /\ GotoD(d, "dialGate")
  /\ UNCHANGED <<tableVars, connVars, sessionVars, todo, tries, queue, ready, announced, ghost>>

(* ondial, called by the dialer and by Dial.                               *)

NewDialGate(d) ==
  /\ dialer[d] = "dialGate"
  /\ GotoD(d, IF isConnDown THEN "snapshot" ELSE "dialSend")
  /\ UNCHANGED <<tableVars, connVars, sessionVars, todo, tries, isConnDown, queue, ready, announced, ghost>>

\* On a closed connection ondial returns the error: Dial then returns no
\* Forwarder, unless it redials.
NewDialSend(d) ==
  /\ dialer[d] = "dialSend"
  /\ Push(Packet("dial", 0, Nobody))
  /\ GotoD(d, IF up THEN "snapshot" ELSE "finished")
  /\ ready' = (ready \/ (~up /\ ShouldRedial))
  /\ UNCHANGED <<tableVars, connVars, sessionVars, todo, tries, isConnDown, ghost>>

\* Mutant: ondial announces nobody.
Snapshot_Nobody(d) ==
  /\ dialer[d] = "snapshot"
  /\ GotoD(d, "replay")
  /\ UNCHANGED <<tableVars, connVars, sessionVars, todo, tries, isConnDown, queue, ready, announced, ghost>>

Snapshot(d) ==
  /\ dialer[d] = "snapshot"
  /\ todo' = [todo EXCEPT ![d] = slots]
  /\ GotoD(d, "replay")
  /\ UNCHANGED <<tableVars, connVars, sessionVars, tries, isConnDown, queue, ready, announced, ghost>>

ReplayGate(d) ==
  /\ dialer[d] = "replay"
  /\ todo[d] # <<>>
  /\ IF isConnDown \/ Head(todo[d]) = Nobody
     THEN todo' = [todo EXCEPT ![d] = Tail(@)] /\ UNCHANGED dialer
     ELSE GotoD(d, "replaySend") /\ UNCHANGED todo
  /\ UNCHANGED <<tableVars, connVars, sessionVars, tries, isConnDown, queue, ready, announced, ghost>>

\* Mutant: a player is announced with its place in the table, from 1.
ReplaySend_FromOne(d) ==
  /\ dialer[d] = "replaySend"
  /\ LET s == Head(todo[d]) IN
       /\ Push(Packet("inc", id[s] + 1, s))
       /\ ghost' = (ghost \/ (Open /\ at[s] \in {"free", "gone"}))
  /\ todo' = [todo EXCEPT ![d] = Tail(@)]
  /\ GotoD(d, "replay")
  /\ UNCHANGED <<tableVars, connVars, sessionVars, tries, isConnDown, ready>>

ReplaySend(d) ==
  /\ dialer[d] = "replaySend"
  /\ LET s == Head(todo[d]) IN
       /\ Push(Packet("inc", id[s], s))
       /\ ghost' = (ghost \/ (Open /\ at[s] \in {"free", "gone"}))
  /\ todo' = [todo EXCEPT ![d] = Tail(@)]
  /\ GotoD(d, "replay")
  /\ UNCHANGED <<tableVars, connVars, sessionVars, tries, isConnDown, ready>>

OndialDone(d) ==
  /\ dialer[d] = "replay"
  /\ todo[d] = <<>>
  /\ GotoD(d, "finished")
  /\ ready' = TRUE
  /\ UNCHANGED <<tableVars, connVars, sessionVars, todo, tries, isConnDown, queue, announced, ghost>>

Dialer(d) ==
  \/ DialFails(d) \/ GiveUp(d) \/ Reset(d) \/ Truncate(d) \/ StoreUp(d)
  \/ NewDialGate(d) \/ NewDialSend(d) \/ Snapshot(d) \/ ReplayGate(d)
  \/ ReplaySend(d) \/ OndialDone(d)

Next ==
  \/ \E s \in Sessions : Session(s)
  \/ \E d \in Dialers : Dialer(d)
  \/ CloseConn \/ CloseDone \/ Break

\* External: the peer reads a frame, and may break the link over it.
Deliver ==
  /\ queue # <<>>
  /\ queue' = Tail(queue)
  /\ link' \in {link, "broken"}
  /\ UNCHANGED <<tableVars, gen, up, sessionVars, dialerVars, isConnDown, ready, announced, ghost>>

Spec == Init /\ [][Next \/ Deliver]_vars

-----------------------------------------------------------------------------
AtS == {"new", "incGate", "incSend", "live", "dataSend", "discSend", "free", "gone"}
AtD == {"idle", "closing", "dialing", "truncate", "store", "dialGate", "dialSend",
        "snapshot", "replay", "replaySend", "finished"}

TypeOK ==
  /\ slots \in Seq(Sessions \union {Nobody}) /\ free \in Seq(Ids)
  /\ isConnDown \in BOOLEAN /\ up \in BOOLEAN /\ ready \in BOOLEAN /\ ghost \in BOOLEAN
  /\ gen \in Dialers /\ link \in {"none", "ok", "broken"}
  /\ queue \in Seq(Packets)
  /\ at \in [Sessions -> AtS] /\ id \in [Sessions -> Ids] /\ data \in Nat
  /\ dialer \in [Dialers -> AtD] /\ todo \in [Dialers -> Seq(Sessions \union {Nobody})]
  /\ \A d \in Dialers : dialer[d] = "replaySend" => todo[d] # <<>> /\ Head(todo[d]) # Nobody
  /\ tries \in [Dialers -> Nat]
  /\ announced \subseteq Sessions

\* The id table under idMu (forwarder.go:168-178, playerconn.go:51-54): two
\* sessions that hold an id hold different ones, the slot of an id knows its
\* session, and emptyIdSlot holds each empty slot once and no other, so that
\* ids are neither shared nor lost by joins and departures in any order.
IdTable ==
  /\ \A s \in Sessions : Holds(s) => id[s] + 1 \in DOMAIN slots /\ slots[id[s] + 1] = s
  /\ \A i \in DOMAIN slots :
       IF slots[i] = Nobody THEN \E k \in DOMAIN free : free[k] = i - 1
       ELSE Holds(slots[i]) /\ id[slots[i]] = i - 1
  /\ \A k \in DOMAIN free : free[k] + 1 \in DOMAIN slots /\ slots[free[k] + 1] = Nobody
  /\ \A j, k \in DOMAIN free : free[j] = free[k] => j = k

\* Nobody waits for a redial that no goroutine is making: while isConnDown is
\* set, some dialer is on its way to clear it, or has made all the dials
\* Redialretrys allows (forwarder.go:82-106).
DownMeansDialing ==
  isConnDown => \E d \in Dialers :
    \/ dialer[d] \in {"closing", "dialing", "truncate", "store"}
    \/ dialer[d] = "finished" /\ Retries > 0 /\ tries[d] = Retries
=============================================================================
