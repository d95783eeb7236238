--------------------------- MODULE AntiCheatServer ----------------------------
(***************************************************************************)
(* The anti-cheat server around its takers: Listener (listener.go), whose  *)
(* StartHandleClients accepts connections and offers them on l.inc, and    *)
(* DioACserver (anticheat.go), whose startDetecting takes them from there. *)
(* Close may come from WaitTilProgramEnd at any moment; startDetecting's   *)
(* deferred l.Close is a second call, which waits for the first            *)
(* (sync.Once).                                                            *)
(*                                                                         *)
(* A connection is dialed by a forwarder, returned by Accept, listed in    *)
(* l.conns, and offered; "gone" on l.inc stands for an accept error.       *)
(* Closing the net.Listener ends the connections that were dialed and not  *)
(* accepted.                                                               *)
(***************************************************************************)
EXTENDS Naturals, Sequences, FiniteSets

CONSTANTS
  Conns,     \* connections that forwarders dial
  Error,     \* an AcceptedTakerResult that holds an error
  IncCap     \* capacity of l.inc, 4

ASSUME ServerAssumption == Error \notin Conns /\ IncCap \in Nat \ {0}

VARIABLES
  dialed,     \* connections in the backlog of the net.Listener
  acceptor,   \* where StartHandleClients is
  current,    \* what it has accepted
  conns,      \* l.conns
  inc,        \* l.inc
  open,       \* connections accepted and not closed by the server
  closing,    \* Listener.Close: "no", "conns", "listener" or "closed"
  serverClosed, \* a.close is closed
  caller,     \* the caller of DioACserver.Close: "out", "in" or "returned"
  detector,   \* where startDetecting is
  handled,    \* connections handed to handleTaker
  raced       \* history: connections listed when Close had been through the list

vars == <<dialed, acceptor, current, conns, inc, open, closing, serverClosed, caller,
          detector, handled, raced>>

Init ==
  /\ dialed = {} /\ conns = {} /\ open = {} /\ handled = {} /\ raced = {}
  /\ acceptor = "accept" /\ current = Error
  /\ inc = <<>>
  /\ closing = "no" /\ serverClosed = FALSE
  /\ caller = "out" /\ detector = "select"

\* External: a forwarder dials; once.
Dial(c) ==
  /\ closing # "closed"
  /\ c \notin dialed \union open \union conns \union handled \union {current}
  /\ dialed' = dialed \union {c}
  /\ UNCHANGED <<acceptor, current, conns, inc, open, closing, serverClosed, caller, detector,
                 handled, raced>>

-----------------------------------------------------------------------------
(* StartHandleClients and accept.                                          *)

Accept(c) ==
  /\ acceptor = "accept" /\ c \in dialed
  /\ dialed' = dialed \ {c}
  /\ open' = open \union {c}
  /\ current' = c
  /\ acceptor' = "list"
  /\ UNCHANGED <<conns, inc, closing, serverClosed, caller, detector, handled, raced>>

\* Accept fails once the net.Listener is closed, and may fail before.
AcceptFails ==
  /\ acceptor = "accept"
  /\ current' = Error
  /\ acceptor' = "offer"
  /\ UNCHANGED <<dialed, conns, inc, open, closing, serverClosed, caller, detector, handled, raced>>

\* Mutant: the connection is not remembered.
List_Forgets ==
  /\ acceptor = "list"
  /\ acceptor' = "offer"
  /\ UNCHANGED <<dialed, current, conns, inc, open, closing, serverClosed, caller, detector,
                 handled, raced>>

List ==
  /\ acceptor = "list"
  /\ conns' = conns \union {current}
  /\ raced' = IF closing \in {"listener", "closed"} THEN raced \union {current} ELSE raced
  /\ acceptor' = "offer"
  /\ UNCHANGED <<dialed, current, inc, open, closing, serverClosed, caller, detector, handled>>

\* l.inc <- result waits while the channel is full.
Offer ==
  /\ acceptor = "offer"
  /\ Len(inc) < IncCap
  /\ inc' = Append(inc, current)
  /\ acceptor' = IF current = Error THEN "done" ELSE "accept"
  /\ UNCHANGED <<dialed, current, conns, open, closing, serverClosed, caller, detector, handled, raced>>

-----------------------------------------------------------------------------
(* Listener.Close: the connections under connMu, then the net.Listener.    *)

CloseConns ==
  /\ closing = "conns"
  /\ open' = open \ conns
  /\ closing' = "listener"
  /\ UNCHANGED <<dialed, acceptor, current, conns, inc, serverClosed, caller, detector, handled, raced>>

CloseListener ==
  /\ closing = "listener"
  /\ closing' = "closed"
  /\ dialed' = {}
  /\ UNCHANGED <<acceptor, current, conns, inc, open, serverClosed, caller, detector, handled, raced>>

\* The first caller runs it.
CloseBegins == closing' = IF closing = "no" THEN "conns" ELSE closing

-----------------------------------------------------------------------------
(* DioACserver.Close.                                                      *)

Close ==
  /\ caller = "out"
  /\ CloseBegins
  /\ caller' = "in"
  /\ UNCHANGED <<dialed, acceptor, current, conns, inc, open, serverClosed, detector, handled, raced>>

CloseReturns ==
  /\ caller = "in" /\ closing = "closed"
  /\ serverClosed' = TRUE
  /\ caller' = "returned"
  /\ UNCHANGED <<dialed, acceptor, current, conns, inc, open, closing, detector, handled, raced>>

-----------------------------------------------------------------------------
(* startDetecting.                                                         *)

Detect ==
  /\ detector = "select" /\ inc # <<>>
  /\ inc' = Tail(inc)
  /\ handled' = handled \union ({Head(inc)} \ {Error})
  /\ UNCHANGED <<dialed, acceptor, current, conns, open, closing, serverClosed, caller, detector, raced>>

\* Mutant: a.close is not looked at.
DetectClosed_Never == FALSE

DetectClosed ==
  /\ detector = "select" /\ serverClosed
  /\ CloseBegins
  /\ detector' = "closing"
  /\ UNCHANGED <<dialed, acceptor, current, conns, inc, open, serverClosed, caller, handled, raced>>

DetectorReturns ==
  /\ detector = "closing" /\ closing = "closed"
  /\ detector' = "done"
  /\ UNCHANGED <<dialed, acceptor, current, conns, inc, open, closing, serverClosed, caller,
                 handled, raced>>

\* External: handleTaker ends, its forwarder having left.
TakerEnds(c) ==
  /\ c \in handled \intersect open
  /\ open' = open \ {c}
  /\ UNCHANGED <<dialed, acceptor, current, conns, inc, closing, serverClosed, caller, detector,
                 handled, raced>>

Server ==
  \/ List \/ Offer \/ CloseConns \/ CloseListener \/ CloseReturns
  \/ Detect \/ DetectClosed \/ DetectorReturns
  \/ closing = "closed" /\ AcceptFails

Next ==
  \/ Server \/ AcceptFails \/ Close
  \/ \E c \in Conns : Dial(c) \/ Accept(c) \/ TakerEnds(c)

Spec == Init /\ [][Next]_vars

\* Goroutines that can move do.  Accept of a closed net.Listener fails.
FairSpec ==
  /\ Spec
  /\ WF_vars(List) /\ WF_vars(Offer) /\ WF_vars(closing = "closed" /\ AcceptFails)
  /\ WF_vars(CloseConns) /\ WF_vars(CloseListener) /\ WF_vars(CloseReturns)
  /\ WF_vars(Detect) /\ WF_vars(DetectClosed) /\ WF_vars(DetectorReturns)

-----------------------------------------------------------------------------
\* Once the listener is closed, a connection that is still open was listed
\* after Close had been through the list, or is about to be: Accept returned
\* it too early or too late for both halves of Close (listener.go:49-57,
\* 70-79).  Nothing else stays open.
OnlyRacedStayOpen ==
  closing = "closed" =>
    open \subseteq raced \union (IF acceptor = "list" THEN {current} ELSE {})

\* After DioACserver.Close, startDetecting returns, and StartHandleClients does
\* too, unless l.inc is full when nobody reads it any more (listener.go:93).
EveryoneReturns ==
  caller = "in" ~> /\ detector = "done"
                   /\ acceptor = "done" \/ (acceptor = "offer" /\ Len(inc) = IncCap)
=============================================================================
