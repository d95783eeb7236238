------------------------ MODULE AntiCheatServerProofs -------------------------
(***************************************************************************)
(* The theorem of module AntiCheatServer, for any number of connections    *)
(* and any capacity of l.inc: before Close has been through the list, what *)
(* is open is listed or about to be, and after it, what is open was or     *)
(* will be listed too late.                                                *)
(***************************************************************************)
EXTENDS AntiCheatServer, TLAPS

\* Accepted, and on its way into the list.
Unlisted == IF acceptor = "list" THEN {current} ELSE {}

Inv ==
  /\ closing \in {"no", "conns", "listener", "closed"}
  /\ closing \in {"no", "conns"} => open \subseteq conns \union Unlisted
  /\ closing \in {"listener", "closed"} => open \subseteq raced \union Unlisted

\* Close of the server begins or has begun, with no effect on the rest.
LEMMA BeginsKeeps ==
  ASSUME Inv, CloseBegins, UNCHANGED <<acceptor, current, conns, open, raced>>
  PROVE  Inv'
BY DEF Inv, CloseBegins, Unlisted

LEMMA StepInv == Inv /\ [Next]_vars => Inv'
<1> SUFFICES ASSUME Inv, [Next]_vars PROVE Inv'
  OBVIOUS
<1>1. ASSUME NEW c \in Conns, Accept(c) PROVE Inv'
  <2>1. /\ Unlisted = {} /\ Unlisted' = {c} /\ open' = open \union {c}
        /\ UNCHANGED <<closing, conns, raced>>
    BY <1>1 DEF Accept, Unlisted
  <2> QED BY <2>1 DEF Inv
<1>2. CASE AcceptFails
  <2>1. Unlisted = {} /\ Unlisted' = {} /\ UNCHANGED <<closing, conns, open, raced>>
    BY <1>2 DEF AcceptFails, Unlisted
  <2> QED BY <2>1 DEF Inv
<1>3. CASE List
  <2>1. /\ Unlisted = {current} /\ Unlisted' = {} /\ conns' = conns \union {current}
        /\ raced' = IF closing \in {"listener", "closed"} THEN raced \union {current} ELSE raced
        /\ UNCHANGED <<closing, open>>
    BY <1>3 DEF List, Unlisted
  <2> QED BY <2>1 DEF Inv
<1>4. CASE Offer
  <2>1. Unlisted = {} /\ Unlisted' = {} /\ UNCHANGED <<closing, conns, open, raced>>
    BY <1>4 DEF Offer, Unlisted
  <2> QED BY <2>1 DEF Inv
<1>5. CASE CloseConns
  BY <1>5 DEF CloseConns, Inv, Unlisted
<1>6. CASE CloseListener
  BY <1>6 DEF CloseListener, Inv, Unlisted
<1>7. CASE Close \/ DetectClosed
  BY <1>7, BeginsKeeps DEF Close, DetectClosed
<1>8. ASSUME NEW c \in Conns, TakerEnds(c) PROVE Inv'
  BY <1>8 DEF TakerEnds, Inv, Unlisted
<1>9. ASSUME NEW c \in Conns, Dial(c) PROVE Inv'
  BY <1>9 DEF Dial, Inv, Unlisted
<1>10. CASE CloseReturns \/ Detect \/ DetectorReturns \/ UNCHANGED vars
  BY <1>10 DEF CloseReturns, Detect, DetectorReturns, vars, Inv, Unlisted
<1> QED
  BY <1>1, <1>2, <1>3, <1>4, <1>5, <1>6, <1>7, <1>8, <1>9, <1>10 DEF Next, Server

\* Once the listener is closed, no connection is open that Close could have
\* found in the list or the net.Listener dropped: only those that Accept
\* returned in between (listener.go:49-57, 70-79).
THEOREM CloseMissesOnlyRaced == Spec => []OnlyRacedStayOpen
<1>1. Init => Inv
  BY DEF Init, Inv, Unlisted
<1>2. Inv => OnlyRacedStayOpen
  BY DEF Inv, OnlyRacedStayOpen, Unlisted
<1> QED
  BY <1>1, <1>2, StepInv, PTL DEF Spec
=============================================================================
