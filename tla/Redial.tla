-------------------------------- MODULE Redial ---------------------------------
(***************************************************************************)
(* A forwarder's Conn across its incarnations (conn.go:84-150,             *)
(* forwarder.go:82-106).  Close ends in a goroutine that dials again and   *)
(* puts a new closeOnce, close and conn into the same Conn; the new        *)
(* flushLoop puts a new done.  These fields are guarded by nothing: what a *)
(* goroutine of an earlier incarnation does to them depends on when it     *)
(* reads them.                                                             *)
(*                                                                         *)
(* A field holds a reference, and the incarnation that made an object      *)
(* stands for the reference to it; 0 is nil.  A step reads or writes one   *)
(* field; what no other goroutine can see is joined to it.  Frames and     *)
(* isConnDown are those of Conn and Forwarder: a flush here finds an empty *)
(* buffer or not.                                                          *)
(***************************************************************************)
EXTENDS Integers

CONSTANTS
  Closers,    \* goroutines that call the exported Close from outside, once each
  Redialretrys,  \* dials that may fail before onAfterClose gives up; 0: it never does
  MaxConns    \* bound: connections DialF makes; after them it keeps failing

Gens == 1..MaxConns
Refs == 0..MaxConns

ASSUME RedialAssumption ==
  MaxConns \in Nat \ {0} /\ Redialretrys \in Nat /\ Closers \intersect Refs = {}

\* Goroutine g is the flushLoop of incarnation g.
Procs == Gens \union Closers

VARIABLES
  closeOnce, close, done, conn,   \* the fields of the Conn
  once,      \* of each closeOnce: "new", "running" or "done"
  closed,    \* the close channels that are closed
  finished,  \* the done channels that are closed
  sock,      \* of each connection: "none", "open", "broken" or "closed"
  at,        \* where each goroutine is
  of,        \* the closeOnce its Close has called Do of
  chan,      \* the channel it waits for
  redialer,  \* where the onAfterClose that the Do of each closeOnce starts is; 0 is Dial's
  dialed,    \* the connection each has made
  made,      \* connections made
  outside,   \* history: Close has been called from outside
  stray,     \* history: a Close has met fields of two incarnations, or another's
  panicked   \* and with it the whole program

fields == <<closeOnce, close, done, conn>>
objects == <<once, closed, finished, sock>>
procVars == <<at, of, chan>>
redialVars == <<redialer, dialed, made>>
historyVars == <<outside, stray>>
vars == <<fields, objects, procVars, redialVars, historyVars, panicked>>

Goto(p, there) == at' = [at EXCEPT ![p] = there]
GotoR(r, there) == redialer' = [redialer EXCEPT ![r] = there]

Panic == panicked' = TRUE /\ UNCHANGED <<fields, objects, procVars, redialVars, historyVars>>

\* Dial connected, and its flushLoop is about to start.
Dialed ==
  /\ closeOnce = 1 /\ close = 1 /\ conn = 1 /\ made = 1
  /\ sock = [g \in Gens |-> IF g = 1 THEN "open" ELSE "none"]
  /\ redialer = [r \in Refs |-> "idle"]
  /\ at = [p \in Procs |-> IF p = 1 THEN "start" ELSE IF p \in Closers THEN "outside" ELSE "none"]

\* Dial did not connect: the Conn is empty, and onAfterClose dials.
Undialed ==
  /\ closeOnce = 0 /\ close = 0 /\ conn = 0 /\ made = 0
  /\ sock = [g \in Gens |-> "none"]
  /\ redialer = [r \in Refs |-> IF r = 0 THEN "dialing" ELSE "idle"]
  /\ at = [p \in Procs |-> IF p \in Closers THEN "outside" ELSE "none"]

Init ==
  /\ Dialed \/ Undialed
  /\ done = 0
  /\ once = [g \in Gens |-> "new"]
  /\ closed = {} /\ finished = {}
  /\ of = [p \in Procs |-> 0] /\ chan = [p \in Procs |-> 0]
  /\ dialed = [r \in Refs |-> 0]
  /\ outside = FALSE /\ stray = FALSE /\ panicked = FALSE

-----------------------------------------------------------------------------
(* Close, called by a flushLoop that leaves or from outside.               *)

Calls(p) == at[p] = IF p \in Closers THEN "outside" ELSE "leave"
Returned(p) == IF p \in Closers THEN "returned" ELSE "ended"

\* closeOnce.Do: the first to come runs the body, the others wait for it.
Do(p) ==
  /\ Calls(p) /\ closeOnce # 0
  /\ of' = [of EXCEPT ![p] = closeOnce]
  /\ IF once[closeOnce] = "new"
     THEN once' = [once EXCEPT ![closeOnce] = "running"] /\ Goto(p, "signal")
     ELSE Goto(p, "await") /\ UNCHANGED once
  /\ outside' = (outside \/ p \in Closers)
  /\ stray' = (stray \/ (p \in Gens /\ closeOnce # p))
  /\ UNCHANGED <<fields, closed, finished, sock, chan, redialVars, panicked>>

\* Before the first connection closeOnce is nil.
DoNil(p) ==
  /\ Calls(p) /\ closeOnce = 0
  /\ outside' = (outside \/ p \in Closers) /\ stray' = TRUE
  /\ panicked' = TRUE
  /\ UNCHANGED <<fields, objects, procVars, redialVars>>

Await(p) ==
  /\ at[p] = "await"
  /\ once[of[p]] = "done"
  /\ Goto(p, Returned(p))
  /\ UNCHANGED <<fields, objects, of, chan, redialVars, historyVars, panicked>>

\* close(c.close), which panics on a closed channel and on nil.
Signal(p) ==
  /\ at[p] = "signal"
  /\ stray' = (stray \/ close # of[p])
  /\ IF close = 0 \/ close \in closed
     THEN panicked' = TRUE /\ UNCHANGED <<closed, at>>
     ELSE closed' = closed \union {close} /\ Goto(p, "sync") /\ UNCHANGED panicked
  /\ UNCHANGED <<fields, once, finished, sock, of, chan, redialVars, outside>>

\* Mutant: Close does not wait for flushLoop.
Sync_NoWait(p) ==
  /\ at[p] = "sync"
  /\ stray' = (stray \/ done # of[p])
  /\ Goto(p, "check")
  /\ UNCHANGED <<fields, objects, of, chan, redialVars, outside, panicked>>

\* <-c.done, if there is one.
Sync(p) ==
  /\ at[p] = "sync"
  /\ chan' = [chan EXCEPT ![p] = done]
  /\ stray' = (stray \/ done # of[p])
  /\ Goto(p, IF done = 0 THEN "check" ELSE "wait")
  /\ UNCHANGED <<fields, objects, of, redialVars, outside, panicked>>

Wait(p) ==
  /\ at[p] = "wait"
  /\ chan[p] \in finished
  /\ Goto(p, "check")
  /\ UNCHANGED <<fields, objects, of, chan, redialVars, historyVars, panicked>>

\* if c.conn != nil
Check(p) ==
  /\ at[p] = "check"
  /\ Goto(p, IF conn = 0 THEN "spawn" ELSE "hangUp")
  /\ UNCHANGED <<fields, objects, of, chan, redialVars, historyVars, panicked>>

\* Mutant: the connection is forgotten and not closed.
HangUp_Keeps(p) ==
  /\ at[p] = "hangUp"
  /\ Goto(p, "forget")
  /\ UNCHANGED <<fields, objects, of, chan, redialVars, historyVars, panicked>>

\* c.conn.Close()
HangUp(p) ==
  /\ at[p] = "hangUp"
  /\ IF conn = 0 THEN Panic
     ELSE /\ sock' = [sock EXCEPT ![conn] = "closed"]
          /\ Goto(p, "forget")
          /\ UNCHANGED <<fields, once, closed, finished, of, chan, redialVars, historyVars, panicked>>

\* c.conn = nil
Forget(p) ==
  /\ at[p] = "forget"
  /\ conn' = 0
  /\ Goto(p, "spawn")
  /\ UNCHANGED <<closeOnce, close, done, objects, of, chan, redialVars, historyVars, panicked>>

\* go onAfterClose()
Spawn(p) ==
  /\ at[p] = "spawn"
  /\ GotoR(of[p], "dialing")
  /\ Goto(p, "return")
  /\ UNCHANGED <<fields, objects, of, chan, dialed, made, historyVars, panicked>>

\* Do returns, here and to all that wait.
Return(p) ==
  /\ at[p] = "return"
  /\ once' = [once EXCEPT ![of[p]] = "done"]
  /\ Goto(p, Returned(p))
  /\ UNCHANGED <<fields, closed, finished, sock, of, chan, redialVars, historyVars, panicked>>

Close(p) ==
  \/ Do(p) \/ DoNil(p) \/ Await(p) \/ Signal(p) \/ Sync(p) \/ Wait(p) \/ Check(p)
  \/ HangUp(p) \/ Forget(p) \/ Spawn(p) \/ Return(p)

-----------------------------------------------------------------------------
(* onAfterClose, whose dials fail until one succeeds or it gives up, and   *)
(* newNetConn.                                                             *)

\* As many dials as Redialretrys have failed.  A dial that fails leaves all as
\* it was, so that they are not counted.
GiveUp(r) ==
  /\ redialer[r] = "dialing"
  /\ Redialretrys > 0
  /\ GotoR(r, "gaveUp")
  /\ UNCHANGED <<fields, objects, procVars, dialed, made, historyVars, panicked>>

\* DialF succeeds, and c.conn = nil.
DialF(r) ==
  /\ redialer[r] = "dialing"
  /\ made < MaxConns
  /\ made' = made + 1
  /\ dialed' = [dialed EXCEPT ![r] = made + 1]
  /\ sock' = [sock EXCEPT ![made + 1] = "open"]
  /\ conn' = 0
  /\ GotoR(r, "newOnce")
  /\ UNCHANGED <<closeOnce, close, done, once, closed, finished, procVars, historyVars, panicked>>

\* Mutant: reset keeps the closeOnce.
NewOnce_Forgotten(r) ==
  /\ redialer[r] = "newOnce"
  /\ GotoR(r, "newClose")
  /\ UNCHANGED <<fields, objects, procVars, dialed, made, historyVars, panicked>>

NewOnce(r) ==
  /\ redialer[r] = "newOnce"
  /\ closeOnce' = dialed[r]
  /\ GotoR(r, "newClose")
  /\ UNCHANGED <<close, done, conn, objects, procVars, dialed, made, historyVars, panicked>>

\* Mutant: reset keeps the close channel.
NewClose_Forgotten(r) ==
  /\ redialer[r] = "newClose"
  /\ GotoR(r, "setConn")
  /\ UNCHANGED <<fields, objects, procVars, dialed, made, historyVars, panicked>>

NewClose(r) ==
  /\ redialer[r] = "newClose"
  /\ close' = dialed[r]
  /\ GotoR(r, "setConn")
  /\ UNCHANGED <<closeOnce, done, conn, objects, procVars, dialed, made, historyVars, panicked>>

\* Mutant: flushLoop is started and c.conn is still nil.
SetConn_Late(r) ==
  /\ redialer[r] = "setConn"
  /\ Goto(dialed[r], "start")
  /\ GotoR(r, "finished")
  /\ UNCHANGED <<fields, objects, of, chan, dialed, made, historyVars, panicked>>

\* c.conn = conn, and go c.flushLoop().
SetConn(r) ==
  /\ redialer[r] = "setConn"
  /\ conn' = dialed[r]
  /\ Goto(dialed[r], "start")
  /\ GotoR(r, "finished")
  /\ UNCHANGED <<closeOnce, close, done, objects, of, chan, dialed, made, historyVars, panicked>>

Redialer(r) == GiveUp(r) \/ DialF(r) \/ NewOnce(r) \/ NewClose(r) \/ SetConn(r)

-----------------------------------------------------------------------------
(* flushLoop.                                                              *)

Start(g) ==
  /\ at[g] = "start"
  /\ done' = g
  /\ Goto(g, "select")
  /\ UNCHANGED <<closeOnce, close, conn, objects, of, chan, redialVars, historyVars, panicked>>

\* The select reads c.close once, when it is entered.
Select(g) ==
  /\ at[g] = "select"
  /\ chan' = [chan EXCEPT ![g] = close]
  /\ Goto(g, "selected")
  /\ UNCHANGED <<fields, objects, of, redialVars, historyVars, panicked>>

\* c.close is closed: the last flush, whose error is ignored.
Signalled(g) ==
  /\ at[g] = "selected"
  /\ chan[g] \in closed
  /\ \/ Goto(g, "exit") /\ UNCHANGED panicked
     \/ conn = 0 /\ panicked' = TRUE /\ UNCHANGED at
  /\ UNCHANGED <<fields, objects, of, chan, redialVars, historyVars>>

\* A tick or a token: a write fails on a connection that is not open.
Flush(g) ==
  /\ at[g] = "selected"
  /\ \/ Goto(g, "select") /\ UNCHANGED panicked
     \/ conn = 0 /\ panicked' = TRUE /\ UNCHANGED at
     \/ conn # 0 /\ sock[conn] # "open" /\ Goto(g, "exit") /\ UNCHANGED panicked
  /\ UNCHANGED <<fields, objects, of, chan, redialVars, historyVars>>

\* Mutant: close(c.done) is deferred until Close has returned.
Exit_AfterClose(g) ==
  /\ at[g] = "exit"
  /\ Goto(g, "leave")
  /\ UNCHANGED <<fields, objects, of, chan, redialVars, historyVars, panicked>>

\* close(c.done)
Exit(g) ==
  /\ at[g] = "exit"
  /\ IF done \in finished THEN Panic
     ELSE /\ finished' = finished \union {done}
          /\ Goto(g, "leave")
          /\ UNCHANGED <<fields, once, closed, sock, of, chan, redialVars, historyVars, panicked>>

FlushLoop(g) == Start(g) \/ Select(g) \/ Signalled(g) \/ Flush(g) \/ Exit(g)

\* External: the peer goes away.
Break ==
  /\ conn # 0 /\ sock[conn] = "open"
  /\ sock' = [sock EXCEPT ![conn] = "broken"]
  /\ UNCHANGED <<fields, once, closed, finished, procVars, redialVars, historyVars, panicked>>

Next ==
  /\ ~panicked
  /\ \/ \E p \in Procs : Close(p)
     \/ \E g \in Gens : FlushLoop(g)
     \/ \E r \in Refs : Redialer(r)
     \/ Break

Spec == Init /\ [][Next]_vars

-----------------------------------------------------------------------------
\* As long as nobody calls Close from outside, the Close of each incarnation
\* meets that incarnation's own fields: flushLoop closes c.done and then calls
\* Close, reset makes the new closeOnce and close after that, and the next
\* flushLoop the new done (conn.go:84-94, 100-118, 122-128).
StrayNeedsOutside == stray => outside

\* A panic, on a nil connection or closeOnce or a closed channel, needs a Close
\* that does not meet its own incarnation's fields: one that comes before the
\* first connection, during newNetConn or before flushLoop has made c.done, or
\* the Close of a flushLoop that comes after the redial (conn.go:101-112, 123,
\* 127, 277).
PanicNeedsStray == panicked => stray

\* With the same exception, one flushLoop at a time is between the making of
\* c.done and its closing: flush, which swaps sendBuf and sendBufSpare and
\* writes to c.conn, is never run by two (conn.go:108, 123-127).
Flushing(g) == at[g] \in {"select", "selected", "exit"}
OneFlushLoop == stray \/ \A g, h \in Gens : Flushing(g) /\ Flushing(h) => g = h

\* With the same exception, every connection that was dialed is the current
\* one, or closed, or on its way into the Conn (conn.go:91, 110-113).
NoLeak ==
  stray \/ \A g \in Gens :
    \/ sock[g] \in {"none", "closed"}
    \/ conn = g
    \/ \E r \in Refs : dialed[r] = g /\ redialer[r] # "finished"

\* Whoever closes what and when, the forwarder is never left without anyone to
\* redial, unless the redialer of its last connection gave up: a flushLoop or a
\* redialer is at work, or a Close that will start one (conn.go:114-116,
\* forwarder.go:82-106).  What Redialretrys, if it is not 0, allows to give up
\* is that one redialer, after as many failures in a row (forwarder.go:87-90);
\* then nobody ever dials again.
GaveUp == Redialretrys > 0 /\ redialer[made] = "gaveUp"

Attended ==
  \/ panicked
  \/ GaveUp
  \/ \E g \in Gens : at[g] \notin {"none", "ended"}
  \/ \E r \in Refs : redialer[r] \notin {"idle", "finished", "gaveUp"}
  \/ \E p \in Closers : at[p] \notin {"outside", "returned"}

\* Unless a flushLoop has lost the done it made, to another's or by another's
\* hand, no Close waits for ever, whatever incarnation it meets: the done it
\* waits for is not one that only itself can close, and the flushLoop that
\* closes it has been told to leave; a Do that waits for another waits for a
\* goroutine that is in its body and on its way out of it (conn.go:101,
\* 106-109, 125-127, 132).
HasDone(g) == done = g /\ g \notin finished

InBody(p) == at[p] \in {"signal", "sync", "wait", "check", "hangUp", "forget", "spawn", "return"}

WillFinish(g) ==
  \/ at[g] = "select" /\ close \in closed
  \/ at[g] = "selected" /\ chan[g] \in closed
  \/ at[g] = "exit" /\ done = g

WaitsFor(p) == chan[p] \in finished \/ (chan[p] # p /\ WillFinish(chan[p]))

NoCloseHangs ==
  (~panicked /\ \A g \in Gens : Flushing(g) => HasDone(g)) =>
    \A p \in Procs :
      /\ at[p] = "wait" => WaitsFor(p)
      /\ at[p] = "await" =>
           \/ once[of[p]] = "done"
           \/ \E q \in Procs \ {p} :
                /\ of[q] = of[p] /\ InBody(q)
                /\ at[q] = "wait" => chan[q] # p \/ p \in finished
=============================================================================
