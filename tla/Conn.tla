-------------------------------- MODULE Conn ---------------------------------
(***************************************************************************)
(* One incarnation of forwarder.Conn (src/forwarder/conn.go): the goroutine*)
(* flushLoop started by newNetConn, the goroutines that call writePacket,  *)
(* those that call Close, and, on the anti-cheat's side, the one that      *)
(* reads frames (Taker.HandlePlayers).  conf.onClose is nil, as it is for  *)
(* every Conn of a Listener and for a Forwarder without ShouldRedial.      *)
(*                                                                         *)
(* Atomicity.  A step ends where another goroutine can be observed: at     *)
(* each channel operation, lock and unlock, at each call of net.Conn, and  *)
(* at each unsynchronised access of c.conn and c.done.  Such an access is  *)
(* one step: the goroutine that reads c.done at line 107 has just passed   *)
(* a sync.Once and a channel, so what it reads is the value of some        *)
(* interleaving.                                                           *)
(***************************************************************************)
EXTENDS Integers, Sequences, SequencesExt

CONSTANTS
  Writers,           \* goroutines that call writePacket
  Closers,           \* goroutines that call Close from outside
  Followers,         \* those that call it only once c.close is closed
  Readers,           \* goroutines that loop over readPacketRaw
  FlushLoop,         \* the goroutine of flushLoop
  FrameLens,         \* lengths an encoded frame may have
  BytePerWrite,      \* conf.BytePerWrite
  MaxBufferedByte,   \* conf.MaxBufferedByte
  MaxFrames          \* bound: packets each writer sends

Procs == Writers \union Closers \union Readers \union {FlushLoop}

ASSUME ConnAssumption ==
  /\ FrameLens \subseteq Nat \ {0}
  /\ BytePerWrite \in Nat \ {0}
  /\ MaxBufferedByte \in Nat \ {0}
  /\ MaxFrames \in Nat
  /\ Writers \intersect (Closers \union Readers) = {}
  /\ Closers \intersect Readers = {}
  /\ Followers \subseteq Closers
  /\ FlushLoop \notin Writers \union Closers \union Readers
  /\ "free" \notin Writers

Frame == [from : Writers, no : 1..MaxFrames, len : FrameLens]

VARIABLES
  pc,          \* where each goroutine is
  closed,      \* the channel c.close is closed
  once,        \* c.closeOnce: "fresh", "running" or "done"
  done,        \* c.done: "nil", "open" or "closed"
  net,         \* c.conn: "open", "broken" (peer gone), "closed" or "nil"
  mu,          \* holder of sendBufMu between two steps, or "free"
  sendBuf,     \* frames waiting for the next flush
  sendBufLen,  \* their bytes, as the code counts them
  flushNow,    \* the one-slot channel flushNow holds a token
  held,        \* the frame each writer encoded last
  leaving,     \* flushLoop took the <-c.close branch
  skips,       \* ticks that still fall before lastWrite + FlushRate
  batch,       \* flush: what is left of send
  buf,         \* flush: frames gathered for one write
  bufLen,      \* flush: buf.Len(), their bytes
  wire,        \* frames the socket took, in order
  accepted,    \* history: frames appended to sendBuf, in order
  lost,        \* history: a write failed
  overtaken,   \* history: Close found c.done nil and did not wait
  crashed      \* a nil c.conn was used: the process is gone

writeVars == <<sendBuf, sendBufLen, held, accepted>>
ioVars == <<batch, buf, bufLen, wire, lost>>
flushVars == <<leaving, skips, ioVars>>
closeVars == <<closed, once, done, net, overtaken>>
vars == <<pc, writeVars, flushVars, closeVars, mu, flushNow, crashed>>

TotalLen(frames) == FoldLeft(LAMBDA n, f : n + f.len, 0, frames)

Init ==
  /\ pc = [p \in Procs |-> IF p = FlushLoop THEN "unstarted"
                           ELSE IF p \in Readers THEN "top" ELSE "idle"]
  /\ closed = FALSE /\ once = "fresh" /\ done = "nil" /\ net = "open"
  /\ mu = "free" /\ flushNow = FALSE
  /\ sendBuf = <<>> /\ sendBufLen = 0 /\ accepted = <<>>
  /\ held = [w \in Writers |-> [from |-> w, no |-> 0, len |-> 0]]
  /\ leaving = FALSE /\ skips = 0 /\ batch = <<>> /\ buf = <<>> /\ bufLen = 0
  /\ wire = <<>> /\ lost = FALSE /\ overtaken = FALSE /\ crashed = FALSE

Goto(p, there) == pc' = [pc EXCEPT ![p] = there]

-----------------------------------------------------------------------------
(* writePacket.  A call that finds c.close closed at its first check, or   *)
(* whose packet does not encode, changes nothing.                          *)

Encode(w) ==
  /\ pc[w] = "idle"
  /\ ~closed
  /\ held[w].no < MaxFrames
  /\ \E l \in FrameLens :
       held' = [held EXCEPT ![w] = [from |-> w, no |-> held[w].no + 1, len |-> l]]
  /\ Goto(w, "encoded")
  /\ UNCHANGED <<sendBuf, sendBufLen, accepted, flushVars, closeVars, mu,
                 flushNow, crashed>>

\* Mutant: no second look at c.close.
LockOpen_Unchecked(w) ==
  /\ pc[w] = "encoded"
  /\ mu = "free"
  /\ mu' = w
  /\ Goto(w, "locked")
  /\ UNCHANGED <<writeVars, flushVars, closeVars, flushNow, crashed>>

\* sendBufMu is taken and c.close is checked again under it.
LockOpen(w) ==
  /\ pc[w] = "encoded"
  /\ mu = "free"
  /\ ~closed
  /\ mu' = w
  /\ Goto(w, "locked")
  /\ UNCHANGED <<writeVars, flushVars, closeVars, flushNow, crashed>>

LockClosed(w) ==
  /\ pc[w] = "encoded"
  /\ mu = "free"
  /\ closed
  /\ Goto(w, "idle")
  /\ UNCHANGED <<writeVars, flushVars, closeVars, mu, flushNow, crashed>>

AppendFrame(w) ==
  /\ pc[w] = "locked"
  /\ sendBuf' = Append(sendBuf, held[w])
  /\ sendBufLen' = sendBufLen + held[w].len
  /\ accepted' = Append(accepted, held[w])
  /\ mu' = "free"
  /\ Goto(w, IF sendBufLen' >= MaxBufferedByte THEN "signal" ELSE "idle")
  /\ UNCHANGED <<held, flushVars, closeVars, flushNow, crashed>>

\* Mutant: flushNow has no slot, so the token is lost if flushLoop is busy.
Signal_Unbuffered(w) ==
  /\ pc[w] = "signal"
  /\ flushNow' = (flushNow \/ pc[FlushLoop] = "select")
  /\ Goto(w, "idle")
  /\ UNCHANGED <<writeVars, flushVars, closeVars, mu, crashed>>

\* The send on flushNow, which never blocks: a full channel is left as is.
Signal(w) ==
  /\ pc[w] = "signal"
  /\ flushNow' = TRUE
  /\ Goto(w, "idle")
  /\ UNCHANGED <<writeVars, flushVars, closeVars, mu, crashed>>

\* Conn.Flush, called by anyone.
Flush ==
  /\ ~flushNow
  /\ flushNow' = TRUE
  /\ UNCHANGED <<pc, writeVars, flushVars, closeVars, mu, crashed>>

-----------------------------------------------------------------------------
(* flushLoop.  lastWrite is taken when a flush ends.  A tick is stamped    *)
(* when it fires: one that fired before lastWrite + FlushRate is skipped.  *)
(* That is at most one tick left in the channel during the flush and one   *)
(* that fires within FlushRate of its end; before the first flush it is    *)
(* at most the first tick.                                                 *)

LoopStart ==
  /\ pc[FlushLoop] = "unstarted"
  /\ done' = "open"
  /\ skips' \in 0..1
  /\ Goto(FlushLoop, "select")
  /\ UNCHANGED <<writeVars, leaving, ioVars, closed, once, net,
                 overtaken, mu, flushNow, crashed>>

\* Mutant: flushLoop returns on <-c.close without a flush.
LoopClose_NoFlush ==
  /\ pc[FlushLoop] = "select"
  /\ closed
  /\ leaving' = TRUE
  /\ Goto(FlushLoop, "exit")
  /\ UNCHANGED <<writeVars, skips, ioVars, closeVars, mu, flushNow, crashed>>

LoopClose ==
  /\ pc[FlushLoop] = "select"
  /\ closed
  /\ leaving' = TRUE
  /\ Goto(FlushLoop, "swap")
  /\ UNCHANGED <<writeVars, skips, ioVars, closeVars, mu,
                 flushNow, crashed>>

\* Mutant: a skipped tick renews lastWrite as well.
TickSkipped_Renews ==
  /\ pc[FlushLoop] = "select"
  /\ skips > 0
  /\ skips' \in 0..2
  /\ UNCHANGED <<pc, writeVars, leaving, ioVars, closeVars, mu, flushNow, crashed>>

TickSkipped ==
  /\ pc[FlushLoop] = "select"
  /\ skips > 0
  /\ skips' = skips - 1
  /\ UNCHANGED <<pc, writeVars, leaving, ioVars, closeVars, mu,
                 flushNow, crashed>>

Tick ==
  /\ pc[FlushLoop] = "select"
  /\ skips = 0
  /\ Goto(FlushLoop, "swap")
  /\ UNCHANGED <<writeVars, flushVars, closeVars, mu, flushNow, crashed>>

LoopFlushNow ==
  /\ pc[FlushLoop] = "select"
  /\ flushNow
  /\ flushNow' = FALSE
  /\ Goto(FlushLoop, "swap")
  /\ UNCHANGED <<writeVars, flushVars, closeVars, mu, crashed>>

\* flush returned nil: flushLoop leaves if it was closing, and goes on with
\* a new lastWrite otherwise.
FlushReturns ==
  IF leaving THEN /\ Goto(FlushLoop, "exit")
                  /\ UNCHANGED skips
             ELSE /\ Goto(FlushLoop, "select")
                  /\ skips' \in 0..2

FlushEmpty ==
  /\ pc[FlushLoop] = "swap"
  /\ mu = "free"
  /\ sendBuf = <<>>
  /\ FlushReturns
  /\ UNCHANGED <<writeVars, leaving, ioVars, closeVars, mu,
                 flushNow, crashed>>

\* The locked section of flush.  sendBufSpare only recycles the array.
FlushSwap ==
  /\ pc[FlushLoop] = "swap"
  /\ mu = "free"
  /\ sendBuf # <<>>
  /\ batch' = sendBuf
  /\ sendBuf' = <<>>
  /\ sendBufLen' = 0
  /\ Goto(FlushLoop, "write")
  /\ UNCHANGED <<held, accepted, leaving, skips, buf, bufLen, wire, lost, closeVars, mu,
                 flushNow, crashed>>

\* Mutant: an oversize frame is written past the gathered ones.
SpillDue_Never == FALSE

\* The gathered frames go out before the next one would overfill the write.
SpillDue == /\ batch # <<>>
            /\ bufLen > 0 /\ bufLen + Head(batch).len > BytePerWrite
DirectDue == batch # <<>> /\ ~SpillDue /\ Head(batch).len > BytePerWrite

\* The frames of the call of c.conn.Write that flush makes next, if any.
Outgoing == IF DirectDue THEN <<Head(batch)>>
            ELSE IF batch = <<>> \/ SpillDue THEN buf ELSE <<>>

Gather ==
  /\ pc[FlushLoop] = "write"
  /\ batch # <<>> /\ ~SpillDue /\ ~DirectDue
  /\ buf' = Append(buf, Head(batch))
  /\ bufLen' = bufLen + Head(batch).len
  /\ batch' = Tail(batch)
  /\ UNCHANGED <<pc, writeVars, leaving, skips, wire, lost, closeVars, mu,
                 flushNow, crashed>>

WriteOk ==
  /\ pc[FlushLoop] = "write"
  /\ Outgoing # <<>>
  /\ net = "open"
  /\ wire' = wire \o Outgoing
  /\ IF DirectDue THEN /\ batch' = Tail(batch)
                       /\ UNCHANGED <<buf, bufLen>>
                  ELSE /\ buf' = <<>> /\ bufLen' = 0
                       /\ UNCHANGED batch
  /\ IF batch = <<>> THEN FlushReturns ELSE UNCHANGED <<pc, skips>>
  /\ UNCHANGED <<writeVars, leaving, lost, closeVars, mu, flushNow, crashed>>

\* batch ended with a direct write: nothing is gathered.
FlushEnd ==
  /\ pc[FlushLoop] = "write"
  /\ batch = <<>> /\ buf = <<>>
  /\ FlushReturns
  /\ UNCHANGED <<writeVars, leaving, ioVars, closeVars, mu,
                 flushNow, crashed>>

\* The socket may have taken some whole frames of a write that fails.
WriteFails ==
  /\ pc[FlushLoop] = "write"
  /\ Outgoing # <<>>
  /\ net \in {"broken", "closed"}
  /\ \E k \in 0..(Len(Outgoing) - 1) : wire' = wire \o SubSeq(Outgoing, 1, k)
  /\ lost' = TRUE
  /\ batch' = <<>>
  /\ buf' = <<>> /\ bufLen' = 0
  /\ Goto(FlushLoop, "exit")
  /\ UNCHANGED <<writeVars, leaving, skips, closeVars, mu, flushNow, crashed>>

WriteNil ==
  /\ pc[FlushLoop] = "write"
  /\ Outgoing # <<>>
  /\ net = "nil"
  /\ crashed' = TRUE
  /\ UNCHANGED <<pc, writeVars, flushVars, closeVars, mu, flushNow>>

\* Mutant: c.Close() is called before close(c.done).
LoopExit_DoneLate ==
  /\ pc[FlushLoop] = "exit"
  /\ Goto(FlushLoop, "enter")
  /\ UNCHANGED <<writeVars, flushVars, closeVars, mu, flushNow, crashed>>

\* The deferred calls: close(c.done), then c.Close().
LoopExit ==
  /\ pc[FlushLoop] = "exit"
  /\ done' = "closed"
  /\ Goto(FlushLoop, "enter")
  /\ UNCHANGED <<writeVars, flushVars, closed, once, net, overtaken, mu,
                 flushNow, crashed>>

-----------------------------------------------------------------------------
(* Close.  closeOnce.Do blocks every caller until the first one is done.   *)

\* Mutant: handleTaker closes without waiting for <-t.close.
CallClose_Early(c) ==
  /\ pc[c] = "idle"
  /\ Goto(c, "enter")
  /\ UNCHANGED <<writeVars, flushVars, closeVars, mu, flushNow, crashed>>

\* A follower is handleTaker: it leaves AcceptPlayerConn on <-t.close.
CallClose(c) ==
  /\ pc[c] = "idle"
  /\ c \in Followers => closed
  /\ Goto(c, "enter")
  /\ UNCHANGED <<writeVars, flushVars, closeVars, mu, flushNow, crashed>>

CloseFirst(p) ==
  /\ pc[p] = "enter"
  /\ once = "fresh"
  /\ once' = "running"
  /\ Goto(p, "announce")
  /\ UNCHANGED <<writeVars, flushVars, closed, done, net, overtaken, mu,
                 flushNow, crashed>>

CloseAgain(p) ==
  /\ pc[p] = "enter"
  /\ once = "done"
  /\ Goto(p, "returned")
  /\ UNCHANGED <<writeVars, flushVars, closeVars, mu, flushNow, crashed>>

CloseAnnounce(p) ==
  /\ pc[p] = "announce"
  /\ closed' = TRUE
  /\ Goto(p, "await")
  /\ UNCHANGED <<writeVars, flushVars, once, done, net, overtaken, mu,
                 flushNow, crashed>>

\* Mutant: Close does not wait for flushLoop.
CloseAwait_NoWait(p) ==
  /\ pc[p] = "await"
  /\ Goto(p, "net")
  /\ UNCHANGED <<writeVars, flushVars, closeVars, mu, flushNow, crashed>>

CloseAwait(p) ==
  /\ pc[p] = "await"
  /\ done = "closed"
  /\ Goto(p, "net")
  /\ UNCHANGED <<writeVars, flushVars, closeVars, mu, flushNow, crashed>>

\* flushLoop has not made c.done yet.
CloseOvertakes(p) ==
  /\ pc[p] = "await"
  /\ done = "nil"
  /\ overtaken' = TRUE
  /\ Goto(p, "net")
  /\ UNCHANGED <<writeVars, flushVars, closed, once, done, net, mu,
                 flushNow, crashed>>

CloseNet(p) ==
  /\ pc[p] = "net"
  /\ net' = "closed"
  /\ Goto(p, "forget")
  /\ UNCHANGED <<writeVars, flushVars, closed, once, done, overtaken, mu,
                 flushNow, crashed>>

CloseForget(p) ==
  /\ pc[p] = "forget"
  /\ net' = "nil"
  /\ once' = "done"
  /\ Goto(p, "returned")
  /\ UNCHANGED <<writeVars, flushVars, closed, done, overtaken, mu,
                 flushNow, crashed>>

Close(p) ==
  \/ CloseFirst(p) \/ CloseAgain(p) \/ CloseAnnounce(p) \/ CloseAwait(p)
  \/ CloseOvertakes(p) \/ CloseNet(p) \/ CloseForget(p)

-----------------------------------------------------------------------------
(* Taker.HandlePlayers as the connection sees it: a loop that looks at     *)
(* c.close, loads c.conn and reads a header, loads c.conn and reads a      *)
(* body.  It calls Close on leaving.  A read that is already under way     *)
(* fails when the connection is closed; loading a nil c.conn is fatal.     *)

ReaderKeep == UNCHANGED <<writeVars, flushVars, closeVars, mu, flushNow>>

ReaderCheck(r) ==
  /\ pc[r] = "top"
  /\ Goto(r, IF closed THEN "enter" ELSE "loadHeader")
  /\ ReaderKeep /\ UNCHANGED crashed

ReaderLoad(r, at, there) ==
  /\ pc[r] = at
  /\ IF net = "nil" THEN crashed' = TRUE /\ UNCHANGED pc
                    ELSE UNCHANGED crashed /\ Goto(r, there)
  /\ ReaderKeep

\* A full read, possible as long as bytes the peer sent are left.
ReaderRead(r, at, there) ==
  /\ pc[r] = at
  /\ net \in {"open", "broken"}
  /\ Goto(r, there)
  /\ ReaderKeep /\ UNCHANGED crashed

\* The read returns an I/O error, or the length or the packet is refused.
ReaderFails(r) ==
  /\ \/ pc[r] \in {"header", "body"} /\ net # "open"
     \/ pc[r] \in {"loadBody", "handle"}
  /\ Goto(r, "enter")
  /\ ReaderKeep /\ UNCHANGED crashed

ReaderHandles(r) ==
  /\ pc[r] = "handle"
  /\ Goto(r, "top")
  /\ ReaderKeep /\ UNCHANGED crashed

ReaderStep(r) ==
  \/ ReaderCheck(r)
  \/ ReaderLoad(r, "loadHeader", "header")
  \/ ReaderRead(r, "header", "loadBody")
  \/ ReaderLoad(r, "loadBody", "body")
  \/ ReaderRead(r, "body", "handle")
  \/ ReaderHandles(r)
  \/ ReaderFails(r)

-----------------------------------------------------------------------------
\* External: the peer closes the socket, or it breaks.
Break ==
  /\ net = "open"
  /\ net' = "broken"
  /\ UNCHANGED <<pc, writeVars, flushVars, closed, once, done, overtaken, mu,
                 flushNow, crashed>>

Write(w) ==
  \/ Encode(w) \/ LockOpen(w) \/ LockClosed(w) \/ AppendFrame(w) \/ Signal(w)

DoFlush ==
  \/ FlushEmpty \/ FlushSwap \/ Gather \/ WriteOk \/ FlushEnd \/ WriteFails
  \/ WriteNil

Loop ==
  \/ LoopStart \/ LoopClose \/ TickSkipped \/ Tick \/ LoopFlushNow \/ LoopExit
  \/ DoFlush

\* A nil dereference in a goroutine takes the process with it; otherwise
\* the system rests when the connection is closed and everyone has left.
Terminated ==
  /\ crashed \/ /\ \A p \in Procs \ Writers : pc[p] = "returned"
                /\ \A w \in Writers : pc[w] = "idle"
  /\ UNCHANGED vars

Next ==
  \/ /\ ~crashed
     /\ \/ \E w \in Writers : Write(w)
        \/ \E c \in Closers : CallClose(c)
        \/ \E p \in Procs : Close(p)
        \/ \E r \in Readers : ReaderStep(r)
        \/ Loop \/ Flush \/ Break
  \/ Terminated

Spec == Init /\ [][Next]_vars

\* Goroutines that can run do run.  select picks among its ready cases at
\* random, so a closed c.close is seen in the end; sync.Mutex starves nobody.
Fairness ==
  /\ WF_vars(~crashed /\ Loop)
  /\ SF_vars(~crashed /\ LoopClose)
  /\ SF_vars(~crashed /\ (FlushEmpty \/ FlushSwap))
  /\ \A p \in Procs : WF_vars(~crashed /\ Close(p))
  /\ \A w \in Writers : /\ WF_vars(~crashed /\ (AppendFrame(w) \/ Signal(w)))
                        /\ SF_vars(~crashed /\ (LockOpen(w) \/ LockClosed(w)))

FairSpec == Spec /\ Fairness

-----------------------------------------------------------------------------
WriterAt == {"idle", "encoded", "locked", "signal"}
CloseAt == {"enter", "announce", "await", "net", "forget", "returned"}
LoopAt == {"unstarted", "select", "swap", "write", "exit"} \union CloseAt
ReaderAt == {"top", "loadHeader", "header", "loadBody", "body", "handle"} \union CloseAt

ControlOK ==
  /\ pc \in [Procs -> WriterAt \union LoopAt \union ReaderAt]
  /\ \A w \in Writers : pc[w] \in WriterAt
  /\ \A c \in Closers : pc[c] \in {"idle"} \union CloseAt
  /\ \A r \in Readers : pc[r] \in ReaderAt
  /\ pc[FlushLoop] \in LoopAt

BuffersOK ==
  /\ sendBuf \in Seq(Frame) /\ batch \in Seq(Frame) /\ buf \in Seq(Frame)
  /\ wire \in Seq(Frame) /\ accepted \in Seq(Frame)
  /\ sendBufLen \in Nat /\ bufLen \in Nat /\ skips \in 0..2
  /\ held \in [Writers -> [from : Writers, no : 0..MaxFrames, len : FrameLens \union {0}]]

FlagsOK ==
  /\ once \in {"fresh", "running", "done"}
  /\ done \in {"nil", "open", "closed"}
  /\ net \in {"open", "broken", "closed", "nil"}
  /\ mu \in Writers \union {"free"}
  /\ closed \in BOOLEAN /\ flushNow \in BOOLEAN /\ leaving \in BOOLEAN
  /\ lost \in BOOLEAN /\ overtaken \in BOOLEAN /\ crashed \in BOOLEAN

\* Every variable holds a value of its kind.
TypeOK == ControlOK /\ BuffersOK /\ FlagsOK

\* Until a write fails, the frames on the socket followed by those flush
\* holds and those that wait are exactly the accepted ones in order: the
\* two buffers, the gathering of small frames and the direct write of
\* oversize ones neither drop, duplicate nor reorder (conn.go:245-288).
NothingLost == ~lost => wire \o buf \o batch \o sendBuf = accepted

\* When Close has run to its end, having waited for flushLoop, and no write
\* failed, every frame whose writePacket returned nil is on the socket.
\* This is the point of the second look at c.close under sendBufMu
\* (conn.go:208-213) and of the flush on <-c.close (131-133).
GracefulClose == once = "done" /\ ~overtaken /\ ~lost => wire = accepted

\* The flush loop meets a nil c.conn only if Close read c.done before
\* flushLoop made it (conn.go:107, 123).
NilWriteNeedsOvertaking ==
  crashed /\ pc[FlushLoop] = "write" => overtaken

\* Unless a write fails, as none does on the listener's side, a reader meets a
\* nil c.conn only if someone closes the connection on his own account,
\* which only Listener.Close does: HandlePlayers closing it, and handleTaker
\* closing it again, are harmless (taker.go:22-36, anticheat.go:76-82,
\* conn.go:301, 313).
NilReadNeedsListenerClose ==
  crashed /\ ~lost /\ pc[FlushLoop] # "write" => \E c \in Closers \ Followers : pc[c] # "idle"

\* While MaxBufferedByte is exceeded and flushLoop is alive, a flush is due
\* without a tick: the token is in the channel, a writer is about to put it
\* there, or flushLoop is about to swap (conn.go:217-225, 143).
FlushDue ==
  TotalLen(sendBuf) >= MaxBufferedByte =>
    \/ flushNow
    \/ \E w \in Writers : pc[w] = "signal"
    \/ pc[FlushLoop] = "swap"
    \/ pc[FlushLoop] \in {"exit"} \union CloseAt

\* No writer is told that its frame was taken when nobody is left to send
\* it: once flushLoop, leaving, is past its last swap, nothing is accepted
\* (conn.go:131-133, 206-213).
NoAcceptAfterLastFlush ==
  [][ leaving /\ pc[FlushLoop] \notin {"select", "swap"}
        => accepted' = accepted ]_vars

Holds(frames, w, n) == \E f \in ToSet(frames) : f.from = w /\ f.no = n

\* Every accepted frame reaches the socket, unless a write fails or Close
\* overtook the start of flushLoop.
Delivered ==
  \A w \in Writers, n \in 1..MaxFrames :
    Holds(accepted, w, n) ~> Holds(wire, w, n) \/ lost \/ overtaken

\* Close returns in every goroutine that calls it: flushLoop's own call does
\* not wait for the loop, and others wait for one that is on its way out.
CloseReturns ==
  \A p \in Procs : pc[p] = "enter" ~> pc[p] = "returned" \/ crashed

-----------------------------------------------------------------------------
Stream == INSTANCE FrameStream WITH
  Frames <- Frame,
  delivered <- wire,
  status <- IF lost \/ overtaken THEN "lossy"
            ELSE IF once = "done" THEN "closed" ELSE "open"

\* Conn keeps the promise FrameStream states: the socket only ever sees an
\* initial part of what was accepted, also after a failed write, and an
\* orderly close comes after everything was sent, with nothing accepted later.
ImplementsStream == Stream!Spec
=============================================================================
