------------------------------ MODULE ConnProofs ------------------------------
(***************************************************************************)
(* Proofs about Conn, for every set of writers, closers and readers and    *)
(* every size.  The argument is the inductive invariant Inv below: what is *)
(* in the buffers and on the socket is what was accepted (Whole), nothing  *)
(* can be appended once flushLoop made its last swap (LastFlush), and the  *)
(* connection is not taken away before flushLoop is out of its loop unless *)
(* Close overtook its start (Orderly).                                     *)
(*                                                                         *)
(* From the same invariant every step of Conn is a step of FrameStream or  *)
(* leaves its variables alone.  Two more invariants stand on their own:    *)
(* ReaderFirst, for the reading end, and WellCounted, for which TotalLen,  *)
(* a fold, is first shown to add up the lengths.                           *)
(***************************************************************************)
EXTENDS Conn, TLAPS, SequenceTheorems, WellFoundedInduction

\* A frame that is about to be appended is one that was encoded.
HeldOK == \A w \in Writers : pc[w] \in {"encoded", "locked"} => held[w] \in Frame

\* sendBufMu is held by the writer between its check and its append.
MuOK == \A w \in Writers : mu = w <=> pc[w] = "locked"

\* flushLoop's place tells the state of c.done and of flush's local buffers.
LoopOK ==
  /\ done = "nil" <=> pc[FlushLoop] = "unstarted"
  /\ done = "closed" <=> pc[FlushLoop] \in CloseAt
  /\ pc[FlushLoop] # "write" => batch = <<>> /\ buf = <<>>
  /\ bufLen = 0 <=> buf = <<>>
  /\ pc[FlushLoop] \in {"exit"} \union CloseAt => leaving \/ lost
  /\ lost => pc[FlushLoop] \in {"exit"} \union CloseAt

\* After the swap made on the way out nothing waits and nobody can append.
LastFlush ==
  leaving => /\ closed
             /\ pc[FlushLoop] \notin {"unstarted", "select"}
             /\ pc[FlushLoop] # "swap" => sendBuf = <<>> /\ mu = "free"

\* The connection is taken away after flushLoop's exit or after overtaking.
Orderly ==
  \/ overtaken
  \/ done = "closed"
  \/ /\ net \in {"open", "broken"}
     /\ once # "done"
     /\ \A p \in Procs : pc[p] \notin {"net", "forget"}

Whole == NothingLost

\* The inductive invariant.
Inv == TypeOK /\ HeldOK /\ MuOK /\ LoopOK /\ LastFlush /\ Orderly /\ Whole

-----------------------------------------------------------------------------
USE ConnAssumption DEF Procs

LEMMA InitInv == Init => Inv
<1> SUFFICES ASSUME Init PROVE Inv
  OBVIOUS
<1>1. ControlOK
  BY DEF Init, ControlOK, WriterAt, LoopAt, ReaderAt
<1>2. BuffersOK
  <2>1. <<>> \in Seq(Frame)
    OBVIOUS
  <2> QED
    BY <2>1 DEF Init, BuffersOK
<1>3. FlagsOK
  BY DEF Init, FlagsOK
<1>4. HeldOK /\ MuOK /\ LoopOK /\ LastFlush /\ Orderly
  BY DEF Init, HeldOK, MuOK, LoopOK, LastFlush, Orderly, CloseAt
<1>5. Whole
  BY DEF Init, Whole, NothingLost
<1> QED
  BY <1>1, <1>2, <1>3, <1>4, <1>5 DEF Inv, TypeOK

-----------------------------------------------------------------------------
\* Facts about sequences that the proof of Whole needs.
LEMMA FrameLensPositive == \A f \in Frame : f.len \in Nat \ {0}
  BY DEF Frame

LEMMA AppendMoves ==
  ASSUME NEW S, NEW s \in Seq(S), NEW t \in Seq(S), NEW e \in S
  PROVE  s \o Append(t, e) = Append(s \o t, e)
<1>1. s \o Append(t, e) = s \o (t \o <<e>>)
  BY AppendIsConcat
<1>2. s \o (t \o <<e>>) = (s \o t) \o <<e>>
  <2>1. <<e>> \in Seq(S)
    OBVIOUS
  <2> QED
    BY <2>1, ConcatAssociative
<1>3. (s \o t) \o <<e>> = Append(s \o t, e)
  BY AppendIsConcat, ConcatProperties
<1> QED
  BY <1>1, <1>2, <1>3

\* Taking the head of t to the end of s keeps the concatenation.
LEMMA HeadMoves ==
  ASSUME NEW S, NEW s \in Seq(S), NEW t \in Seq(S), t # <<>>
  PROVE  /\ Head(t) \in S /\ Tail(t) \in Seq(S)
         /\ (s \o <<Head(t)>>) \o Tail(t) = s \o t
         /\ Append(s, Head(t)) \o Tail(t) = s \o t
<1>1. Head(t) \in S /\ Tail(t) \in Seq(S) /\ Len(Tail(t)) = Len(t) - 1
  BY HeadTailProperties
<1>2. <<Head(t)>> \in Seq(S)
  BY <1>1
<1>3. <<Head(t)>> \o Tail(t) = t
  <2>1. <<Head(t)>> \o Tail(t) \in Seq(S) /\ Len(<<Head(t)>> \o Tail(t)) = Len(t)
    BY <1>1, <1>2, ConcatProperties
  <2>2. \A n \in 1..Len(t) : (<<Head(t)>> \o Tail(t))[n] = t[n]
    BY <1>1, <1>2, HeadTailProperties
  <2> QED
    BY <2>1, <2>2, SeqEqual
<1>4. (s \o <<Head(t)>>) \o Tail(t) = s \o t
  BY <1>1, <1>2, <1>3, ConcatAssociative
<1>5. Append(s, Head(t)) = s \o <<Head(t)>>
  BY <1>1, AppendIsConcat
<1> QED
  BY <1>1, <1>4, <1>5

\* Whether goroutine p may be at a place.
MayBeAt(p, place) ==
  /\ p \in Writers => place \in WriterAt
  /\ p \in Closers => place \in CloseAt
  /\ p \in Readers => place \in ReaderAt
  /\ p = FlushLoop => place \in LoopAt

\* The same for the frames of a connection.
LEMMA FramesMove ==
  \A s, t \in Seq(Frame) :
     /\ \A f \in Frame : s \o Append(t, f) = Append(s \o t, f)
     /\ t # <<>> => /\ Head(t) \in Frame /\ Tail(t) \in Seq(Frame)
                    /\ (s \o <<Head(t)>>) \o Tail(t) = s \o t
                    /\ Append(s, Head(t)) \o Tail(t) = s \o t
<1> SUFFICES ASSUME NEW s \in Seq(Frame), NEW t \in Seq(Frame)
             PROVE  /\ \A f \in Frame : s \o Append(t, f) = Append(s \o t, f)
                    /\ t # <<>> => /\ Head(t) \in Frame /\ Tail(t) \in Seq(Frame)
                                   /\ (s \o <<Head(t)>>) \o Tail(t) = s \o t
                                   /\ Append(s, Head(t)) \o Tail(t) = s \o t
  OBVIOUS
<1>1. ASSUME NEW f \in Frame PROVE s \o Append(t, f) = Append(s \o t, f)
  BY AppendMoves, SMTT(20)
<1>2. CASE t # <<>>
  BY <1>2, HeadMoves, SMTT(20)
<1> QED
  BY <1>1, <1>2

\* A goroutine that moves leaves the others where they are.
LEMMA Moves ==
  ASSUME ControlOK, NEW p \in Procs, NEW place, Goto(p, place), MayBeAt(p, place)
  PROVE  /\ ControlOK'
         /\ pc'[p] = place
         /\ \A q \in Procs : q # p => pc'[q] = pc[q]
<1>1. pc'[p] = place /\ \A q \in Procs : q # p => pc'[q] = pc[q]
  BY DEF Goto, ControlOK
<1>2. place \in WriterAt \union LoopAt \union ReaderAt
  BY DEF MayBeAt, LoopAt
<1>3. pc' \in [Procs -> WriterAt \union LoopAt \union ReaderAt]
  BY <1>2 DEF Goto, ControlOK
<1>4. \A w \in Writers : pc'[w] \in WriterAt
  BY <1>1 DEF ControlOK, MayBeAt
<1>5. \A c \in Closers : pc'[c] \in {"idle"} \union CloseAt
  BY <1>1 DEF ControlOK, MayBeAt
<1>6. \A r \in Readers : pc'[r] \in ReaderAt
  BY <1>1 DEF ControlOK, MayBeAt
<1>7. pc'[FlushLoop] \in LoopAt
  BY <1>1 DEF ControlOK, MayBeAt
<1> QED
  BY <1>1, <1>3, <1>4, <1>5, <1>6, <1>7 DEF ControlOK

\* The invariant is kept by every step of writePacket.
LEMMA WriteInv ==
  ASSUME Inv, NEW w \in Writers, Write(w)
  PROVE  Inv'
<1>1. CASE Encode(w)
  <2>1. PICK l \in FrameLens :
          held' = [held EXCEPT ![w] = [from |-> w, no |-> held[w].no + 1, len |-> l]]
    BY <1>1 DEF Encode
  <2>2. held[w].no + 1 \in 1..MaxFrames
    BY <1>1 DEF Encode, Inv, TypeOK, BuffersOK
  <2>3. held'[w] \in Frame /\ \A v \in Writers : v # w => held'[v] = held[v]
    BY <2>1, <2>2 DEF Inv, TypeOK, BuffersOK, Frame
  <2>4. ControlOK' /\ pc'[w] = "encoded" /\ \A q \in Procs : q # w => pc'[q] = pc[q]
    BY <1>1, Moves DEF Encode, Inv, TypeOK, MayBeAt, WriterAt
  <2>5. BuffersOK'
    BY <1>1, <2>1, <2>2 DEF Encode, Inv, TypeOK, BuffersOK, flushVars, ioVars
  <2>6. FlagsOK'
    BY <1>1 DEF Encode, Inv, TypeOK, FlagsOK, flushVars, ioVars, closeVars
  <2>7. HeldOK'
    BY <2>3, <2>4 DEF Inv, HeldOK
  <2>8. MuOK' /\ LoopOK' /\ LastFlush' /\ Orderly'
    BY <1>1, <2>4 DEF Encode, Inv, MuOK, LoopOK, LastFlush, Orderly, flushVars, ioVars, closeVars
  <2>9. Whole'
    BY <1>1 DEF Encode, Inv, Whole, NothingLost, flushVars, ioVars
  <2> QED
    BY <2>4, <2>5, <2>6, <2>7, <2>8, <2>9 DEF Inv, TypeOK
<1>2. CASE LockOpen(w)
  <2>1. ControlOK' /\ pc'[w] = "locked" /\ \A q \in Procs : q # w => pc'[q] = pc[q]
    BY <1>2, Moves DEF LockOpen, Inv, TypeOK, MayBeAt, WriterAt
  <2>2. BuffersOK' /\ FlagsOK'
    BY <1>2 DEF LockOpen, Inv, TypeOK, BuffersOK, FlagsOK, writeVars, flushVars, ioVars, closeVars
  <2>3. HeldOK' /\ MuOK'
    BY <1>2, <2>1 DEF LockOpen, Inv, HeldOK, MuOK, writeVars
  <2>4. LoopOK' /\ LastFlush' /\ Orderly' /\ Whole'
    BY <1>2, <2>1 DEF LockOpen, Inv, LoopOK, LastFlush, Orderly, Whole, NothingLost,
                      writeVars, flushVars, ioVars, closeVars
  <2> QED
    BY <2>1, <2>2, <2>3, <2>4 DEF Inv, TypeOK
<1>3. CASE LockClosed(w)
  <2>1. ControlOK' /\ pc'[w] = "idle" /\ \A q \in Procs : q # w => pc'[q] = pc[q]
    BY <1>3, Moves DEF LockClosed, Inv, TypeOK, MayBeAt, WriterAt
  <2>2. BuffersOK' /\ FlagsOK'
    BY <1>3 DEF LockClosed, Inv, TypeOK, BuffersOK, FlagsOK, writeVars, flushVars, ioVars, closeVars
  <2>3. HeldOK' /\ MuOK'
    BY <1>3, <2>1 DEF LockClosed, Inv, HeldOK, MuOK, writeVars
  <2>4. LoopOK' /\ LastFlush' /\ Orderly' /\ Whole'
    BY <1>3, <2>1 DEF LockClosed, Inv, LoopOK, LastFlush, Orderly, Whole, NothingLost,
                      writeVars, flushVars, ioVars, closeVars
  <2> QED
    BY <2>1, <2>2, <2>3, <2>4 DEF Inv, TypeOK
<1>4. CASE AppendFrame(w)
  <2> DEFINE f == held[w]
  <2>1. f \in Frame /\ f.len \in Nat /\ mu = w
    BY <1>4 DEF AppendFrame, Inv, HeldOK, MuOK, Frame
  <2>2. ControlOK' /\ pc'[w] \in {"signal", "idle"} /\ \A q \in Procs : q # w => pc'[q] = pc[q]
    BY <1>4, Moves DEF AppendFrame, Inv, TypeOK, MayBeAt, WriterAt
  <2>3. sendBuf' = Append(sendBuf, f) /\ accepted' = Append(accepted, f)
    BY <1>4 DEF AppendFrame
  <2>4. BuffersOK'
    BY <1>4, <2>1, <2>3 DEF AppendFrame, Inv, TypeOK, BuffersOK, flushVars, ioVars
  <2>5. FlagsOK'
    BY <1>4 DEF AppendFrame, Inv, TypeOK, FlagsOK, flushVars, ioVars, closeVars
  <2>6. HeldOK' /\ MuOK'
    BY <1>4, <2>1, <2>2 DEF AppendFrame, Inv, HeldOK, MuOK
  <2>7. LoopOK' /\ Orderly'
    BY <1>4, <2>2 DEF AppendFrame, Inv, LoopOK, Orderly, flushVars, ioVars, closeVars
  <2>8. LastFlush'
    BY <1>4, <2>1, <2>2 DEF AppendFrame, Inv, LastFlush, flushVars, ioVars, closeVars
  <2>9. Whole'
    <3>1. (wire \o buf \o batch) \o Append(sendBuf, f) = Append(wire \o buf \o batch \o sendBuf, f)
      <4>1. wire \o buf \o batch \in Seq(Frame) /\ sendBuf \in Seq(Frame)
        BY ConcatProperties DEF Inv, TypeOK, BuffersOK
      <4>2. f \in Frame
        BY <2>1
      <4> HIDE DEF Inv, AppendFrame
      <4> QED
        BY <4>1, <4>2, FramesMove
    <3> QED
      BY <1>4, <2>3, <3>1 DEF AppendFrame, Inv, Whole, NothingLost, flushVars, ioVars
  <2> QED
    BY <2>2, <2>4, <2>5, <2>6, <2>7, <2>8, <2>9 DEF Inv, TypeOK
<1>5. CASE Signal(w)
  <2>1. ControlOK' /\ pc'[w] = "idle" /\ \A q \in Procs : q # w => pc'[q] = pc[q]
    BY <1>5, Moves DEF Signal, Inv, TypeOK, MayBeAt, WriterAt
  <2>2. BuffersOK' /\ FlagsOK'
    BY <1>5 DEF Signal, Inv, TypeOK, BuffersOK, FlagsOK, writeVars, flushVars, ioVars, closeVars
  <2>3. HeldOK' /\ MuOK'
    BY <1>5, <2>1 DEF Signal, Inv, HeldOK, MuOK, writeVars
  <2>4. LoopOK' /\ LastFlush' /\ Orderly' /\ Whole'
    BY <1>5, <2>1 DEF Signal, Inv, LoopOK, LastFlush, Orderly, Whole, NothingLost,
                      writeVars, flushVars, ioVars, closeVars
  <2> QED
    BY <2>1, <2>2, <2>3, <2>4 DEF Inv, TypeOK
<1> QED
  BY <1>1, <1>2, <1>3, <1>4, <1>5 DEF Write

\* A goroutine inside Close is no writer, and stays inside Close.
LEMMA CloseMoves ==
  ASSUME ControlOK, NEW p \in Procs, NEW place \in CloseAt,
         pc[p] \in CloseAt, Goto(p, place)
  PROVE  /\ p \notin Writers
         /\ ControlOK' /\ pc'[p] = place
         /\ \A q \in Procs : q # p => pc'[q] = pc[q]
         /\ pc'[FlushLoop] \in CloseAt <=> pc[FlushLoop] \in CloseAt
         /\ pc[FlushLoop] \notin CloseAt => pc'[FlushLoop] = pc[FlushLoop]
<1>1. p \notin Writers
  BY DEF ControlOK, WriterAt, CloseAt
<1>2. MayBeAt(p, place)
  BY <1>1 DEF MayBeAt, LoopAt, ReaderAt
<1> QED
  BY <1>1, <1>2, Moves

\* The invariant is kept by every step of Close.
LEMMA CloseInv ==
  ASSUME Inv, NEW p \in Procs, Close(p)
  PROVE  Inv'
<1> USE DEF Inv, TypeOK
<1>1. PICK place \in CloseAt : pc[p] \in CloseAt /\ Goto(p, place)
  BY DEF Close, CloseFirst, CloseAgain, CloseAnnounce, CloseAwait, CloseOvertakes,
         CloseNet, CloseForget, CloseAt
<1>2. /\ p \notin Writers
      /\ ControlOK' /\ pc'[p] = place
      /\ \A q \in Procs : q # p => pc'[q] = pc[q]
      /\ pc'[FlushLoop] \in CloseAt <=> pc[FlushLoop] \in CloseAt
      /\ pc[FlushLoop] \notin CloseAt => pc'[FlushLoop] = pc[FlushLoop]
  BY <1>1, CloseMoves
<1>3. UNCHANGED <<writeVars, flushVars, done, mu, flushNow, crashed>>
  BY DEF Close, CloseFirst, CloseAgain, CloseAnnounce, CloseAwait, CloseOvertakes,
         CloseNet, CloseForget, closeVars
<1>4. closed => closed'
  BY DEF Close, CloseFirst, CloseAgain, CloseAnnounce, CloseAwait, CloseOvertakes,
         CloseNet, CloseForget, closeVars
<1>5. BuffersOK'
  BY <1>3 DEF BuffersOK, writeVars, flushVars, ioVars
<1>6. FlagsOK'
  <2>1. /\ closed' \in BOOLEAN /\ overtaken' \in BOOLEAN
        /\ once' \in {"fresh", "running", "done"}
        /\ net' \in {"open", "broken", "closed", "nil"}
    BY DEF FlagsOK, Close, CloseFirst, CloseAgain, CloseAnnounce, CloseAwait,
           CloseOvertakes, CloseNet, CloseForget, closeVars
  <2> QED
    BY <1>3, <2>1 DEF FlagsOK, writeVars, flushVars, ioVars
<1>7. HeldOK' /\ MuOK' /\ Whole'
  BY <1>2, <1>3 DEF HeldOK, MuOK, Whole, NothingLost, writeVars, flushVars, ioVars
<1>8. LoopOK'
  BY <1>2, <1>3 DEF LoopOK, flushVars, ioVars, CloseAt
<1>9. LastFlush'
  BY <1>2, <1>3, <1>4 DEF LastFlush, writeVars, flushVars, ioVars, CloseAt
<1>10. Orderly'
  <2>1. CASE CloseAwait(p)
    BY <2>1, <1>3 DEF Orderly, CloseAwait
  <2>2. CASE CloseOvertakes(p)
    BY <2>2 DEF Orderly, CloseOvertakes
  <2>3. CASE CloseNet(p) \/ CloseForget(p)
    <3>1. pc[p] \in {"net", "forget"} /\ UNCHANGED <<overtaken, done>>
      BY <2>3 DEF CloseNet, CloseForget
    <3>2. overtaken \/ done = "closed"
      BY <3>1 DEF Orderly
    <3> QED
      BY <3>1, <3>2 DEF Orderly
  <2>4. CASE CloseFirst(p) \/ CloseAgain(p) \/ CloseAnnounce(p)
    <3>1. UNCHANGED <<overtaken, done, net>> /\ once' \in {once, "running"}
      BY <2>4 DEF CloseFirst, CloseAgain, CloseAnnounce, closeVars
    <3>2. pc'[p] \in {"announce", "await", "returned"}
      BY <2>4, <1>2 DEF CloseFirst, CloseAgain, CloseAnnounce, Goto, ControlOK
    <3> QED
      BY <3>1, <3>2, <1>2 DEF Orderly
  <2> QED
    BY <2>1, <2>2, <2>3, <2>4 DEF Close
<1> QED
  BY <1>2, <1>5, <1>6, <1>7, <1>8, <1>9, <1>10

\* The invariant is kept when Close is called and by HandlePlayers: these
\* steps change a place outside the writers and flushLoop, and crashed.
LEMMA OutsideInv ==
  ASSUME Inv, NEW p \in Closers \union Readers, NEW place,
         Goto(p, place) \/ UNCHANGED pc, MayBeAt(p, place),
         place \notin {"net", "forget"}, crashed' \in BOOLEAN,
         UNCHANGED <<writeVars, flushVars, closeVars, mu, flushNow>>
  PROVE  Inv'
<1> USE DEF Inv, TypeOK
<1>1. /\ p \notin Writers \union {FlushLoop}
      /\ ControlOK' /\ pc'[p] \in {pc[p], place}
      /\ \A q \in Procs : q # p => pc'[q] = pc[q]
  <2>1. CASE Goto(p, place)
    BY <2>1, Moves
  <2>2. CASE UNCHANGED pc
    BY <2>2 DEF ControlOK
  <2> QED
    BY <2>1, <2>2
<1>2. BuffersOK' /\ FlagsOK'
  BY DEF BuffersOK, FlagsOK, writeVars, flushVars, ioVars, closeVars
<1>3. HeldOK' /\ MuOK' /\ Whole'
  BY <1>1 DEF HeldOK, MuOK, Whole, NothingLost, writeVars, flushVars, ioVars
<1>4. LoopOK' /\ LastFlush' /\ Orderly'
  BY <1>1 DEF LoopOK, LastFlush, Orderly, writeVars, flushVars, ioVars, closeVars
<1> QED
  BY <1>1, <1>2, <1>3, <1>4

LEMMA CallCloseInv ==
  ASSUME Inv, NEW c \in Closers, CallClose(c)
  PROVE  Inv'
<1>1. MayBeAt(c, "enter") /\ crashed' \in BOOLEAN
  BY DEF CallClose, MayBeAt, CloseAt, Inv, TypeOK, FlagsOK
<1> QED
  BY <1>1, OutsideInv DEF CallClose

LEMMA ReaderInv ==
  ASSUME Inv, NEW r \in Readers, ReaderStep(r)
  PROVE  Inv'
<1>1. PICK place \in {"top", "loadHeader", "header", "loadBody", "body", "handle", "enter"} :
        Goto(r, place) \/ UNCHANGED pc
  BY DEF ReaderStep, ReaderCheck, ReaderLoad, ReaderRead, ReaderFails, ReaderHandles
<1>2. MayBeAt(r, place)
  BY DEF MayBeAt, ReaderAt, CloseAt
<1>3. UNCHANGED <<writeVars, flushVars, closeVars, mu, flushNow>> /\ crashed' \in BOOLEAN
  BY DEF ReaderStep, ReaderCheck, ReaderLoad, ReaderRead, ReaderFails, ReaderHandles,
         ReaderKeep, Inv, TypeOK, FlagsOK
<1> QED
  BY <1>1, <1>2, <1>3, OutsideInv

\* What a step of flushLoop that goes somewhere leaves alone.
LEMMA LoopMoves ==
  ASSUME Inv, NEW place \in {"select", "swap", "write", "exit", "enter"},
         Goto(FlushLoop, place), UNCHANGED <<held, mu>>
  PROVE  /\ ControlOK' /\ pc'[FlushLoop] = place
         /\ \A q \in Procs : q # FlushLoop => pc'[q] = pc[q]
         /\ HeldOK' /\ MuOK'
<1>1. MayBeAt(FlushLoop, place)
  BY DEF MayBeAt, LoopAt, CloseAt
<1>2. /\ ControlOK' /\ pc'[FlushLoop] = place
      /\ \A q \in Procs : q # FlushLoop => pc'[q] = pc[q]
  BY <1>1, Moves DEF Inv, TypeOK
<1> QED
  BY <1>2 DEF Inv, HeldOK, MuOK

\* The invariant is kept by flushLoop outside flush.
LEMMA SelectInv ==
  ASSUME Inv, LoopStart \/ LoopClose \/ TickSkipped \/ Tick \/ LoopFlushNow \/ LoopExit
  PROVE  Inv'
<1> USE DEF Inv, TypeOK
<1>1. CASE LoopStart
  <2>1. /\ ControlOK' /\ pc'[FlushLoop] = "select" /\ HeldOK' /\ MuOK'
        /\ \A q \in Procs : q # FlushLoop => pc'[q] = pc[q]
    BY <1>1, LoopMoves DEF LoopStart, writeVars
  <2>2. BuffersOK'
    BY <1>1 DEF LoopStart, BuffersOK, writeVars, ioVars
  <2>3. FlagsOK'
    BY <1>1 DEF LoopStart, FlagsOK, ioVars
  <2>4. LoopOK' /\ LastFlush' /\ Whole'
    BY <1>1, <2>1 DEF LoopStart, LoopOK, LastFlush, Whole, NothingLost, CloseAt, writeVars, ioVars
  <2>5. Orderly'
    BY <1>1, <2>1 DEF LoopStart, LoopOK, Orderly, CloseAt
  <2> QED
    BY <2>1, <2>2, <2>3, <2>4, <2>5
<1>2. CASE LoopClose
  <2>1. /\ ControlOK' /\ pc'[FlushLoop] = "swap" /\ HeldOK' /\ MuOK'
        /\ \A q \in Procs : q # FlushLoop => pc'[q] = pc[q]
    BY <1>2, LoopMoves DEF LoopClose, writeVars
  <2>2. BuffersOK' /\ FlagsOK'
    BY <1>2 DEF LoopClose, BuffersOK, FlagsOK, writeVars, closeVars, ioVars
  <2>3. LoopOK' /\ LastFlush' /\ Whole'
    BY <1>2, <2>1 DEF LoopClose, LoopOK, LastFlush, Whole, NothingLost, CloseAt, writeVars,
                      closeVars, ioVars
  <2>4. Orderly'
    BY <1>2, <2>1 DEF LoopClose, Orderly, closeVars
  <2> QED
    BY <2>1, <2>2, <2>3, <2>4
<1>3. CASE TickSkipped
  <2>1. ControlOK' /\ BuffersOK' /\ FlagsOK'
    BY <1>3 DEF TickSkipped, ControlOK, BuffersOK, FlagsOK, writeVars, closeVars, ioVars
  <2>2. HeldOK' /\ MuOK' /\ LoopOK' /\ LastFlush' /\ Orderly' /\ Whole'
    BY <1>3 DEF TickSkipped, HeldOK, MuOK, LoopOK, LastFlush, Orderly, Whole, NothingLost,
                writeVars, closeVars, ioVars
  <2> QED
    BY <2>1, <2>2
<1>4. CASE Tick \/ LoopFlushNow
  <2>1. /\ pc[FlushLoop] = "select" /\ Goto(FlushLoop, "swap") /\ flushNow' \in BOOLEAN
        /\ UNCHANGED <<writeVars, flushVars, closeVars, mu, crashed>>
    BY <1>4 DEF Tick, LoopFlushNow, FlagsOK
  <2>2. /\ ControlOK' /\ pc'[FlushLoop] = "swap" /\ HeldOK' /\ MuOK'
        /\ \A q \in Procs : q # FlushLoop => pc'[q] = pc[q]
    BY <2>1, LoopMoves DEF writeVars
  <2>3. BuffersOK' /\ FlagsOK'
    BY <2>1 DEF BuffersOK, FlagsOK, writeVars, flushVars, ioVars, closeVars
  <2>4. LoopOK' /\ LastFlush' /\ Whole'
    BY <2>1, <2>2 DEF LoopOK, LastFlush, Whole, NothingLost, CloseAt, writeVars,
                      flushVars, ioVars, closeVars
  <2>5. Orderly'
    BY <2>1, <2>2 DEF Orderly, closeVars
  <2> QED
    BY <2>2, <2>3, <2>4, <2>5
<1>5. CASE LoopExit
  <2>1. /\ ControlOK' /\ pc'[FlushLoop] = "enter" /\ HeldOK' /\ MuOK'
        /\ \A q \in Procs : q # FlushLoop => pc'[q] = pc[q]
    BY <1>5, LoopMoves DEF LoopExit, writeVars
  <2>2. BuffersOK' /\ FlagsOK'
    BY <1>5 DEF LoopExit, BuffersOK, FlagsOK, writeVars, flushVars, ioVars
  <2>3. LoopOK' /\ LastFlush' /\ Whole'
    BY <1>5, <2>1 DEF LoopExit, LoopOK, LastFlush, Whole, NothingLost, CloseAt, writeVars,
                      flushVars, ioVars
  <2>4. Orderly'
    BY <1>5 DEF LoopExit, Orderly
  <2> QED
    BY <2>1, <2>2, <2>3, <2>4
<1> QED
  BY <1>1, <1>2, <1>3, <1>4, <1>5

\* The end of flush: out of the loop if it is leaving, back to select if not.
LEMMA ReturnMoves ==
  ASSUME Inv, FlushReturns, UNCHANGED <<held, mu>>
  PROVE  /\ ControlOK' /\ HeldOK' /\ MuOK' /\ skips' \in 0..2
         /\ pc'[FlushLoop] = IF leaving THEN "exit" ELSE "select"
         /\ \A q \in Procs : q # FlushLoop => pc'[q] = pc[q]
<1>1. CASE leaving
  BY <1>1, LoopMoves DEF FlushReturns, Inv, TypeOK, BuffersOK
<1>2. CASE ~leaving
  BY <1>2, LoopMoves DEF FlushReturns
<1> QED
  BY <1>1, <1>2

\* The invariant is kept by flush.
LEMMA FlushInv ==
  ASSUME Inv, DoFlush
  PROVE  Inv'
<1> USE DEF Inv, TypeOK
<1>1. CASE FlushEmpty
  <2>1. /\ ControlOK' /\ HeldOK' /\ MuOK' /\ skips' \in 0..2
        /\ pc'[FlushLoop] = IF leaving THEN "exit" ELSE "select"
        /\ \A q \in Procs : q # FlushLoop => pc'[q] = pc[q]
    BY <1>1, ReturnMoves DEF FlushEmpty, writeVars
  <2>2. BuffersOK' /\ FlagsOK'
    BY <1>1, <2>1 DEF FlushEmpty, BuffersOK, FlagsOK, writeVars, ioVars, closeVars
  <2>3. LoopOK' /\ LastFlush' /\ Whole'
    BY <1>1, <2>1 DEF FlushEmpty, LoopOK, LastFlush, Whole, NothingLost, CloseAt, writeVars,
                      ioVars, closeVars
  <2>4. Orderly'
    BY <1>1, <2>1 DEF FlushEmpty, Orderly, closeVars
  <2> QED
    BY <2>1, <2>2, <2>3, <2>4
<1>2. CASE FlushSwap
  <2>1. /\ ControlOK' /\ pc'[FlushLoop] = "write" /\ HeldOK' /\ MuOK'
        /\ \A q \in Procs : q # FlushLoop => pc'[q] = pc[q]
    BY <1>2, LoopMoves DEF FlushSwap
  <2>2. BuffersOK' /\ FlagsOK'
    <3>1. <<>> \in Seq(Frame)
      OBVIOUS
    <3> QED
      BY <1>2, <3>1 DEF FlushSwap, BuffersOK, FlagsOK, closeVars
  <2>3. LoopOK' /\ LastFlush'
    BY <1>2, <2>1 DEF FlushSwap, LoopOK, LastFlush, CloseAt, closeVars
  <2>4. Orderly'
    BY <1>2, <2>1 DEF FlushSwap, Orderly, closeVars
  <2>5. Whole'
    <3>1. batch = <<>> /\ batch' = sendBuf /\ sendBuf' = <<>>
          /\ UNCHANGED <<wire, buf, accepted, lost>>
      BY <1>2 DEF FlushSwap, LoopOK
    <3>2. wire \o buf \in Seq(Frame) /\ wire \o buf \o sendBuf \in Seq(Frame)
      BY ConcatProperties DEF BuffersOK
    <3>3. (wire \o buf) \o <<>> = wire \o buf
          /\ (wire \o buf \o sendBuf) \o <<>> = wire \o buf \o sendBuf
      BY <3>2, ConcatEmptySeq
    <3> QED
      BY <3>1, <3>3 DEF Whole, NothingLost
  <2> QED
    BY <2>1, <2>2, <2>3, <2>4, <2>5
<1>3. CASE Gather
  <2>1. Head(batch) \in Frame /\ Head(batch).len \in Nat \ {0} /\ Tail(batch) \in Seq(Frame)
    <3>1. batch \in Seq(Frame) /\ batch # <<>>
      BY <1>3 DEF Gather, BuffersOK
    <3>2. Head(batch) \in Frame /\ Tail(batch) \in Seq(Frame)
      BY <3>1, HeadTailProperties
    <3> QED
      BY <3>2, FrameLensPositive
  <2>2. /\ buf' = Append(buf, Head(batch)) /\ batch' = Tail(batch)
        /\ bufLen' = bufLen + Head(batch).len
        /\ UNCHANGED <<pc, writeVars, leaving, skips, wire, lost, closeVars, mu, flushNow, crashed>>
    BY <1>3 DEF Gather
  <2>3. BuffersOK' /\ FlagsOK' /\ ControlOK'
    <3>1. buf' \in Seq(Frame) /\ batch' \in Seq(Frame) /\ bufLen' \in Nat
      BY <2>1, <2>2 DEF BuffersOK
    <3>2. BuffersOK'
      BY <3>1, <2>2 DEF BuffersOK, writeVars
    <3>3. FlagsOK' /\ ControlOK'
      BY <2>2 DEF FlagsOK, ControlOK, closeVars
    <3> QED
      BY <3>2, <3>3
  <2>4. HeldOK' /\ MuOK' /\ LastFlush' /\ Orderly'
    BY <2>2 DEF HeldOK, MuOK, LastFlush, Orderly, writeVars, closeVars
  <2>5. LoopOK'
    <3>1. buf' # <<>>
      BY <2>1, <2>2, AppendProperties DEF BuffersOK
    <3>2. bufLen' # 0
      BY <2>1, <2>2 DEF BuffersOK
    <3> QED
      BY <1>3, <2>2, <3>1, <3>2 DEF Gather, LoopOK, closeVars
  <2>6. Whole'
    <3>1. Append(wire \o buf, Head(batch)) \o Tail(batch) = wire \o buf \o batch
      <4>1. wire \o buf \in Seq(Frame) /\ batch \in Seq(Frame) /\ batch # <<>>
        BY <1>3, ConcatProperties DEF Gather, BuffersOK
      <4> HIDE DEF Inv, TypeOK
      <4> QED
        BY <4>1, FramesMove
    <3>2. wire \o Append(buf, Head(batch)) = Append(wire \o buf, Head(batch))
      <4>1. wire \in Seq(Frame) /\ buf \in Seq(Frame) /\ Head(batch) \in Frame
        BY <2>1 DEF BuffersOK
      <4> HIDE DEF Inv, TypeOK, DoFlush
      <4> QED
        BY <4>1, FramesMove
    <3> QED
      BY <2>2, <3>1, <3>2 DEF Whole, NothingLost, writeVars
  <2> QED
    BY <2>3, <2>4, <2>5, <2>6
<1>4. CASE WriteOk
  <2>1. pc[FlushLoop] = "write" /\ wire' = wire \o Outgoing /\ Outgoing # <<>>
        /\ UNCHANGED <<writeVars, leaving, lost, closeVars, mu, flushNow, crashed>>
    BY <1>4 DEF WriteOk
  <2>2. /\ ControlOK' /\ HeldOK' /\ MuOK' /\ skips' \in 0..2
        /\ \A q \in Procs : q # FlushLoop => pc'[q] = pc[q]
        /\ pc'[FlushLoop] = IF batch # <<>> THEN "write"
                            ELSE IF leaving THEN "exit" ELSE "select"
    <3>1. CASE batch = <<>>
      BY <1>4, <2>1, <3>1, ReturnMoves DEF WriteOk, writeVars
    <3>2. CASE batch # <<>>
      BY <1>4, <2>1, <3>2 DEF WriteOk, writeVars, ControlOK, HeldOK, MuOK, BuffersOK
    <3> QED
      BY <3>1, <3>2
  <2>3. FlagsOK'
    BY <2>1 DEF FlagsOK, closeVars
  <2>4. /\ buf' \in Seq(Frame) /\ batch' \in Seq(Frame) /\ wire' \in Seq(Frame)
        /\ bufLen' \in Nat /\ (bufLen' = 0 <=> buf' = <<>>)
        /\ batch = <<>> => batch' = <<>> /\ buf' = <<>>
        /\ wire' \o buf' \o batch' = wire \o buf \o batch
    <3>1. CASE DirectDue
      <4>1. buf = <<>> /\ Outgoing = <<Head(batch)>> /\ batch # <<>>
        <5>1. batch # <<>> /\ ~SpillDue /\ Head(batch).len > BytePerWrite
          BY <3>1 DEF DirectDue
        <5>2. Head(batch) \in Frame
          BY <5>1, HeadTailProperties DEF BuffersOK
        <5>3. Head(batch).len \in Nat /\ bufLen \in Nat
          BY <5>2, FrameLensPositive DEF BuffersOK
        <5>4. bufLen = 0
          BY <5>1, <5>3 DEF SpillDue
        <5> QED
          BY <3>1, <5>1, <5>4 DEF LoopOK, Outgoing
      <4>2. batch' = Tail(batch) /\ buf' = buf /\ bufLen' = bufLen
        BY <1>4, <3>1 DEF WriteOk
      <4>3. Head(batch) \in Frame /\ Tail(batch) \in Seq(Frame)
            /\ (wire \o <<Head(batch)>>) \o Tail(batch) = wire \o batch
        <5>1. wire \in Seq(Frame) /\ batch \in Seq(Frame) /\ batch # <<>>
          BY <4>1 DEF BuffersOK
        <5> HIDE DEF Inv, TypeOK, DoFlush
        <5> QED
          BY <5>1, FramesMove
      <4>4. <<Head(batch)>> \in Seq(Frame)
        BY <4>3
      <4>5. wire \o <<Head(batch)>> \in Seq(Frame)
        BY <4>4, ConcatProperties DEF BuffersOK
      <4>6. wire \o <<>> = wire
            /\ (wire \o <<Head(batch)>>) \o <<>> = wire \o <<Head(batch)>>
        BY <4>5, ConcatEmptySeq DEF BuffersOK
      <4> QED
        BY <2>1, <4>1, <4>2, <4>3, <4>5, <4>6 DEF BuffersOK, LoopOK
    <3>2. CASE ~DirectDue
      <4>1. Outgoing = buf
        BY <2>1, <3>2 DEF Outgoing
      <4>2. batch' = batch /\ buf' = <<>> /\ bufLen' = 0
        BY <1>4, <3>2 DEF WriteOk
      <4>3. wire \o buf \in Seq(Frame)
        BY ConcatProperties DEF BuffersOK
      <4>4. (wire \o buf) \o <<>> = wire \o buf /\ <<>> \in Seq(Frame)
        BY <4>3, ConcatEmptySeq
      <4> QED
        BY <2>1, <4>1, <4>2, <4>3, <4>4 DEF BuffersOK
    <3> QED
      BY <3>1, <3>2
  <2>5. BuffersOK'
    <3>1. UNCHANGED <<sendBuf, sendBufLen, held, accepted>>
      BY <2>1 DEF writeVars
    <3>2. /\ sendBuf' \in Seq(Frame) /\ accepted' \in Seq(Frame) /\ sendBufLen' \in Nat
          /\ held' \in [Writers -> [from : Writers, no : 0..MaxFrames, len : FrameLens \union {0}]]
      BY <3>1 DEF BuffersOK
    <3> QED
      BY <2>2, <2>4, <3>2 DEF BuffersOK
  <2>6. Whole'
    BY <2>1, <2>4 DEF Whole, NothingLost, writeVars
  <2>7. LoopOK' /\ LastFlush'
    BY <2>1, <2>2, <2>4 DEF LoopOK, LastFlush, CloseAt, writeVars, closeVars
  <2>8. Orderly'
    BY <2>1, <2>2 DEF Orderly, closeVars
  <2> QED
    BY <2>2, <2>3, <2>5, <2>6, <2>7, <2>8
<1>5. CASE FlushEnd
  <2>1. /\ ControlOK' /\ HeldOK' /\ MuOK' /\ skips' \in 0..2
        /\ pc'[FlushLoop] = IF leaving THEN "exit" ELSE "select"
        /\ \A q \in Procs : q # FlushLoop => pc'[q] = pc[q]
    BY <1>5, ReturnMoves DEF FlushEnd, writeVars
  <2>2. BuffersOK' /\ FlagsOK'
    BY <1>5, <2>1 DEF FlushEnd, BuffersOK, FlagsOK, writeVars, ioVars, closeVars
  <2>3. LoopOK' /\ LastFlush' /\ Whole'
    BY <1>5, <2>1 DEF FlushEnd, LoopOK, LastFlush, Whole, NothingLost, CloseAt, writeVars,
                      ioVars, closeVars
  <2>4. Orderly'
    BY <1>5, <2>1 DEF FlushEnd, Orderly, closeVars
  <2> QED
    BY <2>1, <2>2, <2>3, <2>4
<1>6. CASE WriteFails
  <2>1. /\ ControlOK' /\ pc'[FlushLoop] = "exit" /\ HeldOK' /\ MuOK'
        /\ \A q \in Procs : q # FlushLoop => pc'[q] = pc[q]
    BY <1>6, LoopMoves DEF WriteFails, writeVars
  <2>2. PICK k \in 0..(Len(Outgoing) - 1) : wire' = wire \o SubSeq(Outgoing, 1, k)
    BY <1>6 DEF WriteFails
  <2>3. Outgoing \in Seq(Frame)
    <3>1. CASE DirectDue
      <4>1. Head(batch) \in Frame
        BY <3>1, HeadTailProperties DEF DirectDue, BuffersOK
      <4> QED
        BY <3>1, <4>1 DEF Outgoing
    <3>2. CASE ~DirectDue
      BY <3>2, EmptySeq DEF Outgoing, BuffersOK
    <3> QED
      BY <3>1, <3>2
  <2>4. wire' \in Seq(Frame)
    BY <2>2, <2>3, SubSeqProperties, ConcatProperties DEF BuffersOK
  <2>5. BuffersOK' /\ FlagsOK'
    BY <1>6, <2>4, EmptySeq DEF WriteFails, BuffersOK, FlagsOK, writeVars, closeVars
  <2>6. LoopOK' /\ LastFlush' /\ Whole'
    BY <1>6, <2>1 DEF WriteFails, LoopOK, LastFlush, Whole, NothingLost, CloseAt, writeVars,
                      closeVars
  <2>7. Orderly'
    BY <1>6, <2>1 DEF WriteFails, Orderly, closeVars
  <2> QED
    BY <2>1, <2>5, <2>6, <2>7
<1>7. CASE WriteNil
  <2>1. /\ UNCHANGED <<pc, sendBuf, sendBufLen, held, accepted, leaving, skips, batch, buf,
                       bufLen, wire, lost, closed, once, done, net, overtaken, mu, flushNow>>
        /\ crashed' = TRUE
    BY <1>7 DEF WriteNil, writeVars, flushVars, ioVars, closeVars
  <2>2. ControlOK' /\ BuffersOK' /\ FlagsOK'
    BY <2>1 DEF ControlOK, BuffersOK, FlagsOK
  <2>3. HeldOK' /\ MuOK' /\ LoopOK' /\ LastFlush'
    BY <2>1 DEF HeldOK, MuOK, LoopOK, LastFlush
  <2>4. Orderly' /\ Whole'
    BY <2>1 DEF Orderly, Whole, NothingLost
  <2> QED
    BY <2>2, <2>3, <2>4
<1> QED
  BY <1>1, <1>2, <1>3, <1>4, <1>5, <1>6, <1>7 DEF DoFlush

-----------------------------------------------------------------------------
LEMMA StepInv == Inv /\ [Next]_vars => Inv'
<1> SUFFICES ASSUME Inv, [Next]_vars PROVE Inv'
  OBVIOUS
<1>1. CASE Flush \/ Break \/ UNCHANGED vars
  <2> USE DEF Inv, TypeOK
  <2>1. ControlOK'
    BY <1>1 DEF Flush, Break, vars, ControlOK
  <2>4. BuffersOK'
    BY <1>1 DEF Flush, Break, vars, BuffersOK, writeVars, flushVars, ioVars
  <2>5. FlagsOK'
    <3>1. CASE Flush
      BY <3>1 DEF Flush, FlagsOK, flushVars, ioVars, closeVars
    <3>2. CASE Break
      BY <3>2 DEF Break, FlagsOK, flushVars, ioVars
    <3>3. CASE UNCHANGED vars
      BY <3>3 DEF vars, FlagsOK, flushVars, ioVars, closeVars
    <3> QED
      BY <1>1, <3>1, <3>2, <3>3
  <2>2. HeldOK' /\ MuOK' /\ LoopOK' /\ LastFlush' /\ Whole'
    <3>1. UNCHANGED <<pc, sendBuf, held, accepted, leaving, batch, buf, bufLen, wire, lost,
                      closed, done, mu>>
      BY <1>1 DEF Flush, Break, vars, writeVars, flushVars, ioVars, closeVars
    <3>2. HeldOK' /\ MuOK' /\ LoopOK' /\ LastFlush'
      BY <3>1 DEF HeldOK, MuOK, LoopOK, LastFlush
    <3>3. Whole'
      BY <3>1 DEF Whole, NothingLost
    <3> QED
      BY <3>2, <3>3
  <2>3. Orderly'
    BY <1>1 DEF Flush, Break, vars, Orderly, closeVars
  <2> QED
    BY <2>1, <2>2, <2>3, <2>4, <2>5
<1> QED
  BY <1>1, WriteInv, CallCloseInv, CloseInv, ReaderInv, SelectInv, FlushInv
  DEF Next, Loop, Terminated

THEOREM Invariance == Spec => []Inv
  BY InitInv, StepInv, PTL DEF Spec

\* Every variable keeps a value of its kind.
THEOREM TypeCorrect == Spec => []TypeOK
<1>1. Inv => TypeOK
  BY DEF Inv
<1> QED
  BY <1>1, Invariance, PTL

\* Nothing is dropped, duplicated or reordered between writePacket and the
\* socket as long as no write fails (conn.go:203-226, 245-288).
THEOREM NothingIsLost == Spec => []NothingLost
<1>1. Inv => NothingLost
  BY DEF Inv, Whole
<1> QED
  BY <1>1, Invariance, PTL

\* Past its loop flushLoop has sent all that was accepted.
LEMMA AllSent ==
  ASSUME Inv, done = "closed", ~lost
  PROVE  wire = accepted
<1>1. pc[FlushLoop] \in CloseAt
  BY DEF Inv, LoopOK
<1>2. sendBuf = <<>> /\ batch = <<>> /\ buf = <<>>
  BY <1>1 DEF Inv, LoopOK, LastFlush, CloseAt
<1>3. wire \o <<>> = wire
  BY ConcatEmptySeq DEF Inv, TypeOK, BuffersOK
<1> QED
  BY <1>2, <1>3 DEF Inv, Whole, NothingLost

\* A Close that waited for flushLoop leaves no accepted frame behind: once
\* it is done, flushLoop is out of its loop, left it through its last
\* flush, and nothing was appended since (conn.go:100-133, 206-218).
THEOREM CloseIsGraceful == Spec => []GracefulClose
<1>1. Inv => GracefulClose
  BY AllSent DEF Inv, Orderly, GracefulClose
<1> QED
  BY <1>1, Invariance, PTL

\* flush meets a nil connection only if Close overtook the start of
\* flushLoop: a Close that waits keeps the connection until the loop is out.
THEOREM NilWriteNeedsOvertakingHolds == Spec => []NilWriteNeedsOvertaking
<1> DEFINE J == crashed => net = "nil"
<1>1. Init => J
  BY DEF Init
<1>2. J /\ [Next]_vars => J'
  BY DEF Next, Write, Encode, LockOpen, LockClosed, AppendFrame, Signal, CallClose, Close,
         CloseFirst, CloseAgain, CloseAnnounce, CloseAwait, CloseOvertakes, CloseNet,
         CloseForget, ReaderStep, ReaderCheck, ReaderLoad, ReaderRead, ReaderFails,
         ReaderHandles, ReaderKeep, Loop, LoopStart, LoopClose, TickSkipped, Tick,
         LoopFlushNow, LoopExit, DoFlush, FlushEmpty, FlushSwap, Gather, WriteOk, FlushEnd,
         WriteFails, WriteNil, Flush, Break, Terminated, closeVars, vars
<1>3. Inv /\ J => NilWriteNeedsOvertaking
  BY DEF Inv, NilWriteNeedsOvertaking, Orderly, LoopOK, CloseAt
<1>4. Spec => []J
  BY <1>1, <1>2, PTL DEF Spec
<1> QED
  BY <1>3, <1>4, Invariance, PTL

\* No writer is told that its frame was taken when nobody is left to send it:
\* past the last swap of flushLoop sendBufMu is free, so nobody is between
\* the look at c.close and the append (conn.go:131-133, 206-213).
THEOREM NothingIsAcceptedLate == Spec => NoAcceptAfterLastFlush
<1>1. ASSUME Inv, [Next]_vars, leaving, pc[FlushLoop] \notin {"select", "swap"}
      PROVE  accepted' = accepted
  <2>1. \A w \in Writers : ~AppendFrame(w)
    BY <1>1 DEF Inv, LastFlush, MuOK, AppendFrame
  <2> QED
    BY <1>1, <2>1 DEF Next, Write, Encode, LockOpen, LockClosed, Signal, CallClose, Close,
         CloseFirst, CloseAgain, CloseAnnounce, CloseAwait, CloseOvertakes, CloseNet,
         CloseForget, ReaderStep, ReaderCheck, ReaderLoad, ReaderRead, ReaderFails,
         ReaderHandles, ReaderKeep, Loop, LoopStart, LoopClose, TickSkipped, Tick,
         LoopFlushNow, LoopExit, DoFlush, FlushEmpty, FlushSwap, Gather, WriteOk, FlushEnd,
         WriteFails, WriteNil, Flush, Break, Terminated, writeVars, vars
<1>2. Inv /\ [Next]_vars =>
        [ leaving /\ pc[FlushLoop] \notin {"select", "swap"} => accepted' = accepted ]_vars
  BY <1>1
<1> QED
  BY <1>2, Invariance, PTL DEF Spec, NoAcceptAfterLastFlush

-----------------------------------------------------------------------------
(* Conn implements FrameStream.                                            *)
LEMMA JoinedParts ==
  ASSUME NEW S, NEW s \in Seq(S), NEW t \in Seq(S)
  PROVE  /\ s \o t \in Seq(S) /\ Len(s \o t) = Len(s) + Len(t)
         /\ \A i \in 1..Len(s) : (s \o t)[i] = s[i]
         /\ \A i \in 1..(Len(s) + Len(t)) : i > Len(s) => (s \o t)[i] = t[i - Len(s)]
<1>1. Len(s) \in Nat /\ Len(t) \in Nat
  BY LenProperties
<1>2. /\ s \o t \in Seq(S) /\ Len(s \o t) = Len(s) + Len(t)
      /\ \A i \in 1..(Len(s) + Len(t)) : (s \o t)[i] = IF i <= Len(s) THEN s[i] ELSE t[i - Len(s)]
  BY ConcatProperties, Zenon
<1> DEFINE u == s \o t
           m == Len(s)
           n == Len(t)
<1> HIDE DEF u, m, n
<1>3. m \in Nat /\ n \in Nat /\ \A i \in 1..(m + n) : u[i] = IF i <= m THEN s[i] ELSE t[i - m]
  BY <1>1, <1>2 DEF u, m, n
<1>4. \A i \in 1..m : u[i] = s[i]
  BY <1>3
<1>5. \A i \in 1..(m + n) : i > m => u[i] = t[i - m]
  BY <1>3
<1> QED BY <1>2, <1>4, <1>5 DEF u, m, n

LEMMA PrefixCut ==
  ASSUME NEW S, NEW s \in Seq(S), NEW b \in Seq(S), NEW r \in Seq(S), NEW k \in 0..Len(b)
  PROVE  /\ IsPrefix(s \o SubSeq(b, 1, k), s \o (b \o r))
         /\ IsPrefix(s, s \o SubSeq(b, 1, k))
<1> DEFINE c == SubSeq(b, 1, k)
           t == s \o c
           u == s \o (b \o r)
<1>1. /\ Len(s) \in Nat /\ Len(b) \in Nat /\ Len(r) \in Nat
  BY LenProperties
<1>2. c \in Seq(S) /\ Len(c) = k /\ \A i \in 1..k : c[i] = b[i]
  BY <1>1, SubSeqProperties
<1>3. b \o r \in Seq(S) /\ Len(b \o r) = Len(b) + Len(r) /\ \A i \in 1..Len(b) : (b \o r)[i] = b[i]
  BY JoinedParts
<1> HIDE DEF c
<1>4. /\ t \in Seq(S) /\ Len(t) = Len(s) + k
      /\ \A i \in 1..Len(s) : t[i] = s[i]
      /\ \A i \in 1..(Len(s) + k) : i > Len(s) => t[i] = c[i - Len(s)]
  <2>0. c \in Seq(S)
    BY <1>2
  <2>1. /\ t \in Seq(S) /\ Len(t) = Len(s) + Len(c)
        /\ \A i \in 1..Len(s) : t[i] = s[i]
        /\ \A i \in 1..(Len(s) + Len(c)) : i > Len(s) => t[i] = c[i - Len(s)]
    BY <2>0, JoinedParts
  <2> HIDE DEF t
  <2> QED BY <1>2, <2>1
<1> DEFINE br == b \o r
<1> HIDE DEF br
<1>5. br \in Seq(S) /\ Len(br) = Len(b) + Len(r) /\ \A i \in 1..Len(b) : br[i] = b[i]
  BY <1>3 DEF br
<1>6. /\ s \o br \in Seq(S) /\ Len(s \o br) = Len(s) + Len(br)
      /\ \A i \in 1..Len(s) : (s \o br)[i] = s[i]
      /\ \A i \in 1..(Len(s) + Len(br)) : i > Len(s) => (s \o br)[i] = br[i - Len(s)]
  BY <1>1, <1>5, JoinedParts
<1>7. u = s \o br
  BY DEF br
<1> HIDE DEF t, u
<1>8. Len(t) <= Len(u) /\ Len(s) <= Len(t) /\ Len(t) \in Nat
  BY <1>1, <1>4, <1>5, <1>6, <1>7
<1>9. \A i \in 1..Len(t) : u[i] = t[i]
  <2> SUFFICES ASSUME NEW i \in 1..Len(t) PROVE u[i] = t[i]
    OBVIOUS
  <2>1. CASE i <= Len(s)
    <3>1. i \in 1..Len(s)
      BY <1>1, <2>1
    <3> QED BY <3>1, <1>4, <1>6, <1>7
  <2>2. CASE i > Len(s)
    <3>1. /\ i \in 1..(Len(s) + k) /\ i \in 1..(Len(s) + Len(br))
          /\ i - Len(s) \in 1..k /\ i - Len(s) \in 1..Len(b)
      BY <1>1, <1>4, <1>5, <2>2
    <3>2. t[i] = c[i - Len(s)] /\ c[i - Len(s)] = b[i - Len(s)]
      BY <1>2, <1>4, <2>2, <3>1
    <3>3. u[i] = br[i - Len(s)] /\ br[i - Len(s)] = b[i - Len(s)]
      BY <1>5, <1>6, <1>7, <2>2, <3>1
    <3> QED BY <3>2, <3>3
  <2> QED BY <1>1, <1>4, <2>1, <2>2
<1>10. SubSeq(u, 1, Len(t)) = t
  <2>1. /\ SubSeq(u, 1, Len(t)) \in Seq(S) /\ Len(SubSeq(u, 1, Len(t))) = Len(t)
        /\ \A i \in 1..Len(t) : SubSeq(u, 1, Len(t))[i] = u[i]
    BY <1>6, <1>7, <1>8, SubSeqProperties
  <2> QED BY <1>4, <1>9, <2>1, SeqEqual
<1>11. SubSeq(t, 1, Len(s)) = s
  <2>1. /\ SubSeq(t, 1, Len(s)) \in Seq(S) /\ Len(SubSeq(t, 1, Len(s))) = Len(s)
        /\ \A i \in 1..Len(s) : SubSeq(t, 1, Len(s))[i] = t[i]
    BY <1>1, <1>4, <1>8, SubSeqProperties
  <2> QED BY <1>4, <2>1, SeqEqual
<1>12. \A q \in Seq(S) : SubSeq(q, 1, Len(q)) = q
  <2> TAKE q \in Seq(S)
  <2>1. /\ SubSeq(q, 1, Len(q)) \in Seq(S) /\ Len(SubSeq(q, 1, Len(q))) = Len(q)
        /\ \A i \in 1..Len(q) : SubSeq(q, 1, Len(q))[i] = q[i]
    BY LenProperties, SubSeqProperties
  <2> QED BY <2>1, SeqEqual
<1>13. IsPrefix(t, u) /\ IsPrefix(s, t)
  BY <1>4, <1>8, <1>10, <1>11, <1>12 DEF IsPrefix
<1> QED BY <1>13 DEF t, u, c

LEMMA PrefixWhole ==
  ASSUME NEW S, NEW s \in Seq(S), NEW b \in Seq(S), NEW r \in Seq(S)
  PROVE  /\ IsPrefix(s, s) /\ IsPrefix(s, s \o (b \o r))
         /\ IsPrefix(s, s \o b) /\ IsPrefix(s \o b, s \o (b \o r))
<1>1. Len(b) \in Nat /\ 0 \in 0..Len(b) /\ Len(b) \in 0..Len(b)
  BY LenProperties
<1>2. SubSeq(b, 1, 0) = <<>> /\ SubSeq(b, 1, Len(b)) = b /\ s \o <<>> = s
  <2>1. SubSeq(b, 1, 0) \in Seq(S) /\ Len(SubSeq(b, 1, 0)) = 0
    BY <1>1, SubSeqProperties
  <2>2. /\ SubSeq(b, 1, Len(b)) \in Seq(S) /\ Len(SubSeq(b, 1, Len(b))) = Len(b)
        /\ \A i \in 1..Len(b) : SubSeq(b, 1, Len(b))[i] = b[i]
    BY <1>1, SubSeqProperties
  <2> QED BY <2>1, <2>2, SeqEqual, EmptySeq, ConcatEmptySeq
<1>3. IsPrefix(s \o SubSeq(b, 1, 0), s \o (b \o r)) /\ IsPrefix(s, s \o SubSeq(b, 1, 0))
  BY <1>1, PrefixCut
<1>4. IsPrefix(s \o SubSeq(b, 1, Len(b)), s \o (b \o r)) /\ IsPrefix(s, s \o SubSeq(b, 1, Len(b)))
  BY <1>1, PrefixCut
<1> QED BY <1>2, <1>3, <1>4

LEMMA FirstOfFour ==
  ASSUME NEW S, NEW w \in Seq(S), NEW b \in Seq(S), NEW c \in Seq(S), NEW d \in Seq(S)
  PROVE  /\ IsPrefix(w, ((w \o b) \o c) \o d)
         /\ \A k \in 0..Len(b) : /\ IsPrefix(w \o SubSeq(b, 1, k), ((w \o b) \o c) \o d)
                                 /\ IsPrefix(w, w \o SubSeq(b, 1, k))
<1> DEFINE r == c \o d
<1>1. r \in Seq(S) /\ w \o b \in Seq(S)
  BY ConcatProperties
<1>2. ((w \o b) \o c) \o d = (w \o b) \o r
  BY <1>1, ConcatAssociative
<1> HIDE DEF r
<1>3. (w \o b) \o r = w \o (b \o r)
  BY <1>1, ConcatAssociative
<1>4. ((w \o b) \o c) \o d = w \o (b \o r)
  BY <1>2, <1>3
<1>5. IsPrefix(w, w \o (b \o r))
  BY <1>1, PrefixWhole
<1>6. \A k \in 0..Len(b) : /\ IsPrefix(w \o SubSeq(b, 1, k), w \o (b \o r))
                           /\ IsPrefix(w, w \o SubSeq(b, 1, k))
  BY <1>1, PrefixCut
<1> QED BY <1>4, <1>5, <1>6

\* What flush has written is an initial part of what was accepted, and what it
\* writes next makes it a longer one.
LEMMA WireIsPrefix ==
  ASSUME Inv, ~lost
  PROVE  /\ IsPrefix(wire, wire) /\ IsPrefix(wire, accepted)
         /\ \A k \in 0..Len(buf) : /\ IsPrefix(wire \o SubSeq(buf, 1, k), accepted)
                                   /\ IsPrefix(wire, wire \o SubSeq(buf, 1, k))
<1>1. /\ wire \in Seq(Frame) /\ buf \in Seq(Frame) /\ batch \in Seq(Frame) /\ sendBuf \in Seq(Frame)
      /\ ((wire \o buf) \o batch) \o sendBuf = accepted
  BY DEF Inv, TypeOK, BuffersOK, Whole, NothingLost
<1>2. IsPrefix(wire, wire)
  BY <1>1, PrefixWhole
<1> QED BY <1>1, <1>2, FirstOfFour

LEMMA StreamStays ==
  ASSUME UNCHANGED <<accepted, wire, lost, overtaken>>, once' = once \/ {once, once'} \subseteq {"fresh", "running"}
  PROVE  UNCHANGED Stream!vars
BY DEF Stream!vars

LEMMA StreamWriter ==
  ASSUME Inv, NEW w \in Writers, Write(w)
  PROVE  [Stream!Next]_Stream!vars
<1>1. UNCHANGED <<wire, lost, overtaken, once>>
  BY DEF Write, Encode, LockOpen, LockClosed, AppendFrame, Signal, flushVars, ioVars, closeVars
<1>2. CASE AppendFrame(w)
  <2>1. accepted' = Append(accepted, held[w]) /\ held[w] \in Frame /\ pc[w] = "locked"
    BY <1>2 DEF AppendFrame, Inv, HeldOK
  <2>2. mu # "free"
    BY <2>1 DEF Inv, MuOK
  <2>3. once = "done" => overtaken \/ lost
    BY <2>2 DEF Inv, Orderly, LoopOK, LastFlush, CloseAt
  <2>4. Stream!Accept
    BY <1>1, <2>1, <2>3 DEF Stream!Accept
  <2> QED BY <2>4 DEF Stream!Next
<1>3. CASE ~AppendFrame(w)
  <2>1. accepted' = accepted
    BY <1>3 DEF Write, Encode, LockOpen, LockClosed, Signal, writeVars
  <2> QED BY <1>1, <2>1, StreamStays
<1> QED BY <1>2, <1>3

LEMMA StreamCloser ==
  ASSUME Inv, NEW p \in Procs, Close(p)
  PROVE  [Stream!Next]_Stream!vars
<1>1. UNCHANGED <<wire, accepted, lost>>
  BY DEF Close, CloseFirst, CloseAgain, CloseAnnounce, CloseAwait, CloseOvertakes, CloseNet, CloseForget,
         writeVars, flushVars, ioVars, closeVars
<1>2. CASE CloseOvertakes(p)
  <2>1. overtaken' /\ once' = once /\ (once = "done" => overtaken)
    BY <1>2 DEF CloseOvertakes, Inv, Orderly
  <2>2. CASE overtaken \/ lost
    BY <1>1, <2>1, <2>2 DEF Stream!vars
  <2>3. CASE ~overtaken /\ ~lost
    <3>1. IsPrefix(wire, wire) /\ IsPrefix(wire, accepted)
      BY <2>3, WireIsPrefix
    <3>2. Stream!Lose
      BY <1>1, <2>1, <2>3, <3>1 DEF Stream!Lose, Stream!Extends, Stream!IsPrefix, IsPrefix
    <3> QED BY <3>2 DEF Stream!Next
  <2> QED BY <2>2, <2>3
<1>3. CASE CloseForget(p)
  <2>1. overtaken' = overtaken /\ once' = "done" /\ (done = "closed" \/ overtaken)
    BY <1>3 DEF CloseForget, Inv, Orderly
  <2>2. CASE overtaken \/ lost \/ once = "done"
    BY <1>1, <2>1, <2>2 DEF Stream!vars
  <2>3. CASE ~overtaken /\ ~lost /\ once # "done"
    <3>1. wire = accepted
      BY <2>1, <2>3, AllSent
    <3>2. Stream!Close
      BY <1>1, <2>1, <2>3, <3>1 DEF Stream!Close
    <3> QED BY <3>2 DEF Stream!Next
  <2> QED BY <2>2, <2>3
<1>4. CASE ~CloseOvertakes(p) /\ ~CloseForget(p)
  <2>1. overtaken' = overtaken /\ (once' = once \/ {once, once'} \subseteq {"fresh", "running"})
    BY <1>4 DEF Close, CloseFirst, CloseAgain, CloseAnnounce, CloseAwait, CloseNet, closeVars
  <2> QED BY <1>1, <2>1, StreamStays
<1> QED BY <1>2, <1>3, <1>4

LEMMA StreamWrite ==
  ASSUME Inv, Inv', WriteOk \/ WriteFails
  PROVE  [Stream!Next]_Stream!vars
<1>1. pc[FlushLoop] = "write" /\ UNCHANGED <<accepted, sendBuf, once, overtaken>>
  BY DEF WriteOk, WriteFails, writeVars, closeVars
<1>2. ~lost /\ (once = "done" => overtaken)
  BY <1>1 DEF Inv, Orderly, LoopOK, CloseAt
<1>3. /\ wire \in Seq(Frame) /\ batch \in Seq(Frame) /\ buf \in Seq(Frame)
      /\ wire' \in Seq(Frame) /\ batch' \in Seq(Frame) /\ buf' \in Seq(Frame) /\ sendBuf' \in Seq(Frame)
  BY DEF Inv, TypeOK, BuffersOK
<1>4. Outgoing = buf \/ (batch # <<>> /\ Outgoing = <<Head(batch)>>) \/ Outgoing = <<>>
  BY DEF Outgoing, DirectDue
<1>5. Outgoing \in Seq(Frame)
  <2>1. batch # <<>> => Head(batch) \in Frame
    BY <1>3, HeadTailProperties
  <2>2. batch # <<>> => <<Head(batch)>> \in Seq(Frame)
    BY <2>1
  <2> QED BY <1>3, <1>4, <2>2, EmptySeq
<1>6. CASE WriteOk
  <2>1. wire' = wire \o Outgoing /\ lost' = lost
    BY <1>6 DEF WriteOk
  <2>2. IsPrefix(wire, wire')
    BY <1>3, <1>5, <2>1, PrefixWhole
  <2>3. ((wire' \o buf') \o batch') \o sendBuf' = accepted
    BY <1>1, <1>2, <2>1 DEF Inv, Whole, NothingLost
  <2>4. IsPrefix(wire', accepted)
    BY <1>3, <2>3, FirstOfFour
  <2>5. Stream!Deliver
    BY <1>1, <1>2, <2>1, <2>2, <2>4 DEF Stream!Deliver, Stream!Extends, Stream!IsPrefix, IsPrefix
  <2> QED BY <2>5 DEF Stream!Next
<1>7. CASE WriteFails
  <2>1. lost'
    BY <1>7 DEF WriteFails
  <2>2. PICK k \in 0..(Len(Outgoing) - 1) : wire' = wire \o SubSeq(Outgoing, 1, k)
    BY <1>7 DEF WriteFails
  <2>3. IsPrefix(wire, wire') /\ IsPrefix(wire', accepted)
    <3>1. CASE Outgoing = buf
      <4>1. k \in 0..Len(buf)
        BY <1>3, <3>1, LenProperties
      <4> QED BY <1>2, <2>2, <3>1, <4>1, WireIsPrefix
    <3>2. CASE batch # <<>> /\ Outgoing = <<Head(batch)>>
      <4>1. k = 0 /\ 0 \in 0..Len(Outgoing)
        BY <3>2
      <4>2. SubSeq(Outgoing, 1, 0) \in Seq(Frame) /\ Len(SubSeq(Outgoing, 1, 0)) = 0
        BY <1>5, <4>1, SubSeqProperties
      <4>3. wire' = wire
        BY <1>3, <2>2, <4>1, <4>2, EmptySeq, ConcatEmptySeq
      <4> QED BY <1>2, <4>3, WireIsPrefix
    <3>3. CASE Outgoing = <<>>
      BY <2>2, <3>3
    <3> QED BY <1>4, <3>1, <3>2, <3>3
  <2>4. CASE overtaken
    <3>1. Stream!Deliver
      BY <1>1, <2>1, <2>3, <2>4 DEF Stream!Deliver, Stream!Extends, Stream!IsPrefix, IsPrefix
    <3> QED BY <3>1 DEF Stream!Next
  <2>5. CASE ~overtaken
    <3>1. Stream!Lose
      BY <1>1, <1>2, <2>1, <2>3, <2>5 DEF Stream!Lose, Stream!Extends, Stream!IsPrefix, IsPrefix
    <3> QED BY <3>1 DEF Stream!Next
  <2> QED BY <2>4, <2>5
<1> QED BY <1>6, <1>7

\* What a Conn does to the accepted frames and to the socket is what
\* FrameStream allows: writers, Close and flushLoop in any order, writes that
\* fail and a Close that overtakes the loop included (conn.go:100-147,
\* 203-226, 245-288).
THEOREM ConnImplementsStream == Spec => ImplementsStream
<1>1. Init => Stream!Init
  BY DEF Init, Stream!Init
<1>2. Inv /\ Inv' /\ [Next]_vars => [Stream!Next]_Stream!vars
  <2> SUFFICES ASSUME Inv, Inv', [Next]_vars PROVE [Stream!Next]_Stream!vars
    OBVIOUS
  <2>1. CASE WriteOk \/ WriteFails
    BY <2>1, StreamWrite
  <2>2. CASE \/ \E c \in Closers : CallClose(c)
             \/ \E r \in Readers : ReaderStep(r)
             \/ Loop /\ ~WriteOk /\ ~WriteFails
             \/ Flush \/ Break \/ Terminated \/ UNCHANGED vars
    <3>1. UNCHANGED <<accepted, wire, lost, overtaken, once>>
      BY <2>2 DEF CallClose, ReaderStep, ReaderCheck, ReaderLoad, ReaderRead, ReaderFails,
           ReaderHandles, ReaderKeep, Loop, LoopStart, LoopClose, TickSkipped, Tick,
           LoopFlushNow, LoopExit, DoFlush, FlushEmpty, FlushSwap, Gather, FlushEnd,
           WriteNil, Flush, Break, Terminated, writeVars, flushVars, ioVars, closeVars, vars
    <3> QED BY <3>1, StreamStays
  <2> QED BY <2>1, <2>2, StreamWriter, StreamCloser DEF Next, Loop, DoFlush
<1> QED
  BY <1>1, <1>2, Invariance, PTL DEF Spec, ImplementsStream, Stream!Spec

-----------------------------------------------------------------------------
(***************************************************************************)
(* The reading end, when one goroutine reads: HandlePlayers, which every   *)
(* Taker runs once.                                                        *)
(***************************************************************************)

\* Nobody closes on his own account: no Listener.Close, no failed write.
Undisturbed == ~lost /\ \A c \in Closers \ Followers : pc[c] = "idle"

\* Somebody has begun to take the connection down.
GoingDown == closed \/ leaving \/ net = "nil" \/ \E c \in Closers : pc[c] \in CloseAt

\* Then it was the reader, who has left its loop; and the process is not gone
\* by a reader.
ReaderFirst ==
  Undisturbed =>
    /\ GoingDown => \E r \in Readers : pc[r] \in CloseAt
    /\ crashed => pc[FlushLoop] = "write"

\* What a step that neither begins to close nor crashes needs.
LEMMA ReaderFirstStays ==
  ASSUME Inv, ReaderFirst, Undisturbed' => Undisturbed,
         \A r \in Readers : pc[r] \in CloseAt => pc'[r] \in CloseAt,
         GoingDown' => GoingDown \/ ~Undisturbed' \/ \E r \in Readers : pc'[r] \in CloseAt,
         crashed' => crashed /\ pc'[FlushLoop] = pc[FlushLoop]
  PROVE  ReaderFirst'
BY DEF ReaderFirst

LEMMA UndisturbedBack ==
  ASSUME lost => lost', \A c \in Closers : pc[c] # "idle" => pc'[c] # "idle"
  PROVE  Undisturbed' => Undisturbed
BY DEF Undisturbed

LEMMA CloseReaderFirst ==
  ASSUME Inv, ReaderFirst, ~crashed, NEW p \in Procs, Close(p) \/ (p \in Closers /\ CallClose(p))
  PROVE  ReaderFirst'
<1> USE DEF Inv, TypeOK
<1>1. UNCHANGED <<lost, leaving, crashed>>
  BY DEF Close, CallClose, CloseFirst, CloseAgain, CloseAnnounce, CloseAwait, CloseOvertakes,
         CloseNet, CloseForget, flushVars, ioVars
<1>2. PICK place \in CloseAt : Goto(p, place) /\ p \notin Writers
  <2>1. CASE Close(p)
    <3>1. PICK place \in CloseAt : pc[p] \in CloseAt /\ Goto(p, place)
      BY <2>1 DEF Close, CloseFirst, CloseAgain, CloseAnnounce, CloseAwait, CloseOvertakes,
             CloseNet, CloseForget, CloseAt
    <3>2. p \notin Writers
      BY <3>1 DEF ControlOK, WriterAt, CloseAt
    <3> QED BY <3>1, <3>2
  <2>2. CASE p \in Closers /\ CallClose(p)
    BY <2>2 DEF CallClose, CloseAt
  <2> QED BY <2>1, <2>2
<1>3. pc'[p] = place /\ \A q \in Procs : q # p => pc'[q] = pc[q]
  BY <1>2 DEF Goto, ControlOK
<1>4. \A r \in Readers : pc[r] \in CloseAt => pc'[r] \in CloseAt
  BY <1>2, <1>3
<1>5. Undisturbed' => Undisturbed
  <2>1. \A c \in Closers : pc[c] # "idle" => pc'[c] # "idle"
    BY <1>2, <1>3 DEF CloseAt
  <2> QED BY <1>1, <2>1, UndisturbedBack
<1>6. ASSUME GoingDown', Undisturbed', ~(\E r \in Readers : pc'[r] \in CloseAt) PROVE GoingDown
  <2>1. p \notin Readers
    BY <1>2, <1>3, <1>6
  <2>2. CASE p = FlushLoop
    <3>1. pc[p] \in CloseAt
      BY <2>2 DEF Close, CallClose, CloseFirst, CloseAgain, CloseAnnounce, CloseAwait, CloseOvertakes,
             CloseNet, CloseForget, CloseAt
    <3>2. leaving \/ lost
      BY <2>2, <3>1 DEF LoopOK
    <3> QED BY <1>1, <1>6, <3>2 DEF Undisturbed, GoingDown
  <2>3. CASE p \in Closers
    <3>1. CASE pc[p] \in CloseAt
      BY <2>3, <3>1 DEF GoingDown
    <3>2. CASE pc[p] \notin CloseAt
      <4>1. CallClose(p)
        BY <3>2 DEF Close, CloseFirst, CloseAgain, CloseAnnounce, CloseAwait, CloseOvertakes,
               CloseNet, CloseForget, CloseAt
      <4>2. p \in Followers
        BY <1>2, <1>3, <1>6, <2>3 DEF Undisturbed, CloseAt
      <4> QED BY <4>1, <4>2 DEF CallClose, GoingDown
    <3> QED BY <3>1, <3>2
  <2> QED BY <1>2, <2>1, <2>2, <2>3
<1>7. GoingDown' => GoingDown \/ ~Undisturbed' \/ \E r \in Readers : pc'[r] \in CloseAt
  BY <1>6
<1> QED BY <1>1, <1>4, <1>5, <1>7, ReaderFirstStays

\* A reader meets a nil c.conn only when somebody has taken it away, and the
\* only one to have done so is the reader.
LEMMA ReadReaderFirst ==
  ASSUME Inv, ReaderFirst, ~crashed, NEW r \in Readers, \A q \in Readers : q = r, ReaderStep(r)
  PROVE  ReaderFirst'
<1> USE DEF Inv, TypeOK
<1>1. UNCHANGED <<lost, leaving, closed, net>> /\ pc[r] \notin CloseAt
  BY DEF ReaderStep, ReaderCheck, ReaderLoad, ReaderRead, ReaderFails, ReaderHandles, ReaderKeep,
         flushVars, ioVars, closeVars, CloseAt
<1>2. \A q \in Procs : q # r => pc'[q] = pc[q]
  BY DEF ReaderStep, ReaderCheck, ReaderLoad, ReaderRead, ReaderFails, ReaderHandles, Goto, ControlOK
<1>3. Undisturbed' <=> Undisturbed
  BY <1>1, <1>2 DEF Undisturbed
<1>4. GoingDown' <=> GoingDown
  BY <1>1, <1>2 DEF GoingDown
<1>5. crashed' => net = "nil"
  BY DEF ReaderStep, ReaderCheck, ReaderLoad, ReaderRead, ReaderFails, ReaderHandles
<1>6. ~(\E q \in Readers : pc[q] \in CloseAt)
  BY <1>1
<1>7. Undisturbed => ~GoingDown
  BY <1>6 DEF ReaderFirst
<1>8. net = "nil" => GoingDown
  BY DEF GoingDown
<1>9. Undisturbed' => ~GoingDown' /\ ~crashed'
  BY <1>3, <1>4, <1>5, <1>7, <1>8
<1> QED BY <1>9 DEF ReaderFirst

LEMMA LoopReaderFirst ==
  ASSUME Inv, ReaderFirst, ~crashed, Loop
  PROVE  ReaderFirst'
<1> USE DEF Inv, TypeOK
<1>1. /\ UNCHANGED <<closed, net>>
      /\ lost => lost'
      /\ leaving' => leaving \/ closed
      /\ \A q \in Procs : q # FlushLoop => pc'[q] = pc[q]
      /\ crashed' => pc[FlushLoop] = "write" /\ pc' = pc
  <2>1. CASE LoopStart \/ LoopClose \/ TickSkipped \/ Tick \/ LoopFlushNow \/ LoopExit
    BY <2>1 DEF LoopStart, LoopClose, TickSkipped, Tick, LoopFlushNow, LoopExit, Goto, ControlOK,
         flushVars, ioVars, closeVars
  <2>2. CASE DoFlush
    <3>1. CASE FlushEmpty \/ FlushSwap \/ Gather \/ FlushEnd \/ WriteOk
      BY <3>1 DEF FlushEmpty, FlushSwap, Gather, FlushEnd, WriteOk, FlushReturns, Goto, ControlOK,
           ioVars, closeVars
    <3>2. CASE WriteFails \/ WriteNil
      BY <3>2 DEF WriteFails, WriteNil, Goto, ControlOK, flushVars, ioVars, closeVars
    <3> QED BY <2>2, <3>1, <3>2 DEF DoFlush
  <2> QED BY <2>1, <2>2 DEF Loop
<1>2. \A q \in Closers \union Readers : pc'[q] = pc[q]
  BY <1>1
<1>3. Undisturbed' => Undisturbed
  BY <1>1, <1>2 DEF Undisturbed
<1>4. GoingDown' => GoingDown
  BY <1>1, <1>2 DEF GoingDown
<1>5. (\E r \in Readers : pc[r] \in CloseAt) => \E r \in Readers : pc'[r] \in CloseAt
  BY <1>2
<1>6. crashed' => pc'[FlushLoop] = "write"
  BY <1>1
<1> QED BY <1>3, <1>4, <1>5, <1>6 DEF ReaderFirst

LEMMA WriteReaderFirst ==
  ASSUME Inv, ReaderFirst, NEW w \in Writers, Write(w)
  PROVE  ReaderFirst'
<1> USE DEF Inv, TypeOK
<1>1. /\ UNCHANGED <<lost, leaving, closed, net, crashed>>
      /\ \A q \in Procs : q # w => pc'[q] = pc[q]
  BY DEF Write, Encode, LockOpen, LockClosed, AppendFrame, Signal, Goto, ControlOK,
         flushVars, ioVars, closeVars
<1>2. \A q \in Closers \union Readers \union {FlushLoop} : pc'[q] = pc[q]
  BY <1>1
<1>3. Undisturbed' <=> Undisturbed
  BY <1>1, <1>2 DEF Undisturbed
<1>4. GoingDown' <=> GoingDown
  BY <1>1, <1>2 DEF GoingDown
<1>5. \A r \in Readers : pc[r] \in CloseAt => pc'[r] \in CloseAt
  BY <1>2
<1>6. crashed' => crashed /\ pc'[FlushLoop] = pc[FlushLoop]
  BY <1>1, <1>2
<1> QED BY <1>3, <1>4, <1>5, <1>6, ReaderFirstStays

\* Whatever the order in which HandlePlayers, handleTaker, flushLoop and the
\* peer leave, the one reader of a connection meets a nil c.conn only if
\* Listener.Close has closed it, or a write has failed.
THEOREM NilReadNeedsListenerCloseHolds ==
  ASSUME \A r, q \in Readers : r = q
  PROVE  Spec => []NilReadNeedsListenerClose
<1>1. Init => ReaderFirst
  BY DEF Init, ReaderFirst, GoingDown, CloseAt
<1>2. Inv /\ ReaderFirst /\ [Next]_vars => ReaderFirst'
  <2> SUFFICES ASSUME Inv, ReaderFirst, [Next]_vars PROVE ReaderFirst'
    OBVIOUS
  <2>1. CASE UNCHANGED <<pc, lost, leaving, closed, crashed>> /\ (net' = "nil" => net = "nil")
    BY <2>1 DEF ReaderFirst, Undisturbed, GoingDown
  <2>2. CASE UNCHANGED vars \/ Flush \/ Break \/ Terminated
    BY <2>1, <2>2 DEF Flush, Break, Terminated, vars, flushVars, ioVars, closeVars
  <2>3. CASE ~crashed /\ \E w \in Writers : Write(w)
    BY <2>3, WriteReaderFirst
  <2>4. CASE ~crashed /\ ((\E c \in Closers : CallClose(c)) \/ \E p \in Procs : Close(p))
    BY <2>4, CloseReaderFirst
  <2>5. CASE ~crashed /\ \E r \in Readers : ReaderStep(r)
    BY <2>5, ReadReaderFirst
  <2>6. CASE ~crashed /\ Loop
    BY <2>6, LoopReaderFirst
  <2> QED BY <2>2, <2>3, <2>4, <2>5, <2>6 DEF Next
<1>3. Inv /\ ReaderFirst => NilReadNeedsListenerClose
  BY DEF ReaderFirst, Undisturbed, NilReadNeedsListenerClose
<1> QED
  BY <1>1, <1>2, <1>3, Invariance, PTL DEF Spec

-----------------------------------------------------------------------------
(***************************************************************************)
(* What TotalLen computes.  It is a fold, a function defined by recursion  *)
(* on the sets of indices.  Induction on their size gives first that there *)
(* is such a function, and then its value for a frame more.                *)
(***************************************************************************)

\* Induction, in a form with a set in the place of a predicate: the library's
\* minimal element of a set that has one outside of T.
LEMMA NatByNat ==
  ASSUME NEW T, 0 \in T, \A n \in Nat : n \in T => n + 1 \in T
  PROVE  Nat \subseteq T
<1> DEFINE R == OpToRel(<, Nat)
<1> SUFFICES ASSUME Nat \ T # {} PROVE FALSE
  OBVIOUS
<1>1. IsWellFoundedOn(R, Nat)
  BY NatLessThanWellFounded
<1>2. \A k, m \in Nat : k < m => <<k, m>> \in R
  BY DEF OpToRel
<1> HIDE DEF R
<1>3. PICK m \in Nat \ T : \A k \in Nat \ T : ~(<<k, m>> \in R)
  BY <1>1, WFMin
<1>4. m # 0 /\ m - 1 \in Nat /\ m - 1 < m /\ (m - 1) + 1 = m
  BY <1>3
<1>5. m - 1 \in T
  BY <1>2, <1>3, <1>4
<1> QED BY <1>3, <1>4, <1>5

\* A set of indices has a greatest.
LEMMA GreatestIndex ==
  ASSUME NEW n \in Nat, NEW t \in SUBSET (1..n), t # {}
  PROVE  Max(t) \in t /\ \A y \in t : Max(t) >= y
<1> DEFINE Has(u) == \E x \in u : \A y \in u : x >= y
           T == {m \in Nat : \A u \in SUBSET (1..m) : u # {} => Has(u)}
<1>1. 0 \in T
  <2>1. \A u \in SUBSET (1..0) : u = {}
    OBVIOUS
  <2> QED BY <2>1
<1>2. ASSUME NEW m \in Nat, m \in T PROVE m + 1 \in T
  <2>1. ASSUME NEW u \in SUBSET (1..(m + 1)), u # {} PROVE Has(u)
    <3>1. CASE m + 1 \in u
      BY <3>1
    <3>2. CASE m + 1 \notin u
      <4>1. u \in SUBSET (1..m)
        BY <2>1, <3>2
      <4> QED BY <1>2, <2>1, <4>1
    <3> QED BY <3>1, <3>2
  <2> QED BY <2>1
<1> HIDE DEF T
<1>3. n \in T
  BY <1>1, <1>2, NatByNat
<1>4. Has(t)
  BY <1>3 DEF T
<1> QED BY <1>4 DEF Max

\* The function that TotalLen folds with, over the sets of the first n indices.
Sums(s, n, iter) ==
  iter = [t \in SUBSET (1..n) |-> IF t = {} THEN 0 ELSE iter[t \ {Max(t)}] + s[Max(t)].len]

LEMMA SumsExist ==
  ASSUME NEW s, NEW n \in Nat
  PROVE  \E iter : Sums(s, n, iter)
<1> DEFINE T == {m \in Nat : \E iter : Sums(s, m, iter)}
<1>1. 0 \in T
  <2>1. Sums(s, 0, [t \in SUBSET (1..0) |-> 0])
    <3>1. \A t \in SUBSET (1..0) : t = {}
      OBVIOUS
    <3> QED BY <3>1 DEF Sums
  <2> QED BY <2>1
<1>2. ASSUME NEW m \in Nat, m \in T PROVE m + 1 \in T
  <2>1. PICK g : Sums(s, m, g)
    BY <1>2
  <2> DEFINE h == [t \in SUBSET (1..(m + 1)) |->
                     IF m + 1 \in t THEN g[t \ {m + 1}] + s[m + 1].len ELSE g[t]]
  <2>2. ASSUME NEW t \in SUBSET (1..(m + 1))
        PROVE  h[t] = IF t = {} THEN 0 ELSE h[t \ {Max(t)}] + s[Max(t)].len
    <3>1. CASE t = {}
      <4>1. h[t] = g[{}]
        BY <3>1
      <4>2. g[{}] = 0
        BY <2>1 DEF Sums
      <4> QED BY <3>1, <4>1, <4>2
    <3>2. CASE m + 1 \in t
      <4>1. Max(t) = m + 1
        <5>1. Max(t) \in t /\ Max(t) >= m + 1
          <6>1. m + 1 \in Nat /\ t # {}
            BY <3>2
          <6> QED BY <3>2, <6>1, GreatestIndex
        <5>2. Max(t) \in 1..(m + 1)
          BY <5>1
        <5> QED BY <5>1, <5>2
      <4>2. t \ {m + 1} \in SUBSET (1..(m + 1)) /\ m + 1 \notin t \ {m + 1}
        OBVIOUS
      <4>3. h[t \ {m + 1}] = g[t \ {m + 1}]
        BY <4>2
      <4> QED BY <3>2, <4>1, <4>3
    <3>3. CASE t # {} /\ m + 1 \notin t
      <4>1. t \in SUBSET (1..m)
        BY <3>3
      <4>2. Max(t) \in t /\ t \ {Max(t)} \in SUBSET (1..(m + 1)) /\ m + 1 \notin t \ {Max(t)}
        BY <3>3, <4>1, GreatestIndex
      <4>3. h[t \ {Max(t)}] = g[t \ {Max(t)}] /\ h[t] = g[t]
        BY <3>3, <4>2
      <4>4. g[t] = g[t \ {Max(t)}] + s[Max(t)].len
        BY <2>1, <3>3, <4>1 DEF Sums
      <4> QED BY <3>3, <4>3, <4>4
    <3> QED BY <3>1, <3>2, <3>3
  <2>3. Sums(s, m + 1, h)
    <3>1. h = [t \in SUBSET (1..(m + 1)) |-> h[t]]
      OBVIOUS
    <3> HIDE DEF h
    <3>2. h = [t \in SUBSET (1..(m + 1)) |-> IF t = {} THEN 0 ELSE h[t \ {Max(t)}] + s[Max(t)].len]
      BY <2>2, <3>1
    <3> QED BY <3>2 DEF Sums
  <2> QED BY <2>3
<1> HIDE DEF T
<1>3. n \in T
  BY <1>1, <1>2, NatByNat
<1> QED BY <1>3 DEF T

\* Each frame adds its length.
LEMMA SumsOfIndices ==
  ASSUME NEW s, NEW n \in Nat, NEW g, Sums(s, n, g)
  PROVE  g[1..0] = 0 /\ \A k \in 0..(n - 1) : g[1..(k + 1)] = g[1..k] + s[k + 1].len
<1>1. g[1..0] = 0
  BY DEF Sums
<1>2. ASSUME NEW k \in 0..(n - 1) PROVE g[1..(k + 1)] = g[1..k] + s[k + 1].len
  <2>1. 1..(k + 1) \in SUBSET (1..n) /\ 1..(k + 1) # {} /\ k + 1 \in 1..(k + 1)
    OBVIOUS
  <2>2. Max(1..(k + 1)) \in 1..(k + 1) /\ Max(1..(k + 1)) >= k + 1
    BY <2>1, GreatestIndex
  <2>3. Max(1..(k + 1)) = k + 1
    BY <2>2
  <2>4. (1..(k + 1)) \ {k + 1} = 1..k
    OBVIOUS
  <2> QED BY <2>1, <2>3, <2>4 DEF Sums
<1> QED BY <1>1, <1>2

LEMMA TotalLenSums ==
  ASSUME NEW s \in Seq(Frame)
  PROVE  \E g : Sums(s, Len(s), g) /\ TotalLen(s) = g[1..Len(s)]
<1> DEFINE g == CHOOSE iter : Sums(s, Len(s), iter)
<1>1. DOMAIN s = 1..Len(s) /\ Len(s) \in Nat
  OBVIOUS
<1>2. Sums(s, Len(s), g)
  BY <1>1, SumsExist
<1>3. TotalLen(s) = g[1..Len(s)]
  BY <1>1 DEF TotalLen, FoldLeft, MapThenFoldSet, Sums
<1> QED BY <1>2, <1>3

LEMMA TotalLenEmpty == TotalLen(<<>>) = 0
<1>1. <<>> \in Seq(Frame) /\ Len(<<>>) = 0
  OBVIOUS
<1>2. PICK g : Sums(<<>>, 0, g) /\ TotalLen(<<>>) = g[1..0]
  BY <1>1, TotalLenSums
<1> QED BY <1>2, SumsOfIndices

LEMMA TotalLenAppend ==
  ASSUME NEW s \in Seq(Frame), NEW f \in Frame
  PROVE  TotalLen(Append(s, f)) = TotalLen(s) + f.len
<1> DEFINE a == Append(s, f)
           n == Len(s)
<1>1. n \in Nat /\ a \in Seq(Frame) /\ Len(a) = n + 1 /\ a[n + 1] = f /\ \A i \in 1..n : a[i] = s[i]
  OBVIOUS
<1> HIDE DEF a, n
<1>2. PICK g : Sums(s, n, g) /\ TotalLen(s) = g[1..n]
  BY TotalLenSums DEF n
<1>3. PICK h : Sums(a, n + 1, h) /\ TotalLen(a) = h[1..(n + 1)]
  BY <1>1, TotalLenSums
<1> DEFINE T == {k \in Nat : k <= n => h[1..k] = g[1..k]}
<1>4. 0 \in T
  BY <1>1, <1>2, <1>3, SumsOfIndices
<1>5. ASSUME NEW k \in Nat, k \in T PROVE k + 1 \in T
  <2>1. SUFFICES ASSUME k + 1 <= n PROVE h[1..(k + 1)] = g[1..(k + 1)]
    OBVIOUS
  <2>2. k \in 0..(n - 1) /\ k \in 0..((n + 1) - 1) /\ k <= n /\ k + 1 \in 1..n
    BY <1>1, <2>1
  <2>3. h[1..(k + 1)] = h[1..k] + a[k + 1].len
    BY <1>1, <1>3, <2>2, SumsOfIndices
  <2>4. g[1..(k + 1)] = g[1..k] + s[k + 1].len
    BY <1>1, <1>2, <2>2, SumsOfIndices
  <2> QED BY <1>1, <1>5, <2>2, <2>3, <2>4
<1> HIDE DEF T
<1>6. n \in T
  BY <1>1, <1>4, <1>5, NatByNat
<1>7. h[1..n] = g[1..n]
  BY <1>1, <1>6 DEF T
<1>8. n \in 0..((n + 1) - 1)
  BY <1>1
<1>9. h[1..(n + 1)] = h[1..n] + a[n + 1].len
  BY <1>1, <1>3, <1>8, SumsOfIndices
<1> QED BY <1>1, <1>2, <1>3, <1>7, <1>9 DEF a

-----------------------------------------------------------------------------
(***************************************************************************)
(* A full buffer is flushed without a tick.                                *)
(***************************************************************************)

\* sendBufLen is the number of bytes that wait.
Counted == sendBufLen = TotalLen(sendBuf)

\* The token is in flushNow or on its way, or flushLoop needs none.
Due ==
  \/ flushNow
  \/ \E w \in Writers : pc[w] = "signal"
  \/ pc[FlushLoop] = "swap"
  \/ pc[FlushLoop] \in {"exit"} \union CloseAt

WellCounted == Counted /\ (sendBufLen >= MaxBufferedByte => Due)

\* A step that adds nothing to sendBuf keeps a flush due if the token, the
\* writers that signal and the places where flushLoop needs none stay.
LEMMA DueStays ==
  ASSUME WellCounted, UNCHANGED <<sendBuf, sendBufLen>>, flushNow => flushNow',
         \A w \in Writers : pc[w] = "signal" => pc'[w] = "signal" \/ flushNow',
         pc[FlushLoop] \in {"swap", "exit"} \union CloseAt =>
           pc'[FlushLoop] \in {"swap", "exit"} \union CloseAt
  PROVE  WellCounted'
BY DEF WellCounted, Counted, Due

LEMMA WriteDue == ASSUME Inv, WellCounted, NEW w \in Writers, Write(w) PROVE WellCounted'
<1> USE DEF Inv, TypeOK
<1>1. \A q \in Procs : q # w => pc'[q] = pc[q]
  BY DEF Write, Encode, LockOpen, LockClosed, AppendFrame, Signal, Goto, ControlOK
<1>2. pc'[FlushLoop] = pc[FlushLoop]
  BY <1>1
<1>3. CASE AppendFrame(w)
  <2>1. /\ sendBuf' = Append(sendBuf, held[w]) /\ sendBufLen' = sendBufLen + held[w].len
        /\ pc[w] = "locked" /\ flushNow' = flushNow
        /\ pc'[w] = IF sendBufLen' >= MaxBufferedByte THEN "signal" ELSE "idle"
    BY <1>3 DEF AppendFrame, Goto, ControlOK
  <2>2. held[w] \in Frame /\ sendBuf \in Seq(Frame)
    BY <2>1 DEF HeldOK, BuffersOK
  <2>3. Counted'
    BY <2>1, <2>2, TotalLenAppend DEF WellCounted, Counted
  <2>4. sendBufLen' >= MaxBufferedByte => Due'
    BY <2>1 DEF Due
  <2> QED BY <2>3, <2>4 DEF WellCounted
<1>4. CASE ~AppendFrame(w)
  <2>1. UNCHANGED <<sendBuf, sendBufLen>> /\ (flushNow => flushNow')
    BY <1>4 DEF Write, Encode, LockOpen, LockClosed, Signal, writeVars
  <2>2. pc[w] = "signal" => flushNow'
    BY <1>4 DEF Write, Encode, LockOpen, LockClosed, Signal
  <2>3. \A v \in Writers : pc[v] = "signal" => pc'[v] = "signal" \/ flushNow'
    BY <1>1, <2>2
  <2> QED BY <1>2, <2>1, <2>3, DueStays
<1> QED BY <1>3, <1>4

\* A step of another goroutine that is no writer.
LEMMA OtherDue ==
  ASSUME Inv, WellCounted, NEW p \in Procs,
         Close(p) \/ (p \in Closers /\ CallClose(p)) \/ (p \in Readers /\ ReaderStep(p))
  PROVE  WellCounted'
<1> USE DEF Inv, TypeOK
<1>1. UNCHANGED <<sendBuf, sendBufLen, flushNow>>
  BY DEF Close, CallClose, CloseFirst, CloseAgain, CloseAnnounce, CloseAwait, CloseOvertakes,
         CloseNet, CloseForget, ReaderStep, ReaderCheck, ReaderLoad, ReaderRead, ReaderFails,
         ReaderHandles, ReaderKeep, writeVars
<1>2. CASE Close(p)
  <2>1. PICK place \in CloseAt : pc[p] \in CloseAt /\ Goto(p, place)
    BY <1>2 DEF Close, CloseFirst, CloseAgain, CloseAnnounce, CloseAwait, CloseOvertakes,
           CloseNet, CloseForget, CloseAt
  <2>2. /\ p \notin Writers /\ \A q \in Procs : q # p => pc'[q] = pc[q]
        /\ pc'[FlushLoop] \in CloseAt <=> pc[FlushLoop] \in CloseAt
        /\ pc[FlushLoop] \notin CloseAt => pc'[FlushLoop] = pc[FlushLoop]
    BY <2>1, CloseMoves
  <2> QED BY <1>1, <2>2, DueStays
<1>3. CASE p \in Closers \union Readers /\ (CallClose(p) \/ ReaderStep(p))
  <2>1. \A q \in Procs : q # p => pc'[q] = pc[q]
    BY <1>3 DEF CallClose, ReaderStep, ReaderCheck, ReaderLoad, ReaderRead, ReaderFails,
       ReaderHandles, Goto, ControlOK
  <2>2. \A q \in Writers \union {FlushLoop} : pc'[q] = pc[q]
    BY <1>3, <2>1
  <2> QED BY <1>1, <2>2, DueStays
<1> QED BY <1>2, <1>3

LEMMA LoopDue == ASSUME Inv, WellCounted, Loop PROVE WellCounted'
<1> USE DEF Inv, TypeOK
<1>1. CASE FlushSwap
  <2>1. sendBuf' = <<>> /\ sendBufLen' = 0
    BY <1>1 DEF FlushSwap
  <2> QED BY <2>1, TotalLenEmpty DEF WellCounted, Counted
<1>2. CASE FlushEmpty
  <2>1. sendBuf' = <<>> /\ sendBuf = <<>> /\ sendBufLen' = sendBufLen
    BY <1>2 DEF FlushEmpty, writeVars
  <2> QED BY <2>1, TotalLenEmpty DEF WellCounted, Counted
<1>3. CASE LoopFlushNow \/ Tick \/ LoopClose
  <2>1. UNCHANGED <<sendBuf, sendBufLen>> /\ pc'[FlushLoop] = "swap"
    BY <1>3 DEF LoopFlushNow, Tick, LoopClose, Goto, ControlOK, writeVars
  <2> QED BY <2>1 DEF WellCounted, Counted, Due
<1>4. CASE LoopStart \/ TickSkipped \/ Gather \/ WriteOk \/ FlushEnd \/ WriteFails \/ WriteNil \/ LoopExit
  <2>1. UNCHANGED <<sendBuf, sendBufLen, flushNow>>
    BY <1>4 DEF LoopStart, TickSkipped, Gather, WriteOk, FlushEnd, WriteFails, WriteNil, LoopExit, writeVars
  <2>2. \A q \in Writers : pc'[q] = pc[q]
    BY <1>4 DEF LoopStart, TickSkipped, Gather, WriteOk, FlushEnd, WriteFails, WriteNil, LoopExit,
       FlushReturns, Goto, ControlOK
  <2>3. pc[FlushLoop] \in {"unstarted", "select", "write"} \/ (pc[FlushLoop] = "exit" /\ pc'[FlushLoop] = "enter")
    BY <1>4 DEF LoopStart, TickSkipped, Gather, WriteOk, FlushEnd, WriteFails, WriteNil, LoopExit,
       Goto, ControlOK
  <2> QED BY <2>1, <2>2, <2>3, DueStays DEF CloseAt
<1> QED BY <1>1, <1>2, <1>3, <1>4 DEF Loop, DoFlush

\* When MaxBufferedByte bytes wait, a flush comes that no tick has to start:
\* sendBufLen counts the bytes, the writer that reaches the limit sends the
\* token, and the token stays until flushLoop takes it.
THEOREM FlushIsDue == Spec => []FlushDue
<1>1. Init => WellCounted
  BY TotalLenEmpty DEF Init, WellCounted, Counted
<1>2. Inv /\ WellCounted /\ [Next]_vars => WellCounted'
  <2> SUFFICES ASSUME Inv, WellCounted, [Next]_vars PROVE WellCounted'
    OBVIOUS
  <2>1. CASE UNCHANGED <<pc, sendBuf, sendBufLen>> /\ (flushNow => flushNow')
    BY <2>1, DueStays
  <2>2. CASE UNCHANGED vars \/ Flush \/ Break \/ Terminated
    BY <2>1, <2>2 DEF Flush, Break, Terminated, vars, writeVars
  <2>3. CASE \E w \in Writers : Write(w)
    BY <2>3, WriteDue
  <2>4. CASE \/ \E c \in Closers : CallClose(c)
             \/ \E p \in Procs : Close(p)
             \/ \E r \in Readers : ReaderStep(r)
    BY <2>4, OtherDue
  <2>5. CASE Loop
    BY <2>5, LoopDue
  <2> QED BY <2>2, <2>3, <2>4, <2>5 DEF Next
<1>3. WellCounted => FlushDue
  BY DEF WellCounted, Counted, Due, FlushDue
<1> QED BY <1>1, <1>2, <1>3, Invariance, PTL DEF Spec
=============================================================================
