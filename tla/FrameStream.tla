----------------------------- MODULE FrameStream -----------------------------
(***************************************************************************)
(* What one incarnation of forwarder.Conn promises the goroutines that     *)
(* write packets to it: a FIFO stream of frames.  A frame writePacket      *)
(* accepted is handed to the socket once, in the order of acceptance; a    *)
(* close that is not preceded by a loss leaves nothing behind; and after   *)
(* such a close nothing is accepted.  Conn.tla implements this module.     *)
(***************************************************************************)
EXTENDS Sequences, SequencesExt

CONSTANT Frames          \* the frames writers may send

VARIABLES
  accepted,              \* frames writePacket returned nil for, in order
  delivered,             \* frames handed to the socket, in order
  status                 \* "open", "lossy" or "closed"

vars == <<accepted, delivered, status>>

TypeOK ==
  /\ accepted \in Seq(Frames)
  /\ delivered \in Seq(Frames)
  /\ status \in {"open", "lossy", "closed"}

Init ==
  /\ accepted = <<>>
  /\ delivered = <<>>
  /\ status = "open"

Accept ==
  /\ status # "closed"
  /\ \E f \in Frames : accepted' = Append(accepted, f)
  /\ UNCHANGED <<delivered, status>>

\* Some more of the accepted frames reach the socket.
Extends ==
  /\ IsPrefix(delivered, delivered')
  /\ IsPrefix(delivered', accepted)

Deliver ==
  /\ status # "closed"
  /\ Extends
  /\ UNCHANGED <<accepted, status>>

\* A write fails, or the connection is torn down under its flush loop:
\* from here on accepted frames may be lost, but none is reordered.
Lose ==
  /\ status = "open"
  /\ status' = "lossy"
  /\ Extends
  /\ UNCHANGED accepted

\* An orderly close: nothing accepted is left behind.
Close ==
  /\ status = "open"
  /\ delivered = accepted
  /\ status' = "closed"
  /\ UNCHANGED <<accepted, delivered>>

Next == Accept \/ Deliver \/ Lose \/ Close

Spec == Init /\ [][Next]_vars
=============================================================================
