------------------------------- MODULE MCConn --------------------------------
(***************************************************************************)
(* Small instances of Conn.  A write takes 3 bytes, a frame 1 or 4: some   *)
(* frames are gathered, some spill, some are written directly.             *)
(***************************************************************************)
EXTENDS Conn

MCFrameLens == {1, 4}

\* The writers are interchangeable; used by runs without liveness only.
MCSymmetry == Permutations(Writers)
=============================================================================
