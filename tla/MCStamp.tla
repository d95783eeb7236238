------------------------------- MODULE MCStamp --------------------------------
(***************************************************************************)
(* A small instance of Stamp.                                              *)
(***************************************************************************)
EXTENDS Stamp

\* The wall clock is right, or up to more than a day wrong.
MCSettings == {-50, 0, 7, 45}

\* One with bits in all of its bytes.
MCIDs == {21846}
=============================================================================
