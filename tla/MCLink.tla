-------------------------------- MODULE MCLink --------------------------------
(***************************************************************************)
(* Small instances of Link.                                                *)
(***************************************************************************)
EXTENDS Link

MCSymmetry == Permutations(Sessions)
=============================================================================
