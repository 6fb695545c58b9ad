---------------------------- MODULE MCUvCallback ----------------------------
(* Small instances of UvCallback for TLC.                                   *)
EXTENDS UvCallback, TLC

Symmetry == Permutations(Callers)
=============================================================================
