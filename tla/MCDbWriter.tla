----------------------------- MODULE MCDbWriter -----------------------------
(* DbWriter for TLC.                                                       *)
EXTENDS DbWriter, TLC

CallerSymmetry == Permutations(Callers)
=============================================================================
