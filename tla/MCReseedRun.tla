---------------------------- MODULE MCReseedRun ----------------------------
(* ReseedRun for TLC.                                                      *)
EXTENDS ReseedRun, TLC

RunSymmetry == Permutations(Runs) \cup Permutations(Items) \cup Permutations(Hashes)
=============================================================================
