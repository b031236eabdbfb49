--------------------------- MODULE MCTaskRuntime ---------------------------
(* TaskRuntime for TLC.                                                    *)
EXTENDS TaskRuntime, TLC

TaskSymmetry == Permutations(Tasks) \cup Permutations(Executions)
=============================================================================
