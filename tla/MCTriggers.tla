----------------------------- MODULE MCTriggers -----------------------------
(* Triggers for TLC.                                                       *)
EXTENDS Triggers, TLC

TriggerSymmetry == Permutations(Tasks) \cup Permutations(Folders)
                   \cup Permutations(Expressions) \cup Permutations(Handlers)
=============================================================================
