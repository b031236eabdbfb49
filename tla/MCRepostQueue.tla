--------------------------- MODULE MCRepostQueue ---------------------------
(* RepostQueue for TLC.                                                    *)
EXTENDS RepostQueue, TLC

QueueSymmetry == Permutations(Entries) \cup Permutations(Actors)
=============================================================================
