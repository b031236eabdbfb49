----------------------------- MODULE MCScanner -----------------------------
(* A small instance of Scanner for TLC. *)
EXTENDS Scanner, TLC

ScannerSymmetry == Permutations(Torrents) \cup Permutations(Scans)
=============================================================================
