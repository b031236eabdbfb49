---------------------------- MODULE MCMatchPhase ----------------------------
(* MatchPhase for TLC.                                                     *)
EXTENDS MatchPhase
=============================================================================
