--------------------------- MODULE MatchContract ---------------------------
(***************************************************************************)
(* What run_pipeline may rely on in match_all_sites, whatever other runs   *)
(* do meanwhile: nothing is matched that had succeeded before the match    *)
(* began, and nothing is skipped that has not succeeded                    *)
(* (crates/core/src/engine/pipeline.rs).                                   *)
(***************************************************************************)
CONSTANTS Runs,   \* tasks
          Pairs   \* target site and pieces hash

VARIABLES
    history,   \* pairs with a success in reseed_history
    before,    \* the history when a run's match began
    phase,     \* where the match of each run is
    matched,   \* MatchPhaseOutput::matched
    skipped    \* MatchPhaseOutput::history_skipped

vars == <<history, before, phase, matched, skipped>>

Init ==
    /\ history = {} /\ before = [r \in Runs |-> {}]
    /\ phase = [r \in Runs |-> "idle"]
    /\ matched = [r \in Runs |-> {}] /\ skipped = [r \in Runs |-> {}]

\* An adder of some run has recorded a success; none is ever taken back.
Succeed(p) ==
    /\ history' = history \cup {p}
    /\ UNCHANGED <<before, phase, matched, skipped>>

Begin(r) ==
    /\ phase[r] # "open"
    /\ phase' = [phase EXCEPT ![r] = "open"]
    /\ before' = [before EXCEPT ![r] = history]
    /\ matched' = [matched EXCEPT ![r] = {}]
    /\ skipped' = [skipped EXCEPT ![r] = {}]
    /\ UNCHANGED history

\* The reads happen somewhere between the beginning and now.
Finish(r) ==
    /\ phase[r] = "open"
    /\ phase' = [phase EXCEPT ![r] = "done"]
    /\ \E m \in SUBSET (Pairs \ before[r]) :
          \E s \in SUBSET (history \ m) :
              /\ matched' = [matched EXCEPT ![r] = m]
              /\ skipped' = [skipped EXCEPT ![r] = s]
    /\ UNCHANGED <<history, before>>

GiveUp(r) ==
    /\ phase[r] = "open"
    /\ phase' = [phase EXCEPT ![r] = "failed"]
    /\ UNCHANGED <<history, before, matched, skipped>>

Next ==
    \/ \E r \in Runs : Begin(r) \/ Finish(r) \/ GiveUp(r)
    \/ \E p \in Pairs : Succeed(p)

Spec == Init /\ [][Next]_vars
=============================================================================
