----------------------------- MODULE MatchPhase -----------------------------
(***************************************************************************)
(* The match phase of reseed runs: match_all_sites and the site tasks it   *)
(* spawns (crates/core/src/engine/matcher.rs, engine/filter.rs).           *)
(*                                                                         *)
(* For one target site after the other a run drops the pieces hashes that  *)
(* a cached announce URL places on the site (filter 1) and those that have *)
(* succeeded there (filter 2), and spawns a task that asks the site for    *)
(* the rest.  The database is read in chunks, while other runs record      *)
(* successes.  An error of a read leaves the function by ?, and the tasks  *)
(* spawned until then go on, detached.  What a task does with batches and  *)
(* the site's limiter is SiteLimiter's: here it asks for some of what is   *)
(* left, and the site answers about what it was asked.                     *)
(***************************************************************************)
EXTENDS Integers, FiniteSets

CONSTANTS Runs,      \* tasks, each with at most one run at a time
          Sites,     \* the sites of the registry and of the tasks
          NoSite,
          Hashes,    \* pieces hashes
          InChunk,   \* SQLITE_IN_CHUNK
          MaxStarts  \* bound: match phases over a behaviour

ASSUME MatchPhaseAssumption ==
    /\ IsFiniteSet(Sites) /\ IsFiniteSet(Hashes) /\ NoSite \notin Sites
    /\ InChunk \in Nat \ {0} /\ MaxStarts \in Nat

Pairs == Sites \X Hashes
Starts == 1 .. MaxStarts

VARIABLES
    history,  \* pairs with a success in reseed_history
    run,      \* the locals and the counters of each run's match
    task,     \* the site tasks of every match begun so far
    starts    \* matches begun so far

matchVars == <<history, run, task, starts>>

\* A run that has not begun, and a site task that was not spawned.
NoRun == [at |-> "idle",   \* "urls", "next", "history", "done", "failed"
          start |-> 0,     \* which match this is
          before |-> {},   \* the history when it began
          scanned |-> {},
          todo |-> {},     \* targets the loop has not come to
          served |-> {},   \* targets it did not pass over
          tracked |-> {},  \* announce_by_hash: site and hash
          site |-> NoSite,
          unread |-> {},   \* not in a chunk read yet
          known |-> {},    \* history_by_hash
          skipped |-> {},  \* history_skipped
          skippedTracker |-> 0, skippedHistory |-> 0, matchedCount |-> 0,
          matched |-> {}]
NoTask == [at |-> "none",  \* "running", "ok", "error"
           asked |-> {}, left |-> {}, found |-> {}]

MatchInit ==
    /\ history = {}
    /\ run = [r \in Runs |-> NoRun]
    /\ task = [n \in Starts |-> [s \in Sites |-> NoTask]]
    /\ starts = 0

SetRun(r, s) == run' = [run EXCEPT ![r] = s]
Matching(r) == run[r].at \in {"urls", "next", "history"}
MyTask(r, s) == task[run[r].start][s]
\* Fault: only a task that ends well is over.
OverWhenGood(t) == t.at \in {"none", "ok"}
Over(t) == t.at \in {"none", "ok", "error"}

\* What one statement of a chunked query reads: a full chunk, or the rest.
Chunks(unread) ==
    IF Cardinality(unread) < InChunk THEN {unread}
    ELSE {c \in SUBSET unread : Cardinality(c) = InChunk}

-----------------------------------------------------------------------------
(* match_all_sites.                                                        *)

\* Called with what the scan has grouped and the task's sites; without a group it
\* comes to no site.
Begin(r) ==
    /\ ~Matching(r) /\ starts < MaxStarts
    /\ starts' = starts + 1
    /\ \E scanned \in SUBSET Hashes, targets \in SUBSET Sites :
          SetRun(r, [NoRun EXCEPT !.at = "urls", !.start = starts + 1,
                                  !.before = history,
                                  !.scanned = scanned, !.unread = scanned,
                                  !.todo = IF scanned = {} THEN {} ELSE targets])
    /\ UNCHANGED <<history, task>>

\* find_announce_urls_by_pieces_hashes: the rows of a chunk, which scans of any run
\* may have written or not, name trackers of some sites.
ReadUrls(r) ==
    LET now == run[r]
    IN  /\ now.at = "urls"
        /\ \E c \in Chunks(now.unread), on \in SUBSET Pairs :
              /\ \A p \in on : p[2] \in c
              /\ SetRun(r, [now EXCEPT !.tracked = @ \cup on, !.unread = @ \ c,
                                       !.at = IF now.unread = c THEN "next" ELSE "urls"])
        /\ UNCHANGED <<history, task, starts>>

\* A target that the registry does not have, or not with the Reseed capability.
PassOver(r) ==
    /\ run[r].at = "next"
    /\ \E s \in run[r].todo : SetRun(r, [run[r] EXCEPT !.todo = @ \ {s}])
    /\ UNCHANGED <<history, task, starts>>

\* filter_by_tracker: the hashes with a cached announce URL of the site's domain.
FilteredByTracker(now, s) == {h \in now.scanned : <<s, h>> \in now.tracked}

\* Fault: the history is asked about what filter 1 has dropped as well.
RemainingAll(now, s) == now.scanned
Remaining(now, s) == now.scanned \ FilteredByTracker(now, s)

FilterByTracker(r) ==
    LET now == run[r]
    IN  /\ now.at = "next"
        /\ \E s \in now.todo :
              SetRun(r, [now EXCEPT !.at = "history", !.site = s, !.todo = @ \ {s},
                                    !.served = @ \cup {s},
                                    !.unread = Remaining(now, s),
                                    !.skippedTracker =
                                        @ + Cardinality(FilteredByTracker(now, s))])
        /\ UNCHANGED <<history, task, starts>>

\* Fault: a chunk replaces what the chunks before it have found.
KnownInLastChunk(known, s, c) == {h \in c : <<s, h>> \in history}
KnownWith(known, s, c) == known \cup {h \in c : <<s, h>> \in history}

\* find_successful_reseed_torrent_ids, one chunk.
ReadHistory(r) ==
    LET now == run[r]
    IN  /\ now.at = "history" /\ now.unread # {}
        /\ \E c \in Chunks(now.unread) :
              SetRun(r, [now EXCEPT !.known = KnownWith(@, now.site, c),
                                    !.unread = @ \ c])
        /\ UNCHANGED <<history, task, starts>>

Spawns(ask) == ask # {}

\* Filter 2, and the task for what is left.
EndSite(r) ==
    LET now == run[r]
        ask == Remaining(now, now.site) \ now.known
    IN  /\ now.at = "history" /\ now.unread = {}
        /\ SetRun(r, [now EXCEPT !.at = "next", !.site = NoSite, !.known = {},
                                 !.skipped = @ \cup ({now.site} \X now.known),
                                 !.skippedHistory = @ + Cardinality(now.known)])
        /\ task' = IF Spawns(ask)
                   THEN [task EXCEPT ![now.start] =
                            [@ EXCEPT ![now.site] =
                                [at |-> "running", asked |-> ask, left |-> ask,
                                 found |-> {}]]]
                   ELSE task
        /\ UNCHANGED <<history, starts>>

\* A statement fails; no handle is awaited or aborted.
Fail(r) ==
    /\ run[r].at \in {"urls", "history"} /\ run[r].unread # {}
    /\ SetRun(r, [run[r] EXCEPT !.at = "failed"])
    /\ UNCHANGED <<history, task, starts>>

\* join_all: what the tasks bring that did not end in an error.
Join(r) ==
    LET now == run[r]
        good == {s \in Sites : MyTask(r, s).at = "ok"}
        pairs == UNION {{s} \X MyTask(r, s).found : s \in good}
    IN  /\ now.at = "next" /\ now.todo = {}
        /\ \A s \in Sites : Over(MyTask(r, s))
        /\ SetRun(r, [now EXCEPT !.at = "done", !.matched = pairs,
                                 !.matchedCount = @ + Cardinality(pairs)])
        /\ UNCHANGED <<history, task, starts>>

-----------------------------------------------------------------------------
(* match_single_site.                                                      *)

SetTask(n, s, t) == task' = [task EXCEPT ![n] = [@ EXCEPT ![s] = t]]
Passed(t, c) == [t EXCEPT !.left = @ \ c, !.at = IF t.left = c THEN "ok" ELSE @]

\* The site knows some hashes of the batch.
Answered(n, s) ==
    LET t == task[n][s]
    IN  /\ t.at = "running"
        /\ \E c \in SUBSET t.left \ {{}} : \E hits \in SUBSET c :
              SetTask(n, s, [Passed(t, c) EXCEPT !.found = @ \cup hits])
        /\ UNCHANGED <<history, run, starts>>

\* The query of a batch fails and the next batch follows.
BatchFailed(n, s) ==
    LET t == task[n][s]
    IN  /\ t.at = "running"
        /\ \E c \in SUBSET t.left \ {{}} : SetTask(n, s, Passed(t, c))
        /\ UNCHANGED <<history, run, starts>>

\* This failure has opened the circuit: the task ends with what it has.
Tripped(n, s) ==
    /\ task[n][s].at = "running"
    /\ SetTask(n, s, [task[n][s] EXCEPT !.at = "ok"])
    /\ UNCHANGED <<history, run, starts>>

\* acquire refuses, a shut-down or a panic: an error, and what was found is lost.
Refused(n, s) ==
    /\ task[n][s].at = "running"
    /\ SetTask(n, s, [task[n][s] EXCEPT !.at = "error"])
    /\ UNCHANGED <<history, run, starts>>

-----------------------------------------------------------------------------
\* The writer commits a success that an adder of some run has recorded.
Succeed(p) ==
    /\ p \notin history
    /\ history' = history \cup {p}
    /\ UNCHANGED <<run, task, starts>>

RunStep(r) ==
    \/ ReadUrls(r) \/ PassOver(r) \/ FilterByTracker(r) \/ ReadHistory(r)
    \/ EndSite(r) \/ Fail(r) \/ Join(r)
TaskStep(n, s) ==
    Answered(n, s) \/ BatchFailed(n, s) \/ Tripped(n, s) \/ Refused(n, s)

MatchNext ==
    \/ \E r \in Runs : Begin(r) \/ RunStep(r)
    \/ \E n \in Starts, s \in Sites : TaskStep(n, s)
    \/ \E p \in Pairs : Succeed(p)

MatchSpec == MatchInit /\ [][MatchNext]_matchVars
FairMatchSpec ==
    /\ MatchSpec
    /\ \A r \in Runs : WF_matchVars(RunStep(r))
    /\ \A n \in Starts, s \in Sites : WF_matchVars(TaskStep(n, s))

-----------------------------------------------------------------------------
(* Properties.                                                             *)

\* The pairs that the tasks of a run were given.
AskedBy(r) == UNION {{s} \X MyTask(r, s).asked : s \in Sites}

\* Every pair of a served site and a scanned hash is accounted for once: skipped by
\* one of the filters and counted by it, or asked for; and the count of matches is
\* that of the list.
MatchAddsUp ==
    \A r \in Runs : run[r].at = "done" =>
        /\ run[r].skippedTracker + run[r].skippedHistory + Cardinality(AskedBy(r))
           = Cardinality(run[r].served) * Cardinality(run[r].scanned)
        /\ run[r].skippedHistory = Cardinality(run[r].skipped)
        /\ run[r].matchedCount = Cardinality(run[r].matched)

\* Whatever commits between its reads, a match keeps to its contract.
Contract == INSTANCE MatchContract WITH
    before <- [r \in Runs |-> run[r].before],
    phase <- [r \in Runs |-> IF Matching(r) THEN "open" ELSE run[r].at],
    matched <- [r \in Runs |-> run[r].matched],
    skipped <- [r \in Runs |-> IF run[r].at = "done" THEN run[r].skipped ELSE {}]
ImplementsMatchContract == Contract!Spec

\* Every match ends, and so does every site task, whether or not anyone still waits
\* for it: one site cannot hold up the run for ever, nor be asked for ever.
MatchEnds ==
    /\ \A r \in Runs : Matching(r) ~> ~Matching(r)
    /\ \A n \in Starts, s \in Sites : task[n][s].at = "running" ~> Over(task[n][s])
=============================================================================
