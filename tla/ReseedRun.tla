----------------------------- MODULE ReseedRun -----------------------------
(***************************************************************************)
(* Reseed runs: match, concurrent add, history and progress report         *)
(* (crates/core/src/engine/pipeline.rs, adder.rs, matcher.rs).             *)
(*                                                                         *)
(* A run reads which torrents its destination holds, drops the matches     *)
(* with a success in the history, and adds the others at most              *)
(* AddConcurrency at a time.  Runs of different tasks share the            *)
(* destination, the history and the DbWriter, here a queue that commits in *)
(* order (DurableLog) and that may die.                                    *)
(***************************************************************************)
EXTENDS Integers, FiniteSets, Sequences

CONSTANTS Runs,           \* tasks, each with at most one run at a time
          Items,          \* matches: a pieces hash on a target site
          Hashes,         \* info hashes of the torrents the sites offer
          NoItem,         \* no match
          AddConcurrency, \* ADD_CONCURRENCY
          MaxStarts,      \* bound: runs started
          MaxFaults,      \* bound: deaths of the writer
          MaxCrashes      \* bound: deaths of the process

ASSUME ReseedRunAssumption ==
    /\ IsFiniteSet(Items) /\ NoItem \notin Items
    /\ AddConcurrency \in Nat \ {0}
    /\ MaxStarts \in Nat /\ MaxFaults \in Nat /\ MaxCrashes \in Nat

VARIABLES
    infoHash,  \* what each match turns out to be, once downloaded
    dest,      \* info hashes the destination downloader holds
    history,   \* reseed_history
    log,       \* task_logs.log_text of each task's last run
    queue,     \* the DbWriter's channel and buffer
    writer,    \* "up" or "dead"
    run,       \* the pipeline's locals
    adder,     \* the add futures
    starts, faults, crashes

vars == <<infoHash, dest, history, log, queue, writer, run, adder,
          starts, faults, crashes>>

Outcomes == {"added", "failed", "skipped"}
Report == [Items -> Outcomes \cup {"none"}]
Statuses == {"success", "failed", "skipped"}
Phases == {"idle", "match", "matched", "add", "flush", "done", "failed"}
Run == [phase : Phases, claims : SUBSET Hashes, matched : SUBSET Items,
        added : Nat, failed : Nat, skipped : Nat,
        report : Report, holder : Items \cup {NoItem}]
Points == {"waiting", "download", "mismatch", "claim", "exists", "add", "taken",
           "refused", "released", "persist", "flushing", "ended", "error"}
Adder == [at : Points, failedBefore : Nat, did : Outcomes \cup {"none"},
          outcome : Outcomes \cup {"none"}]
Op == [kind : {"history"}, item : Items, status : Statuses]
      \cup [kind : {"log"}, run : Runs, report : Report]
      \cup [kind : {"flush"}, run : Runs, item : Items \cup {NoItem}]

NoReport == [i \in Items |-> "none"]
NotRunning == [phase |-> "idle", claims |-> {}, matched |-> {}, added |-> 0,
               failed |-> 0, skipped |-> 0, report |-> NoReport, holder |-> NoItem]
NotStarted == [at |-> "waiting", failedBefore |-> 0, did |-> "none",
               outcome |-> "none"]

Init ==
    /\ infoHash \in [Items -> Hashes]
    /\ dest = {} /\ history = {} /\ log = [r \in Runs |-> NoReport]
    /\ queue = <<>> /\ writer = "up"
    /\ run = [r \in Runs |-> NotRunning]
    /\ adder = [r \in Runs |-> [i \in Items |-> NotStarted]]
    /\ starts = 0 /\ faults = 0 /\ crashes = 0

SetRun(r, s) == run' = [run EXCEPT ![r] = s]
SetAdder(r, i, s) == adder' = [adder EXCEPT ![r] = [@ EXCEPT ![i] = s]]
At(r, i, p) == run[r].phase = "add" /\ adder[r][i].at = p
Over(p) == p \in {"ended", "error"}

-----------------------------------------------------------------------------
(* The run: scan, match, the end.                                          *)

\* run_pipeline: the hashes the destination holds now become the claims.
Start(r) ==
    /\ run[r].phase \in {"idle", "done", "failed"} /\ starts < MaxStarts
    /\ starts' = starts + 1
    /\ SetRun(r, [NotRunning EXCEPT !.phase = "match", !.claims = dest])
    /\ adder' = [adder EXCEPT ![r] = [i \in Items |-> NotStarted]]
    /\ log' = [log EXCEPT ![r] = NoReport]
    /\ UNCHANGED <<infoHash, dest, history, queue, writer, faults, crashes>>

\* match_all_sites looks only for what has no success in the history; the sites
\* know some of it.  The first report, with what the history left out, is sent and
\* flushed.
Match(r) ==
    /\ run[r].phase = "match" /\ writer = "up"
    /\ \E scanned \in SUBSET Items :
          LET known == {i \in scanned : <<i, "success">> \in history}
              report == [i \in Items |-> IF i \in known THEN "skipped" ELSE "none"]
          IN  /\ \E found \in SUBSET (scanned \ known) :
                    SetRun(r, [run[r] EXCEPT !.phase = "matched", !.matched = found,
                                             !.report = report])
              /\ queue' = queue \o
                     << [kind |-> "log", run |-> r, report |-> report],
                        [kind |-> "flush", run |-> r, item |-> NoItem] >>
    /\ UNCHANGED <<infoHash, dest, history, log, writer, adder, starts, faults,
                   crashes>>

\* An error or a shut-down ends the run before anything is added.
Fails(r) ==
    /\ run[r].phase = "match"
    /\ SetRun(r, [run[r] EXCEPT !.phase = "failed"])
    /\ UNCHANGED <<infoHash, dest, history, log, queue, writer, adder, starts,
                   faults, crashes>>

\* collect(): one error among the futures fails the run, after all have ended;
\* otherwise everything written is flushed.
Collect(r) ==
    /\ run[r].phase = "add" /\ \A i \in run[r].matched : Over(adder[r][i].at)
    /\ IF writer = "dead" \/ \E i \in run[r].matched : adder[r][i].at = "error"
       THEN SetRun(r, [run[r] EXCEPT !.phase = "failed"]) /\ UNCHANGED queue
       ELSE /\ SetRun(r, [run[r] EXCEPT !.phase = "flush"])
            /\ queue' = Append(queue, [kind |-> "flush", run |-> r, item |-> NoItem])
    /\ UNCHANGED <<infoHash, dest, history, log, writer, adder, starts, faults,
                   crashes>>

-----------------------------------------------------------------------------
(* add_torrent, one future for each match.                                 *)

Active(r) == {i \in run[r].matched :
                 adder[r][i].at # "waiting" /\ ~Over(adder[r][i].at)}

\* buffer_unordered takes up the next future; during a shut-down it only reports
\* the cancellation.
StartAdd(r, i) ==
    /\ At(r, i, "waiting") /\ i \in run[r].matched
    /\ Cardinality(Active(r)) < AddConcurrency
    /\ \E p \in {"download", "error"} :
          SetAdder(r, i, [adder[r][i] EXCEPT !.at = p,
                                             !.failedBefore = run[r].failed])
    /\ UNCHANGED <<infoHash, dest, history, log, queue, writer, run, starts, faults,
                   crashes>>

\* What the pipeline makes of an error of add_torrent.
Erred(r, i, rest) ==
    /\ SetRun(r, [rest EXCEPT !.failed = @ + 1])
    /\ SetAdder(r, i, [adder[r][i] EXCEPT !.at = "persist", !.did = "failed",
                                          !.outcome = "failed"])

\* download_torrent and the check of the pieces hash.
Download(r, i) ==
    /\ At(r, i, "download")
    /\ \/ Erred(r, i, run[r])
       \/ \E p \in {"mismatch", "claim"} :
             SetAdder(r, i, [adder[r][i] EXCEPT !.at = p]) /\ UNCHANGED run
    /\ UNCHANGED <<infoHash, dest, history, log, queue, writer, starts, faults,
                   crashes>>

\* Fault: the check without the insert, filter_by_existing_hash as it once was.
OnlyChecked(r, i) == run[r].claims
Claimed(r, i) == run[r].claims \cup {infoHash[i]}

\* The info hash is checked and claimed under one lock.
Claim(r, i) ==
    /\ At(r, i, "claim")
    /\ IF infoHash[i] \in run[r].claims
       THEN SetAdder(r, i, [adder[r][i] EXCEPT !.at = "exists"]) /\ UNCHANGED run
       ELSE /\ SetRun(r, [run[r] EXCEPT !.claims = Claimed(r, i)])
            /\ SetAdder(r, i, [adder[r][i] EXCEPT !.at = "add"])
    /\ UNCHANGED <<infoHash, dest, history, log, queue, writer, starts, faults,
                   crashes>>

\* The downloader takes the torrent (or has it) and says so, or answers with an
\* error, or its answer is lost.
Add(r, i) ==
    /\ At(r, i, "add")
    /\ \E taken, answered \in BOOLEAN :
          /\ answered => taken
          /\ dest' = IF taken THEN dest \cup {infoHash[i]} ELSE dest
          /\ SetAdder(r, i, [adder[r][i] EXCEPT !.at = IF answered THEN "taken"
                                                       ELSE "refused"])
    /\ UNCHANGED <<infoHash, history, log, queue, writer, run, starts, faults, crashes>>

LeftClaims(r, i) == run[r].claims \ {infoHash[i]}

\* "Release claim so a later retry can re-attempt."
Release(r, i) ==
    /\ At(r, i, "refused")
    /\ SetRun(r, [run[r] EXCEPT !.claims = LeftClaims(r, i)])
    /\ SetAdder(r, i, [adder[r][i] EXCEPT !.at = "released"])
    /\ UNCHANGED <<infoHash, dest, history, log, queue, writer, starts, faults,
                   crashes>>

Did(p) == CASE p = "taken" -> "added" [] p = "exists" -> "skipped" [] OTHER -> "failed"

\* Fault: an add whose answer was lost is written down as a success.
AllSuccess(p) == IF p = "exists" THEN "skipped"
                 ELSE IF p = "mismatch" THEN "failed" ELSE "success"
StatusOf(p) == CASE p = "taken" -> "success" [] p = "exists" -> "skipped"
                 [] OTHER -> "failed"

\* Ok(false) is told from "failed" by the run's counter, not by the adder.
OutcomeOf(r, i, did) ==
    CASE did = "added" -> "added"
      [] did = "failed" -> "failed"
      [] OTHER -> IF run[r].failed > adder[r][i].failedBefore THEN "failed"
                  ELSE "skipped"

Counted(r, did) ==
    CASE did = "added" -> [run[r] EXCEPT !.added = @ + 1]
      [] did = "skipped" -> [run[r] EXCEPT !.skipped = @ + 1]
      [] OTHER -> [run[r] EXCEPT !.failed = @ + 1]

\* record_history, then the counter; a writer that is gone makes it an error.
Record(r, i) ==
    \E p \in {"mismatch", "exists", "taken", "released"} :
        /\ At(r, i, p)
        /\ IF writer = "dead"
           THEN Erred(r, i, run[r]) /\ UNCHANGED queue
           ELSE /\ queue' = Append(queue, [kind |-> "history", item |-> i,
                                           status |-> StatusOf(p)])
                /\ SetRun(r, Counted(r, Did(p)))
                /\ SetAdder(r, i, [adder[r][i] EXCEPT
                       !.at = "persist", !.did = Did(p),
                       !.outcome = OutcomeOf(r, i, Did(p))])
        /\ UNCHANGED <<infoHash, dest, history, log, writer, starts, faults, crashes>>

\* Fault: the row is built from the report as it was at the run's start.
OnlyThisItem(r, i) == [NoReport EXCEPT ![i] = adder[r][i].outcome]
Merged(r, i) == [run[r].report EXCEPT ![i] = adder[r][i].outcome]

\* persist_processed_item: under the lock, the item joins the report and the whole
\* report is sent and flushed.
Persist(r, i) ==
    /\ At(r, i, "persist") /\ run[r].holder = NoItem
    /\ IF writer = "dead"
       THEN /\ SetRun(r, [run[r] EXCEPT !.report = Merged(r, i)])
            /\ SetAdder(r, i, [adder[r][i] EXCEPT !.at = "error"])
            /\ UNCHANGED queue
       ELSE /\ SetRun(r, [run[r] EXCEPT !.report = Merged(r, i), !.holder = i])
            /\ SetAdder(r, i, [adder[r][i] EXCEPT !.at = "flushing"])
            /\ queue' = queue \o
                   << [kind |-> "log", run |-> r, report |-> Merged(r, i)],
                      [kind |-> "flush", run |-> r, item |-> i] >>
    /\ UNCHANGED <<infoHash, dest, history, log, writer, starts, faults, crashes>>

-----------------------------------------------------------------------------
(* The writer, the downloader and the process.                             *)

\* The run goes on to the add phase if something matched, and is done after it.
AfterFlush(r) ==
    IF run[r].phase = "matched" /\ run[r].matched # {} THEN "add" ELSE "done"

\* A flush is answered: the adder lets go of the lock, or the run goes on.
Answered(r, i, p) ==
    IF i = NoItem
    THEN /\ SetRun(r, [run[r] EXCEPT !.phase = IF p = "ended" THEN AfterFlush(r)
                                               ELSE "failed"])
         /\ UNCHANGED adder
    ELSE /\ SetRun(r, [run[r] EXCEPT !.holder = NoItem])
         /\ SetAdder(r, i, [adder[r][i] EXCEPT !.at = p])

Commit ==
    /\ queue # <<>>
    /\ queue' = Tail(queue)
    /\ LET op == Head(queue)
       IN  CASE op.kind = "history" ->
                  /\ history' = history \cup {<<op.item, op.status>>}
                  /\ UNCHANGED <<log, run, adder>>
             [] op.kind = "log" ->
                  /\ log' = [log EXCEPT ![op.run] = op.report]
                  /\ UNCHANGED <<history, run, adder>>
             [] OTHER -> Answered(op.run, op.item, "ended") /\ UNCHANGED <<history, log>>
    /\ UNCHANGED <<infoHash, dest, writer, starts, faults, crashes>>

\* The writer is gone.
WriterDies ==
    /\ writer = "up" /\ faults < MaxFaults
    /\ faults' = faults + 1
    /\ writer' = "dead"
    /\ UNCHANGED <<infoHash, dest, history, log, queue, run, adder, starts, crashes>>

\* Fault: the responder of a lost flush is kept, and its caller waits for ever.
Forgotten(op) == UNCHANGED <<run, adder>>
Dropped(op) == Answered(op.run, op.item, "error")

\* What the dead writer held is lost: the flushes among it fail.
FlushFails ==
    /\ writer = "dead" /\ queue # <<>>
    /\ queue' = Tail(queue)
    /\ LET op == Head(queue)
       IN  IF op.kind = "flush" THEN Dropped(op) ELSE UNCHANGED <<run, adder>>
    /\ UNCHANGED <<infoHash, dest, history, log, writer, starts, faults, crashes>>

\* The process dies and starts again, with a new writer.
Crash ==
    /\ crashes < MaxCrashes
    /\ crashes' = crashes + 1
    /\ run' = [r \in Runs |-> NotRunning]
    /\ adder' = [r \in Runs |-> [i \in Items |-> NotStarted]]
    /\ queue' = <<>> /\ writer' = "up"
    /\ UNCHANGED <<infoHash, dest, history, log, starts, faults>>

AddStep(r, i) ==
    \/ StartAdd(r, i)
    \/ Download(r, i)
    \/ Claim(r, i)
    \/ Add(r, i)
    \/ Release(r, i)
    \/ Record(r, i)
    \/ Persist(r, i)

RunStep(r) ==
    \/ Match(r)
    \/ Fails(r)
    \/ Collect(r)

Next ==
    \/ \E r \in Runs : Start(r) \/ RunStep(r) \/ \E i \in Items : AddStep(r, i)
    \/ writer = "up" /\ Commit
    \/ WriterDies
    \/ FlushFails
    \/ Crash

Spec == Init /\ [][Next]_vars

\* The futures are polled, calls have time-outs, the writer keeps committing.
FairSpec ==
    /\ Spec
    /\ \A r \in Runs : WF_vars(RunStep(r)) /\ \A i \in Items : WF_vars(AddStep(r, i))
    /\ WF_vars(writer = "up" /\ Commit) /\ WF_vars(FlushFails)

-----------------------------------------------------------------------------
(* Properties.                                                             *)

\* Tables, locals, queue and counters stay within their types.
TypeOK ==
    /\ infoHash \in [Items -> Hashes] /\ dest \subseteq Hashes
    /\ history \subseteq Items \X Statuses /\ log \in [Runs -> Report]
    /\ queue \in Seq(Op) /\ writer \in {"up", "dead"}
    /\ run \in [Runs -> Run] /\ adder \in [Runs -> [Items -> Adder]]
    /\ starts \in 0 .. MaxStarts /\ faults \in 0 .. MaxFaults
    /\ crashes \in 0 .. MaxCrashes

\* "concurrent adders cannot race past the same dedup check" (adder.rs:87): two
\* adders of a run never hand the destination the same torrent.
OneAddPerHash ==
    \A r \in Runs : \A i, j \in Items :
        i # j /\ At(r, i, "add") /\ At(r, j, "add") => infoHash[i] # infoHash[j]

\* A claim is backed by the destination or by an adder still at work, so nothing is
\* skipped for ever on account of an add that failed (adder.rs:175).
ClaimsAreBacked ==
    \A r \in Runs : \A h \in run[r].claims \ dest :
        \E i \in Items : infoHash[i] = h /\ (At(r, i, "add") \/ At(r, i, "refused"))

\* The adders of a run keep apart: at most AddConcurrency are at work whatever ends
\* first, no two of them add one torrent, and a claim of theirs is not left behind.
AddersKeepApart ==
    /\ OneAddPerHash
    /\ ClaimsAreBacked
    /\ \A r \in Runs : Cardinality(Active(r)) <= AddConcurrency

Written == history \cup
    {<<queue[k].item, queue[k].status>> :
        k \in {n \in DOMAIN queue : queue[n].kind = "history"}}

\* A success in the history, which no later run looks at again, is a torrent that
\* the destination took.
SuccessIsInDestination ==
    \A i \in Items : <<i, "success">> \in Written => infoHash[i] \in dest

\* Every processed match is counted exactly once, also when its record cannot be
\* written: the counters the task log shows add up.
CountedOnce ==
    \A r \in Runs :
        run[r].added + run[r].failed + run[r].skipped
            = Cardinality({i \in Items : adder[r][i].did # "none"})

\* A finished run has the outcome of every match in its log row, although the
\* adders overwrite that row whole and concurrently.
ReportIsComplete ==
    \A r \in Runs : run[r].phase = "done" =>
        \A i \in run[r].matched : log[r][i] = adder[r][i].outcome

\* What a run shows of itself adds up: its counters and its log row, which all
\* adders share, are the outcomes of its matches.
ReportAddsUp == CountedOnce /\ ReportIsComplete

\* Every run comes to an end, also when the writer dies under it.
RunEnds ==
    \A r \in Runs : run[r].phase \in {"match", "matched", "add", "flush"}
                       ~> run[r].phase \in {"idle", "done", "failed"}
=============================================================================
