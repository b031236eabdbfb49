---------------------------- MODULE TaskRuntime ----------------------------
(***************************************************************************)
(* Task execution: TaskExecutor::execute, the task rows and log rows it    *)
(* works on, the API handlers that create, edit and delete a task while it *)
(* may be running, and the recovery at start-up.                           *)
(*                                                                         *)
(* Executions are started by the scheduler, by the file watcher and by the *)
(* API, any number at once and for the same task.  Every database call is  *)
(* a step of its own, so everything else may happen between two of them.   *)
(* The asynchronous writer appears by its promise (DurableLog): operations *)
(* are applied in order, a refused one is fatal, a flush waits for all     *)
(* before it.  What a run scans, matches and adds is one step here.        *)
(***************************************************************************)
EXTENDS Integers, Sequences

CONSTANTS Tasks,        \* task ids; AUTOINCREMENT never reuses one
          NoTask,       \* not a task id
          Executions,   \* slots for concurrent calls of execute
          BusyDatabase, \* may it refuse the writer any operation at all?
          MaxTriggers,  \* bound: calls of execute over a behaviour
          MaxFaults,    \* bound: database calls that fail with an error
          MaxCrashes    \* bound: times the process dies

ASSUME TaskRuntimeAssumption ==
    /\ NoTask \notin Tasks /\ BusyDatabase \in BOOLEAN
    /\ MaxTriggers \in Nat /\ MaxFaults \in Nat /\ MaxCrashes \in Nat

VARIABLES
    row,      \* the tasks table with the task_folders, task_sites... rows
    logs,     \* task_logs by id; status "gone" once the task is deleted
    run,      \* the executions: where each is, and its local variables
    writer,   \* the database writer
    queue,    \* what was sent to it
    client,   \* one create or update request: where it is, and its locals
    phase,    \* of the process: the start-up steps, then "up"
    triggers, faults, crashes

counts == <<triggers, faults, crashes>>
vars == <<row, logs, run, writer, queue, client, phase, counts>>

Kinds == {"reseed", "other"}    \* tasks.task_type; other: repost, sync_stats
Plans == {"cron", "other"}      \* tasks.trigger_type; other: manual, file_watch
Live == {"idle", "running", "error"}
Row == [status : Live \cup {"absent", "deleted"}, kind : Kinds, plan : Plans,
        whole : BOOLEAN]        \* whole: are its folders, sites, sources stored?
Log == [task : Tasks,
        status : {"running", "done", "failed", "skipped", "gone"}]

\* Between try_mark_task_running and update_task_status.
RunPoints == {"openLog", "body", "schedule", "closeLog", "flush", "await",
              "cronError", "settle"}
Run == [at : RunPoints \cup {"free", "load", "mark", "skip", "times"},
        task : Tasks \cup {NoTask}, kind : Kinds, plan : Plans, log : Nat,
        outcome : {"ok", "err", "cronErr"}]
Client == [at : {"idle", "create", "edit", "editRest"},
           task : Tasks \cup {NoTask}, kind : Kinds, plan : Plans]

NoRow(s) == [status |-> s, kind |-> "reseed", plan |-> "other", whole |-> FALSE]
NoRun == [at |-> "free", task |-> NoTask, kind |-> "reseed", plan |-> "other",
          log |-> 0, outcome |-> "ok"]
NoRequest == [at |-> "idle", task |-> NoTask, kind |-> "reseed", plan |-> "other"]

Exists(t) == t \in Tasks /\ row[t].status \in Live
Running(e) == run[e].at \in RunPoints
Up == phase = "up"
Move(e, r) == run' = [run EXCEPT ![e] = r]
Goto(e, p) == Move(e, [run[e] EXCEPT !.at = p])
Return(e) == Move(e, NoRun)

\* ON DELETE CASCADE on task_logs.task_id.
WithoutLogsOf(t) ==
    [i \in DOMAIN logs |->
        IF logs[i].task = t THEN [logs[i] EXCEPT !.status = "gone"] ELSE logs[i]]

\* Row i of task_logs updated WHERE status = 'running'.
UpdatedLog(i, s) ==
    IF logs[i].status = "running" THEN [logs EXCEPT ![i].status = s] ELSE logs

Init ==
    /\ row = [t \in Tasks |-> NoRow("absent")] /\ logs = <<>>
    /\ run = [e \in Executions |-> NoRun]
    /\ writer = "up" /\ queue = <<>>
    /\ client = NoRequest
    /\ phase = "recoverTasks" /\ triggers = 0 /\ faults = 0 /\ crashes = 0

-----------------------------------------------------------------------------
(* TaskExecutor::execute, one action per database or channel call.         *)

Trigger(e, t) ==
    /\ Up /\ run[e].at = "free" /\ triggers < MaxTriggers
    /\ row[t].status # "absent"
    /\ triggers' = triggers + 1
    /\ Move(e, [NoRun EXCEPT !.at = "load", !.task = t])
    /\ UNCHANGED <<row, logs, writer, queue, client, phase, faults, crashes>>

\* get_task: the row the whole run works with is this snapshot.  A deleted task
\* is TaskNotFound, and only reseed tasks may run dry.
Load(e, dry) ==
    LET t == run[e].task
    IN  /\ run[e].at = "load"
        /\ IF Exists(t) /\ ~(dry /\ row[t].kind # "reseed")
           THEN Move(e, [run[e] EXCEPT !.at = "mark", !.kind = row[t].kind,
                                       !.plan = row[t].plan])
           ELSE Return(e)
        /\ UNCHANGED <<row, logs, writer, queue, client, phase, counts>>

\* Fault: the UPDATE is not conditional on the status.
MarkAnyRow(t) == Exists(t)
MayMark(t) == Exists(t) /\ row[t].status # "running"

\* try_mark_task_running: one conditional UPDATE.
TryMark(e) ==
    LET t == run[e].task
    IN  /\ run[e].at = "mark"
        /\ IF MayMark(t)
           THEN /\ row' = [row EXCEPT ![t].status = "running"]
                /\ Goto(e, IF run[e].kind = "reseed" THEN "openLog" ELSE "body")
           ELSE Goto(e, "skip") /\ UNCHANGED row
        /\ UNCHANGED <<logs, writer, queue, client, phase, counts>>

Send(item) == queue' = Append(queue, item)

\* The trigger found the task running (or deleted since Load): a "skipped" log
\* goes through the writer; with the writer dead this is an error instead.
Skip(e) ==
    /\ run[e].at = "skip"
    /\ IF writer = "down"
       THEN UNCHANGED queue
       ELSE Send([op |-> "insert", task |-> run[e].task, status |-> "skipped"])
    /\ Return(e)
    /\ UNCHANGED <<row, logs, writer, client, phase, counts>>

\* insert_task_log writes the "running" row directly; the foreign key refuses it
\* once the task is gone, and the error ends execute.
OpenLog(e) ==
    /\ run[e].at = "openLog"
    /\ IF Exists(run[e].task)
       THEN /\ logs' = Append(logs, [task |-> run[e].task, status |-> "running"])
            /\ Move(e, [run[e] EXCEPT !.at = "body", !.log = Len(logs) + 1])
       ELSE Return(e) /\ UNCHANGED logs
    /\ UNCHANGED <<row, writer, queue, client, phase, counts>>

\* execute_reseed, execute_repost or execute_sync_stats, with its result.
Body(e) ==
    /\ run[e].at = "body"
    /\ \E result \in {"ok", "err"} :
          Move(e, [run[e] EXCEPT !.at = "schedule", !.outcome = result])
    /\ UNCHANGED <<row, logs, writer, queue, client, phase, counts>>

\* next_run_at_for of a cron task.  Its library may find no next occurrence; the
\* run then ends in the "error" status, whatever it did.
Schedule(e) ==
    /\ run[e].at = "schedule"
    /\ \/ Goto(e, "closeLog")
       \/ run[e].plan = "cron" /\ Goto(e, "cronError")
    /\ UNCHANGED <<row, logs, writer, queue, client, phase, counts>>

CronError(e) ==
    /\ run[e].at = "cronError"
    /\ IF run[e].log # 0 /\ writer # "down"
       THEN /\ Send([op |-> "update", id |-> run[e].log, status |-> "failed"])
            /\ Move(e, [run[e] EXCEPT !.at = "flush", !.outcome = "cronErr"])
       ELSE /\ Move(e, [run[e] EXCEPT !.at = "settle", !.outcome = "cronErr"])
            /\ UNCHANGED queue
    /\ UNCHANGED <<row, logs, writer, client, phase, counts>>

Closing(e) == IF run[e].outcome = "ok" THEN "done" ELSE "failed"

CompletionLog(e) ==
    IF run[e].log # 0
    THEN [op |-> "update", id |-> run[e].log, status |-> Closing(e)]
    ELSE [op |-> "insert", task |-> run[e].task, status |-> Closing(e)]

\* Fault: the completion log is sent but not flushed.
NoFlush == "settle"
AfterCompletionLog == "flush"

\* update_log or write_log; a dead writer is only reported.
CloseLog(e) ==
    /\ run[e].at = "closeLog"
    /\ IF writer = "down"
       THEN Goto(e, "settle") /\ UNCHANGED queue
       ELSE Send(CompletionLog(e)) /\ Goto(e, AfterCompletionLog)
    /\ UNCHANGED <<row, logs, writer, client, phase, counts>>

Flush(e) ==
    /\ run[e].at = "flush"
    /\ IF writer = "down"
       THEN Goto(e, "settle") /\ UNCHANGED queue
       ELSE Send([op |-> "flush", by |-> e]) /\ Goto(e, "await")
    /\ UNCHANGED <<row, logs, writer, client, phase, counts>>

\* Fault: the dead writer keeps the responders it holds.
NeverFails == FALSE
ResponderDropped == writer = "down"

\* flush().await fails because the writer dropped the responder.
FlushFails(e) ==
    /\ run[e].at = "await" /\ ResponderDropped
    /\ Goto(e, "settle")
    /\ UNCHANGED <<row, logs, writer, queue, client, phase, counts>>

FinalStatus(e) == IF run[e].outcome = "ok" THEN "idle" ELSE "error"

\* update_task_status: an UPDATE, so nothing happens to a deleted task.
Settle(e) ==
    LET t == run[e].task
    IN  /\ run[e].at = "settle"
        /\ row' = IF Exists(t) THEN [row EXCEPT ![t].status = FinalStatus(e)]
                  ELSE row
        /\ IF run[e].outcome = "cronErr" THEN Return(e) ELSE Goto(e, "times")
        /\ UNCHANGED <<logs, writer, queue, client, phase, counts>>

\* update_task_run_times: after the status, in a statement of its own.
RunTimes(e) ==
    /\ run[e].at = "times"
    /\ Return(e)
    /\ UNCHANGED <<row, logs, writer, queue, client, phase, counts>>

\* A database call fails and `?` leaves execute there and then.
DatabaseFault(e) ==
    /\ run[e].at \in {"load", "mark", "openLog", "settle", "times"}
    /\ faults < MaxFaults
    /\ faults' = faults + 1
    /\ Return(e)
    /\ UNCHANGED <<row, logs, writer, queue, client, phase, triggers, crashes>>

-----------------------------------------------------------------------------
(* The writer (module DbWriter), applying what it was sent.                *)

\* A foreign key refuses an insert once its task is gone; no key refuses an
\* update.
Orphan(item) == item.op = "insert" /\ ~Exists(item.task)

Applied(item) ==
    IF item.op = "update" THEN UpdatedLog(item.id, item.status)
    ELSE Append(logs, [task |-> item.task, status |-> item.status])

Receives == writer # "down" /\ queue # <<>> /\ Head(queue).op # "flush"

Apply ==
    /\ Receives /\ ~Orphan(Head(queue))
    /\ logs' = Applied(Head(queue))
    /\ queue' = Tail(queue)
    /\ UNCHANGED <<row, run, writer, client, phase, counts>>

Refuse ==
    /\ Receives /\ (Orphan(Head(queue)) \/ BusyDatabase)
    /\ writer' = "failing"
    /\ queue' = Tail(queue)
    /\ UNCHANGED <<row, logs, run, client, phase, counts>>

AnswerFlush ==
    /\ writer = "up" /\ queue # <<>> /\ Head(queue).op = "flush"
    /\ Goto(Head(queue).by, "settle")
    /\ queue' = Tail(queue)
    /\ UNCHANGED <<row, logs, writer, client, phase, counts>>

\* After a refusal the rest of that batch is still tried, then the writer ends
\* and the channel is closed with everything in it.
WriterDies ==
    /\ writer = "failing"
    /\ writer' = "down" /\ queue' = <<>>
    /\ UNCHANGED <<row, logs, run, client, phase, counts>>

-----------------------------------------------------------------------------
(* TaskManager::create_task and update_task, Repository::delete_task.      *)

DeleteRow(t) ==
    /\ row' = [row EXCEPT ![t] = NoRow("deleted")]
    /\ logs' = WithoutLogsOf(t)

CreateRow(t, k, p) ==
    /\ Up /\ client.at = "idle" /\ row[t].status = "absent"
    /\ row' = [row EXCEPT ![t] = [NoRow("idle") EXCEPT !.kind = k, !.plan = p]]
    /\ client' = [NoRequest EXCEPT !.at = "create", !.task = t]
    /\ UNCHANGED <<logs, run, writer, queue, phase, counts>>

\* persist_associations_and_schedule.
StoreAssociations ==
    /\ client.at = "create" /\ Exists(client.task)
    /\ row' = [row EXCEPT ![client.task].whole = TRUE]
    /\ client' = NoRequest
    /\ UNCHANGED <<logs, run, writer, queue, phase, counts>>

\* An unknown folder, site or downloader id, or no next occurrence: the new row is
\* deleted again.
AbandonCreate ==
    /\ client.at = "create"
    /\ DeleteRow(client.task)
    /\ client' = NoRequest
    /\ UNCHANGED <<run, writer, queue, phase, counts>>

\* update_task reads the row and refuses a running task.
CheckEdit(t, k, p) ==
    /\ Up /\ client.at = "idle" /\ row[t].status \in {"idle", "error"}
    /\ client' = [at |-> "edit", task |-> t, kind |-> k, plan |-> p]
    /\ UNCHANGED <<row, logs, run, writer, queue, phase, counts>>

EditRow ==
    LET t == client.task
    IN  /\ client.at = "edit"
        /\ row' = IF Exists(t)
                  THEN [row EXCEPT ![t].kind = client.kind, ![t].plan = client.plan]
                  ELSE row
        /\ client' = [client EXCEPT !.at = "editRest"]
        /\ UNCHANGED <<logs, run, writer, queue, phase, counts>>

\* The associations and next_run_at; an error there leaves the row as edited.
FinishEdit ==
    /\ client.at = "editRest"
    /\ client' = NoRequest
    /\ UNCHANGED <<row, logs, run, writer, queue, phase, counts>>

\* DELETE /tasks/:id asks nothing about the status.
Delete(t) ==
    /\ Up /\ Exists(t)
    /\ DeleteRow(t)
    /\ UNCHANGED <<run, writer, queue, client, phase, counts>>

-----------------------------------------------------------------------------
(* The process: death, and start_task_runtime.                             *)

Crash ==
    /\ crashes < MaxCrashes
    /\ crashes' = crashes + 1
    /\ run' = [e \in Executions |-> NoRun]
    /\ writer' = "up" /\ queue' = <<>>
    /\ client' = NoRequest
    /\ phase' = "recoverTasks"
    /\ UNCHANGED <<row, logs, triggers, faults>>

\* Fault: interrupted tasks stay as they are.
AsItWas(s) == s
Recovered(s) == IF s = "running" THEN "error" ELSE s

\* recover_interrupted_tasks, two statements outside a transaction.
RecoverTasks ==
    /\ phase = "recoverTasks"
    /\ row' = [t \in Tasks |-> [row[t] EXCEPT !.status = Recovered(@)]]
    /\ phase' = "recoverLogs"
    /\ UNCHANGED <<logs, run, writer, queue, client, counts>>

RecoverLogs ==
    /\ phase = "recoverLogs"
    /\ logs' = [i \in DOMAIN logs |->
                  IF logs[i].status = "running"
                  THEN [logs[i] EXCEPT !.status = "failed"] ELSE logs[i]]
    /\ phase' = "configure"
    /\ UNCHANGED <<row, run, writer, queue, client, counts>>

\* configure_task_runtime: one cron job that the scheduler refuses, although
\* validate_task_request accepted its expression, ends the start-up.
Configure ==
    /\ phase = "configure"
    /\ \/ phase' = "up"
       \/ (\E t \in Tasks : Exists(t) /\ row[t].plan = "cron") /\ phase' = "halted"
    /\ UNCHANGED <<row, logs, run, writer, queue, client, counts>>

ExecStep(e) ==
    \/ \E dry \in BOOLEAN : Load(e, dry)
    \/ TryMark(e)
    \/ Skip(e)
    \/ OpenLog(e)
    \/ Body(e)
    \/ Schedule(e)
    \/ CronError(e)
    \/ CloseLog(e)
    \/ Flush(e)
    \/ FlushFails(e)
    \/ Settle(e)
    \/ RunTimes(e)

WriterStep == Apply \/ Refuse \/ AnswerFlush \/ WriterDies

ApiStep ==
    \/ \E t \in Tasks :
          \/ \E k \in Kinds, p \in Plans : CreateRow(t, k, p) \/ CheckEdit(t, k, p)
          \/ Delete(t)
    \/ StoreAssociations
    \/ AbandonCreate
    \/ EditRow
    \/ FinishEdit

Boot == RecoverTasks \/ RecoverLogs \/ Configure

Next ==
    \/ \E e \in Executions : \/ \E t \in Tasks : Trigger(e, t)
                             \/ ExecStep(e)
                             \/ DatabaseFault(e)
    \/ WriterStep
    \/ ApiStep
    \/ Boot
    \/ Crash

Spec == Init /\ [][Next]_vars

\* Every spawned execution and the writer keep being polled; all network and
\* database calls of a run have time-outs, so Body ends.  Nothing obliges a
\* client, a scheduler or a crash to happen.
FairSpec == /\ Spec
            /\ \A e \in Executions : WF_vars(ExecStep(e))
            /\ WF_vars(WriterStep)
            /\ WF_vars(Boot)

-----------------------------------------------------------------------------
(* Properties.                                                             *)

\* Every table, local and message stays within its type.
TypeOK ==
    /\ row \in [Tasks -> Row]
    /\ logs \in Seq(Log)
    /\ run \in [Executions -> Run]
    /\ writer \in {"up", "failing", "down"}
    /\ client \in Client
    /\ phase \in {"up", "recoverTasks", "recoverLogs", "configure", "halted"}
    /\ triggers \in 0 .. MaxTriggers
    /\ faults \in 0 .. MaxFaults
    /\ crashes \in 0 .. MaxCrashes

\* "Concurrent triggers are skipped and logged" (executor.rs:63): however a task
\* is triggered, edited or deleted, at most one execution is inside a run of it.
OneRunPerTask ==
    \A e, f \in Executions :
        Running(e) /\ Running(f) /\ run[e].task = run[f].task => e = f

\* A task that says "running" is being run, unless a database call failed under
\* an execution: no interleaving and no restart leaves it stuck.
RunningTaskHasARun ==
    Up /\ faults = 0 =>
        \A t \in Tasks : row[t].status = "running" =>
            \E e \in Executions : Running(e) /\ run[e].task = t

OpenLogOf(t) == \E i \in DOMAIN logs : logs[i].task = t /\ logs[i].status = "running"

\* While the writer lives, a task that is not running has no open log: the
\* completion log is durable before the status flips (executor.rs:176-178).
LogClosedBeforeSettled ==
    Up /\ faults = 0 /\ writer # "down" =>
        \A t \in Tasks : row[t].status \in {"idle", "error"} => ~OpenLogOf(t)

\* No execution hangs, whatever the writer and the other executions do.
ExecutionEnds ==
    \A e \in Executions : run[e].at # "free" ~> run[e].at = "free"

=============================================================================
