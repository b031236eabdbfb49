------------------------------ MODULE Triggers ------------------------------
(***************************************************************************)
(* Cron jobs and folder watches of the tasks                               *)
(* (crates/core/src/scheduler/cron.rs, watcher.rs, crates/server/src/      *)
(* state.rs, api/tasks.rs).                                                *)
(*                                                                         *)
(* A creation or an edit writes the row and its associations, statement by *)
(* statement.  Only when all of them have succeeded does it remove the     *)
(* task's triggers and set up new ones from the row it reads then.  A      *)
(* deletion removes them and then the row.  The registries are maps behind *)
(* locks that are taken for one access at a time, next to the scheduler    *)
(* library and the operating system's watches.                             *)
(***************************************************************************)
EXTENDS Integers, FiniteSets

CONSTANTS Tasks,            \* rows of tasks
          NoTask,           \* not a row
          Folders,          \* enabled local folders
          Expressions,      \* cron expressions that validate
          Handlers,         \* concurrent API requests
          MaxRequests,      \* bound: requests over a behaviour
          MaxRefusals       \* bound: errors after the triggers are touched

ASSUME TriggersAssumption ==
    /\ NoTask \notin Tasks
    /\ MaxRequests \in Nat /\ MaxRefusals \in Nat

NoJob == 0

VARIABLES
    row,      \* trigger_type, cron_expression, folders of each task
    known,    \* rows of folders
    live,     \* jobs in the scheduler library
    job,      \* CronScheduler.jobs
    watches,  \* FileWatcher.watches, {} for no entry
    osWatch,  \* folders the operating system watches
    handler,  \* the requests' locals
    excused,  \* tasks for which a call has failed after their triggers were touched
    raced,    \* tasks that two requests have worked on at once
    behind,   \* tasks whose row was rewritten last by a request that then failed
    applied,  \* the row that reconfigure_task_runtime has last gone by
    shared,   \* folders that two tasks have had at once
    jobs, requests, refusals

vars == <<row, known, live, job, watches, osWatch, handler, excused, raced, behind,
          applied, shared, jobs, requests, refusals>>
tables == <<row, known, behind, shared>>
arrivals == <<requests, raced>>
cron == <<live, job, jobs>>
watch == <<watches, osWatch>>
refused == <<excused, refusals>>

Trigger == [kind : {"new", "manual", "gone"}] \cup [kind : {"cron"}, expr : Expressions]
           \cup [kind : {"file_watch"}]
Manual == [kind |-> "manual"]
Row == [trigger : Trigger, folders : SUBSET Folders]
Job == [id : Nat, task : Tasks, expr : Expressions]
Points == {"idle", "folders", "rest", "cleanup", "unmap", "drop", "unwatch",
           "unwatchOs", "read", "unmapAgain", "dropAgain", "add", "map",
           "readFolders", "watchOs", "watch", "deleteRow"}
Handler == [at : Points, call : {"create", "update", "delete"}, task : Tasks \cup {NoTask},
            asked : SUBSET Folders, trigger : Trigger, held : Nat, paths : SUBSET Folders]
Bare(kind) == [trigger |-> [kind |-> kind], folders |-> {}]
Idle == [at |-> "idle", call |-> "update", task |-> NoTask, asked |-> {},
         trigger |-> Manual, held |-> NoJob, paths |-> {}]

\* Ids of tasks are not used twice: a row is new until it is created, and then gone.
Init ==
    /\ row \in [Tasks -> {Bare("new"), Bare("manual")}] /\ known = Folders
    /\ live = {} /\ job = [t \in Tasks |-> NoJob] /\ jobs = 0
    /\ watches = [t \in Tasks |-> {}] /\ osWatch = {}
    /\ handler = [h \in Handlers |-> Idle]
    /\ excused = {} /\ raced = {} /\ behind = {} /\ applied = row /\ shared = {}
    /\ requests = 0 /\ refusals = 0

Exists(t) == row[t].trigger.kind \notin {"new", "gone"}
Set(h, s) == handler' = [handler EXCEPT ![h] = s]
Go(h, p) == Set(h, [handler[h] EXCEPT !.at = p])
Done(h) == Set(h, Idle)
AtPoint(h, p) == handler[h].at = p
task(h) == handler[h].task

\* An error of a library, or of the database once the triggers have been touched,
\* ends the request; it is logged, or answered with a 500.
Refuse(h) ==
    /\ refusals < MaxRefusals
    /\ refusals' = refusals + 1 /\ excused' = excused \cup {task(h)}
    /\ Done(h)

-----------------------------------------------------------------------------
(* The requests.                                                           *)

Arrives(h, t) ==
    /\ AtPoint(h, "idle") /\ requests < MaxRequests
    /\ requests' = requests + 1
    /\ raced' = IF \E g \in Handlers : task(g) = t THEN raced \cup {t} ELSE raced

\* The row as the request has it; a row that is created begins without folders.
Rewritten(t, r) == [row EXCEPT ![t] = [@ EXCEPT !.trigger = r.trigger]]

\* PUT /tasks/:id: update_task, whose first statement writes the row.
Edit(h, t, r) ==
    /\ Arrives(h, t) /\ Exists(t)
    /\ row' = Rewritten(t, r)
    /\ Set(h, [handler[h] EXCEPT !.at = "folders", !.task = t, !.asked = r.folders])
    /\ UNCHANGED <<known, behind, shared, applied, cron, watch, refused>>

\* POST /tasks: create_task, likewise.
Create(h, t, r) ==
    /\ Arrives(h, t) /\ row[t].trigger.kind = "new"
    /\ row' = Rewritten(t, r)
    /\ Set(h, [handler[h] EXCEPT !.at = "folders", !.task = t, !.asked = r.folders,
                   !.call = "create"])
    /\ UNCHANGED <<known, behind, shared, applied, cron, watch, refused>>

\* An error after the row was written: the handler returns before it comes to the
\* triggers.  A creation takes its row back first.
Fail(h) ==
    IF handler[h].call = "create" THEN Go(h, "cleanup") /\ UNCHANGED behind
    ELSE Done(h) /\ behind' = behind \cup {task(h)}

\* The folders a task has: in its row, in its watches, or on the way between them.
Owns(t, f) ==
    \/ f \in row[t].folders \cup watches[t]
    \/ \E h \in Handlers : task(h) = t /\ f \in handler[h].paths

\* set_task_folders: one transaction, that a missing folder or task refuses.
SetFolders(h) ==
    /\ AtPoint(h, "folders")
    /\ \/ /\ handler[h].asked \subseteq known
          /\ handler[h].asked = {} \/ Exists(task(h))
          /\ row' = [row EXCEPT ![task(h)] = [@ EXCEPT !.folders = handler[h].asked]]
          /\ shared' = shared \cup {f \in handler[h].asked :
                                       \E t \in Tasks \ {task(h)} : Owns(t, f)}
          /\ Set(h, [handler[h] EXCEPT !.at = "rest", !.asked = {}])
          /\ UNCHANGED behind
       \/ Fail(h) /\ UNCHANGED <<row, shared>>
    /\ UNCHANGED <<known, arrivals, applied, cron, watch, refused>>

\* The sites, the source downloaders and next_run_at: a site may be missing, and an
\* expression that does not parse is refused only here unless the trigger is cron.
SetRest(h) ==
    /\ AtPoint(h, "rest")
    /\ \/ Go(h, "unmap") /\ UNCHANGED behind
       \/ Fail(h)
    /\ UNCHANGED <<row, known, shared, arrivals, applied, cron, watch, refused>>

\* create_task deletes the row it could not complete, and only logs it if that fails.
CleanUp(h) ==
    /\ AtPoint(h, "cleanup")
    /\ Done(h)
    /\ \/ row' = [row EXCEPT ![task(h)] = Bare("gone")] /\ behind' = behind \ {task(h)}
       \/ UNCHANGED row /\ behind' = behind \cup {task(h)}
    /\ UNCHANGED <<known, shared, arrivals, applied, cron, watch, refused>>

\* DELETE /tasks/:id: "Remove runtime BEFORE deleting the DB row."  It does not ask
\* whether there is one.
StartDelete(h, t) ==
    /\ Arrives(h, t) /\ row[t].trigger.kind # "new"
    /\ Set(h, [handler[h] EXCEPT !.at = "unmap", !.task = t, !.call = "delete"])
    /\ UNCHANGED <<tables, applied, cron, watch, refused>>

DeleteRow(h) ==
    /\ AtPoint(h, "deleteRow")
    /\ \/ /\ row' = [row EXCEPT ![task(h)] = Bare("gone")]
          /\ applied' = [applied EXCEPT ![task(h)] = Bare("gone")]
          /\ behind' = behind \ {task(h)}
          /\ Done(h) /\ UNCHANGED refused
       \/ Refuse(h) /\ UNCHANGED <<row, applied, behind>>
    /\ UNCHANGED <<known, shared, arrivals, cron, watch>>

\* DELETE /folders/:id takes the folder from the tasks and leaves the watches.
DeleteFolder(f) ==
    /\ f \in known
    /\ known' = known \ {f}
    /\ row' = [t \in Tasks |-> [row[t] EXCEPT !.folders = @ \ {f}]]
    /\ UNCHANGED <<behind, shared, arrivals, applied, cron, watch, refused, handler>>

-----------------------------------------------------------------------------
(* CronScheduler.                                                          *)

\* remove_job, called by reconfigure and again by add_job: first the map.
Unmap(h) ==
    /\ handler[h].at \in {"unmap", "unmapAgain"}
    /\ job' = [job EXCEPT ![task(h)] = NoJob]
    /\ LET again == AtPoint(h, "unmapAgain")
       IN  IF job[task(h)] = NoJob
           THEN Go(h, IF again THEN "add" ELSE "unwatch")
           ELSE Set(h, [handler[h] EXCEPT !.held = job[task(h)],
                            !.at = IF again THEN "dropAgain" ELSE "drop"])
    /\ UNCHANGED <<live, jobs, tables, arrivals, applied, watch, refused>>

\* Fault: the job leaves the map and stays in the scheduler.
KeptLive(h) == live
WithoutHeld(h) == {j \in live : j.id # handler[h].held}

\* remove_job: then the scheduler.
Drop(h) ==
    /\ handler[h].at \in {"drop", "dropAgain"}
    /\ \/ /\ live' = WithoutHeld(h)
          /\ Set(h, [handler[h] EXCEPT !.held = NoJob,
                         !.at = IF AtPoint(h, "drop") THEN "unwatch" ELSE "add"])
          /\ UNCHANGED refused
       \/ Refuse(h) /\ UNCHANGED live
    /\ UNCHANGED <<job, jobs, tables, arrivals, applied, watch>>

\* reconfigure_task_runtime goes by the row, not by the request.
CurrentRow(h) == row[task(h)]

Read(h) ==
    /\ AtPoint(h, "read")
    /\ \/ /\ LET trigger == CurrentRow(h).trigger
             IN  CASE trigger.kind = "cron" ->
                        Set(h, [handler[h] EXCEPT !.at = "unmapAgain", !.trigger = trigger])
                   [] trigger.kind = "file_watch" -> Go(h, "readFolders")
                   [] OTHER -> Done(h)
          /\ applied' = [applied EXCEPT ![task(h)] = CurrentRow(h)]
          /\ behind' = behind \ {task(h)}
          /\ UNCHANGED refused
       \/ Refuse(h) /\ UNCHANGED <<applied, behind>>
    /\ UNCHANGED <<row, known, shared, arrivals, cron, watch>>

\* Fault: the map gets the job before the scheduler has taken it.
MappedFirst(h) == [job EXCEPT ![task(h)] = jobs + 1]
MapBefore(h) == job

\* add_job: first the scheduler, which may refuse.
AddJob(h) ==
    /\ AtPoint(h, "add") /\ job' = MapBefore(h)
    /\ \/ /\ jobs' = jobs + 1
          /\ live' = live \cup {[id |-> jobs + 1, task |-> task(h),
                                 expr |-> handler[h].trigger.expr]}
          /\ Set(h, [handler[h] EXCEPT !.at = "map", !.held = jobs + 1])
          /\ UNCHANGED refused
       \/ Refuse(h) /\ UNCHANGED <<jobs, live>>
    /\ UNCHANGED <<tables, arrivals, applied, watch>>

\* add_job: then the map, whatever it holds by now.
MapJob(h) ==
    /\ AtPoint(h, "map")
    /\ job' = [job EXCEPT ![task(h)] = handler[h].held]
    /\ Done(h)
    /\ UNCHANGED <<live, jobs, tables, arrivals, applied, watch, refused>>

-----------------------------------------------------------------------------
(* FileWatcher.                                                            *)

\* unwatch_task: the entry, then every path of it in the operating system.
Unwatch(h) ==
    /\ AtPoint(h, "unwatch")
    /\ watches' = [watches EXCEPT ![task(h)] = {}]
    /\ Set(h, [handler[h] EXCEPT !.at = "unwatchOs", !.paths = watches[task(h)]])
    /\ UNCHANGED <<osWatch, tables, arrivals, applied, cron, refused>>

UnwatchOs(h) ==
    /\ AtPoint(h, "unwatchOs")
    /\ osWatch' = osWatch \ handler[h].paths
    /\ Set(h, [handler[h] EXCEPT !.paths = {},
                   !.at = IF handler[h].call = "delete" THEN "deleteRow" ELSE "read"])
    /\ UNCHANGED <<watches, tables, arrivals, applied, cron, refused>>

\* configure_file_watch_task: the task's folders; none is only a warning.
ReadFolders(h) ==
    /\ AtPoint(h, "readFolders")
    /\ \/ /\ IF row[task(h)].folders = {} THEN Done(h)
             ELSE Set(h, [handler[h] EXCEPT !.at = "watchOs", !.paths = row[task(h)].folders])
          /\ applied' = [applied EXCEPT ![task(h)] = row[task(h)]]
          /\ UNCHANGED refused
       \/ Refuse(h) /\ UNCHANGED applied
    /\ UNCHANGED <<tables, arrivals, cron, watch>>

\* watch_task: path by path in the operating system, up to an error.
WatchOs(h) ==
    /\ AtPoint(h, "watchOs")
    /\ \/ /\ osWatch' = osWatch \cup handler[h].paths
          /\ Go(h, "watch") /\ UNCHANGED refused
       \/ /\ \E some \in SUBSET handler[h].paths :
                some # handler[h].paths /\ osWatch' = osWatch \cup some
          /\ Refuse(h)
    /\ UNCHANGED <<watches, tables, arrivals, applied, cron>>

\* watch_task: then the entry.
Watch(h) ==
    /\ AtPoint(h, "watch")
    /\ watches' = [watches EXCEPT ![task(h)] = handler[h].paths]
    /\ Done(h)
    /\ UNCHANGED <<osWatch, tables, arrivals, applied, cron, refused>>

Step(h) ==
    \/ SetFolders(h)
    \/ SetRest(h)
    \/ CleanUp(h)
    \/ Unmap(h)
    \/ Drop(h)
    \/ Read(h)
    \/ AddJob(h)
    \/ MapJob(h)
    \/ Unwatch(h)
    \/ UnwatchOs(h)
    \/ ReadFolders(h)
    \/ WatchOs(h)
    \/ Watch(h)
    \/ DeleteRow(h)

Rows == {r \in Row : r.trigger.kind \notin {"new", "gone"}}

Next ==
    \/ \E h \in Handlers :
          \/ \E t \in Tasks : StartDelete(h, t) \/ \E r \in Rows : Edit(h, t, r) \/ Create(h, t, r)
          \/ Step(h)
    \/ \E f \in Folders : DeleteFolder(f)

Spec == Init /\ [][Next]_vars

-----------------------------------------------------------------------------
(* Properties.                                                             *)

Quiet == \A h \in Handlers : AtPoint(h, "idle")
JobsOf(t) == {j \in live : j.task = t}

\* Rows, registries and locals stay within their types.
TypeOK ==
    /\ row \in [Tasks -> Row] /\ known \subseteq Folders /\ live \subseteq Job
    /\ jobs \in Nat /\ job \in [Tasks -> 0 .. jobs]
    /\ watches \in [Tasks -> SUBSET Folders] /\ osWatch \subseteq Folders
    /\ handler \in [Handlers -> Handler]
    /\ excused \subseteq Tasks /\ raced \subseteq Tasks /\ behind \subseteq Tasks
    /\ applied \in [Tasks -> Row] /\ shared \subseteq Folders
    /\ requests \in 0 .. MaxRequests /\ refusals \in 0 .. MaxRefusals

\* Whatever requests race, a job in CronScheduler.jobs is a job of that task in the
\* scheduler: remove_job never fails for want of it.
MappedJobIsLive ==
    \A t \in Tasks : job[t] # NoJob =>
        \E j \in live : j.id = job[t] /\ j.task = t

\* Whatever requests race, a cron task is left without a job only by a request that
\* was answered with an error, or logged one: the last request to come to its
\* registry goes by its row.
CronTaskIsScheduled ==
    Quiet => \A t \in Tasks \ (excused \cup behind) :
        row[t].trigger.kind = "cron" => JobsOf(t) # {}

\* Requests that race for one task leave the two registries of its jobs in step.
CronJobsAreKept == MappedJobIsLive /\ CronTaskIsScheduled

\* The runtime of a row: a cron task has one job with its expression, which the map
\* knows, a file_watch task has its folders, here and with the operating system, any
\* other task has nothing.  A folder that two tasks have had may be lost: one that
\* stops takes it away from both.
RuntimeServes(t, r) ==
    /\ Cardinality(JobsOf(t)) = IF r.trigger.kind = "cron" THEN 1 ELSE 0
    /\ r.trigger.kind = "cron" =>
          \A j \in JobsOf(t) : j.expr = r.trigger.expr /\ job[t] = j.id
    /\ IF r.trigger.kind = "file_watch"
       THEN r.folders \subseteq watches[t] /\ r.folders \ shared \subseteq osWatch
       ELSE watches[t] = {}

\* As long as a task's requests come one after the other, its runtime follows its
\* row, whatever happens to other tasks.  The one exception is a request that fails
\* after it has rewritten the row: it leaves the whole runtime of the row before, to
\* the next one that succeeds.
RuntimeFollowsRows ==
    Quiet => \A t \in Tasks \ (excused \cup raced) :
        RuntimeServes(t, IF t \in behind THEN applied[t] ELSE row[t])

=============================================================================
