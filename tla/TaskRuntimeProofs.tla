------------------------- MODULE TaskRuntimeProofs -------------------------
(***************************************************************************)
(* Safety of task execution, for any tasks, executions and bounds.         *)
(*                                                                         *)
(* OneRunPerTask is not inductive.  What keeps a second execution out is   *)
(* the status in the tasks row, so every execution inside a run must hold  *)
(* its row at "running" or have lost it to a deletion; and a flush answer  *)
(* must never wake an execution that is not waiting for it.                *)
(*                                                                         *)
(* LogClosedBeforeSettled needs more than the rows show: every open log    *)
(* row has an execution that will close it before it settles, and the      *)
(* update it has sent lies in the queue before the flush it waits for.     *)
(***************************************************************************)
EXTENDS TaskRuntime, TLAPS

ItemStatus == {"done", "failed", "skipped"}
Insert == [op : {"insert"}, task : Tasks, status : ItemStatus]
Update == [op : {"update"}, id : Nat, status : ItemStatus]
FlushItem == [op : {"flush"}, by : Executions]
Item == Insert \cup Update \cup FlushItem

\* An execution that has started knows its task.
RunsHaveTask == \A e \in Executions : run[e].at # "free" => run[e].task \in Tasks

QueueTyped == queue \in Seq(Item)

\* A queued flush has its sender waiting, and only one can be queued per sender.
FlushesAwaited ==
    \A i \in 1 .. Len(queue) :
        queue[i].op = "flush" => run[queue[i].by].at = "await"

OneFlushEach ==
    \A i, j \in 1 .. Len(queue) :
        queue[i].op = "flush" /\ queue[j].op = "flush" /\ queue[i].by = queue[j].by
            => i = j

DeadWriterHoldsNothing == writer = "down" => queue = <<>>

\* Nothing runs until the start-up is over, and it leaves no task "running".
QuietStart == ~Up => \A e \in Executions : run[e].at = "free"
RecoveredStart ==
    phase \in {"recoverLogs", "configure", "halted"} =>
        \A t \in Tasks : row[t].status # "running"

\* An execution inside a run holds its row, or the row was deleted.
RunsHoldTheirRow ==
    \A e \in Executions :
        Running(e) => row[run[e].task].status \in {"running", "deleted"}

TypeInv == TypeOK /\ RunsHaveTask /\ QueueTyped
QueueInv == FlushesAwaited /\ OneFlushEach /\ DeadWriterHoldsNothing
RunInv == QuietStart /\ RecoveredStart /\ RunsHoldTheirRow /\ OneRunPerTask
IInv == TypeInv /\ QueueInv /\ RunInv /\ RunningTaskHasARun

\* Row i will be closed: its execution e has not sent the update yet, or the update
\* is queued, before the flush that e awaits; a failing writer will answer no flush.
UpdateAt(k, i) == queue[k].op = "update" /\ queue[k].id = i
FlushAt(k, e) == queue[k].op = "flush" /\ queue[k].by = e
WillClose(e, i) ==
    \/ run[e].at \in {"body", "schedule", "closeLog", "cronError"}
    \/ run[e].at \in {"flush", "await"} /\ writer = "failing"
    \/ run[e].at = "flush" /\ \E k \in 1 .. Len(queue) : UpdateAt(k, i)
    \/ /\ run[e].at = "await"
       /\ \E k \in 1 .. Len(queue) :
             /\ UpdateAt(k, i)
             /\ \A m \in 1 .. Len(queue) : FlushAt(m, e) => k < m
Owns(e, i) == run[e].log = i /\ run[e].task = logs[i].task /\ WillClose(e, i)

Sound == Up /\ faults = 0 /\ writer # "down"
OpenLogsOwned ==
    Sound => \A i \in 1 .. Len(logs) :
                logs[i].status = "running" => \E e \in Executions : Owns(e, i)
QuietLogs ==
    phase \in {"configure", "halted"} =>
        \A i \in 1 .. Len(logs) : logs[i].status # "running"
LogInv == OpenLogsOwned /\ QuietLogs

-----------------------------------------------------------------------------
LEMMA NoRunTyped == NoRun \in Run
BY DEF NoRun, Run, Kinds, Plans

LEMMA NoRequestTyped == NoRequest \in Client
BY DEF NoRequest, Client, Kinds, Plans

LEMMA NoRowTyped ==
    ASSUME NEW s \in Live \cup {"absent", "deleted"}
    PROVE  NoRow(s) \in Row
BY DEF NoRow, Row, Kinds, Plans, Live

\* An execution record that knows its task may replace another.
LEMMA MoveTypes ==
    ASSUME TypeInv, NEW e \in Executions, NEW r \in Run,
           r.at # "free" => r.task \in Tasks, Move(e, r)
    PROVE  run' \in [Executions -> Run] /\ RunsHaveTask'
BY DEF TypeInv, TypeOK, RunsHaveTask, Move

LEMMA GotoTypes ==
    ASSUME TypeInv, NEW e \in Executions, run[e].at # "free",
           NEW p \in RunPoints \cup {"free", "load", "mark", "skip", "times"},
           Goto(e, p)
    PROVE  run' \in [Executions -> Run] /\ RunsHaveTask'
<1>1. [run[e] EXCEPT !.at = p] \in Run
  BY DEF TypeInv, TypeOK, Run
<1>2. run[e].task \in Tasks /\ [run[e] EXCEPT !.at = p].task = run[e].task
  BY DEF TypeInv, TypeOK, RunsHaveTask, Run
<1>3. QED
  BY <1>1, <1>2, MoveTypes DEF Goto

LEMMA ReturnTypes ==
    ASSUME TypeInv, NEW e \in Executions, Return(e)
    PROVE  run' \in [Executions -> Run] /\ RunsHaveTask'
BY NoRunTyped, MoveTypes DEF NoRun, Return

LEMMA SendTyped ==
    ASSUME QueueTyped, NEW item \in Item, Send(item)
    PROVE  QueueTyped'
BY DEF QueueTyped, Send

\* A deleted task leaves both tables typed.
LEMMA DeleteRowTyped ==
    ASSUME TypeOK, NEW t, DeleteRow(t)
    PROVE  row' \in [Tasks -> Row] /\ logs' \in Seq(Log)
<1>1. row' \in [Tasks -> Row]
  BY NoRowTyped DEF TypeOK, DeleteRow
<1>2. \A i \in 1 .. Len(logs) : logs[i] \in Log
  BY DEF TypeOK
<1>3. /\ DOMAIN WithoutLogsOf(t) = 1 .. Len(logs)
      /\ \A i \in 1 .. Len(logs) : WithoutLogsOf(t)[i] \in Log
  BY <1>2 DEF TypeOK, WithoutLogsOf, Log
<1>4. WithoutLogsOf(t) = [i \in 1 .. Len(logs) |-> WithoutLogsOf(t)[i]]
  BY DEF TypeOK, WithoutLogsOf
<1>5. WithoutLogsOf(t) \in [1 .. Len(logs) -> Log]
  BY <1>3, <1>4
<1>6. QED
  BY <1>1, <1>5 DEF DeleteRow, TypeOK

\* Replacing an entry of a sequence, or none if there is no such entry.
LEMMA ReplaceTyped ==
    ASSUME NEW S, NEW q \in Seq(S), NEW i, NEW x,
           i \in 1 .. Len(q) => x \in S
    PROVE  [q EXCEPT ![i] = x] \in Seq(S)
<1> DEFINE r == [q EXCEPT ![i] = x]
<1>1. r = [k \in 1 .. Len(q) |-> IF k = i THEN x ELSE q[k]]
  OBVIOUS
<1>2. \A k \in 1 .. Len(q) : (IF k = i THEN x ELSE q[k]) \in S
  OBVIOUS
<1>3. r \in [1 .. Len(q) -> S]
  BY <1>1, <1>2
<1>4. QED
  BY <1>3

LEMMA AppliedTyped ==
    ASSUME TypeOK, NEW item \in Insert \cup Update
    PROVE  Applied(item) \in Seq(Log)
<1>1. CASE item.op = "update"
  <2>1. item.status \in ItemStatus
    BY DEF Insert, Update
  <2>2. [logs EXCEPT ![item.id].status = item.status] \in Seq(Log)
    <3>1. ASSUME item.id \in 1 .. Len(logs)
          PROVE  [logs[item.id] EXCEPT !.status = item.status] \in Log
      <4>1. logs[item.id] \in Log
        BY <3>1 DEF TypeOK
      <4>2. QED
        BY <2>1, <4>1 DEF Log, ItemStatus
    <3>2. QED
      BY <3>1, ReplaceTyped DEF TypeOK
  <2>3. QED
    BY <1>1, <2>2 DEF Applied, UpdatedLog, TypeOK
<1>2. CASE item.op # "update"
  <2>1. item \in Insert
    BY <1>2 DEF Insert, Update
  <2>2. [task |-> item.task, status |-> item.status] \in Log
    BY <2>1 DEF Insert, Log, ItemStatus
  <2>3. QED
    BY <1>2, <2>2 DEF Applied, TypeOK
<1>3. QED
  BY <1>1, <1>2

\* Every step of an execution keeps the types.
LEMMA ExecTypes ==
    ASSUME TypeInv, NEW e \in Executions, ExecStep(e)
    PROVE  TypeInv'
<1> DEFINE T == run[e].task
<1>0. run[e] \in Run /\ (run[e].at # "free" => T \in Tasks)
  BY DEF TypeInv, TypeOK, RunsHaveTask
<1>1. ASSUME NEW dry \in BOOLEAN, Load(e, dry)
      PROVE  TypeInv'
  <2>1. run' \in [Executions -> Run] /\ RunsHaveTask'
    <3>1. CASE Return(e)
      BY <3>1, ReturnTypes
    <3>2. CASE Exists(T) /\ ~(dry /\ row[T].kind # "reseed")
      <4> DEFINE R == [run[e] EXCEPT !.at = "mark", !.kind = row[T].kind,
                                     !.plan = row[T].plan]
      <4>1. row[T].kind \in Kinds /\ row[T].plan \in Plans
        BY <3>2 DEF Exists, TypeInv, TypeOK, Row
      <4>2. R \in Run /\ R.task \in Tasks
        BY <1>0, <1>1, <4>1 DEF Load, Run
      <4>3. Move(e, R)
        BY <1>1, <3>2 DEF Load
      <4>4. QED
        BY <4>2, <4>3, MoveTypes
    <3>3. QED
      BY <1>1, <3>1, <3>2 DEF Load
  <2>2. QED
    BY <1>1, <2>1 DEF Load, TypeInv, TypeOK, QueueTyped, counts
<1>2. ASSUME TryMark(e)
      PROVE  TypeInv'
  <2>1. run' \in [Executions -> Run] /\ RunsHaveTask'
    BY <1>2, GotoTypes DEF TryMark, RunPoints
  <2>2. row' \in [Tasks -> Row]
    BY <1>2 DEF TryMark, TypeInv, TypeOK, Row, Live
  <2>3. QED
    BY <1>2, <2>1, <2>2 DEF TryMark, TypeInv, TypeOK, QueueTyped, counts
<1>3. ASSUME Skip(e)
      PROVE  TypeInv'
  <2>1. run' \in [Executions -> Run] /\ RunsHaveTask'
    BY <1>3, ReturnTypes DEF Skip
  <2>2. [op |-> "insert", task |-> T, status |-> "skipped"] \in Item
    BY <1>0, <1>3 DEF Skip, Item, Insert, ItemStatus
  <2>3. QueueTyped'
    BY <1>3, <2>2, SendTyped DEF Skip, TypeInv, QueueTyped
  <2>4. QED
    BY <1>3, <2>1, <2>3 DEF Skip, TypeInv, TypeOK, counts
<1>4. ASSUME OpenLog(e)
      PROVE  TypeInv'
  <2>1. run' \in [Executions -> Run] /\ RunsHaveTask'
    <3>1. CASE Return(e)
      BY <3>1, ReturnTypes
    <3>2. CASE Exists(T)
      <4> DEFINE R == [run[e] EXCEPT !.at = "body", !.log = Len(logs) + 1]
      <4>1. Len(logs) + 1 \in Nat
        BY DEF TypeInv, TypeOK
      <4>2. R \in Run /\ R.task \in Tasks
        BY <1>0, <1>4, <4>1 DEF OpenLog, Run, RunPoints
      <4>3. Move(e, R)
        BY <1>4, <3>2 DEF OpenLog
      <4>4. QED
        BY <4>2, <4>3, MoveTypes
    <3>3. QED
      BY <1>4, <3>1, <3>2 DEF OpenLog
  <2>2. logs' \in Seq(Log)
    <3>1. CASE Exists(T)
      <4>1. [task |-> T, status |-> "running"] \in Log
        BY <3>1 DEF Exists, Log
      <4>2. QED
        BY <1>4, <3>1, <4>1 DEF OpenLog, TypeInv, TypeOK
    <3>2. QED
      BY <1>4, <3>1 DEF OpenLog, TypeInv, TypeOK
  <2>3. QED
    BY <1>4, <2>1, <2>2 DEF OpenLog, TypeInv, TypeOK, QueueTyped, counts
<1>5. ASSUME Body(e)
      PROVE  TypeInv'
  <2>1. PICK result \in {"ok", "err"} :
           Move(e, [run[e] EXCEPT !.at = "schedule", !.outcome = result])
    BY <1>5 DEF Body
  <2> DEFINE R == [run[e] EXCEPT !.at = "schedule", !.outcome = result]
  <2>2. R \in Run /\ R.task \in Tasks
    BY <1>0, <1>5 DEF Body, Run, RunPoints
  <2>3. run' \in [Executions -> Run] /\ RunsHaveTask'
    BY <2>1, <2>2, MoveTypes
  <2>4. QED
    BY <1>5, <2>3 DEF Body, TypeInv, TypeOK, QueueTyped, counts
<1>6. ASSUME Schedule(e)
      PROVE  TypeInv'
  <2>1. run' \in [Executions -> Run] /\ RunsHaveTask'
    BY <1>6, GotoTypes DEF Schedule, RunPoints
  <2>2. QED
    BY <1>6, <2>1 DEF Schedule, TypeInv, TypeOK, QueueTyped, counts
<1>7. ASSUME CronError(e)
      PROVE  TypeInv'
  <2>1. PICK p \in {"flush", "settle"} :
           Move(e, [run[e] EXCEPT !.at = p, !.outcome = "cronErr"])
    BY <1>7 DEF CronError
  <2> DEFINE R == [run[e] EXCEPT !.at = p, !.outcome = "cronErr"]
  <2>2. R \in Run /\ R.task \in Tasks
    BY <1>0, <1>7 DEF CronError, Run, RunPoints
  <2>3. run' \in [Executions -> Run] /\ RunsHaveTask'
    BY <2>1, <2>2, MoveTypes
  <2>4. [op |-> "update", id |-> run[e].log, status |-> "failed"] \in Item
    BY <1>0 DEF Run, Item, Update, ItemStatus
  <2>5. QueueTyped'
    BY <1>7, <2>4, SendTyped DEF CronError, TypeInv, QueueTyped
  <2>6. QED
    BY <1>7, <2>3, <2>5 DEF CronError, TypeInv, TypeOK, counts
<1>8. ASSUME CloseLog(e)
      PROVE  TypeInv'
  <2>1. run' \in [Executions -> Run] /\ RunsHaveTask'
    BY <1>8, GotoTypes DEF CloseLog, RunPoints, AfterCompletionLog
  <2>2. run[e].log \in Nat /\ T \in Tasks
    BY <1>0, <1>8 DEF CloseLog, Run
  <2>3. CompletionLog(e) \in Item
    <3>1. Closing(e) \in ItemStatus
      BY DEF Closing, ItemStatus
    <3>2. CASE run[e].log # 0
      BY <2>2, <3>1, <3>2 DEF CompletionLog, Item, Update
    <3>3. CASE run[e].log = 0
      BY <2>2, <3>1, <3>3 DEF CompletionLog, Item, Insert
    <3>4. QED
      BY <3>2, <3>3
  <2>4. QueueTyped'
    BY <1>8, <2>3, SendTyped DEF CloseLog, TypeInv, QueueTyped
  <2>5. QED
    BY <1>8, <2>1, <2>4 DEF CloseLog, TypeInv, TypeOK, counts
<1>9. ASSUME Flush(e)
      PROVE  TypeInv'
  <2>1. run' \in [Executions -> Run] /\ RunsHaveTask'
    BY <1>9, GotoTypes DEF Flush, RunPoints
  <2>2. [op |-> "flush", by |-> e] \in Item
    BY DEF Item, FlushItem
  <2>3. QueueTyped'
    BY <1>9, <2>2, SendTyped DEF Flush, TypeInv, QueueTyped
  <2>4. QED
    BY <1>9, <2>1, <2>3 DEF Flush, TypeInv, TypeOK, counts
<1>10. ASSUME FlushFails(e)
       PROVE  TypeInv'
  <2>1. run' \in [Executions -> Run] /\ RunsHaveTask'
    BY <1>10, GotoTypes DEF FlushFails, RunPoints
  <2>2. QED
    BY <1>10, <2>1 DEF FlushFails, TypeInv, TypeOK, QueueTyped, counts
<1>11. ASSUME Settle(e)
       PROVE  TypeInv'
  <2>1. run' \in [Executions -> Run] /\ RunsHaveTask'
    BY <1>11, GotoTypes, ReturnTypes DEF Settle
  <2>2. row' \in [Tasks -> Row]
    BY <1>11 DEF Settle, TypeInv, TypeOK, Row, Live, FinalStatus
  <2>3. QED
    BY <1>11, <2>1, <2>2 DEF Settle, TypeInv, TypeOK, QueueTyped, counts
<1>12. ASSUME RunTimes(e)
       PROVE  TypeInv'
  <2>1. run' \in [Executions -> Run] /\ RunsHaveTask'
    BY <1>12, ReturnTypes DEF RunTimes
  <2>2. QED
    BY <1>12, <2>1 DEF RunTimes, TypeInv, TypeOK, QueueTyped, counts
<1>13. QED
  BY <1>1, <1>2, <1>3, <1>4, <1>5, <1>6, <1>7, <1>8, <1>9, <1>10, <1>11, <1>12
     DEF ExecStep

LEMMA WriterTypes ==
    ASSUME TypeInv, FlushesAwaited, WriterStep
    PROVE  TypeInv'
<1>1. ASSUME Apply
      PROVE  TypeInv'
  <2>1. Head(queue) \in Insert \cup Update /\ Tail(queue) \in Seq(Item)
    BY <1>1 DEF Apply, Receives, TypeInv, QueueTyped, Item, FlushItem
  <2>2. logs' \in Seq(Log)
    BY <1>1, <2>1, AppliedTyped DEF Apply, TypeInv
  <2>3. QED
    BY <1>1, <2>1, <2>2
       DEF Apply, TypeInv, TypeOK, RunsHaveTask, QueueTyped, counts
<1>2. ASSUME AnswerFlush
      PROVE  TypeInv'
  <2>1. Head(queue) \in FlushItem /\ Tail(queue) \in Seq(Item)
    BY <1>2 DEF AnswerFlush, TypeInv, QueueTyped, Item, Insert, Update
  <2>2. Head(queue).by \in Executions
    BY <2>1 DEF FlushItem
  <2>3. run[Head(queue).by].at = "await"
    BY <1>2 DEF AnswerFlush, FlushesAwaited, TypeInv, QueueTyped
  <2>4. run' \in [Executions -> Run] /\ RunsHaveTask'
    BY <1>2, <2>2, <2>3, GotoTypes DEF AnswerFlush, RunPoints
  <2>5. QED
    BY <1>2, <2>1, <2>4 DEF AnswerFlush, TypeInv, TypeOK, QueueTyped, counts
<1>3. ASSUME WriterDies
      PROVE  TypeInv'
  BY <1>3 DEF WriterDies, TypeInv, TypeOK, RunsHaveTask, QueueTyped, counts
<1>4. ASSUME Refuse
      PROVE  TypeInv'
  <2>1. Tail(queue) \in Seq(Item)
    BY <1>4 DEF Refuse, Receives, TypeInv, QueueTyped
  <2>2. QED
    BY <1>4, <2>1 DEF Refuse, TypeInv, TypeOK, RunsHaveTask, QueueTyped, counts
<1>5. QED
  BY <1>1, <1>2, <1>3, <1>4 DEF WriterStep

LEMMA ApiTypes ==
    ASSUME TypeInv, ApiStep
    PROVE  TypeInv'
<1>1. SUFFICES row' \in [Tasks -> Row] /\ logs' \in Seq(Log) /\ client' \in Client
  BY DEF ApiStep, CreateRow, CheckEdit, Delete, StoreAssociations, AbandonCreate,
         EditRow, FinishEdit, TypeInv, TypeOK, RunsHaveTask, QueueTyped, counts
<1> USE DEF TypeInv
<1>2. ASSUME NEW t \in Tasks, NEW k \in Kinds, NEW p \in Plans, CreateRow(t, k, p)
      PROVE  row' \in [Tasks -> Row] /\ logs' \in Seq(Log) /\ client' \in Client
  <2>1. [NoRow("idle") EXCEPT !.kind = k, !.plan = p] \in Row
    BY DEF NoRow, Row, Live
  <2>2. [NoRequest EXCEPT !.at = "create", !.task = t] \in Client
    BY DEF NoRequest, Client, Kinds, Plans
  <2>3. QED
    BY <1>2, <2>1, <2>2 DEF CreateRow, TypeOK
<1>3. ASSUME NEW t \in Tasks, NEW k \in Kinds, NEW p \in Plans, CheckEdit(t, k, p)
      PROVE  row' \in [Tasks -> Row] /\ logs' \in Seq(Log) /\ client' \in Client
  BY <1>3 DEF CheckEdit, TypeOK, Client
<1>4. ASSUME NEW t \in Tasks, Delete(t)
      PROVE  row' \in [Tasks -> Row] /\ logs' \in Seq(Log) /\ client' \in Client
  BY <1>4, DeleteRowTyped DEF Delete, TypeOK
<1>5. ASSUME StoreAssociations
      PROVE  row' \in [Tasks -> Row] /\ logs' \in Seq(Log) /\ client' \in Client
  BY <1>5, NoRequestTyped DEF StoreAssociations, TypeOK, Row
<1>6. ASSUME AbandonCreate
      PROVE  row' \in [Tasks -> Row] /\ logs' \in Seq(Log) /\ client' \in Client
  BY <1>6, DeleteRowTyped, NoRequestTyped DEF AbandonCreate, TypeOK
<1>7. ASSUME EditRow
      PROVE  row' \in [Tasks -> Row] /\ logs' \in Seq(Log) /\ client' \in Client
  <2>1. client.kind \in Kinds /\ client.plan \in Plans
    BY DEF TypeOK, Client
  <2>2. [client EXCEPT !.at = "editRest"] \in Client
    BY DEF TypeOK, Client
  <2>3. row' \in [Tasks -> Row]
    <3> DEFINE R == [row[client.task] EXCEPT !.kind = client.kind,
                                             !.plan = client.plan]
    <3>1. CASE Exists(client.task)
      <4>1. row[client.task] \in Row
        BY <3>1 DEF Exists, TypeOK
      <4>2. R \in Row
        BY <2>1, <4>1 DEF Row
      <4>3. row' = [row EXCEPT ![client.task] = R]
        BY <1>7, <3>1 DEF EditRow
      <4>4. QED
        BY <4>2, <4>3 DEF TypeOK
    <3>2. QED
      BY <1>7, <3>1 DEF EditRow, TypeOK
  <2>4. QED
    BY <1>7, <2>2, <2>3 DEF EditRow, TypeOK
<1>8. ASSUME FinishEdit
      PROVE  row' \in [Tasks -> Row] /\ logs' \in Seq(Log) /\ client' \in Client
  BY <1>8, NoRequestTyped DEF FinishEdit, TypeOK
<1>9. QED
  BY <1>2, <1>3, <1>4, <1>5, <1>6, <1>7, <1>8 DEF ApiStep

LEMMA BootTypes ==
    ASSUME TypeInv, Boot
    PROVE  TypeInv'
<1> USE DEF TypeInv
<1>1. ASSUME RecoverTasks
      PROVE  TypeInv'
  <2>1. \A t \in Tasks : [row[t] EXCEPT !.status = Recovered(row[t].status)] \in Row
    BY DEF TypeOK, Row, Recovered, Live
  <2>2. row' = [t \in Tasks |-> [row[t] EXCEPT !.status = Recovered(row[t].status)]]
    BY <1>1 DEF RecoverTasks
  <2>3. row' \in [Tasks -> Row]
    BY <2>1, <2>2
  <2>4. QED
    BY <1>1, <2>3 DEF RecoverTasks, TypeOK, RunsHaveTask, QueueTyped, counts
<1>2. ASSUME RecoverLogs
      PROVE  TypeInv'
  <2> DEFINE L(i) == IF logs[i].status = "running"
                     THEN [logs[i] EXCEPT !.status = "failed"] ELSE logs[i]
  <2>1. \A i \in 1 .. Len(logs) : logs[i] \in Log
    BY DEF TypeOK
  <2>2. \A i \in 1 .. Len(logs) : L(i) \in Log
    BY <2>1 DEF Log
  <2>3. logs' = [i \in 1 .. Len(logs) |-> L(i)]
    BY <1>2 DEF RecoverLogs, TypeOK
  <2> HIDE DEF L
  <2>4. logs' \in [1 .. Len(logs) -> Log]
    BY <2>2, <2>3
  <2>5. logs' \in Seq(Log)
    BY <2>4 DEF TypeOK
  <2>6. QED
    BY <1>2, <2>5 DEF RecoverLogs, TypeOK, RunsHaveTask, QueueTyped, counts
<1>3. ASSUME Configure
      PROVE  TypeInv'
  BY <1>3 DEF Configure, TypeOK, RunsHaveTask, QueueTyped, counts
<1>4. QED
  BY <1>1, <1>2, <1>3 DEF Boot

\* The types, and that executions know their task, hold across every step.
LEMMA TypesStep ==
    ASSUME TypeInv, FlushesAwaited, Next
    PROVE  TypeInv'
<1>1. ASSUME NEW e \in Executions, NEW t \in Tasks, Trigger(e, t)
      PROVE  TypeInv'
  <2> DEFINE R == [NoRun EXCEPT !.at = "load", !.task = t]
  <2>1. R \in Run /\ R.task \in Tasks
    BY DEF NoRun, Run, Kinds, Plans
  <2>2. run' \in [Executions -> Run] /\ RunsHaveTask'
    BY <1>1, <2>1, MoveTypes DEF Trigger
  <2>3. triggers' \in 0 .. MaxTriggers
    BY <1>1, TaskRuntimeAssumption DEF Trigger, TypeInv, TypeOK
  <2>4. QED
    BY <1>1, <2>2, <2>3 DEF Trigger, TypeInv, TypeOK, QueueTyped
<1>2. ASSUME NEW e \in Executions, ExecStep(e)
      PROVE  TypeInv'
  BY <1>2, ExecTypes
<1>3. ASSUME NEW e \in Executions, DatabaseFault(e)
      PROVE  TypeInv'
  <2>1. run' \in [Executions -> Run] /\ RunsHaveTask'
    BY <1>3, ReturnTypes DEF DatabaseFault
  <2>2. faults' \in 0 .. MaxFaults
    BY <1>3, TaskRuntimeAssumption DEF DatabaseFault, TypeInv, TypeOK
  <2>3. QED
    BY <1>3, <2>1, <2>2 DEF DatabaseFault, TypeInv, TypeOK, QueueTyped
<1>4. ASSUME Crash
      PROVE  TypeInv'
  <2>1. crashes' \in 0 .. MaxCrashes
    BY <1>4, TaskRuntimeAssumption DEF Crash, TypeInv, TypeOK
  <2>2. run' \in [Executions -> Run] /\ RunsHaveTask'
    BY <1>4, NoRunTyped DEF Crash, RunsHaveTask, NoRun
  <2>3. QED
    BY <1>4, <2>1, <2>2, NoRequestTyped
       DEF Crash, TypeInv, TypeOK, QueueTyped
<1>5. QED
  BY <1>1, <1>2, <1>3, <1>4, WriterTypes, ApiTypes, BootTypes DEF Next

-----------------------------------------------------------------------------
(* The queue: a flush in it has its sender waiting.                        *)

AwaitsKept == \A f \in Executions : run[f].at = "await" => run'[f].at = "await"

LEMMA AwaitsKeptByMove ==
    ASSUME TypeInv, NEW e \in Executions, run[e].at # "await", NEW r, Move(e, r)
    PROVE  AwaitsKept
BY DEF AwaitsKept, Move, TypeInv, TypeOK

LEMMA QueueKept ==
    ASSUME TypeInv, QueueInv, AwaitsKept, UNCHANGED <<queue, writer>>
    PROVE  QueueInv'
<1>1. \A i \in 1 .. Len(queue) : queue[i] \in Item
  BY DEF TypeInv, QueueTyped
<1>2. \A i \in 1 .. Len(queue) : queue[i].op = "flush" => queue[i].by \in Executions
  BY <1>1 DEF Item, Insert, Update, FlushItem
<1>3. QED
  BY <1>2 DEF QueueInv, AwaitsKept, FlushesAwaited, OneFlushEach,
              DeadWriterHoldsNothing

LEMMA QueueSent ==
    ASSUME TypeInv, QueueInv, AwaitsKept, writer # "down", writer' = writer,
           NEW item \in Item, item.op # "flush", Send(item)
    PROVE  QueueInv'
<1>1. \A i \in 1 .. Len(queue) : queue[i] \in Item
  BY DEF TypeInv, QueueTyped
<1>2. \A i \in 1 .. Len(queue) : queue[i].op = "flush" => queue[i].by \in Executions
  BY <1>1 DEF Item, Insert, Update, FlushItem
<1>3. /\ Len(queue') = Len(queue) + 1
      /\ \A i \in 1 .. Len(queue) : queue'[i] = queue[i]
      /\ queue'[Len(queue) + 1] = item
  BY DEF Send, TypeInv, QueueTyped
<1>4. \A i \in 1 .. Len(queue') :
         queue'[i].op = "flush" => i \in 1 .. Len(queue) /\ queue'[i] = queue[i]
  BY <1>3 DEF TypeInv, QueueTyped
<1>5. QED
  BY <1>2, <1>4 DEF QueueInv, AwaitsKept, FlushesAwaited, OneFlushEach,
                    DeadWriterHoldsNothing

LEMMA QueueExec ==
    ASSUME TypeInv, QueueInv, NEW e \in Executions, ExecStep(e)
    PROVE  QueueInv'
<1>0. run[e] \in Run /\ (run[e].at # "free" => run[e].task \in Tasks)
  BY DEF TypeInv, TypeOK, RunsHaveTask
<1>1. ASSUME NEW dry \in BOOLEAN, Load(e, dry)
      PROVE  QueueInv'
  BY <1>1, AwaitsKeptByMove, QueueKept DEF Load, Return
<1>2. ASSUME TryMark(e)
      PROVE  QueueInv'
  BY <1>2, AwaitsKeptByMove, QueueKept DEF TryMark, Goto
<1>3. ASSUME Skip(e)
      PROVE  QueueInv'
  <2>1. AwaitsKept
    BY <1>3, AwaitsKeptByMove DEF Skip, Return
  <2>2. CASE writer = "down"
    BY <1>3, <2>1, <2>2, QueueKept DEF Skip
  <2>3. CASE writer # "down"
    <3> DEFINE item == [op |-> "insert", task |-> run[e].task, status |-> "skipped"]
    <3>1. item \in Item /\ item.op # "flush"
      BY <1>0, <1>3 DEF Skip, Item, Insert, ItemStatus
    <3>2. Send(item) /\ writer' = writer
      BY <1>3, <2>3 DEF Skip
    <3> HIDE DEF item
    <3>3. QED
      BY <2>1, <2>3, <3>1, <3>2, QueueSent
  <2>4. QED
    BY <2>2, <2>3
<1>4. ASSUME OpenLog(e)
      PROVE  QueueInv'
  BY <1>4, AwaitsKeptByMove, QueueKept DEF OpenLog, Return
<1>5. ASSUME Body(e)
      PROVE  QueueInv'
  BY <1>5, AwaitsKeptByMove, QueueKept DEF Body
<1>6. ASSUME Schedule(e)
      PROVE  QueueInv'
  BY <1>6, AwaitsKeptByMove, QueueKept DEF Schedule, Goto
<1>7. ASSUME CronError(e)
      PROVE  QueueInv'
  <2>1. AwaitsKept
    BY <1>7, AwaitsKeptByMove DEF CronError
  <2>2. CASE UNCHANGED queue
    BY <1>7, <2>1, <2>2, QueueKept DEF CronError
  <2>3. CASE run[e].log # 0 /\ writer # "down"
    <3> DEFINE item == [op |-> "update", id |-> run[e].log, status |-> "failed"]
    <3>1. item \in Item /\ item.op # "flush"
      BY <1>0 DEF Run, Item, Update, ItemStatus
    <3>2. Send(item) /\ writer' = writer
      BY <1>7, <2>3 DEF CronError
    <3> HIDE DEF item
    <3>3. QED
      BY <2>1, <2>3, <3>1, <3>2, QueueSent
  <2>4. QED
    BY <1>7, <2>2, <2>3 DEF CronError
<1>8. ASSUME CloseLog(e)
      PROVE  QueueInv'
  <2>1. AwaitsKept
    BY <1>8, AwaitsKeptByMove DEF CloseLog, Goto
  <2>2. CASE writer = "down"
    BY <1>8, <2>1, <2>2, QueueKept DEF CloseLog
  <2>3. CASE writer # "down"
    <3>1. CompletionLog(e) \in Item /\ CompletionLog(e).op # "flush"
      <4>1. Closing(e) \in ItemStatus
        BY DEF Closing, ItemStatus
      <4>2. CASE run[e].log # 0
        BY <1>0, <4>1, <4>2 DEF CompletionLog, Item, Update, Run
      <4>3. CASE run[e].log = 0
        BY <1>0, <1>8, <4>1, <4>3 DEF CloseLog, CompletionLog, Item, Insert
      <4>4. QED
        BY <4>2, <4>3
    <3>2. Send(CompletionLog(e)) /\ writer' = writer
      BY <1>8, <2>3 DEF CloseLog
    <3>3. QED
      BY <2>1, <2>3, <3>1, <3>2, QueueSent
  <2>4. QED
    BY <2>2, <2>3
<1>9. ASSUME Flush(e)
      PROVE  QueueInv'
  <2>1. AwaitsKept
    BY <1>9, AwaitsKeptByMove DEF Flush, Goto
  <2>2. CASE writer = "down"
    BY <1>9, <2>1, <2>2, QueueKept DEF Flush
  <2>3. CASE writer # "down"
    <3> DEFINE n == Len(queue)
    <3>1. \A i \in 1 .. n : queue[i] \in Item
      BY DEF TypeInv, QueueTyped
    <3>2. \A i \in 1 .. n : queue[i].op = "flush" =>
             queue[i].by \in Executions /\ queue[i].by # e
      BY <1>9, <3>1 DEF Flush, Item, Insert, Update, FlushItem, QueueInv,
                        FlushesAwaited
    <3>3. /\ Len(queue') = n + 1
          /\ \A i \in 1 .. n : queue'[i] = queue[i]
          /\ queue'[n + 1] = [op |-> "flush", by |-> e]
      BY <1>9, <2>3 DEF Flush, Send, TypeInv, QueueTyped
    <3>4. run'[e].at = "await"
      BY <1>0, <1>9, <2>3 DEF Flush, Goto, Move, TypeInv, TypeOK, Run
    <3>5. n \in Nat
      BY DEF TypeInv, QueueTyped
    <3> HIDE DEF n
    <3>6. \A i \in 1 .. n + 1 : i \in 1 .. n \/ i = n + 1
      BY <3>5
    <3>7. FlushesAwaited'
      BY <2>1, <3>2, <3>3, <3>4, <3>6
         DEF FlushesAwaited, AwaitsKept, QueueInv, n
    <3>8. OneFlushEach'
      BY <3>2, <3>3, <3>6 DEF OneFlushEach, QueueInv, n
    <3>9. DeadWriterHoldsNothing'
      BY <1>9, <2>3 DEF Flush, DeadWriterHoldsNothing
    <3>10. QED
      BY <3>7, <3>8, <3>9 DEF QueueInv
  <2>4. QED
    BY <2>2, <2>3
<1>10. ASSUME FlushFails(e)
       PROVE  QueueInv'
  <2>1. queue = <<>> /\ queue' = <<>>
    BY <1>10 DEF FlushFails, ResponderDropped, QueueInv, DeadWriterHoldsNothing
  <2>2. QED
    BY <2>1 DEF QueueInv, FlushesAwaited, OneFlushEach, DeadWriterHoldsNothing
<1>11. ASSUME Settle(e)
       PROVE  QueueInv'
  BY <1>11, AwaitsKeptByMove, QueueKept DEF Settle, Goto, Return
<1>12. ASSUME RunTimes(e)
       PROVE  QueueInv'
  BY <1>12, AwaitsKeptByMove, QueueKept DEF RunTimes, Return
<1>13. QED
  BY <1>1, <1>2, <1>3, <1>4, <1>5, <1>6, <1>7, <1>8, <1>9, <1>10, <1>11, <1>12
     DEF ExecStep

\* An answered flush was the only one of its sender.
LEMMA QueueWriter ==
    ASSUME TypeInv, QueueInv, WriterStep
    PROVE  QueueInv'
<1>1. ASSUME queue # <<>>
      PROVE  /\ Len(queue) \in Nat \ {0}
             /\ Len(Tail(queue)) = Len(queue) - 1
             /\ \A i \in 1 .. Len(Tail(queue)) :
                   i + 1 \in 1 .. Len(queue) /\ Tail(queue)[i] = queue[i + 1]
  BY <1>1 DEF TypeInv, QueueTyped
<1>2. ASSUME NEW i \in 1 .. Len(queue), queue[i].op = "flush"
      PROVE  queue[i].by \in Executions
  <2>1. queue[i] \in Item
    BY DEF TypeInv, QueueTyped
  <2>2. QED
    BY <1>2, <2>1 DEF Item, Insert, Update, FlushItem
<1>3. ASSUME Apply \/ Refuse
      PROVE  QueueInv'
  <2>1. queue # <<>> /\ queue' = Tail(queue) /\ run' = run /\ writer' # "down"
    BY <1>3 DEF Apply, Refuse, Receives
  <2>2. QED
    BY <1>1, <1>2, <2>1 DEF QueueInv, FlushesAwaited, OneFlushEach,
                            DeadWriterHoldsNothing
<1>4. ASSUME AnswerFlush
      PROVE  QueueInv'
  <2>1. queue # <<>> /\ queue' = Tail(queue) /\ Head(queue) = queue[1]
        /\ writer' = "up"
    BY <1>4 DEF AnswerFlush, TypeInv, QueueTyped
  <2>2. \A i \in 1 .. Len(queue') :
           queue'[i].op = "flush" => queue'[i].by # Head(queue).by
    BY <1>1, <1>4, <2>1 DEF AnswerFlush, QueueInv, OneFlushEach
  <2>3. \A f \in Executions : f # Head(queue).by => run'[f] = run[f]
    BY <1>4 DEF AnswerFlush, Goto, Move, TypeInv, TypeOK
  <2>4. FlushesAwaited'
    BY <1>1, <1>2, <2>1, <2>2, <2>3 DEF QueueInv, FlushesAwaited
  <2>5. OneFlushEach' /\ DeadWriterHoldsNothing'
    BY <1>1, <2>1 DEF QueueInv, OneFlushEach, DeadWriterHoldsNothing
  <2>6. QED
    BY <2>4, <2>5 DEF QueueInv
<1>5. ASSUME WriterDies
      PROVE  QueueInv'
  BY <1>5 DEF WriterDies, QueueInv, FlushesAwaited, OneFlushEach,
              DeadWriterHoldsNothing
<1>6. QED
  BY <1>3, <1>4, <1>5 DEF WriterStep

LEMMA QueueStep ==
    ASSUME TypeInv, QueueInv, Next
    PROVE  QueueInv'
<1>1. ASSUME NEW e \in Executions, NEW t \in Tasks, Trigger(e, t)
      PROVE  QueueInv'
  BY <1>1, AwaitsKeptByMove, QueueKept DEF Trigger
<1>2. ASSUME NEW e \in Executions, ExecStep(e)
      PROVE  QueueInv'
  BY <1>2, QueueExec
<1>3. ASSUME NEW e \in Executions, DatabaseFault(e)
      PROVE  QueueInv'
  BY <1>3, AwaitsKeptByMove, QueueKept DEF DatabaseFault, Return
<1>4. ASSUME Crash
      PROVE  QueueInv'
  BY <1>4 DEF Crash, QueueInv, FlushesAwaited, OneFlushEach,
              DeadWriterHoldsNothing
<1>5. ASSUME ApiStep \/ Boot
      PROVE  QueueInv'
  <2>1. UNCHANGED <<run, queue, writer>>
    BY <1>5 DEF ApiStep, CreateRow, CheckEdit, Delete, StoreAssociations,
                AbandonCreate, EditRow, FinishEdit, Boot, RecoverTasks,
                RecoverLogs, Configure
  <2>2. AwaitsKept
    BY <2>1 DEF AwaitsKept
  <2>3. QED
    BY <2>1, <2>2, QueueKept
<1>6. QED
  BY <1>1, <1>2, <1>3, <1>4, <1>5, QueueWriter DEF Next

-----------------------------------------------------------------------------
(* One run per task.                                                       *)

MoveRunInv == RunInv /\ RunningTaskHasARun

\* An execution that stays inside its run, or outside any, disturbs nothing.
LEMMA StayPut ==
    ASSUME TypeInv, MoveRunInv, Up, NEW e \in Executions, NEW r, Move(e, r),
           r.at \in RunPoints <=> Running(e),
           Running(e) => r.task = run[e].task,
           UNCHANGED <<row, phase, faults>>
    PROVE  MoveRunInv'
<1>1. run'[e] = r /\ \A f \in Executions : f # e => run'[f] = run[f]
  BY DEF Move, TypeInv, TypeOK
<1>2. \A f \in Executions :
         /\ Running(f)' <=> Running(f)
         /\ Running(f) => run'[f].task = run[f].task
  BY <1>1 DEF Running
<1>3. RunInv'
  BY <1>2 DEF MoveRunInv, RunInv, QuietStart, RecoveredStart, RunsHoldTheirRow,
              OneRunPerTask, Up
<1>4. RunningTaskHasARun'
  BY <1>2 DEF MoveRunInv, RunningTaskHasARun, Up
<1>5. QED
  BY <1>3, <1>4 DEF MoveRunInv

\* An execution leaves its run; only the status of its own task may change.
LEMMA Leave ==
    ASSUME TypeInv, RunInv, Up, phase' = phase, NEW e \in Executions, Running(e),
           NEW r, Move(e, r), r.at \notin RunPoints,
           \A t \in Tasks \ {run[e].task} : row'[t] = row[t]
    PROVE  RunInv'
<1>1. /\ run'[e] = r /\ ~Running(e)'
      /\ \A f \in Executions : f # e => run'[f] = run[f] /\ (Running(f)' <=> Running(f))
  BY DEF Move, TypeInv, TypeOK, Running
<1>2. \A f \in Executions : Running(f) => run[f].task \in Tasks
  BY DEF TypeInv, RunsHaveTask, Running, RunPoints
<1>3. \A f \in Executions : f # e /\ Running(f) => run[f].task # run[e].task
  BY DEF RunInv, OneRunPerTask
<1>4. RunsHoldTheirRow'
  BY <1>1, <1>2, <1>3 DEF RunInv, RunsHoldTheirRow
<1>5. OneRunPerTask'
  BY <1>1 DEF RunInv, OneRunPerTask
<1>6. QuietStart' /\ RecoveredStart'
  BY DEF QuietStart, RecoveredStart, Up
<1>7. QED
  BY <1>4, <1>5, <1>6 DEF RunInv

\* What the API does to a row takes no run its hold.
LEMMA RowsChange ==
    ASSUME TypeInv, MoveRunInv, UNCHANGED <<run, phase, faults>>,
           \A t \in Tasks :
              \/ row'[t].status = row[t].status
              \/ row'[t].status = "deleted"
              \/ row[t].status = "absent" /\ row'[t].status = "idle"
    PROVE  MoveRunInv'
<1>1. \A f \in Executions : Running(f) => run[f].task \in Tasks
  BY DEF TypeInv, RunsHaveTask, Running, RunPoints
<1>2. \A f \in Executions : Running(f)' <=> Running(f)
  BY DEF Running
<1>3. RunsHoldTheirRow'
  BY <1>1, <1>2 DEF MoveRunInv, RunInv, RunsHoldTheirRow
<1>4. OneRunPerTask'
  BY <1>2 DEF MoveRunInv, RunInv, OneRunPerTask
<1>5. QuietStart' /\ RecoveredStart'
  BY DEF MoveRunInv, RunInv, QuietStart, RecoveredStart, Up
<1>6. RunningTaskHasARun'
  BY <1>2 DEF MoveRunInv, RunningTaskHasARun, Up
<1>7. QED
  BY <1>3, <1>4, <1>5, <1>6 DEF MoveRunInv, RunInv

LEMMA RunExec ==
    ASSUME TypeInv, MoveRunInv, NEW e \in Executions, ExecStep(e)
    PROVE  MoveRunInv'
<1> DEFINE T == run[e].task
<1>0. /\ run[e] \in Run
      /\ run[e].at # "free"
      /\ T \in Tasks
      /\ Up
  <2>1. run[e].at # "free"
    BY DEF ExecStep, Load, TryMark, Skip, OpenLog, Body, Schedule, CronError,
           CloseLog, Flush, FlushFails, Settle, RunTimes
  <2>2. QED
    BY <2>1 DEF TypeInv, TypeOK, RunsHaveTask, MoveRunInv, RunInv, QuietStart
<1>1. ASSUME NEW dry \in BOOLEAN, Load(e, dry)
      PROVE  MoveRunInv'
  <2>1. ~Running(e)
    BY <1>1 DEF Load, Running, RunPoints
  <2>2. PICK r : Move(e, r) /\ r.at \notin RunPoints
    <3> DEFINE R == [run[e] EXCEPT !.at = "mark", !.kind = row[T].kind,
                                   !.plan = row[T].plan]
    <3>1. R.at = "mark" /\ NoRun.at = "free"
      BY <1>0 DEF Run, NoRun
    <3>2. Move(e, R) \/ Move(e, NoRun)
      BY <1>1 DEF Load, Return
    <3> HIDE DEF R
    <3>3. QED
      BY <3>1, <3>2 DEF RunPoints
  <2>3. QED
    BY <1>0, <1>1, <2>1, <2>2, StayPut DEF Load, counts
<1>2. ASSUME TryMark(e), MayMark(T)
      PROVE  MoveRunInv'
  <2>1. row' = [row EXCEPT ![T].status = "running"] /\ phase' = phase
    BY <1>2 DEF TryMark
  <2>2. row'[T].status = "running" /\ \A t \in Tasks : t # T => row'[t] = row[t]
    BY <1>0, <2>1 DEF TypeInv, TypeOK, Row
  <2>3. row[T].status \notin {"running", "deleted"}
    BY <1>2 DEF MayMark, Exists, Live
  <2>4. \A f \in Executions : Running(f) => run[f].task \in Tasks /\ run[f].task # T
    BY <2>3 DEF MoveRunInv, RunInv, RunsHoldTheirRow, TypeInv, RunsHaveTask, Running,
                RunPoints
  <2>5. /\ Running(e)' /\ run'[e].task = T
        /\ \A f \in Executions : f # e => run'[f] = run[f]
    BY <1>0, <1>2 DEF TryMark, Goto, Move, TypeInv, TypeOK, Run, Running, RunPoints
  <2>6. \A f \in Executions : f # e => (Running(f)' <=> Running(f))
    BY <2>5 DEF Running
  <2>7. RunsHoldTheirRow'
    BY <2>2, <2>4, <2>5, <2>6 DEF MoveRunInv, RunInv, RunsHoldTheirRow
  <2>8. OneRunPerTask'
    BY <2>4, <2>5, <2>6 DEF MoveRunInv, RunInv, OneRunPerTask
  <2>9. QuietStart' /\ RecoveredStart'
    BY <1>0, <2>1 DEF QuietStart, RecoveredStart, Up
  <2>10. RunningTaskHasARun'
    <3> SUFFICES ASSUME faults' = 0, NEW t \in Tasks, row'[t].status = "running"
                 PROVE  \E f \in Executions : Running(f)' /\ run'[f].task = t
      BY DEF RunningTaskHasARun
    <3>1. CASE t = T
      BY <2>5, <3>1
    <3>2. CASE t # T
      <4>1. PICK f \in Executions : Running(f) /\ run[f].task = t
        BY <1>0, <1>2, <2>2, <3>2
           DEF TryMark, MoveRunInv, RunningTaskHasARun, counts
      <4>2. f # e
        BY <3>2, <4>1
      <4>3. QED
        BY <2>5, <2>6, <4>1, <4>2
    <3>3. QED
      BY <3>1, <3>2
  <2>11. QED
    BY <2>7, <2>8, <2>9, <2>10 DEF MoveRunInv, RunInv
<1>3. ASSUME TryMark(e), ~MayMark(T)
      PROVE  MoveRunInv'
  <2> DEFINE R == [run[e] EXCEPT !.at = "skip"]
  <2>1. Move(e, R) /\ R.at = "skip" /\ ~Running(e)
    BY <1>0, <1>3 DEF TryMark, Goto, Run, Running, RunPoints
  <2> HIDE DEF R
  <2>2. QED
    BY <1>0, <1>3, <2>1, StayPut DEF TryMark, counts, RunPoints
<1>4. ASSUME Skip(e) \/ RunTimes(e)
      PROVE  MoveRunInv'
  <2>1. Move(e, NoRun) /\ NoRun.at = "free" /\ ~Running(e)
    BY <1>4 DEF Skip, RunTimes, Return, NoRun, Running, RunPoints
  <2>2. QED
    BY <1>0, <1>4, <2>1, StayPut DEF Skip, RunTimes, counts, RunPoints
<1>5. ASSUME OpenLog(e), Exists(T)
      PROVE  MoveRunInv'
  <2> DEFINE R == [run[e] EXCEPT !.at = "body", !.log = Len(logs) + 1]
  <2>1. Move(e, R) /\ R.at = "body" /\ R.task = T /\ Running(e)
    BY <1>0, <1>5 DEF OpenLog, Run, Running, RunPoints
  <2> HIDE DEF R
  <2>2. QED
    BY <1>0, <1>5, <2>1, StayPut DEF OpenLog, counts, RunPoints
<1>6. ASSUME OpenLog(e), ~Exists(T)
      PROVE  MoveRunInv'
  <2>1. /\ Move(e, NoRun) /\ NoRun.at \notin RunPoints /\ Running(e)
        /\ UNCHANGED <<row, phase, faults>>
    BY <1>6 DEF OpenLog, Return, NoRun, Running, RunPoints, counts
  <2>2. RunInv'
    BY <1>0, <2>1, Leave DEF MoveRunInv
  <2>3. row[T].status # "running"
    BY <1>0, <1>6 DEF Exists, Live
  <2>4. \A f \in Executions : f # e => run'[f] = run[f] /\ (Running(f)' <=> Running(f))
    BY <2>1 DEF Move, TypeInv, TypeOK, Running
  <2>5. RunningTaskHasARun'
    BY <2>1, <2>3, <2>4 DEF MoveRunInv, RunningTaskHasARun, Up
  <2>6. QED
    BY <2>2, <2>5 DEF MoveRunInv
<1>7. ASSUME Body(e)
      PROVE  MoveRunInv'
  <2>1. PICK result : Move(e, [run[e] EXCEPT !.at = "schedule", !.outcome = result])
    BY <1>7 DEF Body
  <2> DEFINE R == [run[e] EXCEPT !.at = "schedule", !.outcome = result]
  <2>2. Move(e, R) /\ R.at = "schedule" /\ R.task = T /\ Running(e)
    BY <1>0, <1>7, <2>1 DEF Body, Run, Running, RunPoints
  <2> HIDE DEF R
  <2>3. QED
    BY <1>0, <1>7, <2>2, StayPut DEF Body, counts, RunPoints
<1>8. ASSUME CronError(e)
      PROVE  MoveRunInv'
  <2>1. PICK p \in {"flush", "settle"} :
           Move(e, [run[e] EXCEPT !.at = p, !.outcome = "cronErr"])
    BY <1>8 DEF CronError
  <2> DEFINE R == [run[e] EXCEPT !.at = p, !.outcome = "cronErr"]
  <2>2. Move(e, R) /\ R.at = p /\ R.task = T /\ Running(e)
    BY <1>0, <1>8, <2>1 DEF CronError, Run, Running, RunPoints
  <2> HIDE DEF R
  <2>3. QED
    BY <1>0, <1>8, <2>2, StayPut DEF CronError, counts, RunPoints
<1>9. ASSUME Schedule(e) \/ CloseLog(e) \/ Flush(e) \/ FlushFails(e)
      PROVE  MoveRunInv'
  <2>1. PICK p \in RunPoints : Move(e, [run[e] EXCEPT !.at = p])
    BY <1>9 DEF Schedule, CloseLog, Flush, FlushFails, Goto, AfterCompletionLog,
                RunPoints
  <2> DEFINE R == [run[e] EXCEPT !.at = p]
  <2>2. Running(e)
    BY <1>9 DEF Schedule, CloseLog, Flush, FlushFails, Running, RunPoints
  <2>3. Move(e, R) /\ R.at = p /\ R.task = T
    BY <1>0, <2>1 DEF Run
  <2> HIDE DEF R
  <2>4. QED
    BY <1>0, <1>9, <2>2, <2>3, StayPut
       DEF Schedule, CloseLog, Flush, FlushFails, counts
<1>10. ASSUME Settle(e)
       PROVE  MoveRunInv'
  <2> DEFINE R == [run[e] EXCEPT !.at = "times"]
  <2>1. PICK r : Move(e, r) /\ r.at \notin RunPoints
    <3>1. R.at = "times" /\ NoRun.at = "free"
      BY <1>0 DEF Run, NoRun
    <3>2. Move(e, R) \/ Move(e, NoRun)
      BY <1>10 DEF Settle, Return, Goto
    <3> HIDE DEF R
    <3>3. QED
      BY <3>1, <3>2 DEF RunPoints
  <2>2. Running(e) /\ UNCHANGED <<phase, faults>>
    BY <1>10 DEF Settle, Running, RunPoints, counts
  <2>3. \A t \in Tasks \ {T} : row'[t] = row[t]
    BY <1>10 DEF Settle, TypeInv, TypeOK
  <2>4. RunInv'
    BY <1>0, <2>1, <2>2, <2>3, Leave DEF MoveRunInv
  <2>5. row'[T].status # "running"
    <3>1. FinalStatus(e) # "running"
      BY DEF FinalStatus
    <3>2. CASE Exists(T)
      BY <1>0, <1>10, <3>1, <3>2 DEF Settle, TypeInv, TypeOK, Row
    <3>3. CASE ~Exists(T)
      BY <1>0, <1>10, <3>3 DEF Settle, Exists, Live
    <3>4. QED
      BY <3>2, <3>3
  <2>6. \A f \in Executions : f # e => run'[f] = run[f] /\ (Running(f)' <=> Running(f))
    BY <2>1 DEF Move, TypeInv, TypeOK, Running
  <2>7. RunningTaskHasARun'
    <3> SUFFICES ASSUME faults' = 0, NEW t \in Tasks, row'[t].status = "running"
                 PROVE  \E f \in Executions : Running(f)' /\ run'[f].task = t
      BY DEF RunningTaskHasARun
    <3>1. t # T /\ row[t].status = "running"
      BY <2>3, <2>5
    <3>2. PICK f \in Executions : Running(f) /\ run[f].task = t
      BY <1>0, <2>2, <3>1 DEF MoveRunInv, RunningTaskHasARun
    <3>3. QED
      BY <2>6, <3>1, <3>2
  <2>8. QED
    BY <2>4, <2>7 DEF MoveRunInv
<1>11. QED
  BY <1>1, <1>2, <1>3, <1>4, <1>5, <1>6, <1>7, <1>8, <1>9, <1>10 DEF ExecStep

LEMMA RunWriter ==
    ASSUME TypeInv, QueueInv, MoveRunInv, WriterStep
    PROVE  MoveRunInv'
<1>1. ASSUME Apply \/ Refuse \/ WriterDies
      PROVE  MoveRunInv'
  BY <1>1, RowsChange DEF Apply, Refuse, WriterDies, counts
<1>2. ASSUME AnswerFlush
      PROVE  MoveRunInv'
  <2> DEFINE e == Head(queue).by
             R == [run[e] EXCEPT !.at = "settle"]
  <2>1. Head(queue) \in Item /\ Head(queue) = queue[1] /\ 1 \in 1 .. Len(queue)
    BY <1>2 DEF AnswerFlush, TypeInv, QueueTyped
  <2>2. e \in Executions
    BY <1>2, <2>1 DEF AnswerFlush, Item, Insert, Update, FlushItem
  <2>3. run[e].at = "await" /\ run[e] \in Run
    BY <1>2, <2>1, <2>2 DEF AnswerFlush, QueueInv, FlushesAwaited, TypeInv, TypeOK
  <2>4. Up
    BY <2>2, <2>3 DEF MoveRunInv, RunInv, QuietStart
  <2>5. R.at = "settle" /\ R.task = run[e].task /\ Running(e)
    BY <2>3 DEF Run, Running, RunPoints
  <2>6. Move(e, R) /\ UNCHANGED <<row, phase, faults>>
    BY <1>2 DEF AnswerFlush, Goto, counts
  <2> HIDE DEF e, R
  <2>7. QED
    BY <2>2, <2>4, <2>5, <2>6, StayPut DEF RunPoints
<1>3. QED
  BY <1>1, <1>2 DEF WriterStep

LEMMA RunApi ==
    ASSUME TypeInv, MoveRunInv, ApiStep
    PROVE  MoveRunInv'
<1>1. UNCHANGED <<run, phase, faults>>
  BY DEF ApiStep, CreateRow, CheckEdit, Delete, StoreAssociations, AbandonCreate,
         EditRow, FinishEdit, counts
<1> DEFINE Harmless ==
      \A t \in Tasks :
         \/ row'[t].status = row[t].status
         \/ row'[t].status = "deleted"
         \/ row[t].status = "absent" /\ row'[t].status = "idle"
<1>2. ASSUME NEW t \in Tasks, NEW k \in Kinds, NEW p \in Plans, CreateRow(t, k, p)
      PROVE  Harmless
  BY <1>2 DEF CreateRow, NoRow, TypeInv, TypeOK
<1>3. ASSUME NEW t, DeleteRow(t)
      PROVE  Harmless
  BY <1>3 DEF DeleteRow, NoRow, TypeInv, TypeOK
<1>4. ASSUME StoreAssociations
      PROVE  Harmless
  BY <1>4 DEF StoreAssociations, TypeInv, TypeOK, Row
<1>5. ASSUME EditRow
      PROVE  Harmless
  <2> DEFINE R == [row[client.task] EXCEPT !.kind = client.kind, !.plan = client.plan]
  <2>1. CASE Exists(client.task)
    <3>1. client.task \in Tasks /\ row[client.task] \in Row
      BY <2>1 DEF Exists, TypeInv, TypeOK
    <3>2. R.status = row[client.task].status
      BY <3>1 DEF Row
    <3>3. row' = [row EXCEPT ![client.task] = R]
      BY <1>5, <2>1 DEF EditRow
    <3> HIDE DEF R
    <3>4. QED
      BY <3>1, <3>2, <3>3 DEF TypeInv, TypeOK
  <2>2. QED
    BY <1>5, <2>1 DEF EditRow
<1>6. Harmless
  BY <1>2, <1>3, <1>4, <1>5
     DEF ApiStep, Delete, AbandonCreate, CheckEdit, FinishEdit
<1>7. QED
  BY <1>1, <1>6, RowsChange

LEMMA RunBoot ==
    ASSUME TypeInv, MoveRunInv, Boot
    PROVE  MoveRunInv'
<1>1. run' = run /\ faults' = faults /\ \A e \in Executions : ~Running(e)
  BY DEF Boot, RecoverTasks, RecoverLogs, Configure, counts, MoveRunInv, RunInv,
         QuietStart, Up, Running, RunPoints
<1>2. QuietStart' /\ RunsHoldTheirRow' /\ OneRunPerTask'
  BY <1>1 DEF Boot, RecoverTasks, RecoverLogs, Configure, MoveRunInv, RunInv,
              QuietStart, RunsHoldTheirRow, OneRunPerTask, Running, Up
<1>3. \A t \in Tasks : row'[t].status # "running"
  <2>1. CASE RecoverTasks
    <3>1. \A t \in Tasks : row'[t].status = Recovered(row[t].status)
      BY <2>1 DEF RecoverTasks, TypeInv, TypeOK, Row
    <3>2. QED
      BY <3>1 DEF Recovered
  <2>2. CASE RecoverLogs \/ Configure
    BY <2>2 DEF RecoverLogs, Configure, MoveRunInv, RunInv, RecoveredStart
  <2>3. QED
    BY <2>1, <2>2 DEF Boot
<1>4. QED
  BY <1>2, <1>3 DEF MoveRunInv, RunInv, RecoveredStart, RunningTaskHasARun

\* One run per task, and a run behind every running task, across every step.
LEMMA RunStep ==
    ASSUME TypeInv, QueueInv, MoveRunInv, Next
    PROVE  MoveRunInv'
<1>1. ASSUME NEW e \in Executions, NEW t \in Tasks, Trigger(e, t)
      PROVE  MoveRunInv'
  <2> DEFINE R == [NoRun EXCEPT !.at = "load", !.task = t]
  <2>1. R.at = "load" /\ ~Running(e) /\ Up /\ Move(e, R)
    BY <1>1 DEF Trigger, NoRun, Running, RunPoints
  <2> HIDE DEF R
  <2>2. QED
    BY <1>1, <2>1, StayPut DEF Trigger, RunPoints
<1>2. ASSUME NEW e \in Executions, ExecStep(e)
      PROVE  MoveRunInv'
  BY <1>2, RunExec
<1>3. ASSUME NEW e \in Executions, DatabaseFault(e)
      PROVE  MoveRunInv'
  <2>1. Up /\ Move(e, NoRun) /\ NoRun.at \notin RunPoints
    BY <1>3 DEF DatabaseFault, MoveRunInv, RunInv, QuietStart, Return, NoRun, RunPoints
  <2>2. faults' # 0 /\ UNCHANGED <<row, phase>>
    BY <1>3 DEF DatabaseFault, TypeInv, TypeOK
  <2>3. CASE Running(e)
    BY <2>1, <2>2, <2>3, Leave DEF MoveRunInv, RunningTaskHasARun
  <2>4. CASE ~Running(e)
    <3>1. \A f \in Executions :
             /\ Running(f)' <=> Running(f)
             /\ Running(f) => run'[f] = run[f]
      BY <2>1, <2>4 DEF Running, Move, TypeInv, TypeOK
    <3>2. QED
      BY <2>1, <2>2, <3>1
         DEF MoveRunInv, RunInv, RunningTaskHasARun, QuietStart, RecoveredStart,
             RunsHoldTheirRow, OneRunPerTask, Up
  <2>5. QED
    BY <2>3, <2>4
<1>4. ASSUME Crash
      PROVE  MoveRunInv'
  <2>1. \A e \in Executions : run'[e].at = "free"
    BY <1>4 DEF Crash, NoRun
  <2>2. \A e \in Executions : ~Running(e)'
    BY <2>1 DEF Running, RunPoints
  <2>3. QED
    BY <1>4, <2>1, <2>2
       DEF Crash, MoveRunInv, RunInv, RunningTaskHasARun, QuietStart,
           RecoveredStart, RunsHoldTheirRow, OneRunPerTask, Up
<1>5. QED
  BY <1>1, <1>2, <1>3, <1>4, RunWriter, RunApi, RunBoot DEF Next

-----------------------------------------------------------------------------
(* Open log rows.                                                          *)

LEMMA ItemKinds ==
    ASSUME QueueTyped, NEW k \in 1 .. Len(queue)
    PROVE  /\ queue[k] \in Item
           /\ queue[k].op = "flush" => queue[k].by \in Executions
           /\ queue[k].op \in {"insert", "update", "flush"}
           /\ queue[k].op # "flush" => queue[k] \in Insert \cup Update
           /\ queue[k].op # "flush" => queue[k].status \in ItemStatus
<1>1. queue[k] \in Item
  BY DEF QueueTyped
<1>2. QED
  BY <1>1 DEF Item, Insert, Update, FlushItem

\* No log is opened, and whoever owns an open one keeps it or passes it on.
NoneOpened ==
    \A i \in 1 .. Len(logs') :
        logs'[i].status = "running" =>
            i \in 1 .. Len(logs) /\ logs[i].status = "running"
OwnersKept ==
    \A f \in Executions, i \in 1 .. Len(logs) :
        Sound /\ Owns(f, i) /\ i \in 1 .. Len(logs') /\ logs'[i].status = "running"
            => Owns(f, i)'

LEMMA LogsKept ==
    ASSUME LogInv, NoneOpened, phase' = phase, Sound' => Sound, OwnersKept
    PROVE  LogInv'
<1>1. QuietLogs'
  BY DEF LogInv, QuietLogs, NoneOpened
<1>2. OpenLogsOwned'
  <2> SUFFICES ASSUME Sound', NEW i \in 1 .. Len(logs'), logs'[i].status = "running"
               PROVE  \E f \in Executions : Owns(f, i)'
    BY DEF OpenLogsOwned
  <2>1. i \in 1 .. Len(logs) /\ logs[i].status = "running"
    BY DEF NoneOpened
  <2>2. PICK f \in Executions : Owns(f, i)
    BY <2>1 DEF LogInv, OpenLogsOwned
  <2>3. QED
    BY <2>1, <2>2 DEF OwnersKept
<1>3. QED
  BY <1>1, <1>2 DEF LogInv

\* The queue only grows, by nothing that another than e has sent as a flush.
QueueGrows(e) ==
    /\ Len(queue') \in Nat /\ Len(queue) \in Nat /\ Len(queue) <= Len(queue')
    /\ \A k \in 1 .. Len(queue) : queue'[k] = queue[k]
    /\ \A k \in 1 .. Len(queue') :
          k \notin 1 .. Len(queue) => \A f : FlushAt(k, f)' => f = e

LEMMA Grows ==
    ASSUME QueueTyped, NEW e,
           \/ UNCHANGED queue
           \/ \E item : Send(item) /\ (item.op = "flush" => item.by = e)
    PROVE  QueueGrows(e)
<1>1. CASE UNCHANGED queue
  BY <1>1 DEF QueueTyped, QueueGrows
<1>2. ASSUME NEW item, Send(item), item.op = "flush" => item.by = e
      PROVE  QueueGrows(e)
  <2>1. /\ Len(queue) \in Nat /\ Len(queue') = Len(queue) + 1
        /\ \A k \in 1 .. Len(queue) : queue'[k] = queue[k]
        /\ queue'[Len(queue) + 1] = item
    BY <1>2 DEF Send, QueueTyped
  <2>2. \A k \in 1 .. Len(queue') : k \notin 1 .. Len(queue) => k = Len(queue) + 1
    BY <2>1
  <2>3. QED
    BY <1>2, <2>1, <2>2 DEF QueueGrows, FlushAt
<1>3. QED
  BY <1>1, <1>2

\* What other executions own they keep while one makes a step.
LEMMA OthersKeep ==
    ASSUME TypeInv, NEW e \in Executions, NEW r, Move(e, r), QueueGrows(e),
           writer' = writer,
           NEW f \in Executions, f # e, NEW i, Owns(f, i), logs'[i].task = logs[i].task
    PROVE  Owns(f, i)'
<1>1. run'[f] = run[f]
  BY DEF Move, TypeInv, TypeOK
<1>2. \A k \in 1 .. Len(queue) : k \in 1 .. Len(queue') /\ (UpdateAt(k, i)' <=> UpdateAt(k, i))
  BY DEF QueueGrows, UpdateAt
<1>3. \A m \in 1 .. Len(queue') :
         FlushAt(m, f)' => m \in 1 .. Len(queue) /\ FlushAt(m, f)
  BY DEF QueueGrows, FlushAt
<1>4. WillClose(f, i)'
  BY <1>1, <1>2, <1>3 DEF Owns, WillClose
<1>5. QED
  BY <1>1, <1>4 DEF Owns

LEMMA LogExec ==
    ASSUME IInv, LogInv, NEW e \in Executions, ExecStep(e)
    PROVE  LogInv'
<1> USE DEF IInv
<1> DEFINE n == Len(queue)
<1>0. /\ run[e] \in Run
      /\ n \in Nat
      /\ Len(logs) \in Nat
      /\ phase' = phase /\ faults' = faults /\ writer' = writer
  BY DEF TypeInv, TypeOK, QueueTyped, ExecStep, Load, TryMark, Skip, OpenLog, Body,
         Schedule, CronError, CloseLog, Flush, FlushFails, Settle, RunTimes, counts
<1>1. Sound' <=> Sound
  BY <1>0 DEF Sound, Up
\* Where nothing but e's record and the queue changes, e must keep what it owns.
<1>2. ASSUME NEW r, Move(e, r), QueueGrows(e), UNCHANGED logs,
             ASSUME NEW i \in 1 .. Len(logs), Sound, Owns(e, i)
             PROVE  Owns(e, i)'
      PROVE  LogInv'
  <2>1. NoneOpened
    BY <1>2 DEF NoneOpened
  <2>2. OwnersKept
    <3> SUFFICES ASSUME NEW f \in Executions, NEW i \in 1 .. Len(logs), Sound,
                        Owns(f, i)
                 PROVE  Owns(f, i)'
      BY DEF OwnersKept
    <3>1. CASE f = e
      BY <1>2, <3>1
    <3>2. CASE f # e
      BY <1>0, <1>2, <3>2, OthersKeep
    <3>3. QED
      BY <3>1, <3>2
  <2>3. QED
    BY <1>0, <1>1, <2>1, <2>2, LogsKept
<1>3. ASSUME NEW i, Owns(e, i)
      PROVE  run[e].at \in {"body", "schedule", "closeLog", "cronError", "flush", "await"}
  BY <1>3 DEF Owns, WillClose
<1>4. ASSUME NEW dry \in BOOLEAN, Load(e, dry)
      PROVE  LogInv'
  BY <1>2, <1>3, <1>4, Grows DEF Load, Return, TypeInv
<1>5. ASSUME TryMark(e)
      PROVE  LogInv'
  BY <1>2, <1>3, <1>5, Grows DEF TryMark, Goto, TypeInv
<1>6. ASSUME Skip(e)
      PROVE  LogInv'
  <2>1. QueueGrows(e)
    BY <1>6, Grows DEF Skip, TypeInv
  <2>2. QED
    BY <1>2, <1>3, <1>6, <2>1 DEF Skip, Return
<1>7. ASSUME OpenLog(e), Exists(run[e].task)
      PROVE  LogInv'
  <2> DEFINE R == [run[e] EXCEPT !.at = "body", !.log = Len(logs) + 1]
  <2>1. Move(e, R) /\ QueueGrows(e)
    BY <1>7, Grows DEF OpenLog, TypeInv
  <2>2. /\ Len(logs') = Len(logs) + 1
        /\ \A i \in 1 .. Len(logs) : logs'[i] = logs[i]
        /\ logs'[Len(logs) + 1].task = run[e].task
    BY <1>7 DEF OpenLog, TypeInv, TypeOK
  <2>3. Up
    BY <1>7 DEF OpenLog, RunInv, QuietStart
  <2>4. QuietLogs'
    BY <1>0, <2>3 DEF QuietLogs, Up
  <2>5. OpenLogsOwned'
    <3> SUFFICES ASSUME Sound', NEW i \in 1 .. Len(logs'), logs'[i].status = "running"
                 PROVE  \E f \in Executions : Owns(f, i)'
      BY DEF OpenLogsOwned
    <3>1. CASE i = Len(logs) + 1
      <4>1. run'[e] = R
        BY <2>1 DEF Move, TypeInv, TypeOK
      <4>2. R.at = "body" /\ R.log = Len(logs) + 1 /\ R.task = run[e].task
        BY <1>0 DEF Run
      <4> HIDE DEF R
      <4>3. Owns(e, i)'
        BY <2>2, <3>1, <4>1, <4>2 DEF Owns, WillClose
      <4>4. QED
        BY <4>3
    <3>2. CASE i # Len(logs) + 1
      <4>1. i \in 1 .. Len(logs) /\ logs'[i] = logs[i]
        BY <1>0, <2>2, <3>2
      <4>2. PICK f \in Executions : Owns(f, i)
        BY <1>1, <4>1 DEF LogInv, OpenLogsOwned
      <4>3. f # e
        BY <1>3, <1>7, <4>2 DEF OpenLog
      <4>4. QED
        BY <1>0, <2>1, <4>1, <4>2, <4>3, OthersKeep
    <3>3. QED
      BY <3>1, <3>2
  <2>6. QED
    BY <2>4, <2>5 DEF LogInv
<1>8. ASSUME OpenLog(e), ~Exists(run[e].task)
      PROVE  LogInv'
  BY <1>2, <1>3, <1>8, Grows DEF OpenLog, Return, TypeInv
\* e stays before its update.
<1>9. ASSUME NEW r, Move(e, r), r.log = run[e].log, r.task = run[e].task,
             r.at \in {"schedule", "closeLog", "cronError"}, UNCHANGED <<queue, logs>>
      PROVE  LogInv'
  <2>1. run'[e] = r
    BY <1>9 DEF Move, TypeInv, TypeOK
  <2>2. ASSUME NEW i, Owns(e, i)
        PROVE  Owns(e, i)'
    BY <1>9, <2>1, <2>2 DEF Owns, WillClose
  <2>3. QueueGrows(e)
    BY <1>9, Grows DEF TypeInv
  <2>4. QED
    BY <1>2, <1>9, <2>2, <2>3
<1>10. ASSUME Body(e)
       PROVE  LogInv'
  <2>1. PICK result : Move(e, [run[e] EXCEPT !.at = "schedule", !.outcome = result])
    BY <1>10 DEF Body
  <2> DEFINE R == [run[e] EXCEPT !.at = "schedule", !.outcome = result]
  <2>2. R.at = "schedule" /\ R.log = run[e].log /\ R.task = run[e].task
    BY <1>0 DEF Run
  <2> HIDE DEF R
  <2>3. QED
    BY <1>9, <1>10, <2>1, <2>2 DEF Body, R
<1>11. ASSUME Schedule(e)
       PROVE  LogInv'
  <2>1. PICK p \in {"closeLog", "cronError"} : Move(e, [run[e] EXCEPT !.at = p])
    BY <1>11 DEF Schedule, Goto
  <2> DEFINE R == [run[e] EXCEPT !.at = p]
  <2>2. R.at = p /\ R.log = run[e].log /\ R.task = run[e].task
    BY <1>0 DEF Run
  <2> HIDE DEF R
  <2>3. QED
    BY <1>9, <1>11, <2>1, <2>2 DEF Schedule, R
\* e sends its update, or there is no writer or no log.
<1>12. ASSUME NEW r, NEW item, Move(e, r), UNCHANGED logs,
              r.log = run[e].log, r.task = run[e].task,
              \/ writer = "down" /\ UNCHANGED queue
              \/ run[e].log = 0 /\ UNCHANGED queue
              \/ /\ r.at = "flush" /\ Send(item) /\ item.op # "flush"
                 /\ run[e].log # 0 => item.op = "update" /\ item.id = run[e].log
       PROVE  LogInv'
  <2>1. QueueGrows(e)
    BY <1>12, Grows DEF TypeInv
  <2>2. ASSUME NEW i \in 1 .. Len(logs), Sound, Owns(e, i)
        PROVE  Owns(e, i)'
    <3>1. run[e].log = i /\ i # 0 /\ writer # "down"
      BY <1>0, <2>2 DEF Owns, Sound
    <3>2. /\ r.at = "flush" /\ Send(item)
          /\ item.op = "update" /\ item.id = i
      BY <1>12, <3>1
    <3>3. PICK k \in 1 .. Len(queue') : queue'[k] = item
      BY <3>2 DEF Send, TypeInv, QueueTyped
    <3>4. UpdateAt(k, i)'
      BY <3>2, <3>3 DEF UpdateAt
    <3>5. run'[e] = r
      BY <1>12 DEF Move, TypeInv, TypeOK
    <3>6. WillClose(e, i)'
      BY <3>2, <3>3, <3>4, <3>5 DEF WillClose
    <3>7. QED
      BY <1>12, <2>2, <3>5, <3>6 DEF Owns
  <2>3. QED
    BY <1>2, <1>12, <2>1, <2>2
<1>13. ASSUME CronError(e)
       PROVE  LogInv'
  <2> DEFINE item == [op |-> "update", id |-> run[e].log, status |-> "failed"]
             R(p) == [run[e] EXCEPT !.at = p, !.outcome = "cronErr"]
  <2>1. \A p \in {"flush", "settle"} :
           R(p).at = p /\ R(p).log = run[e].log /\ R(p).task = run[e].task
    BY <1>0 DEF Run
  <2>2. item.op = "update" /\ item.id = run[e].log
    OBVIOUS
  <2>3. \/ Move(e, R("flush")) /\ Send(item)
        \/ Move(e, R("settle")) /\ UNCHANGED queue /\ (run[e].log = 0 \/ writer = "down")
    BY <1>13 DEF CronError
  <2>4. UNCHANGED logs
    BY <1>13 DEF CronError
  <2> HIDE DEF item, R
  <2>5. QED
    BY <1>12, <2>1, <2>2, <2>3, <2>4
<1>14. ASSUME CloseLog(e)
       PROVE  LogInv'
  <2> DEFINE R(p) == [run[e] EXCEPT !.at = p]
  <2>1. \A p \in {"flush", "settle"} :
           R(p).at = p /\ R(p).log = run[e].log /\ R(p).task = run[e].task
    BY <1>0 DEF Run
  <2>2. /\ CompletionLog(e).op # "flush"
        /\ run[e].log # 0 => /\ CompletionLog(e).op = "update"
                             /\ CompletionLog(e).id = run[e].log
    BY DEF CompletionLog
  <2>3. \/ Move(e, R("flush")) /\ Send(CompletionLog(e))
        \/ Move(e, R("settle")) /\ UNCHANGED queue /\ writer = "down"
    BY <1>14 DEF CloseLog, Goto, AfterCompletionLog
  <2>4. UNCHANGED logs
    BY <1>14 DEF CloseLog
  <2> HIDE DEF R
  <2>5. QED
    BY <1>12, <2>1, <2>2, <2>3, <2>4
<1>15. ASSUME Flush(e), writer = "down"
       PROVE  LogInv'
  <2>1. Move(e, [run[e] EXCEPT !.at = "settle"]) /\ UNCHANGED <<queue, logs>>
    BY <1>15 DEF Flush, Goto
  <2>2. ~Sound
    BY <1>15 DEF Sound
  <2>3. QED
    BY <1>2, <2>1, <2>2, Grows DEF TypeInv
<1>16. ASSUME Flush(e), writer # "down"
       PROVE  LogInv'
  <2> DEFINE item == [op |-> "flush", by |-> e]
             R == [run[e] EXCEPT !.at = "await"]
  <2>1. Move(e, R) /\ Send(item) /\ UNCHANGED logs
    BY <1>16 DEF Flush, Goto
  <2>2. R.at = "await" /\ R.log = run[e].log /\ R.task = run[e].task
    BY <1>0 DEF Run
  <2>3. QueueGrows(e)
    <3>1. item.op = "flush" => item.by = e
      OBVIOUS
    <3> HIDE DEF item
    <3>2. QED
      BY <2>1, <3>1, Grows DEF TypeInv
  <2> HIDE DEF R
  <2>4. run'[e] = R
    BY <2>1 DEF Move, TypeInv, TypeOK
  <2>5. /\ Len(queue') = n + 1
        /\ \A k \in 1 .. n : queue'[k] = queue[k]
    BY <2>1 DEF Send, TypeInv, QueueTyped
  <2>6. \A m \in 1 .. Len(queue') : FlushAt(m, e)' => m = n + 1
    <3>1. \A m \in 1 .. n : ~FlushAt(m, e)
      BY <1>16 DEF Flush, FlushAt, QueueInv, FlushesAwaited
    <3>2. \A m \in 1 .. n : ~FlushAt(m, e)'
      BY <2>5, <3>1 DEF FlushAt
    <3>3. \A m \in 1 .. n + 1 : m \in 1 .. n \/ m = n + 1
      BY <1>0
    <3> HIDE DEF n
    <3>4. QED
      BY <2>5, <3>2, <3>3
  <2>7. ASSUME NEW i \in 1 .. Len(logs), Sound, Owns(e, i)
        PROVE  Owns(e, i)'
    <3>1. CASE writer = "failing"
      BY <1>0, <2>1, <2>2, <2>4, <2>7, <3>1 DEF Owns, WillClose
    <3>2. CASE writer # "failing"
      <4>1. PICK k \in 1 .. n : UpdateAt(k, i)
        BY <1>16, <2>7, <3>2 DEF Owns, WillClose, Flush
      <4>2. k \in 1 .. Len(queue') /\ UpdateAt(k, i)' /\ k < n + 1
        BY <1>0, <2>5, <4>1 DEF UpdateAt
      <4>3. WillClose(e, i)'
        BY <2>2, <2>4, <2>6, <4>2 DEF WillClose
      <4>4. QED
        BY <2>1, <2>2, <2>4, <2>7, <4>3 DEF Owns
    <3>3. QED
      BY <3>1, <3>2
  <2>8. QED
    BY <1>2, <2>1, <2>3, <2>7
<1>17. ASSUME FlushFails(e)
       PROVE  LogInv'
  <2>1. Move(e, [run[e] EXCEPT !.at = "settle"]) /\ UNCHANGED <<queue, logs>>
    BY <1>17 DEF FlushFails, Goto
  <2>2. ~Sound
    BY <1>17 DEF FlushFails, ResponderDropped, Sound
  <2>3. QED
    BY <1>2, <2>1, <2>2, Grows DEF TypeInv
<1>18. ASSUME Settle(e) \/ RunTimes(e)
       PROVE  LogInv'
  <2>1. PICK r : Move(e, r)
    BY <1>18 DEF Settle, RunTimes, Return, Goto
  <2>2. UNCHANGED <<queue, logs>> /\ run[e].at \in {"settle", "times"}
    BY <1>18 DEF Settle, RunTimes
  <2>3. QED
    BY <1>2, <1>3, <2>1, <2>2, Grows DEF TypeInv
<1>19. QED
  BY <1>4, <1>5, <1>6, <1>7, <1>8, <1>10, <1>11, <1>13, <1>14, <1>15, <1>16, <1>17,
     <1>18 DEF ExecStep

LEMMA LogWriter ==
    ASSUME IInv, LogInv, WriterStep
    PROVE  LogInv'
<1> USE DEF IInv
<1> DEFINE n == Len(queue)
<1>0. n \in Nat /\ Len(logs) \in Nat /\ phase' = phase /\ faults' = faults
  BY DEF TypeInv, TypeOK, QueueTyped, WriterStep, Apply, Refuse, AnswerFlush,
         WriterDies, counts
<1>1. ASSUME queue # <<>>
      PROVE  /\ n >= 1 /\ Len(Tail(queue)) = n - 1 /\ Head(queue) = queue[1]
             /\ \A k \in 1 .. n - 1 : Tail(queue)[k] = queue[k + 1]
  BY <1>1 DEF TypeInv, QueueTyped
\* Unless the head closes row i, taking it leaves the update of row i in the queue.
<1>2. ASSUME queue # <<>>, queue' = Tail(queue), writer' \in {writer, "failing"},
             writer # "down", NEW f \in Executions, run'[f] = run[f], NEW i, Owns(f, i),
             ~UpdateAt(1, i), logs'[i].task = logs[i].task
      PROVE  Owns(f, i)'
  <2>1. ASSUME NEW k \in 1 .. n, UpdateAt(k, i)
        PROVE  k - 1 \in 1 .. Len(queue') /\ UpdateAt(k - 1, i)'
    <3>1. k # 1
      BY <1>2, <2>1
    <3>2. k - 1 \in 1 .. n - 1 /\ queue'[k - 1] = queue[(k - 1) + 1] /\ (k - 1) + 1 = k
      BY <1>0, <1>1, <1>2, <3>1
    <3>3. QED
      BY <1>1, <1>2, <2>1, <3>2 DEF UpdateAt
  <2>2. ASSUME NEW m \in 1 .. Len(queue'), FlushAt(m, f)'
        PROVE  m + 1 \in 1 .. n /\ FlushAt(m + 1, f)
    <3>1. m \in 1 .. n - 1 /\ queue'[m] = queue[m + 1]
      BY <1>0, <1>1, <1>2
    <3>2. QED
      BY <1>0, <2>2, <3>1 DEF FlushAt
  <2>3. CASE run[f].at \in {"body", "schedule", "closeLog", "cronError"}
    BY <1>2, <2>3 DEF Owns, WillClose
  <2>4. CASE run[f].at \in {"flush", "await"} /\ writer = "failing"
    BY <1>2, <2>4 DEF Owns, WillClose
  <2>5. CASE run[f].at = "flush" /\ \E k \in 1 .. n : UpdateAt(k, i)
    BY <1>2, <2>1, <2>5 DEF Owns, WillClose
  <2>6. CASE /\ run[f].at = "await"
             /\ \E k \in 1 .. n : /\ UpdateAt(k, i)
                                  /\ \A m \in 1 .. n : FlushAt(m, f) => k < m
    <3>1. PICK k \in 1 .. n : UpdateAt(k, i) /\ \A m \in 1 .. n : FlushAt(m, f) => k < m
      BY <2>6
    <3>2. \A m \in 1 .. Len(queue') : FlushAt(m, f)' => k - 1 < m
      <4> SUFFICES ASSUME NEW m \in 1 .. Len(queue'), FlushAt(m, f)'
                   PROVE  k - 1 < m
        OBVIOUS
      <4>1. k < m + 1 /\ m \in Nat
        BY <1>0, <1>1, <1>2, <2>2, <3>1
      <4>2. QED
        BY <1>0, <4>1
    <3>3. QED
      BY <1>2, <2>1, <2>6, <3>1, <3>2 DEF Owns, WillClose
  <2>7. QED
    BY <1>2, <2>3, <2>4, <2>5, <2>6 DEF Owns, WillClose
<1>3. ASSUME Apply
      PROVE  LogInv'
  <2> DEFINE item == Head(queue)
  <2>1. /\ queue # <<>> /\ queue' = Tail(queue) /\ writer' = writer /\ run' = run
        /\ item = queue[1] /\ 1 \in 1 .. n /\ item.op # "flush" /\ logs' = Applied(item)
        /\ writer # "down"
    BY <1>0, <1>1, <1>3 DEF Apply, Receives
  <2>2. item.status # "running" /\ item.op \in {"insert", "update"}
    BY <2>1, ItemKinds DEF TypeInv, ItemStatus
  <2>3. CASE item.op = "update"
    <3>1. logs' = [logs EXCEPT ![item.id].status = item.status] \/ UNCHANGED logs
      BY <2>1, <2>3 DEF Applied, UpdatedLog
    <3>2. /\ Len(logs') = Len(logs)
          /\ \A i \in 1 .. Len(logs) : i # item.id => logs'[i] = logs[i]
          /\ \A i \in 1 .. Len(logs) : logs'[i].task = logs[i].task
      <4>1. \A i \in 1 .. Len(logs) : logs[i] \in Log
        BY DEF TypeInv, TypeOK
      <4> HIDE DEF item
      <4>2. CASE logs' = [logs EXCEPT ![item.id].status = item.status]
        BY <4>1, <4>2 DEF Log, TypeInv, TypeOK
      <4>3. QED
        BY <3>1, <4>2
    <3>3. \A i \in 1 .. Len(logs) : UpdateAt(1, i) => logs'[i].status # "running"
      <4>1. \A i \in 1 .. Len(logs) : logs[i] \in Log
        BY DEF TypeInv, TypeOK
      <4> SUFFICES ASSUME NEW i \in 1 .. Len(logs), item.id = i
                   PROVE  logs'[i].status # "running"
        BY <2>1 DEF UpdateAt
      <4>2. CASE logs[i].status = "running"
        <5>1. logs' = [logs EXCEPT ![i].status = item.status]
          BY <2>1, <2>3, <4>2 DEF Applied, UpdatedLog
        <5> HIDE DEF item
        <5>2. logs'[i].status = item.status
          BY <4>1, <5>1 DEF TypeInv, TypeOK, Log
        <5>3. QED
          BY <2>2, <5>2
      <4>3. CASE logs[i].status # "running"
        BY <2>1, <2>3, <4>3 DEF Applied, UpdatedLog
      <4>4. QED
        BY <4>2, <4>3
    <3>4. NoneOpened
      <4> SUFFICES ASSUME NEW i \in 1 .. Len(logs'), logs'[i].status = "running"
                   PROVE  i \in 1 .. Len(logs) /\ logs[i].status = "running"
        BY DEF NoneOpened
      <4>1. i \in 1 .. Len(logs) /\ ~UpdateAt(1, i)
        BY <3>2, <3>3
      <4>2. i # item.id
        BY <2>1, <2>3, <4>1 DEF UpdateAt
      <4>3. QED
        BY <3>2, <4>1, <4>2
    <3>5. OwnersKept
      BY <1>2, <2>1, <3>2, <3>3 DEF OwnersKept
    <3>6. QED
      BY <1>0, <2>1, <3>4, <3>5, LogsKept DEF Sound, Up
  <2>4. CASE item.op = "insert"
    <3>1. logs' = Append(logs, [task |-> item.task, status |-> item.status])
      BY <2>1, <2>4 DEF Applied
    <3>2. /\ Len(logs') = Len(logs) + 1
          /\ \A i \in 1 .. Len(logs) : logs'[i] = logs[i]
          /\ logs'[Len(logs) + 1].status # "running"
      BY <2>2, <3>1 DEF TypeInv, TypeOK
    <3>3. NoneOpened
      BY <1>0, <3>2 DEF NoneOpened
    <3>4. OwnersKept
      BY <1>2, <2>1, <2>4, <3>2 DEF OwnersKept, UpdateAt
    <3>5. QED
      BY <1>0, <2>1, <3>3, <3>4, LogsKept DEF Sound, Up
  <2>5. QED
    BY <2>2, <2>3, <2>4
\* Whoever waits for a failing writer has nothing to wait for but its death.
<1>4. ASSUME Refuse
      PROVE  LogInv'
  <2>1. /\ writer # "down" /\ writer' = "failing" /\ run' = run /\ logs' = logs
    BY <1>4 DEF Refuse, Receives
  <2>2. NoneOpened
    BY <2>1 DEF NoneOpened
  <2>3. OwnersKept
    BY <2>1 DEF OwnersKept, Owns, WillClose
  <2>4. QED
    BY <1>0, <2>1, <2>2, <2>3, LogsKept DEF Sound, Up
<1>5. ASSUME AnswerFlush
      PROVE  LogInv'
  <2> DEFINE e == Head(queue).by
  <2>1. /\ queue # <<>> /\ queue' = Tail(queue) /\ writer' = writer /\ logs' = logs
        /\ writer = "up" /\ Head(queue) = queue[1] /\ 1 \in 1 .. n
    BY <1>0, <1>1, <1>5 DEF AnswerFlush
  <2>2. FlushAt(1, e) /\ run[e].at = "await"
    BY <1>5, <2>1 DEF AnswerFlush, FlushAt, QueueInv, FlushesAwaited
  <2>3. \A f \in Executions : f # e => run'[f] = run[f]
    BY <1>5 DEF AnswerFlush, Goto, Move, TypeInv, TypeOK
  <2>4. \A i : ~UpdateAt(1, i)
    BY <2>2 DEF UpdateAt, FlushAt
  <2>5. \A i : ~Owns(e, i)
    <3> SUFFICES ASSUME NEW i, Owns(e, i)
                 PROVE  FALSE
      OBVIOUS
    <3>1. PICK k \in 1 .. n : \A m \in 1 .. n : FlushAt(m, e) => k < m
      BY <2>1, <2>2 DEF Owns, WillClose
    <3>2. k < 1
      BY <2>1, <2>2, <3>1
    <3>3. QED
      BY <1>0, <3>2
  <2> HIDE DEF e
  <2>6. NoneOpened
    BY <2>1 DEF NoneOpened
  <2>7. OwnersKept
    BY <1>2, <2>1, <2>3, <2>4, <2>5 DEF OwnersKept
  <2>8. QED
    BY <1>0, <2>1, <2>6, <2>7, LogsKept DEF Sound, Up
<1>6. ASSUME WriterDies
      PROVE  LogInv'
  BY <1>6 DEF WriterDies, LogInv, OpenLogsOwned, QuietLogs, Sound
<1>7. QED
  BY <1>3, <1>4, <1>5, <1>6 DEF WriterStep

\* A deletion takes the log rows along; other requests leave them alone.
LEMMA LogApi ==
    ASSUME IInv, LogInv, ApiStep
    PROVE  LogInv'
<1> USE DEF IInv
<1>1. UNCHANGED <<run, queue, writer, phase, faults>>
  BY DEF ApiStep, CreateRow, CheckEdit, Delete, StoreAssociations, AbandonCreate,
         EditRow, FinishEdit, counts
<1>2. UNCHANGED logs \/ \E t : logs' = WithoutLogsOf(t)
  BY DEF ApiStep, CreateRow, CheckEdit, Delete, StoreAssociations, AbandonCreate,
         EditRow, FinishEdit, DeleteRow
<1>3. /\ Len(logs') = Len(logs)
      /\ \A i \in 1 .. Len(logs) : /\ logs'[i].task = logs[i].task
                                   /\ logs'[i].status \in {logs[i].status, "gone"}
  <2>1. \A i \in 1 .. Len(logs) : logs[i] \in Log
    BY DEF TypeInv, TypeOK
  <2>2. ASSUME NEW t, logs' = WithoutLogsOf(t)
        PROVE  /\ Len(logs') = Len(logs)
               /\ \A i \in 1 .. Len(logs) :
                     /\ logs'[i].task = logs[i].task
                     /\ logs'[i].status \in {logs[i].status, "gone"}
    <3>1. /\ DOMAIN logs' = 1 .. Len(logs)
          /\ \A i \in 1 .. Len(logs) :
                logs'[i] = IF logs[i].task = t THEN [logs[i] EXCEPT !.status = "gone"]
                           ELSE logs[i]
      BY <2>2 DEF WithoutLogsOf, TypeInv, TypeOK
    <3>2. logs' \in Seq(Log)
      BY TypesStep DEF Next, TypeInv, TypeOK, QueueInv
    <3>3. QED
      BY <2>1, <3>1, <3>2 DEF Log, TypeInv, TypeOK
  <2>3. QED
    BY <1>2, <2>2
<1>4. NoneOpened
  BY <1>3 DEF NoneOpened
<1>5. OwnersKept
  BY <1>1, <1>3 DEF OwnersKept, Owns, WillClose, UpdateAt, FlushAt
<1>6. QED
  BY <1>1, <1>4, <1>5, LogsKept DEF Sound, Up

LEMMA LogBoot ==
    ASSUME IInv, LogInv, Boot
    PROVE  LogInv'
<1> USE DEF IInv
<1>1. ASSUME RecoverTasks
      PROVE  LogInv'
  BY <1>1 DEF RecoverTasks, LogInv, OpenLogsOwned, QuietLogs, Sound, Up
<1>2. ASSUME RecoverLogs
      PROVE  LogInv'
  <2>1. /\ DOMAIN logs' = 1 .. Len(logs)
        /\ \A i \in 1 .. Len(logs) :
              logs'[i] = IF logs[i].status = "running"
                         THEN [logs[i] EXCEPT !.status = "failed"] ELSE logs[i]
    BY <1>2 DEF RecoverLogs, TypeInv, TypeOK
  <2>2. logs' \in Seq(Log)
    BY <1>2, TypesStep DEF Boot, Next, TypeInv, TypeOK, QueueInv
  <2>3. \A i \in 1 .. Len(logs) : logs[i] \in Log
    BY DEF TypeInv, TypeOK
  <2>4. \A i \in 1 .. Len(logs') : logs'[i].status # "running"
    BY <2>1, <2>2, <2>3 DEF Log, TypeInv, TypeOK
  <2>5. QED
    BY <1>2, <2>4 DEF RecoverLogs, LogInv, OpenLogsOwned, QuietLogs, Sound, Up
<1>3. ASSUME Configure
      PROVE  LogInv'
  BY <1>3 DEF Configure, LogInv, OpenLogsOwned, QuietLogs
<1>4. QED
  BY <1>1, <1>2, <1>3 DEF Boot

\* Whoever opened a log row owns it until it is closed, across every step.
LEMMA LogStep ==
    ASSUME IInv, LogInv, Next
    PROVE  LogInv'
<1> USE DEF IInv
<1>1. ASSUME NEW e \in Executions, NEW t \in Tasks, Trigger(e, t)
      PROVE  LogInv'
  <2>1. PICK r : Move(e, r)
    BY <1>1 DEF Trigger
  <2>2. UNCHANGED <<logs, writer, queue, phase, faults>> /\ \A i : ~Owns(e, i)
    BY <1>1 DEF Trigger, Owns, WillClose
  <2>3. NoneOpened
    BY <2>2 DEF NoneOpened
  <2>4. QueueGrows(e)
    BY <2>2, Grows DEF TypeInv
  <2>5. OwnersKept
    BY <2>1, <2>2, <2>4, OthersKeep DEF OwnersKept
  <2>6. QED
    BY <2>2, <2>3, <2>5, LogsKept DEF Sound, Up
<1>2. ASSUME NEW e \in Executions, ExecStep(e)
      PROVE  LogInv'
  BY <1>2, LogExec
<1>3. ASSUME NEW e \in Executions, DatabaseFault(e)
      PROVE  LogInv'
  <2>1. faults' # 0 /\ UNCHANGED <<logs, phase>>
    BY <1>3 DEF DatabaseFault, TypeInv, TypeOK
  <2>2. QED
    BY <2>1 DEF LogInv, OpenLogsOwned, QuietLogs, Sound
<1>4. ASSUME Crash
      PROVE  LogInv'
  BY <1>4 DEF Crash, LogInv, OpenLogsOwned, QuietLogs, Sound, Up
<1>5. QED
  BY <1>1, <1>2, <1>3, <1>4, LogWriter, LogApi, LogBoot DEF Next

-----------------------------------------------------------------------------
(* The theorems.                                                           *)

LEMMA InitInv == Init => IInv
<1> SUFFICES ASSUME Init PROVE IInv
  OBVIOUS
<1>1. TypeInv
  BY NoRunTyped, NoRowTyped, NoRequestTyped, TaskRuntimeAssumption
     DEF Init, TypeInv, TypeOK, RunsHaveTask, QueueTyped, NoRun
<1>2. QueueInv
  BY DEF Init, QueueInv, FlushesAwaited, OneFlushEach, DeadWriterHoldsNothing
<1>3. RunInv /\ RunningTaskHasARun
  BY DEF Init, RunInv, RunningTaskHasARun, QuietStart, RecoveredStart,
         RunsHoldTheirRow, OneRunPerTask, Running, RunPoints, NoRun, Up
<1>4. QED
  BY <1>1, <1>2, <1>3 DEF IInv

LEMMA NextInv == IInv /\ [Next]_vars => IInv'
<1> SUFFICES ASSUME IInv, [Next]_vars PROVE IInv'
  OBVIOUS
<1>1. CASE Next
  BY <1>1, TypesStep, QueueStep, RunStep DEF IInv, MoveRunInv, QueueInv
<1>2. CASE UNCHANGED vars
  BY <1>2 DEF IInv, TypeInv, QueueInv, RunInv, TypeOK, RunsHaveTask, QueueTyped,
              FlushesAwaited, OneFlushEach, DeadWriterHoldsNothing, QuietStart,
              RecoveredStart, RunsHoldTheirRow, OneRunPerTask, RunningTaskHasARun,
              Running, Up, vars, counts
<1>3. QED
  BY <1>1, <1>2

LEMMA InvHolds == Spec => []IInv
  BY InitInv, NextInv, PTL DEF Spec

\* Tables, locals and counters stay within their types.
THEOREM TypeCorrect == Spec => []TypeOK
<1>1. IInv => TypeOK
  BY DEF IInv, TypeInv
<1>2. QED
  BY <1>1, InvHolds, PTL

\* However tasks are triggered, edited, deleted, recovered and however database
\* calls fail, two executions are never inside a run of the same task.
THEOREM AtMostOneRun == Spec => []OneRunPerTask
<1>1. IInv => OneRunPerTask
  BY DEF IInv, RunInv
<1>2. QED
  BY <1>1, InvHolds, PTL

\* While no database call has failed, a task is "running" only while an execution
\* works on it: crashes, edits and deletions never leave it stuck.
THEOREM NoStuckTask == Spec => []RunningTaskHasARun
<1>1. IInv => RunningTaskHasARun
  BY DEF IInv
<1>2. QED
  BY <1>1, InvHolds, PTL

LEMMA LogInvHolds == Spec => []LogInv
<1>1. Init => LogInv
  BY DEF Init, LogInv, OpenLogsOwned, QuietLogs, Sound, Up
<1>2. IInv /\ LogInv /\ [Next]_vars => LogInv'
  <2> SUFFICES ASSUME IInv, LogInv, [Next]_vars
               PROVE  LogInv'
    OBVIOUS
  <2>1. CASE UNCHANGED vars
    BY <2>1 DEF vars, counts, LogInv, OpenLogsOwned, QuietLogs, Sound, Up, Owns,
                WillClose, UpdateAt, FlushAt
  <2>2. QED
    BY <2>1, LogStep
<1>3. QED
  BY <1>1, <1>2, InvHolds, PTL DEF Spec

\* While no database call has failed and the writer lives, a task that has settled
\* has no open log row: an owner of one holds the task at "running", or the task is
\* deleted and its rows with it.
THEOREM LogsCloseFirst == Spec => []LogClosedBeforeSettled
<1>1. IInv /\ LogInv => LogClosedBeforeSettled
  <2> SUFFICES ASSUME IInv, LogInv, Sound, NEW t \in Tasks,
                      row[t].status \in {"idle", "error"}, OpenLogOf(t)
               PROVE  FALSE
    BY DEF LogClosedBeforeSettled, Sound
  <2>1. PICK i \in 1 .. Len(logs) : logs[i].task = t /\ logs[i].status = "running"
    BY DEF OpenLogOf, IInv, TypeInv, TypeOK
  <2>2. PICK e \in Executions : Owns(e, i)
    BY <2>1 DEF LogInv, OpenLogsOwned
  <2>3. Running(e) /\ run[e].task = t
    BY <2>1, <2>2 DEF Owns, WillClose, Running, RunPoints
  <2>4. row[t].status \in {"running", "deleted"}
    BY <2>3 DEF IInv, RunInv, RunsHoldTheirRow
  <2>5. QED
    BY <2>4
<1>2. QED
  BY <1>1, InvHolds, LogInvHolds, PTL
=============================================================================
