--------------------------- MODULE TriggersProofs ---------------------------
(***************************************************************************)
(* The runtime of the tasks against their rows, for any tasks, handlers,   *)
(* requests and refusals.                                                  *)
(*                                                                         *)
(* A job's id is in the map, or in the hands of one handler, and nowhere   *)
(* else: that keeps a handler from dropping a job that another has mapped. *)
(* A cron task without a job is always one that a handler will still get   *)
(* to, or whose request has failed (Attended).  And while a task's         *)
(* requests come one after the other, its registries are what the point of *)
(* its one handler says (Stage): until the request has come through its    *)
(* statements they serve the row that was applied last, and so they do     *)
(* when it fails.  A folder that only one task has ever had is taken away  *)
(* by that task alone (Apart).                                             *)
(***************************************************************************)
EXTENDS Triggers, FiniteSetTheorems, TLAPS

Holding == {"drop", "dropAgain", "map"}

\* Every job has an id of its own, and a handler that holds one is its only holder.
Ids(L, n) ==
    /\ \A j \in L : j.id \in 1 .. n
    /\ \A j, k \in L : j.id = k.id => j = k

Holds(s, L, n) ==
    s.at \in Holding =>
        /\ s.held \in 1 .. n
        /\ \A j \in L : j.id = s.held => j.task = s.task
        /\ s.at = "map" => \E j \in L : j.id = s.held

Holders ==
    /\ Ids(live, jobs)
    /\ \A h \in Handlers : Holds(handler[h], live, jobs)
    /\ \A h \in Handlers : handler[h].at \in Holding =>
          /\ \A t \in Tasks : job[t] # handler[h].held
          /\ \A g \in Handlers : (g # h /\ handler[g].at \in Holding)
                => handler[g].held # handler[h].held

\* A handler that is to add a job has read a cron row, and an idle one keeps nothing.
Reads(s) ==
    /\ s.at = "idle" <=> s.task = NoTask
    /\ s.at = "idle" => s.paths = {} /\ s.call = "update"
    /\ s.at \in {"unmapAgain", "dropAgain", "add"} => s.trigger.kind = "cron"

Busy == \A h \in Handlers : Reads(handler[h])

\* Nobody works on a row that is still to be created.
NewIsUntouched ==
    \A t \in Tasks : row[t].trigger.kind = "new" =>
        t \notin behind /\ \A h \in Handlers : handler[h].task # t

\* Handlers that will come to the job of their task, or to its deletion.
OnItsWay ==
    {"folders", "rest", "cleanup", "unmap", "drop", "unwatch", "unwatchOs", "read", "unmapAgain",
     "dropAgain", "add", "map", "deleteRow"}

Attended ==
    \A t \in Tasks \ (excused \cup behind) : row[t].trigger.kind = "cron" =>
        \/ job[t] # NoJob
        \/ \E h \in Handlers : handler[h].task = t /\ handler[h].at \in OnItsWay

\* The jobs of a task.
NoJobs(t, L) == \A j \in L : j.task # t
OneJob(t, L, n) ==
    \E j \in L : j.id = n /\ j.task = t /\ \A k \in L : k.task = t => k = j
Runs(t, L, n, expr) == \A j \in L : (j.task = t /\ j.id = n) => j.expr = expr

\* The folders that the operating system watches, but for those that two tasks share.
Sure == osWatch \cup shared

\* The registries serve the row r.
Settled(t, r, L, n, w, k) ==
    /\ r.trigger.kind = "cron" => OneJob(t, L, n) /\ Runs(t, L, n, r.trigger.expr)
    /\ r.trigger.kind # "cron" => n = NoJob /\ NoJobs(t, L)
    /\ r.trigger.kind = "file_watch" => r.folders \subseteq w \cap k
    /\ r.trigger.kind # "file_watch" => w = {}

\* A task that nobody works on: p is the row that was applied last.
Rests(t, r, p, b, L, n, w, k) ==
    Settled(t, p, L, n, w, k) /\ (b \/ Settled(t, r, L, n, w, k))

\* A task at a point of its handler s.
Stage(t, s, r, p, L, n, w, k) ==
    /\ s.at # "dropAgain"
    /\ s.at \in {"folders", "rest", "cleanup"} =>
          /\ Settled(t, p, L, n, w, k)
          /\ s.call = "create" \/ s.at = "cleanup" => n = NoJob /\ NoJobs(t, L) /\ w = {}
    /\ s.at = "unmap" => (n = NoJob /\ NoJobs(t, L)) \/ (n # NoJob /\ OneJob(t, L, n))
    /\ s.at = "drop" => n = NoJob /\ OneJob(t, L, s.held)
    /\ s.at \in {"unwatch", "unwatchOs", "read", "readFolders", "watchOs", "watch",
                 "unmapAgain", "add", "deleteRow"} => n = NoJob /\ NoJobs(t, L)
    /\ s.at = "map" => OneJob(t, L, s.held) /\ Runs(t, L, s.held, r.trigger.expr)
    /\ s.at \in {"unwatchOs", "read", "readFolders", "watchOs", "watch", "unmapAgain",
                 "add", "map", "deleteRow"} => w = {}
    /\ s.at \in {"unmapAgain", "add", "map"} => r.trigger.kind = "cron"
    /\ s.at \in {"unmapAgain", "add"} => s.trigger = r.trigger
    /\ s.at \in {"readFolders", "watchOs", "watch"} => r.trigger.kind = "file_watch"
    /\ s.at \in {"unmapAgain", "add", "map", "readFolders", "watchOs", "watch"} =>
          p.trigger = r.trigger
    /\ s.at \in {"watchOs", "watch"} => r.folders \cup p.folders \subseteq s.paths
    /\ s.at = "watch" => s.paths \subseteq k

Alone(t) == \A g, h \in Handlers : (handler[g].task = t /\ handler[h].task = t) => g = h

Follows ==
    \A t \in Tasks \ (excused \cup raced) :
        /\ Alone(t)
        /\ (\A h \in Handlers : handler[h].task # t)
              => Rests(t, row[t], applied[t], t \in behind, live, job[t], watches[t], Sure)
        /\ \A h \in Handlers : handler[h].task = t
              => Stage(t, handler[h], row[t], applied[t], live, job[t], watches[t], Sure)

Apart ==
    \A f \in Folders \ shared, t, u \in Tasks : Owns(t, f) /\ Owns(u, f) => t = u

IInv ==
    /\ TypeOK /\ Busy /\ NewIsUntouched /\ Holders /\ MappedJobIsLive /\ Attended
    /\ Follows /\ Apart

-----------------------------------------------------------------------------
(* Data.                                                                   *)

LEMMA BareTyped ==
    ASSUME NEW kind \in {"new", "manual", "gone"}
    PROVE  /\ Bare(kind) \in Row /\ Bare(kind).trigger.kind = kind
           /\ Bare(kind).folders = {}
BY DEF Bare, Row, Trigger

LEMMA IdleTyped ==
    /\ Idle \in Handler /\ Idle.at = "idle" /\ Idle.task = NoTask /\ Idle.paths = {}
    /\ Idle.at \notin Holding /\ Reads(Idle)
<1>1. Manual \in Trigger
  BY DEF Manual, Trigger
<1>2. NoJob \in Nat /\ "idle" \in Points
  BY DEF NoJob, Points
<1>3. QED
  BY <1>1, <1>2 DEF Idle, Handler, Holding, Reads

LEMMA HandlerFields ==
    ASSUME TypeOK, NEW h \in Handlers
    PROVE  /\ handler[h] \in Handler /\ handler[h].at \in Points
           /\ handler[h].call \in {"create", "update", "delete"}
           /\ handler[h].task \in Tasks \cup {NoTask}
           /\ handler[h].asked \in SUBSET Folders /\ handler[h].trigger \in Trigger
           /\ handler[h].held \in Nat /\ handler[h].paths \in SUBSET Folders
BY DEF TypeOK, Handler

LEMMA RowFields ==
    ASSUME TypeOK, NEW t \in Tasks
    PROVE  /\ row[t] \in Row /\ row[t].trigger \in Trigger
           /\ row[t].folders \in SUBSET Folders /\ applied[t] \in Row
BY DEF TypeOK, Row

LEMMA CronExpr ==
    ASSUME NEW tr \in Trigger, tr.kind = "cron"
    PROVE  tr.expr \in Expressions
BY DEF Trigger

\* The handler moves to a point; what it knows stays.
LEMMA Moved ==
    ASSUME TypeOK, NEW h \in Handlers, NEW p \in Points, NEW s,
           s = [handler[h] EXCEPT !.at = p]
    PROVE  /\ s \in Handler /\ s.at = p /\ s.task = handler[h].task
           /\ s.held = handler[h].held /\ s.trigger = handler[h].trigger
           /\ s.paths = handler[h].paths /\ s.call = handler[h].call
           /\ s.asked = handler[h].asked
BY DEF TypeOK, Handler

LEMMA SetTyped ==
    ASSUME TypeOK, NEW h \in Handlers, NEW s \in Handler, Set(h, s)
    PROVE  /\ handler' \in [Handlers -> Handler] /\ handler'[h] = s
           /\ \A g \in Handlers : g # h => handler'[g] = handler[g]
BY DEF TypeOK, Set

-----------------------------------------------------------------------------
(* Frames.                                                                 *)

\* The jobs stay, and the handler that moves holds none afterwards.
LEMMA JobsStay ==
    ASSUME IInv, NEW h \in Handlers, NEW s \in Handler, Set(h, s), UNCHANGED cron,
           s.at \notin Holding
    PROVE  Holders' /\ MappedJobIsLive'
<1>1. live' = live /\ job' = job /\ jobs' = jobs
  BY DEF cron
<1>2. handler'[h] = s /\ \A g \in Handlers : g # h => handler'[g] = handler[g]
  BY SetTyped DEF IInv
<1>3. ASSUME NEW g \in Handlers PROVE Holds(handler'[g], live, jobs)
  <2>1. CASE g = h
    BY <1>2, <2>1 DEF Holds
  <2>2. CASE g # h
    BY <1>2, <2>2 DEF IInv, Holders
  <2>3. QED
    BY <2>1, <2>2
<1>4. \A g \in Handlers : handler'[g].at \in Holding => g # h /\ handler'[g] = handler[g]
  BY <1>2
<1>5. Holders'
  BY <1>1, <1>3, <1>4 DEF IInv, Holders
<1>6. MappedJobIsLive'
  BY <1>1 DEF IInv, MappedJobIsLive
<1>7. QED
  BY <1>5, <1>6

\* A folder that is no longer sure is none of t's.
Keeps(t) == \A f \in Sure \ Sure' : ~Owns(t, f)

\* A task that the step has not touched, and that has its handler still.
LEMMA OthersFollow ==
    ASSUME IInv, NEW h \in Handlers, NEW s, handler' \in [Handlers -> Handler],
           handler'[h] = s, \A g \in Handlers : g # h => handler'[g] = handler[g],
           NEW t \in Tasks \ (excused \cup raced), handler[h].task # t, s.task # t,
           row'[t] = row[t], applied'[t] = applied[t], t \in behind => t \in behind',
           job'[t] = job[t], watches'[t] = watches[t], NEW k, k = Sure', Keeps(t),
           NEW L, \A j \in live \cup L : j.task = t => (j \in live <=> j \in L)
    PROVE  /\ Alone(t)'
           /\ (\A g \in Handlers : handler'[g].task # t)
                 => Rests(t, row'[t], applied'[t], t \in behind', L, job'[t], watches'[t], k)
           /\ \A g \in Handlers : handler'[g].task = t
                 => Stage(t, handler'[g], row'[t], applied'[t], L, job'[t], watches'[t], k)
<1>2. handler[h].task # t /\ handler'[h].task # t
  OBVIOUS
<1>3. \A g \in Handlers : (handler'[g].task = t <=> handler[g].task = t)
                          /\ (handler'[g].task = t => handler'[g] = handler[g])
  BY <1>2
<1>4. /\ NoJobs(t, live) <=> NoJobs(t, L)
      /\ \A n : OneJob(t, live, n) <=> OneJob(t, L, n)
      /\ \A n, e : Runs(t, live, n, e) <=> Runs(t, L, n, e)
  <2>1. NoJobs(t, live) <=> NoJobs(t, L)
    BY DEF NoJobs
  <2>2. ASSUME NEW n PROVE OneJob(t, live, n) <=> OneJob(t, L, n)
    BY DEF OneJob
  <2>3. ASSUME NEW n, NEW e PROVE Runs(t, live, n, e) <=> Runs(t, L, n, e)
    BY DEF Runs
  <2>4. QED
    BY <2>1, <2>2, <2>3
<1>5. Alone(t)'
  BY <1>3 DEF IInv, Follows, Alone
<1>6. \A f : f \in watches[t] /\ f \in Sure => f \in k
  BY DEF Keeps, Owns
<1>7. ASSUME NEW r, Settled(t, r, live, job[t], watches[t], Sure)
      PROVE  Settled(t, r, L, job'[t], watches'[t], k)
  BY <1>4, <1>6, <1>7 DEF Settled
<1>8. (\A g \in Handlers : handler'[g].task # t)
         => Rests(t, row'[t], applied'[t], t \in behind', L, job'[t], watches'[t], k)
  BY <1>3, <1>7 DEF IInv, Follows, Rests
<1>9. ASSUME NEW g \in Handlers, handler'[g].task = t
      PROVE  Stage(t, handler'[g], row'[t], applied'[t], L, job'[t], watches'[t], k)
  <2>1. Stage(t, handler[g], row[t], applied[t], live, job[t], watches[t], Sure)
    BY <1>3, <1>9 DEF IInv, Follows
  <2>2. handler'[g] = handler[g]
    BY <1>3, <1>9
  <2>3. \A f \in handler[g].paths : f \in Sure => f \in k
    BY <1>3, <1>9 DEF Keeps, Owns, task
  <2>4. QED
    BY <1>4, <1>7, <2>1, <2>2, <2>3 DEF Stage
<1>10. QED
  BY <1>5, <1>8, <1>9

\* The handler of t0 moves.  For t0 itself, alone or not, it is enough that the
\* stage it moves to fits.
LEMMA FollowsStep ==
    ASSUME IInv, NEW h \in Handlers, NEW s \in Handler, Set(h, s),
           NEW t0 \in Tasks, handler[h].task \in {t0, NoTask}, s.task \in {t0, NoTask},
           excused \subseteq excused', raced \subseteq raced',
           \A t \in Tasks : t # t0 =>
               /\ row'[t] = row[t] /\ job'[t] = job[t] /\ watches'[t] = watches[t]
               /\ applied'[t] = applied[t] /\ (t \in behind => t \in behind') /\ Keeps(t),
           \A j \in live \cup live' : j.task # t0 => (j \in live <=> j \in live'),
           t0 \notin excused' \cup raced' =>
               /\ \A g \in Handlers : g # h => handler[g].task # t0
               /\ s.task = t0 => Stage(t0, s, row'[t0], applied'[t0], live', job'[t0],
                                       watches'[t0], Sure')
               /\ s.task = NoTask => Rests(t0, row'[t0], applied'[t0], t0 \in behind', live',
                                           job'[t0], watches'[t0], Sure')
    PROVE  Follows'
<1>1. /\ handler' \in [Handlers -> Handler] /\ handler'[h] = s
      /\ \A g \in Handlers : g # h => handler'[g] = handler[g]
  BY SetTyped DEF IInv
<1>2. ASSUME NEW t \in Tasks \ (excused' \cup raced')
      PROVE  /\ Alone(t)'
             /\ (\A g \in Handlers : handler'[g].task # t)
                   => Rests(t, row'[t], applied'[t], t \in behind', live', job'[t],
                            watches'[t], Sure')
             /\ \A g \in Handlers : handler'[g].task = t
                   => Stage(t, handler'[g], row'[t], applied'[t], live', job'[t],
                            watches'[t], Sure')
  <2>1. CASE t # t0
    <3>1. t \in Tasks \ (excused \cup raced)
      OBVIOUS
    <3>2. /\ row'[t] = row[t] /\ job'[t] = job[t] /\ watches'[t] = watches[t]
          /\ applied'[t] = applied[t] /\ (t \in behind => t \in behind') /\ Keeps(t)
      BY <2>1
    <3>3. \A j \in live \cup live' : j.task = t => (j \in live <=> j \in live')
      BY <2>1
    <3>4. handler[h].task # t /\ s.task # t
      BY <2>1, TriggersAssumption
    <3>5. QED
      BY <1>1, <3>1, <3>2, <3>3, <3>4, OthersFollow
  <2>2. CASE t = t0
    <3>1. \A g \in Handlers : g # h => handler'[g].task # t0
      BY <1>1, <2>2
    <3>2. Alone(t)'
      BY <2>2, <3>1 DEF Alone
    <3>3. (\A g \in Handlers : handler'[g].task # t)
             => Rests(t, row'[t], applied'[t], t \in behind', live', job'[t],
                      watches'[t], Sure')
      BY <1>1, <2>2
    <3>4. \A g \in Handlers : handler'[g].task = t
             => Stage(t, handler'[g], row'[t], applied'[t], live', job'[t],
                      watches'[t], Sure')
      BY <1>1, <2>2, <3>1
    <3>5. QED
      BY <3>2, <3>3, <3>4
  <2>3. QED
    BY <2>1, <2>2
<1>3. QED
  BY <1>2 DEF Follows

\* Nothing that is sure is lost.
LEMMA AllKeep ==
    ASSUME Sure \subseteq Sure'
    PROVE  \A t : Keeps(t)
BY DEF Keeps

\* A step of t0's handler that gives t0 no folder it did not have.
LEMMA ApartStep ==
    ASSUME IInv, NEW h \in Handlers, NEW s \in Handler, Set(h, s), NEW t0 \in Tasks,
           s.task \in {t0, NoTask}, shared \subseteq shared',
           \A t \in Tasks : t # t0 =>
               row'[t].folders = row[t].folders /\ watches'[t] = watches[t],
           \A f \in row'[t0].folders \cup watches'[t0] : Owns(t0, f),
           \A f \in s.paths : s.task = t0 => Owns(t0, f)
    PROVE  Apart'
<1>1. /\ handler'[h] = s
      /\ \A g \in Handlers : g # h => handler'[g] = handler[g]
  BY SetTyped DEF IInv
<1>2. ASSUME NEW t \in Tasks, NEW f, Owns(t, f)' PROVE Owns(t, f)
  <2>1. CASE t = t0
    BY <1>1, <1>2, <2>1 DEF Owns, task
  <2>2. CASE t # t0
    <3>1. s.task # t
      BY <2>2, TriggersAssumption
    <3>2. QED
      BY <1>1, <1>2, <2>2, <3>1 DEF Owns, task
  <2>3. QED
    BY <2>1, <2>2
<1>3. QED
  BY <1>2 DEF IInv, Apart

\* What is known of a handler at work.
LEMMA AtWork ==
    ASSUME IInv, NEW h \in Handlers, handler[h].at # "idle"
    PROVE  /\ handler[h].task \in Tasks
           /\ row[handler[h].task].trigger.kind # "new"
           /\ \A f \in handler[h].paths : Owns(handler[h].task, f)
           /\ handler[h].task \notin excused \cup raced =>
                 /\ \A g \in Handlers : g # h => handler[g].task # handler[h].task
                 /\ Stage(handler[h].task, handler[h], row[handler[h].task],
                          applied[handler[h].task], live, job[handler[h].task],
                          watches[handler[h].task], Sure)
<1>1. handler[h].task \in Tasks
  BY HandlerFields DEF IInv, Busy, Reads
<1>2. row[handler[h].task].trigger.kind # "new"
  BY <1>1 DEF IInv, NewIsUntouched
<1>3. \A f \in handler[h].paths : Owns(handler[h].task, f)
  BY DEF Owns, task
<1>4. QED
  BY <1>1, <1>2, <1>3 DEF IInv, Follows, Alone

\* Rows that are new stay untouched.
LEMMA UntouchedStep ==
    ASSUME IInv, NEW h \in Handlers, NEW s \in Handler, Set(h, s), NEW t0 \in Tasks,
           s.task \in {t0, NoTask}, row'[t0].trigger.kind # "new",
           \A t \in Tasks : t # t0 =>
               row'[t].trigger = row[t].trigger /\ (t \in behind' => t \in behind)
    PROVE  NewIsUntouched'
<1>1. /\ handler'[h] = s
      /\ \A g \in Handlers : g # h => handler'[g] = handler[g]
  BY SetTyped DEF IInv
<1>2. ASSUME NEW t \in Tasks, row'[t].trigger.kind = "new"
      PROVE  t \notin behind' /\ \A g \in Handlers : handler'[g].task # t
  <2>1. t # t0 /\ row[t].trigger.kind = "new" /\ s.task # t
    BY <1>2, TriggersAssumption
  <2>2. t \notin behind /\ \A g \in Handlers : handler[g].task # t
    BY <2>1 DEF IInv, NewIsUntouched
  <2>3. QED
    BY <1>1, <2>1, <2>2
<1>3. QED
  BY <1>2 DEF NewIsUntouched

\* Attended stays for the tasks that the step leaves alone.
LEMMA AttendedStep ==
    ASSUME IInv, NEW h \in Handlers, NEW s \in Handler, Set(h, s),
           NEW t0 \in Tasks, handler[h].task \in {t0, NoTask},
           excused \subseteq excused',
           \A t \in Tasks : t # t0 =>
               /\ row'[t].trigger = row[t].trigger /\ job'[t] = job[t]
               /\ t \in behind => t \in behind',
           \/ t0 \in excused' \cup behind'
           \/ row'[t0].trigger.kind # "cron"
           \/ s.task = t0 /\ s.at \in OnItsWay
           \/ job'[t0] # NoJob
           \/ /\ handler[h].at \notin OnItsWay /\ (t0 \in behind => t0 \in behind')
              /\ row'[t0].trigger = row[t0].trigger /\ job'[t0] = job[t0]
    PROVE  Attended'
<1>1. handler'[h] = s /\ \A g \in Handlers : g # h => handler'[g] = handler[g]
  BY SetTyped DEF IInv
<1>2. ASSUME NEW t \in Tasks \ (excused' \cup behind'), row'[t].trigger.kind = "cron"
      PROVE  \/ job'[t] # NoJob
             \/ \E g \in Handlers : handler'[g].task = t /\ handler'[g].at \in OnItsWay
  <2>1. CASE t = t0
    <3>1. CASE /\ handler[h].at \notin OnItsWay /\ (t0 \in behind => t0 \in behind')
               /\ row'[t0].trigger = row[t0].trigger /\ job'[t0] = job[t0]
      BY <1>1, <1>2, <2>1, <3>1 DEF IInv, Attended
    <3>2. QED
      BY <1>1, <1>2, <2>1, <3>1
  <2>2. CASE t # t0
    <3>1. t # NoTask /\ handler[h].task # t
      BY <2>2, TriggersAssumption
    <3>2. row[t].trigger.kind = "cron" /\ t \notin excused \cup behind
      BY <1>2, <2>2
    <3>3. \/ job[t] # NoJob
          \/ \E g \in Handlers : handler[g].task = t /\ handler[g].at \in OnItsWay
      BY <3>2 DEF IInv, Attended
    <3>4. QED
      BY <1>1, <2>2, <3>1, <3>3
  <2>3. QED
    BY <2>1, <2>2
<1>3. QED
  BY <1>2 DEF Attended

LEMMA BusyStep ==
    ASSUME IInv, NEW h \in Handlers, NEW s \in Handler, Set(h, s), Reads(s)
    PROVE  Busy'
BY SetTyped DEF IInv, Busy

-----------------------------------------------------------------------------
(* The requests.                                                           *)

LEMMA ArrivesStep ==
    ASSUME IInv, NEW h \in Handlers, NEW t \in Tasks, Arrives(h, t)
    PROVE  /\ handler[h].at = "idle" /\ handler[h].task = NoTask /\ handler[h].paths = {}
           /\ requests' \in 0 .. MaxRequests /\ raced \subseteq raced' /\ raced' \subseteq Tasks
           /\ t \notin excused \cup raced' =>
                 /\ \A g \in Handlers : handler[g].task # t
                 /\ Rests(t, row[t], applied[t], t \in behind, live, job[t], watches[t], Sure)
<1>1. handler[h].at = "idle" /\ handler[h].task = NoTask /\ handler[h].paths = {}
  BY DEF Arrives, AtPoint, IInv, Busy, Reads
<1>2. requests' \in 0 .. MaxRequests
  BY TriggersAssumption DEF Arrives, IInv, TypeOK
<1>3. raced \subseteq raced' /\ raced' \subseteq Tasks
  BY DEF Arrives, IInv, TypeOK
<1>4. ASSUME t \notin excused \cup raced'
      PROVE  /\ \A g \in Handlers : handler[g].task # t
             /\ Rests(t, row[t], applied[t], t \in behind, live, job[t], watches[t], Sure)
  <2>1. \A g \in Handlers : handler[g].task # t
    BY <1>4 DEF Arrives, task
  <2>2. t \notin excused \cup raced
    BY <1>3, <1>4
  <2>3. QED
    BY <2>1, <2>2 DEF IInv, Follows
<1>5. QED
  BY <1>1, <1>2, <1>3, <1>4

\* Registries that serve a row have no job, or one that the map knows: a job's id is
\* one of those that have been given.
LEMMA SettledTidy ==
    ASSUME IInv, NEW t \in Tasks, NEW r, NEW w, NEW k, Settled(t, r, live, job[t], w, k)
    PROVE  \/ job[t] = NoJob /\ NoJobs(t, live)
           \/ job[t] # NoJob /\ OneJob(t, live, job[t])
<1>1. CASE OneJob(t, live, job[t])
  <2>1. PICK j \in live : j.id = job[t]
    BY <1>1 DEF OneJob
  <2>2. j.id \in 1 .. jobs /\ jobs \in Nat
    BY DEF IInv, Holders, Ids, TypeOK
  <2>3. QED
    BY <1>1, <2>1, <2>2 DEF NoJob
<1>2. QED
  BY <1>1 DEF Settled

\* A request takes up a task, and rewrites its row if it is no deletion.
LEMMA BeginStep ==
    ASSUME IInv, NEW h \in Handlers, NEW t \in Tasks, Arrives(h, t),
           NEW s \in Handler, Set(h, s), s.task = t, s.paths = handler[h].paths,
           s.at \in {"folders", "unmap"}, NEW r \in Row, r.folders = row[t].folders,
           row' = [row EXCEPT ![t] = r], r.trigger.kind # "new",
           UNCHANGED <<known, behind, shared, applied, live, job, jobs, watches, osWatch,
                       excused, refusals>>,
           (s.at = "folders" /\ s.call = "create") => row[t].trigger.kind = "new"
    PROVE  IInv'
<1>1. s.at \in Points /\ s.at \notin Holding /\ s.at \in OnItsWay /\ s.at # "idle"
  BY DEF Points, Holding, OnItsWay
<1>2. row' \in [Tasks -> Row] /\ row'[t] = r /\ \A u \in Tasks : u # t => row'[u] = row[u]
  BY DEF IInv, TypeOK
<1>3. TypeOK'
  BY <1>2, ArrivesStep, SetTyped DEF IInv, TypeOK
<1>4. Busy'
  BY <1>1, BusyStep, TriggersAssumption DEF Reads
<1>5. Holders' /\ MappedJobIsLive'
  BY <1>1, JobsStay DEF cron
<1>6. Attended'
  BY <1>1, <1>2, ArrivesStep, AttendedStep
<1>7. NewIsUntouched'
  BY <1>2, UntouchedStep
<1>8. Apart'
  BY <1>2, ArrivesStep, ApartStep DEF Owns
<1>9. Follows'
  <2>1. ASSUME t \notin excused' \cup raced'
        PROVE  /\ \A g \in Handlers : g # h => handler[g].task # t
               /\ Stage(t, s, row'[t], applied'[t], live', job'[t], watches'[t], Sure')
    <3>1. /\ \A g \in Handlers : handler[g].task # t
          /\ Rests(t, row[t], applied[t], t \in behind, live, job[t], watches[t], Sure)
      BY <2>1, ArrivesStep
    <3>2. Settled(t, applied[t], live, job[t], watches[t], Sure)
      BY <3>1 DEF Rests
    <3>3. (job[t] = NoJob /\ NoJobs(t, live)) \/ (job[t] # NoJob /\ OneJob(t, live, job[t]))
      BY <3>2, SettledTidy
    <3>4. row[t].trigger.kind = "new" => job[t] = NoJob /\ NoJobs(t, live) /\ watches[t] = {}
      BY <3>1 DEF IInv, NewIsUntouched, Rests, Settled
    <3>5. Sure' = Sure
      BY DEF Sure
    <3>6. QED
      BY <3>1, <3>2, <3>3, <3>4, <3>5 DEF Stage
  <2>2. t # NoTask /\ \A u : Keeps(u)
    BY TriggersAssumption, AllKeep DEF Sure
  <2>3. QED
    BY <1>2, <2>1, <2>2, ArrivesStep, FollowsStep
<1>10. QED
  BY <1>3, <1>4, <1>5, <1>6, <1>7, <1>8, <1>9 DEF IInv

LEMMA EditStep ==
    ASSUME IInv, NEW h \in Handlers, NEW t \in Tasks, NEW r \in Rows,
           Edit(h, t, r) \/ Create(h, t, r)
    PROVE  IInv'
<1> DEFINE edit == [handler[h] EXCEPT !.at = "folders", !.task = t, !.asked = r.folders]
           create == [handler[h] EXCEPT !.at = "folders", !.task = t, !.asked = r.folders,
                          !.call = "create"]
           new == [row[t] EXCEPT !.trigger = r.trigger]
<1>1. /\ Arrives(h, t) /\ row' = [row EXCEPT ![t] = new]
      /\ UNCHANGED <<known, behind, shared, applied, live, job, jobs, watches, osWatch,
                     excused, refusals>>
      /\ Set(h, edit) \/ (row[t].trigger.kind = "new" /\ Set(h, create))
      /\ Set(h, edit) => Exists(t) \/ row[t].trigger.kind = "new"
  BY DEF Edit, Create, Rewritten, watch, refused, cron
<1>2. /\ r.trigger \in Trigger /\ r.folders \in SUBSET Folders
      /\ r.trigger.kind # "new"
  BY DEF Rows, Row
<1>3. "folders" \in Points
  BY DEF Points
<1>4. /\ new \in Row /\ new.trigger = r.trigger /\ new.folders = row[t].folders
  BY <1>2, RowFields DEF IInv, Row
<1> HIDE DEF new
<1>5. CASE row[t].trigger.kind = "new" /\ Set(h, create)
  <2>1. /\ create \in Handler /\ create.at = "folders" /\ create.task = t
        /\ create.paths = handler[h].paths
    BY <1>2, <1>3, HandlerFields DEF IInv, Handler
  <2> HIDE DEF create
  <2>2. QED
    BY <1>1, <1>2, <1>4, <1>5, <2>1, BeginStep
<1>6. CASE Set(h, edit)
  <2>1. /\ edit \in Handler /\ edit.at = "folders" /\ edit.task = t
        /\ edit.paths = handler[h].paths /\ edit.call = handler[h].call
    BY <1>2, <1>3, HandlerFields DEF IInv, Handler
  <2> HIDE DEF edit
  <2>2. edit.call = "update"
    BY <1>1, <2>1, ArrivesStep DEF IInv, Busy, Reads
  <2>3. QED
    BY <1>1, <1>2, <1>4, <1>6, <2>1, <2>2, BeginStep
<1>7. QED
  BY <1>1, <1>5, <1>6

LEMMA StartDeleteStep ==
    ASSUME IInv, NEW h \in Handlers, NEW t \in Tasks, StartDelete(h, t)
    PROVE  IInv'
<1> DEFINE s == [handler[h] EXCEPT !.at = "unmap", !.task = t, !.call = "delete"]
<1>1. /\ Arrives(h, t) /\ row' = row /\ Set(h, s) /\ row[t].trigger.kind # "new"
      /\ UNCHANGED <<known, behind, shared, applied, live, job, jobs, watches, osWatch,
                     excused, refusals>>
  BY DEF StartDelete, tables, watch, refused, cron
<1>2. "unmap" \in Points
  BY DEF Points
<1>3. s \in Handler /\ s.at = "unmap" /\ s.task = t /\ s.paths = handler[h].paths
  BY <1>2, HandlerFields DEF IInv, Handler
<1> HIDE DEF s
<1>4. row[t] \in Row /\ row' = [row EXCEPT ![t] = row[t]]
  BY <1>1, RowFields DEF IInv, TypeOK
<1>5. QED
  BY <1>1, <1>3, <1>4, BeginStep

\* A handler writes what concerns no job, and moves on.
LEMMA QuietMove ==
    ASSUME IInv, NEW h \in Handlers, NEW s \in Handler, Set(h, s), handler[h].at # "idle",
           s.at # "idle" => s.task = handler[h].task, Reads(s), s.at \notin Holding,
           UNCHANGED <<known, live, job, jobs, excused, raced, requests, refusals>>,
           row' \in [Tasks -> Row], applied' \in [Tasks -> Row], behind' \subseteq Tasks,
           watches' \in [Tasks -> SUBSET Folders], osWatch' \subseteq Folders,
           shared \subseteq shared', shared' \subseteq Folders, Apart',
           row'[handler[h].task].trigger.kind # "new",
           \A t \in Tasks : t # handler[h].task =>
               /\ row'[t] = row[t] /\ applied'[t] = applied[t] /\ watches'[t] = watches[t]
               /\ (t \in behind' <=> t \in behind) /\ Keeps(t),
           \/ row'[handler[h].task].trigger.kind # "cron"
           \/ s.at \in OnItsWay
           \/ handler[h].task \in behind'
           \/ /\ handler[h].at \notin OnItsWay /\ behind' = behind
              /\ row'[handler[h].task].trigger = row[handler[h].task].trigger,
           (handler[h].task \notin excused \cup raced /\
              Stage(handler[h].task, handler[h], row[handler[h].task],
                    applied[handler[h].task], live, job[handler[h].task],
                    watches[handler[h].task], Sure)) =>
               /\ s.at # "idle" => Stage(handler[h].task, s, row'[handler[h].task],
                                  applied'[handler[h].task], live, job[handler[h].task],
                                  watches'[handler[h].task], Sure')
               /\ s.at = "idle" => Rests(handler[h].task, row'[handler[h].task],
                                  applied'[handler[h].task], handler[h].task \in behind',
                                  live, job[handler[h].task], watches'[handler[h].task],
                                  Sure')
    PROVE  IInv'
<1> DEFINE t0 == handler[h].task
<1>1. t0 \in Tasks /\ t0 # NoTask
  BY AtWork, TriggersAssumption
<1>2. TypeOK'
  BY SetTyped DEF IInv, TypeOK
<1>3. Busy'
  BY BusyStep
<1>4. Holders' /\ MappedJobIsLive'
  BY JobsStay DEF cron
<1>5. s.task \in {t0, NoTask} /\ (s.at = "idle" <=> s.task = NoTask)
  BY DEF Reads
<1>6. NewIsUntouched'
  BY <1>1, <1>5, UntouchedStep
<1>7. Attended'
  <2>1. \/ row'[t0].trigger.kind # "cron"
        \/ s.task = t0 /\ s.at \in OnItsWay
        \/ t0 \in behind'
        \/ /\ handler[h].at \notin OnItsWay /\ behind' = behind
           /\ row'[t0].trigger = row[t0].trigger
    BY DEF OnItsWay
  <2>2. QED
    BY <1>1, <2>1, AttendedStep
<1>8. Follows'
  <2>1. ASSUME t0 \notin excused' \cup raced'
        PROVE  /\ \A g \in Handlers : g # h => handler[g].task # t0
               /\ s.task = t0 => Stage(t0, s, row'[t0], applied'[t0], live', job'[t0],
                                       watches'[t0], Sure')
               /\ s.task = NoTask => Rests(t0, row'[t0], applied'[t0], t0 \in behind', live',
                                           job'[t0], watches'[t0], Sure')
    <3>1. t0 \notin excused \cup raced
      BY <2>1
    <3>2. /\ \A g \in Handlers : g # h => handler[g].task # t0
          /\ Stage(t0, handler[h], row[t0], applied[t0], live, job[t0], watches[t0], Sure)
      BY <3>1, AtWork
    <3>3. QED
      BY <1>1, <1>5, <3>1, <3>2
  <2>2. QED
    BY <1>1, <1>5, <2>1, FollowsStep
<1>9. QED
  BY <1>2, <1>3, <1>4, <1>6, <1>7, <1>8 DEF IInv

-----------------------------------------------------------------------------
(* The steps that leave the jobs alone.                                    *)

LEMMA IdleMove ==
    ASSUME IInv, NEW h \in Handlers, Done(h)
    PROVE  /\ Set(h, Idle) /\ Idle \in Handler /\ Idle.at = "idle" /\ Reads(Idle)
           /\ Idle.at \notin Holding /\ Idle.paths = {} /\ Idle.task = NoTask
BY IdleTyped DEF Done

\* A request fails among its statements: the registries go on serving the row that
\* was applied last.
LEMMA FailStep ==
    ASSUME IInv, NEW h \in Handlers, Fail(h), handler[h].at \in {"folders", "rest"},
           UNCHANGED <<row, known, shared, applied, live, job, jobs, watches, osWatch,
                       excused, raced, requests, refusals>>
    PROVE  IInv'
<1> DEFINE t0 == handler[h].task
           s == [handler[h] EXCEPT !.at = "cleanup"]
<1>1. /\ t0 \in Tasks /\ t0 # NoTask /\ row[t0].trigger.kind # "new"
      /\ \A f \in handler[h].paths : Owns(t0, f)
  BY AtWork, TriggersAssumption
<1>2. /\ row' \in [Tasks -> Row] /\ applied' \in [Tasks -> Row]
      /\ watches' \in [Tasks -> SUBSET Folders] /\ osWatch' \subseteq Folders
      /\ shared' \subseteq Folders /\ \A t : Keeps(t)
  BY AllKeep DEF IInv, TypeOK, Sure
<1>3. Sure' = Sure
  BY DEF Sure
<1>4. \A f \in row'[t0].folders \cup watches'[t0] : Owns(t0, f)
  BY DEF Owns
<1>5. CASE handler[h].call = "create"
  <2>1. Set(h, s) /\ behind' = behind
    BY <1>5 DEF Fail, Go
  <2>2. "cleanup" \in Points /\ "cleanup" \notin Holding /\ "cleanup" \in OnItsWay
    BY DEF Points, Holding, OnItsWay
  <2>3. s \in Handler /\ s.at = "cleanup" /\ s.task = t0 /\ s.paths = handler[h].paths
    BY <2>2, Moved DEF IInv
  <2> HIDE DEF s
  <2>4. Reads(s)
    BY <1>1, <2>3 DEF Reads
  <2>5. Apart'
    BY <1>1, <1>4, <2>1, <2>3, ApartStep
  <2>6. Stage(t0, handler[h], row[t0], applied[t0], live, job[t0], watches[t0], Sure)
           => Stage(t0, s, row'[t0], applied'[t0], live, job[t0], watches'[t0], Sure')
    BY <1>3, <1>5, <2>3 DEF Stage
  <2>7. behind' \subseteq Tasks
    BY <2>1 DEF IInv, TypeOK
  <2>8. QED
    BY <1>1, <1>2, <2>1, <2>2, <2>3, <2>4, <2>5, <2>6, <2>7, QuietMove
<1>6. CASE handler[h].call # "create"
  <2>1. Done(h) /\ behind' = behind \cup {t0}
    BY <1>6 DEF Fail, task
  <2>2. Apart'
    BY <1>1, <1>4, <2>1, IdleMove, ApartStep
  <2>3. Stage(t0, handler[h], row[t0], applied[t0], live, job[t0], watches[t0], Sure)
           => Rests(t0, row'[t0], applied'[t0], t0 \in behind', live, job[t0],
                    watches'[t0], Sure')
    BY <1>3, <2>1 DEF Stage, Rests
  <2>4. behind' \subseteq Tasks
    BY <1>1, <2>1 DEF IInv, TypeOK
  <2>5. QED
    BY <1>1, <1>2, <2>1, <2>2, <2>3, <2>4, IdleMove, QuietMove
<1>7. QED
  BY <1>5, <1>6

LEMMA SetFoldersStep ==
    ASSUME IInv, NEW h \in Handlers, SetFolders(h)
    PROVE  IInv'
<1> DEFINE t0 == handler[h].task
           asked == handler[h].asked
           s == [handler[h] EXCEPT !.at = "rest", !.asked = {}]
           new == [row[t0] EXCEPT !.folders = asked]
           also == {f \in asked : \E t \in Tasks \ {t0} : Owns(t, f)}
<1>1. /\ handler[h].at = "folders"
      /\ UNCHANGED <<known, applied, live, job, jobs, watches, osWatch, excused, raced,
                     requests, refusals>>
  BY DEF SetFolders, AtPoint, arrivals, cron, watch, refused
<1>2. \/ Fail(h) /\ UNCHANGED <<row, shared>>
      \/ /\ row' = [row EXCEPT ![t0] = new] /\ shared' = shared \cup also
         /\ Set(h, s) /\ behind' = behind
  BY DEF SetFolders, task
<1>3. CASE Fail(h) /\ UNCHANGED <<row, shared>>
  BY <1>1, <1>3, FailStep
<1>4. CASE /\ row' = [row EXCEPT ![t0] = new] /\ shared' = shared \cup also
           /\ Set(h, s) /\ behind' = behind
  <2>1. t0 \in Tasks /\ t0 # NoTask /\ row[t0].trigger.kind # "new"
    BY <1>1, AtWork, TriggersAssumption
  <2>2. "rest" \in Points /\ "rest" \notin Holding /\ "rest" \in OnItsWay
    BY DEF Points, Holding, OnItsWay
  <2>3. s \in Handler /\ s.at = "rest" /\ s.task = t0 /\ s.call = handler[h].call
        /\ s.paths = handler[h].paths
    BY <2>2, HandlerFields DEF IInv, Handler
  <2> HIDE DEF s
  <2>4. asked \in SUBSET Folders /\ also \subseteq Folders
    BY HandlerFields DEF IInv
  <2>5. new \in Row /\ new.trigger = row[t0].trigger /\ new.folders = asked
    BY <2>1, <2>4, RowFields DEF IInv, Row
  <2> HIDE DEF new
  <2>6. /\ row' \in [Tasks -> Row] /\ row'[t0] = new
        /\ \A t \in Tasks : t # t0 => row'[t] = row[t]
    BY <1>4, <2>1, <2>5 DEF IInv, TypeOK
  <2>7. Reads(s)
    BY <2>1, <2>3 DEF Reads
  <2>8. /\ applied' \in [Tasks -> Row] /\ behind' \subseteq Tasks
        /\ watches' \in [Tasks -> SUBSET Folders] /\ osWatch' \subseteq Folders
        /\ shared \subseteq shared' /\ shared' \subseteq Folders /\ Sure \subseteq Sure'
    BY <1>1, <1>4, <2>4 DEF IInv, TypeOK, Sure
  <2>9. \A t : Keeps(t)
    BY <2>8, AllKeep
  <2>10. handler'[h] = s /\ \A g \in Handlers : g # h => handler'[g] = handler[g]
    BY <1>4, <2>3, SetTyped DEF IInv
  <2>11. ASSUME NEW t \in Tasks, NEW f, Owns(t, f)'
         PROVE  Owns(t, f) \/ (t = t0 /\ f \in asked)
    <3>1. f \in watches'[t] => Owns(t, f)
      BY <1>1 DEF Owns
    <3>2. f \in row'[t].folders => Owns(t, f) \/ (t = t0 /\ f \in asked)
      BY <2>5, <2>6 DEF Owns
    <3>3. \A g \in Handlers : handler'[g].task = t /\ f \in handler'[g].paths => Owns(t, f)
      BY <2>3, <2>10 DEF Owns, task
    <3>4. QED
      BY <2>11, <3>1, <3>2, <3>3 DEF Owns, task
  <2>12. Apart'
    <3>1. SUFFICES ASSUME NEW f \in Folders \ shared', NEW t \in Tasks, NEW u \in Tasks,
                          Owns(t, f)', Owns(u, f)'
                   PROVE  t = u
      BY DEF Apart
    <3>2. f \notin also /\ f \in Folders \ shared
      BY <1>4, <3>1
    <3>3. \A v \in Tasks : f \in asked /\ Owns(v, f) => v = t0
      BY <3>2
    <3>4. Owns(t, f) /\ Owns(u, f) => t = u
      BY <3>2 DEF IInv, Apart
    <3>5. QED
      BY <2>11, <3>1, <3>3, <3>4
  <2> HIDE DEF also
  <2>13. Stage(t0, handler[h], row[t0], applied[t0], live, job[t0], watches[t0], Sure)
           => Stage(t0, s, row'[t0], applied'[t0], live, job[t0], watches'[t0], Sure')
    BY <1>1, <2>3, <2>8 DEF Stage, Settled
  <2>14. QED
    BY <1>1, <1>4, <2>1, <2>2, <2>3, <2>5, <2>6, <2>7, <2>8, <2>9, <2>12, <2>13, QuietMove
<1>5. QED
  BY <1>2, <1>3, <1>4

LEMMA SetRestStep ==
    ASSUME IInv, NEW h \in Handlers, SetRest(h)
    PROVE  IInv'
<1> DEFINE t0 == handler[h].task
           s == [handler[h] EXCEPT !.at = "unmap"]
<1>1. /\ handler[h].at = "rest"
      /\ UNCHANGED <<row, known, shared, applied, live, job, jobs, watches, osWatch, excused,
                     raced, requests, refusals>>
      /\ Fail(h) \/ (Set(h, s) /\ behind' = behind)
  BY DEF SetRest, AtPoint, Go, arrivals, cron, watch, refused
<1>2. CASE Fail(h)
  BY <1>1, <1>2, FailStep
<1>3. CASE Set(h, s) /\ behind' = behind
  <2>1. /\ t0 \in Tasks /\ t0 # NoTask /\ row[t0].trigger.kind # "new"
        /\ \A f \in handler[h].paths : Owns(t0, f)
    BY <1>1, AtWork, TriggersAssumption
  <2>2. "unmap" \in Points /\ "unmap" \notin Holding /\ "unmap" \in OnItsWay
    BY DEF Points, Holding, OnItsWay
  <2>3. s \in Handler /\ s.at = "unmap" /\ s.task = t0 /\ s.paths = handler[h].paths
    BY <2>2, Moved DEF IInv
  <2> HIDE DEF s
  <2>4. Reads(s)
    BY <2>1, <2>3 DEF Reads
  <2>5. /\ row' \in [Tasks -> Row] /\ applied' \in [Tasks -> Row] /\ behind' \subseteq Tasks
        /\ watches' \in [Tasks -> SUBSET Folders] /\ osWatch' \subseteq Folders
        /\ shared' \subseteq Folders /\ \A t : Keeps(t)
    BY <1>1, <1>3, AllKeep DEF IInv, TypeOK, Sure
  <2>6. Apart'
    BY <1>1, <1>3, <2>1, <2>3, ApartStep DEF Owns
  <2>7. Stage(t0, handler[h], row[t0], applied[t0], live, job[t0], watches[t0], Sure)
           => Stage(t0, s, row'[t0], applied'[t0], live, job[t0], watches'[t0], Sure')
    <3>1. Settled(t0, applied[t0], live, job[t0], watches[t0], Sure) =>
             (job[t0] = NoJob /\ NoJobs(t0, live)) \/ (job[t0] # NoJob /\ OneJob(t0, live, job[t0]))
      BY <2>1, SettledTidy
    <3>2. QED
      BY <1>1, <2>3, <3>1 DEF Stage
  <2>8. QED
    BY <1>1, <1>3, <2>1, <2>2, <2>3, <2>4, <2>5, <2>6, <2>7, QuietMove
<1>4. QED
  BY <1>1, <1>2, <1>3

LEMMA CleanUpStep ==
    ASSUME IInv, NEW h \in Handlers, CleanUp(h)
    PROVE  IInv'
<1> DEFINE t0 == handler[h].task
<1>1. /\ handler[h].at = "cleanup" /\ Done(h)
      /\ UNCHANGED <<known, shared, applied, live, job, jobs, watches, osWatch, excused,
                     raced, requests, refusals>>
      /\ \/ row' = [row EXCEPT ![t0] = Bare("gone")] /\ behind' = behind \ {t0}
         \/ row' = row /\ behind' = behind \cup {t0}
  BY DEF CleanUp, AtPoint, task, arrivals, cron, watch, refused
<1>2. t0 \in Tasks /\ t0 # NoTask /\ row[t0].trigger.kind # "new"
  BY <1>1, AtWork, TriggersAssumption
<1>3. /\ row' \in [Tasks -> Row] /\ row'[t0].trigger.kind # "new"
      /\ \A t \in Tasks : t # t0 => row'[t] = row[t]
      /\ row'[t0] = row[t0] \/ row'[t0] = Bare("gone")
  BY <1>1, <1>2, BareTyped DEF IInv, TypeOK
<1>4. /\ applied' \in [Tasks -> Row] /\ behind' \subseteq Tasks
      /\ watches' \in [Tasks -> SUBSET Folders] /\ osWatch' \subseteq Folders
      /\ shared' \subseteq Folders /\ \A t : Keeps(t)
  BY <1>1, <1>2, AllKeep DEF IInv, TypeOK, Sure
<1>5. row'[t0].trigger.kind # "cron" \/ t0 \in behind'
  BY <1>1, <1>2, BareTyped DEF IInv, TypeOK
<1>6. \A f \in row'[t0].folders \cup watches'[t0] : Owns(t0, f)
  BY <1>1, <1>3, BareTyped DEF Owns
<1>7. Apart'
  BY <1>1, <1>2, <1>3, <1>6, IdleMove, ApartStep
<1>8. Stage(t0, handler[h], row[t0], applied[t0], live, job[t0], watches[t0], Sure)
         => Rests(t0, row'[t0], applied'[t0], t0 \in behind', live, job[t0], watches'[t0],
                  Sure')
  <2>1. Sure' = Sure
    BY <1>1 DEF Sure
  <2>2. t0 \in behind' \/ row'[t0].trigger.kind \notin {"cron", "file_watch"}
    BY <1>1, <1>2, BareTyped DEF IInv, TypeOK
  <2>3. QED
    BY <1>1, <2>1, <2>2 DEF Stage, Rests, Settled
<1>9. QED
  BY <1>1, <1>2, <1>3, <1>4, <1>5, <1>7, <1>8, IdleMove, QuietMove

\* A refusal leaves the task to the excused.
LEMMA RefuseStep ==
    ASSUME IInv, NEW h \in Handlers, Refuse(h), handler[h].at # "idle",
           UNCHANGED <<row, known, behind, shared, applied, live, job, jobs, watches, raced,
                       requests>>,
           osWatch' \subseteq Folders, osWatch \subseteq osWatch'
    PROVE  IInv'
<1> DEFINE t0 == handler[h].task
<1>1. /\ refusals' \in 0 .. MaxRefusals /\ excused' = excused \cup {t0}
      /\ Set(h, Idle) /\ Idle \in Handler /\ Idle.task = NoTask /\ Idle.paths = {}
  BY IdleTyped, TriggersAssumption DEF Refuse, Done, task, IInv, TypeOK
<1>2. t0 \in Tasks /\ t0 # NoTask /\ row[t0].trigger.kind # "new"
  BY AtWork, TriggersAssumption
<1>3. TypeOK'
  BY <1>1, <1>2, SetTyped DEF IInv, TypeOK
<1>4. Busy'
  BY <1>1, IdleTyped, BusyStep
<1>5. Holders' /\ MappedJobIsLive'
  BY <1>1, IdleTyped, JobsStay DEF cron
<1>6. Attended'
  BY <1>1, <1>2, AttendedStep
<1>7. NewIsUntouched'
  BY <1>1, <1>2, UntouchedStep
<1>8. Apart'
  BY <1>1, <1>2, ApartStep DEF Owns
<1>9. Follows'
  BY <1>1, <1>2, FollowsStep, AllKeep DEF Sure
<1>10. QED
  BY <1>3, <1>4, <1>5, <1>6, <1>7, <1>8, <1>9 DEF IInv

LEMMA ReadStep ==
    ASSUME IInv, NEW h \in Handlers, Read(h)
    PROVE  IInv'
<1> DEFINE t0 == handler[h].task
           tr == row[t0].trigger
           again == [handler[h] EXCEPT !.at = "unmapAgain", !.trigger = tr]
           folders == [handler[h] EXCEPT !.at = "readFolders"]
<1>1. /\ handler[h].at = "read"
      /\ UNCHANGED <<row, known, shared, live, job, jobs, watches, osWatch, raced, requests>>
  BY DEF Read, AtPoint, arrivals, cron, watch
<1>2. \/ Refuse(h) /\ UNCHANGED <<applied, behind>>
      \/ /\ \/ tr.kind = "cron" /\ Set(h, again)
            \/ tr.kind = "file_watch" /\ Set(h, folders)
            \/ tr.kind \notin {"cron", "file_watch"} /\ Done(h)
         /\ applied' = [applied EXCEPT ![t0] = row[t0]] /\ behind' = behind \ {t0}
         /\ UNCHANGED <<excused, refusals>>
  BY DEF Read, CurrentRow, task, Go, refused
<1>3. CASE Refuse(h) /\ UNCHANGED <<applied, behind>>
  BY <1>1, <1>3, RefuseStep DEF IInv, TypeOK
<1>4. ASSUME applied' = [applied EXCEPT ![t0] = row[t0]], behind' = behind \ {t0},
             UNCHANGED <<excused, refusals>>, NEW s \in Handler, Set(h, s),
             s.at # "idle" => s.task = t0, Reads(s), s.at \notin Holding,
             s.paths \subseteq handler[h].paths,
             tr.kind # "cron" \/ s.at \in OnItsWay,
             Stage(t0, handler[h], row[t0], applied[t0], live, job[t0], watches[t0], Sure) =>
                 /\ s.at # "idle" => Stage(t0, s, row[t0], row[t0], live, job[t0],
                                           watches[t0], Sure)
                 /\ s.at = "idle" => Settled(t0, row[t0], live, job[t0], watches[t0], Sure)
      PROVE  IInv'
  <2>1. /\ t0 \in Tasks /\ t0 # NoTask /\ row[t0].trigger.kind # "new"
        /\ \A f \in handler[h].paths : Owns(t0, f)
    BY <1>1, AtWork, TriggersAssumption
  <2>2. /\ applied' \in [Tasks -> Row] /\ applied'[t0] = row[t0]
        /\ \A t \in Tasks : t # t0 => applied'[t] = applied[t]
    BY <1>4, <2>1 DEF IInv, TypeOK
  <2>3. /\ row' \in [Tasks -> Row] /\ behind' \subseteq Tasks
        /\ watches' \in [Tasks -> SUBSET Folders] /\ osWatch' \subseteq Folders
        /\ shared' \subseteq Folders /\ \A t : Keeps(t)
    BY <1>1, <1>4, AllKeep DEF IInv, TypeOK, Sure
  <2>4. s.task \in {t0, NoTask}
    BY <1>4 DEF Reads
  <2>5. Apart'
    BY <1>1, <1>4, <2>1, <2>4, ApartStep DEF Owns
  <2>6. Stage(t0, handler[h], row[t0], applied[t0], live, job[t0], watches[t0], Sure) =>
           /\ s.at # "idle" => Stage(t0, s, row'[t0], applied'[t0], live, job[t0],
                                     watches'[t0], Sure')
           /\ s.at = "idle" => Rests(t0, row'[t0], applied'[t0], t0 \in behind', live,
                                     job[t0], watches'[t0], Sure')
    BY <1>1, <1>4, <2>2 DEF Sure, Rests
  <2>7. QED
    BY <1>1, <1>4, <2>1, <2>2, <2>3, <2>5, <2>6, QuietMove
<1>5. t0 \in Tasks /\ t0 # NoTask
  BY <1>1, AtWork, TriggersAssumption
<1>6. ASSUME applied' = [applied EXCEPT ![t0] = row[t0]], behind' = behind \ {t0},
             UNCHANGED <<excused, refusals>>
      PROVE  /\ tr.kind = "cron" /\ Set(h, again) => IInv'
             /\ tr.kind = "file_watch" /\ Set(h, folders) => IInv'
             /\ tr.kind \notin {"cron", "file_watch"} /\ Done(h) => IInv'
  <2>1. ASSUME tr.kind = "cron", Set(h, again) PROVE IInv'
    <3>1. "unmapAgain" \in Points /\ "unmapAgain" \notin Holding /\ "unmapAgain" \in OnItsWay
      BY DEF Points, Holding, OnItsWay
    <3>2. tr \in Trigger
      BY <1>5, RowFields DEF IInv
    <3>3. again \in Handler /\ again.at = "unmapAgain" /\ again.task = t0
          /\ again.trigger = tr /\ again.paths = handler[h].paths
      BY <3>1, <3>2, HandlerFields DEF IInv, Handler
    <3> HIDE DEF again
    <3>4. Reads(again)
      BY <1>5, <2>1, <3>3 DEF Reads
    <3>5. Stage(t0, handler[h], row[t0], applied[t0], live, job[t0], watches[t0], Sure)
             => Stage(t0, again, row[t0], row[t0], live, job[t0], watches[t0], Sure)
      BY <1>1, <2>1, <3>3 DEF Stage
    <3>6. QED
      BY <1>4, <1>6, <2>1, <3>1, <3>3, <3>4, <3>5
  <2>2. ASSUME tr.kind = "file_watch", Set(h, folders) PROVE IInv'
    <3>1. "readFolders" \in Points /\ "readFolders" \notin Holding
      BY DEF Points, Holding
    <3>2. folders \in Handler /\ folders.at = "readFolders" /\ folders.task = t0
          /\ folders.paths = handler[h].paths
      BY <3>1, Moved DEF IInv
    <3> HIDE DEF folders
    <3>3. Reads(folders)
      BY <1>5, <3>2 DEF Reads
    <3>4. Stage(t0, handler[h], row[t0], applied[t0], live, job[t0], watches[t0], Sure)
             => Stage(t0, folders, row[t0], row[t0], live, job[t0], watches[t0], Sure)
      BY <1>1, <2>2, <3>2 DEF Stage
    <3>5. QED
      BY <1>4, <1>6, <2>2, <3>1, <3>2, <3>3, <3>4
  <2>3. ASSUME tr.kind \notin {"cron", "file_watch"}, Done(h) PROVE IInv'
    <3>1. Stage(t0, handler[h], row[t0], applied[t0], live, job[t0], watches[t0], Sure)
             => Settled(t0, row[t0], live, job[t0], watches[t0], Sure)
      BY <1>1, <2>3 DEF Stage, Settled
    <3>2. QED
      BY <1>4, <1>6, <2>3, <3>1, IdleMove
  <2>4. QED
    BY <2>1, <2>2, <2>3
<1>7. QED
  BY <1>2, <1>3, <1>6

LEMMA UnwatchStep ==
    ASSUME IInv, NEW h \in Handlers, Unwatch(h)
    PROVE  IInv'
<1> DEFINE t0 == handler[h].task
           s == [handler[h] EXCEPT !.at = "unwatchOs", !.paths = watches[t0]]
<1>1. /\ handler[h].at = "unwatch" /\ Set(h, s) /\ watches' = [watches EXCEPT ![t0] = {}]
      /\ UNCHANGED <<row, known, behind, shared, applied, live, job, jobs, osWatch, excused,
                     raced, requests, refusals>>
  BY DEF Unwatch, AtPoint, task, tables, arrivals, cron, refused
<1>2. t0 \in Tasks /\ t0 # NoTask /\ row[t0].trigger.kind # "new"
  BY <1>1, AtWork, TriggersAssumption
<1>3. "unwatchOs" \in Points /\ "unwatchOs" \notin Holding /\ "unwatchOs" \in OnItsWay
  BY DEF Points, Holding, OnItsWay
<1>4. watches[t0] \in SUBSET Folders
  BY <1>2 DEF IInv, TypeOK
<1>5. s \in Handler /\ s.at = "unwatchOs" /\ s.task = t0 /\ s.paths = watches[t0]
  BY <1>3, <1>4, HandlerFields DEF IInv, Handler
<1> HIDE DEF s
<1>6. /\ watches' \in [Tasks -> SUBSET Folders] /\ watches'[t0] = {}
      /\ \A t \in Tasks : t # t0 => watches'[t] = watches[t]
      /\ row' \in [Tasks -> Row] /\ osWatch' \subseteq Folders
      /\ applied' \in [Tasks -> Row] /\ behind' \subseteq Tasks /\ shared' \subseteq Folders
  BY <1>1, <1>2 DEF IInv, TypeOK
<1>7. Reads(s)
  BY <1>2, <1>5 DEF Reads
<1>8. Sure' = Sure /\ \A t : Keeps(t)
  BY <1>1, AllKeep DEF Sure
<1>9. Apart'
  BY <1>1, <1>2, <1>5, <1>6, ApartStep DEF Owns
<1>10. Stage(t0, handler[h], row[t0], applied[t0], live, job[t0], watches[t0], Sure)
          => Stage(t0, s, row'[t0], applied'[t0], live, job[t0], watches'[t0], Sure')
  BY <1>1, <1>5, <1>6 DEF Stage
<1>11. QED
  BY <1>1, <1>2, <1>3, <1>5, <1>6, <1>7, <1>8, <1>9, <1>10, QuietMove

\* The folders that are no longer watched are t0's, and so of no other task unless
\* they are shared.
LEMMA UnwatchOsStep ==
    ASSUME IInv, NEW h \in Handlers, UnwatchOs(h)
    PROVE  IInv'
<1> DEFINE t0 == handler[h].task
           p == IF handler[h].call = "delete" THEN "deleteRow" ELSE "read"
           s == [handler[h] EXCEPT !.paths = {}, !.at = p]
<1>1. /\ handler[h].at = "unwatchOs" /\ Set(h, s) /\ osWatch' = osWatch \ handler[h].paths
      /\ UNCHANGED <<row, known, behind, shared, applied, live, job, jobs, watches, excused,
                     raced, requests, refusals>>
  BY DEF UnwatchOs, AtPoint, tables, arrivals, cron, refused
<1>2. /\ t0 \in Tasks /\ t0 # NoTask /\ row[t0].trigger.kind # "new"
      /\ \A f \in handler[h].paths : Owns(t0, f)
  BY <1>1, AtWork, TriggersAssumption
<1>3. p \in Points /\ p \notin Holding /\ p \in OnItsWay /\ p \in {"deleteRow", "read"}
  BY DEF Points, Holding, OnItsWay
<1> HIDE DEF p
<1>4. s \in Handler /\ s.at = p /\ s.task = t0 /\ s.paths = {}
  BY <1>3, HandlerFields DEF IInv, Handler
<1> HIDE DEF s
<1>5. /\ watches' \in [Tasks -> SUBSET Folders] /\ row' \in [Tasks -> Row]
      /\ osWatch' \subseteq Folders /\ applied' \in [Tasks -> Row]
      /\ behind' \subseteq Tasks /\ shared' \subseteq Folders
  BY <1>1 DEF IInv, TypeOK
<1>6. Reads(s)
  BY <1>2, <1>3, <1>4 DEF Reads
<1>7. ASSUME NEW t \in Tasks, t # t0 PROVE Keeps(t)
  <2>1. SUFFICES ASSUME NEW f \in Sure \ Sure', Owns(t, f) PROVE FALSE
    BY DEF Keeps
  <2>2. f \in handler[h].paths /\ f \notin shared
    BY <1>1 DEF Sure
  <2>3. f \in Folders \ shared /\ Owns(t0, f)
    BY <1>2, <2>2, HandlerFields DEF IInv
  <2>4. QED
    BY <1>2, <1>7, <2>1, <2>3 DEF IInv, Apart
<1>8. Apart'
  BY <1>1, <1>2, <1>4, ApartStep DEF Owns
<1>9. Stage(t0, handler[h], row[t0], applied[t0], live, job[t0], watches[t0], Sure)
         => Stage(t0, s, row'[t0], applied'[t0], live, job[t0], watches'[t0], Sure')
  BY <1>1, <1>3, <1>4 DEF Stage
<1>10. s.at # "idle"
  BY <1>3, <1>4
<1>11. QED
  BY <1>1, <1>2, <1>3, <1>4, <1>5, <1>6, <1>7, <1>8, <1>9, <1>10, QuietMove

LEMMA ReadFoldersStep ==
    ASSUME IInv, NEW h \in Handlers, ReadFolders(h)
    PROVE  IInv'
<1> DEFINE t0 == handler[h].task
           s == [handler[h] EXCEPT !.at = "watchOs", !.paths = row[t0].folders]
<1>1. /\ handler[h].at = "readFolders"
      /\ UNCHANGED <<row, known, behind, shared, live, job, jobs, watches, osWatch, raced,
                     requests>>
  BY DEF ReadFolders, AtPoint, tables, arrivals, cron, watch
<1>2. \/ Refuse(h) /\ applied' = applied
      \/ /\ (row[t0].folders = {} /\ Done(h)) \/ Set(h, s)
         /\ applied' = [applied EXCEPT ![t0] = row[t0]] /\ UNCHANGED <<excused, refusals>>
  BY DEF ReadFolders, task, refused
<1>3. CASE Refuse(h) /\ applied' = applied
  BY <1>1, <1>3, RefuseStep DEF IInv, TypeOK
<1>4. ASSUME (row[t0].folders = {} /\ Done(h)) \/ Set(h, s),
             applied' = [applied EXCEPT ![t0] = row[t0]], UNCHANGED <<excused, refusals>>
      PROVE  IInv'
  <2>1. t0 \in Tasks /\ t0 # NoTask /\ row[t0].trigger.kind # "new"
    BY <1>1, AtWork, TriggersAssumption
  <2>2. /\ applied' \in [Tasks -> Row] /\ applied'[t0] = row[t0]
        /\ \A t \in Tasks : t # t0 => applied'[t] = applied[t]
    BY <1>4, <2>1 DEF IInv, TypeOK
  <2>3. /\ row' \in [Tasks -> Row] /\ behind' \subseteq Tasks
        /\ watches' \in [Tasks -> SUBSET Folders] /\ osWatch' \subseteq Folders
        /\ shared' \subseteq Folders /\ \A t : Keeps(t)
    BY <1>1, <1>4, AllKeep DEF IInv, TypeOK, Sure
  <2>4. handler[h].at \notin OnItsWay /\ row'[t0].trigger = row[t0].trigger
    BY <1>1 DEF OnItsWay
  <2>5. CASE row[t0].folders = {} /\ Done(h)
    <3>1. Stage(t0, handler[h], row[t0], applied[t0], live, job[t0], watches[t0], Sure)
             => Rests(t0, row'[t0], applied'[t0], t0 \in behind', live, job[t0],
                      watches'[t0], Sure')
      BY <1>1, <2>2, <2>5 DEF Stage, Settled, Rests
    <3>2. Apart'
      BY <1>1, <2>1, <2>5, IdleMove, ApartStep DEF Owns
    <3>3. QED
      BY <1>1, <1>4, <2>1, <2>2, <2>3, <2>4, <2>5, <3>1, <3>2, IdleMove, QuietMove
  <2>6. CASE Set(h, s)
    <3>1. "watchOs" \in Points /\ "watchOs" \notin Holding
      BY DEF Points, Holding
    <3>2. s \in Handler /\ s.at = "watchOs" /\ s.task = t0 /\ s.paths = row[t0].folders
      BY <2>1, <3>1, HandlerFields, RowFields DEF IInv, Handler
    <3> HIDE DEF s
    <3>3. Reads(s)
      BY <2>1, <3>2 DEF Reads
    <3>4. Stage(t0, handler[h], row[t0], applied[t0], live, job[t0], watches[t0], Sure)
             => Stage(t0, s, row'[t0], applied'[t0], live, job[t0], watches'[t0], Sure')
      BY <1>1, <2>2, <3>2 DEF Stage
    <3>5. Apart'
      BY <1>1, <2>1, <2>6, <3>2, ApartStep DEF Owns
    <3>6. QED
      BY <1>1, <1>4, <2>1, <2>2, <2>3, <2>4, <2>6, <3>1, <3>2, <3>3, <3>4, <3>5, QuietMove
  <2>7. QED
    BY <1>4, <2>5, <2>6
<1>5. QED
  BY <1>2, <1>3, <1>4

LEMMA WatchOsStep ==
    ASSUME IInv, NEW h \in Handlers, WatchOs(h)
    PROVE  IInv'
<1> DEFINE t0 == handler[h].task
           s == [handler[h] EXCEPT !.at = "watch"]
<1>1. /\ handler[h].at = "watchOs"
      /\ UNCHANGED <<row, known, behind, shared, applied, live, job, jobs, watches, raced,
                     requests>>
  BY DEF WatchOs, AtPoint, tables, arrivals, cron
<1>2. /\ osWatch' \subseteq Folders /\ osWatch \subseteq osWatch'
      /\ \/ Refuse(h)
         \/ /\ Set(h, s) /\ UNCHANGED <<excused, refusals>>
            /\ handler[h].paths \subseteq osWatch'
  BY HandlerFields DEF WatchOs, Go, refused, IInv, TypeOK
<1>3. CASE Refuse(h)
  BY <1>1, <1>2, <1>3, RefuseStep
<1>4. CASE /\ Set(h, s) /\ UNCHANGED <<excused, refusals>>
           /\ handler[h].paths \subseteq osWatch'
  <2>1. /\ t0 \in Tasks /\ t0 # NoTask /\ row[t0].trigger.kind # "new"
        /\ \A f \in handler[h].paths : Owns(t0, f)
    BY <1>1, AtWork, TriggersAssumption
  <2>2. "watch" \in Points /\ "watch" \notin Holding
    BY DEF Points, Holding
  <2>3. s \in Handler /\ s.at = "watch" /\ s.task = t0 /\ s.paths = handler[h].paths
    BY <2>2, Moved DEF IInv
  <2> HIDE DEF s
  <2>4. Reads(s)
    BY <2>1, <2>3 DEF Reads
  <2>5. /\ row' \in [Tasks -> Row] /\ watches' \in [Tasks -> SUBSET Folders]
        /\ applied' \in [Tasks -> Row] /\ behind' \subseteq Tasks /\ shared' \subseteq Folders
    BY <1>1 DEF IInv, TypeOK
  <2>6. handler[h].at \notin OnItsWay /\ row'[t0].trigger = row[t0].trigger
    BY <1>1 DEF OnItsWay
  <2>7. handler[h].paths \subseteq Sure' /\ \A t : Keeps(t)
    BY <1>1, <1>2, <1>4, AllKeep DEF Sure
  <2>8. Apart'
    BY <1>1, <1>4, <2>1, <2>3, ApartStep DEF Owns
  <2>9. Stage(t0, handler[h], row[t0], applied[t0], live, job[t0], watches[t0], Sure)
           => Stage(t0, s, row'[t0], applied'[t0], live, job[t0], watches'[t0], Sure')
    BY <1>1, <2>3, <2>7 DEF Stage
  <2>10. QED
    BY <1>1, <1>2, <1>4, <2>1, <2>2, <2>3, <2>4, <2>5, <2>6, <2>7, <2>8, <2>9, QuietMove
<1>5. QED
  BY <1>2, <1>3, <1>4

LEMMA WatchStep ==
    ASSUME IInv, NEW h \in Handlers, Watch(h)
    PROVE  IInv'
<1> DEFINE t0 == handler[h].task
<1>1. /\ handler[h].at = "watch" /\ Done(h)
      /\ watches' = [watches EXCEPT ![t0] = handler[h].paths]
      /\ UNCHANGED <<row, known, behind, shared, applied, live, job, jobs, osWatch, excused,
                     raced, requests, refusals>>
  BY DEF Watch, AtPoint, task, tables, arrivals, cron, refused
<1>2. /\ t0 \in Tasks /\ t0 # NoTask /\ row[t0].trigger.kind # "new"
      /\ \A f \in handler[h].paths : Owns(t0, f)
  BY <1>1, AtWork, TriggersAssumption
<1>3. /\ watches' \in [Tasks -> SUBSET Folders] /\ watches'[t0] = handler[h].paths
      /\ \A t \in Tasks : t # t0 => watches'[t] = watches[t]
      /\ row' \in [Tasks -> Row] /\ osWatch' \subseteq Folders
      /\ applied' \in [Tasks -> Row] /\ behind' \subseteq Tasks /\ shared' \subseteq Folders
  BY <1>1, <1>2, HandlerFields DEF IInv, TypeOK
<1>4. handler[h].at \notin OnItsWay /\ row'[t0].trigger = row[t0].trigger
  BY <1>1 DEF OnItsWay
<1>5. Sure' = Sure /\ \A t : Keeps(t)
  BY <1>1, AllKeep DEF Sure
<1>6. \A f \in row'[t0].folders \cup watches'[t0] : Owns(t0, f)
  BY <1>1, <1>2, <1>3 DEF Owns
<1>7. Apart'
  BY <1>1, <1>2, <1>3, <1>6, IdleMove, ApartStep
<1>8. Stage(t0, handler[h], row[t0], applied[t0], live, job[t0], watches[t0], Sure)
         => Rests(t0, row'[t0], applied'[t0], t0 \in behind', live, job[t0], watches'[t0],
                  Sure')
  BY <1>1, <1>3, <1>5 DEF Stage, Settled, Rests
<1>9. QED
  BY <1>1, <1>2, <1>3, <1>4, <1>5, <1>7, <1>8, IdleMove, QuietMove

LEMMA DeleteRowStep ==
    ASSUME IInv, NEW h \in Handlers, DeleteRow(h)
    PROVE  IInv'
<1> DEFINE t0 == handler[h].task
           gone == Bare("gone")
<1>1. /\ handler[h].at = "deleteRow"
      /\ UNCHANGED <<known, shared, live, job, jobs, watches, osWatch, raced, requests>>
  BY DEF DeleteRow, AtPoint, arrivals, cron, watch
<1>2. \/ Refuse(h) /\ UNCHANGED <<row, applied, behind>>
      \/ /\ Done(h) /\ row' = [row EXCEPT ![t0] = gone]
         /\ applied' = [applied EXCEPT ![t0] = gone] /\ behind' = behind \ {t0}
         /\ UNCHANGED <<excused, refusals>>
  BY DEF DeleteRow, task, refused
<1>3. CASE Refuse(h) /\ UNCHANGED <<row, applied, behind>>
  BY <1>1, <1>3, RefuseStep DEF IInv, TypeOK
<1>4. CASE /\ Done(h) /\ row' = [row EXCEPT ![t0] = gone]
           /\ applied' = [applied EXCEPT ![t0] = gone] /\ behind' = behind \ {t0}
           /\ UNCHANGED <<excused, refusals>>
  <2>1. t0 \in Tasks /\ t0 # NoTask
    BY <1>1, AtWork, TriggersAssumption
  <2>2. gone \in Row /\ gone.trigger.kind = "gone" /\ gone.folders = {}
    BY BareTyped
  <2> HIDE DEF gone
  <2>3. /\ row' \in [Tasks -> Row] /\ row'[t0] = gone
        /\ applied' \in [Tasks -> Row] /\ applied'[t0] = gone
        /\ \A t \in Tasks : t # t0 => row'[t] = row[t] /\ applied'[t] = applied[t]
    BY <1>4, <2>1, <2>2 DEF IInv, TypeOK
  <2>4. /\ watches' \in [Tasks -> SUBSET Folders] /\ osWatch' \subseteq Folders
        /\ behind' \subseteq Tasks /\ shared' \subseteq Folders /\ \A t : Keeps(t)
    BY <1>1, <1>4, AllKeep DEF IInv, TypeOK, Sure
  <2>5. Stage(t0, handler[h], row[t0], applied[t0], live, job[t0], watches[t0], Sure)
           => Rests(t0, row'[t0], applied'[t0], t0 \in behind', live, job[t0], watches'[t0],
                    Sure')
    BY <1>1, <2>2, <2>3 DEF Stage, Settled, Rests
  <2>6. \A f \in row'[t0].folders \cup watches'[t0] : Owns(t0, f)
    BY <1>1, <2>2, <2>3 DEF Owns
  <2>7. Apart'
    BY <1>1, <1>4, <2>1, <2>3, <2>6, IdleMove, ApartStep
  <2>8. QED
    BY <1>1, <1>4, <2>1, <2>2, <2>3, <2>4, <2>5, <2>7, IdleMove, QuietMove
<1>5. QED
  BY <1>2, <1>3, <1>4

\* A folder that is deleted leaves fewer folders to watch.
LEMMA DeleteFolderStep ==
    ASSUME IInv, NEW f \in Folders, DeleteFolder(f)
    PROVE  IInv'
<1>1. /\ known' \subseteq known
      /\ row' = [t \in Tasks |-> [row[t] EXCEPT !.folders = @ \ {f}]]
      /\ UNCHANGED <<behind, shared, applied, live, job, jobs, watches, osWatch, handler,
                     excused, raced, requests, refusals>>
  BY DEF DeleteFolder, arrivals, cron, watch, refused
<1>2. ASSUME NEW t \in Tasks
      PROVE  /\ row'[t] \in Row /\ row'[t].trigger = row[t].trigger
             /\ row'[t].folders \subseteq row[t].folders
  <2>1. row'[t] = [row[t] EXCEPT !.folders = @ \ {f}]
    BY <1>1
  <2>2. QED
    BY <2>1, RowFields DEF IInv, Row
<1>3. row' \in [Tasks -> Row]
  BY <1>1, <1>2
<1>4. TypeOK'
  BY <1>1, <1>3 DEF IInv, TypeOK
<1>5. Busy' /\ Holders' /\ MappedJobIsLive'
  BY <1>1 DEF IInv, Busy, Holders, MappedJobIsLive
<1>6. Attended' /\ NewIsUntouched'
  BY <1>1, <1>2 DEF IInv, Attended, NewIsUntouched
<1>7. Sure' = Sure
  BY <1>1 DEF Sure
<1>8. ASSUME NEW t \in Tasks
      PROVE  /\ Rests(t, row[t], applied[t], t \in behind, live, job[t], watches[t], Sure)
                   => Rests(t, row'[t], applied[t], t \in behind, live, job[t], watches[t],
                            Sure)
             /\ \A h \in Handlers :
                   Stage(t, handler[h], row[t], applied[t], live, job[t], watches[t], Sure)
                   => Stage(t, handler[h], row'[t], applied[t], live, job[t], watches[t], Sure)
  BY <1>2 DEF Settled, Stage, Rests
<1>9. Follows'
  BY <1>1, <1>7, <1>8 DEF IInv, Follows, Alone
<1>10. Apart'
  <2>1. ASSUME NEW t \in Tasks, NEW g, Owns(t, g)' PROVE Owns(t, g)
    BY <1>1, <1>2, <2>1 DEF Owns, task
  <2>2. QED
    BY <1>1, <2>1 DEF IInv, Apart
<1>11. QED
  BY <1>4, <1>5, <1>6, <1>9, <1>10 DEF IInv

-----------------------------------------------------------------------------
(* The steps on the jobs.                                                  *)

\* A job that is mapped is live, is its task's, and no handler holds it.
LEMMA MappedJob ==
    ASSUME IInv, NEW t \in Tasks, job[t] # NoJob
    PROVE  /\ job[t] \in 1 .. jobs
           /\ \E j \in live : j.id = job[t]
           /\ \A j \in live : j.id = job[t] => j.task = t
           /\ \A h \in Handlers : handler[h].at \in Holding => handler[h].held # job[t]
           /\ \A u \in Tasks : u # t => job[u] # job[t]
<1>1. job[t] \in 1 .. jobs
  BY DEF IInv, TypeOK, NoJob
<1>2. PICK j \in live : j.id = job[t] /\ j.task = t
  BY DEF IInv, MappedJobIsLive
<1>3. \A k \in live : k.id = job[t] => k = j
  BY <1>2 DEF IInv, Holders, Ids
<1>4. ASSUME NEW u \in Tasks, u # t PROVE job[u] # job[t]
  <2>1. SUFFICES ASSUME job[u] = job[t] PROVE FALSE
    OBVIOUS
  <2>2. PICK k \in live : k.id = job[u] /\ k.task = u
    BY <2>1 DEF IInv, MappedJobIsLive
  <2>3. QED
    BY <1>2, <1>3, <1>4, <2>1, <2>2
<1>5. \A h \in Handlers : handler[h].at \in Holding => handler[h].held # job[t]
  BY DEF IInv, Holders
<1>6. QED
  BY <1>1, <1>2, <1>3, <1>4, <1>5

\* A step on the jobs leaves rows and folders as they are.
LEMMA TablesStay ==
    ASSUME IInv, NEW h \in Handlers, NEW s \in Handler, Set(h, s), handler[h].at # "idle",
           s.task \in {handler[h].task, NoTask}, s.paths \subseteq handler[h].paths,
           UNCHANGED <<row, behind, shared, watches, osWatch>>
    PROVE  NewIsUntouched' /\ Apart' /\ Sure' = Sure /\ \A t : Keeps(t)
<1> DEFINE t0 == handler[h].task
<1>1. /\ t0 \in Tasks /\ row[t0].trigger.kind # "new"
      /\ \A f \in handler[h].paths : Owns(t0, f)
  BY AtWork
<1>2. NewIsUntouched'
  BY <1>1, UntouchedStep
<1>3. Apart'
  BY <1>1, ApartStep DEF Owns
<1>4. QED
  BY <1>2, <1>3, AllKeep DEF Sure

LEMMA UnmapStep ==
    ASSUME IInv, NEW h \in Handlers, Unmap(h)
    PROVE  IInv'
<1> DEFINE t0 == handler[h].task
           again == handler[h].at = "unmapAgain"
           next == IF again THEN "add" ELSE "unwatch"
           drop == IF again THEN "dropAgain" ELSE "drop"
           moved == [handler[h] EXCEPT !.at = next]
           held == [handler[h] EXCEPT !.held = job[t0], !.at = drop]
<1>1. /\ handler[h].at \in {"unmap", "unmapAgain"} /\ job' = [job EXCEPT ![t0] = NoJob]
      /\ UNCHANGED <<row, known, behind, shared, applied, live, jobs, watches, osWatch,
                     excused, raced, requests, refusals>>
  BY DEF Unmap, task, tables, arrivals, watch, refused
<1>2. IF job[t0] = NoJob THEN Set(h, moved) ELSE Set(h, held)
  BY DEF Unmap, task, Go, AtPoint
<1>3. t0 \in Tasks /\ t0 # NoTask /\ row[t0].trigger.kind # "new"
  BY <1>1, AtWork, TriggersAssumption
<1>4. /\ job' \in [Tasks -> 0 .. jobs] /\ job'[t0] = NoJob
      /\ \A t \in Tasks : t # t0 => job'[t] = job[t]
  BY <1>1, <1>3 DEF IInv, TypeOK, NoJob
<1>5. Reads(handler[h]) /\ row' \in [Tasks -> Row]
      /\ watches' \in [Tasks -> SUBSET Folders] /\ osWatch' \subseteq Folders
      /\ applied' \in [Tasks -> Row] /\ behind' \subseteq Tasks /\ shared' \subseteq Folders
  BY <1>1 DEF IInv, Busy, TypeOK
<1>6. CASE job[t0] = NoJob
  <2>1. job' = job
    BY <1>1, <1>3, <1>6 DEF IInv, TypeOK
  <2>2. /\ next \in Points /\ next \notin Holding /\ next \in OnItsWay
        /\ next \in {"add", "unwatch"} /\ (next = "add" <=> again)
    BY DEF Points, Holding, OnItsWay
  <2> HIDE DEF next
  <2>3. moved \in Handler /\ moved.at = next /\ moved.task = t0
        /\ moved.trigger = handler[h].trigger /\ moved.paths = handler[h].paths
    BY <2>2, Moved DEF IInv
  <2> HIDE DEF moved
  <2>4. Reads(moved)
    BY <1>1, <1>3, <1>5, <2>2, <2>3 DEF Reads
  <2>5. moved.at # "idle" /\ handler[h].at # "idle" /\ Set(h, moved)
    BY <1>1, <1>2, <1>6, <2>2, <2>3
  <2>6. Apart' /\ Sure' = Sure /\ \A t : Keeps(t)
    BY <1>1, <2>3, <2>5, TablesStay
  <2>7. Stage(t0, handler[h], row[t0], applied[t0], live, job[t0], watches[t0], Sure)
           => Stage(t0, moved, row'[t0], applied'[t0], live, job[t0], watches'[t0], Sure')
    BY <1>1, <1>6, <2>2, <2>3, <2>6 DEF Stage
  <2>8. QED
    BY <1>1, <1>3, <1>5, <2>1, <2>2, <2>3, <2>4, <2>5, <2>6, <2>7, QuietMove
<1>7. CASE job[t0] # NoJob
  <2>1. /\ drop \in Points /\ drop \in OnItsWay /\ drop \in {"drop", "dropAgain"}
        /\ (drop = "dropAgain" <=> again) /\ drop \in Holding
    BY DEF Points, Holding, OnItsWay
  <2> HIDE DEF drop
  <2>2. job[t0] \in Nat
    BY <1>3 DEF IInv, TypeOK
  <2>3. held \in Handler /\ held.at = drop /\ held.task = t0 /\ held.held = job[t0]
        /\ held.trigger = handler[h].trigger /\ held.paths = handler[h].paths
    BY <2>1, <2>2, HandlerFields DEF IInv, Handler
  <2> HIDE DEF held
  <2>4. Reads(held)
    BY <1>1, <1>3, <1>5, <2>1, <2>3 DEF Reads
  <2>5. Set(h, held) /\ handler' \in [Handlers -> Handler] /\ handler'[h] = held
        /\ \A g \in Handlers : g # h => handler'[g] = handler[g]
    BY <1>2, <1>7, <2>3, SetTyped DEF IInv
  <2>6. TypeOK'
    BY <1>1, <1>4, <1>5, <2>5 DEF IInv, TypeOK
  <2>7. Busy'
    BY <2>3, <2>4, <2>5, BusyStep
  <2>8. Holders'
    <3>1. Holds(held, live, jobs)
      BY <1>3, <1>7, <2>1, <2>3, MappedJob DEF Holds
    <3>2. \A g \in Handlers : Holds(handler'[g], live, jobs)
      BY <2>5, <3>1 DEF IInv, Holders
    <3>3. \A t \in Tasks : job'[t] # held.held
      BY <1>3, <1>4, <1>7, <2>3, MappedJob
    <3>4. \A g \in Handlers : g # h /\ handler[g].at \in Holding => handler[g].held # held.held
      BY <1>3, <1>7, <2>3, MappedJob
    <3>5. \A g \in Handlers : handler[g].at \in Holding
             => \A t \in Tasks : job'[t] # handler[g].held
      <4>1. \A g \in Handlers : handler[g].at \in Holding => handler[g].held # NoJob
        BY DEF IInv, Holders, Holds, NoJob
      <4>2. QED
        BY <1>4, <4>1 DEF IInv, Holders
    <3>6. QED
      BY <1>1, <2>5, <3>2, <3>3, <3>4, <3>5 DEF IInv, Holders
  <2>9. MappedJobIsLive'
    BY <1>1, <1>4 DEF IInv, MappedJobIsLive
  <2>10. Attended'
    BY <1>1, <1>3, <1>4, <2>1, <2>3, <2>5, AttendedStep
  <2>11. NewIsUntouched' /\ Apart' /\ Sure' = Sure /\ \A t : Keeps(t)
    BY <1>1, <2>3, <2>5, TablesStay
  <2>12. Follows'
    <3>1. ASSUME t0 \notin excused' \cup raced'
          PROVE  /\ \A g \in Handlers : g # h => handler[g].task # t0
                 /\ Stage(t0, held, row'[t0], applied'[t0], live', job'[t0], watches'[t0],
                          Sure')
      <4>1. /\ \A g \in Handlers : g # h => handler[g].task # t0
            /\ Stage(t0, handler[h], row[t0], applied[t0], live, job[t0], watches[t0], Sure)
        BY <1>1, <3>1, AtWork
      <4>2. handler[h].at = "unmap" /\ OneJob(t0, live, job[t0])
        BY <1>1, <1>7, <4>1 DEF Stage
      <4>3. held.at = "drop"
        BY <2>1, <2>3, <4>2
      <4>4. QED
        BY <1>1, <1>4, <2>3, <4>1, <4>2, <4>3 DEF Stage
    <3>2. \A t \in Tasks : t # t0 =>
             /\ row'[t] = row[t] /\ job'[t] = job[t] /\ watches'[t] = watches[t]
             /\ applied'[t] = applied[t] /\ (t \in behind => t \in behind') /\ Keeps(t)
      BY <1>1, <1>4, <2>11
    <3>3. excused \subseteq excused' /\ raced \subseteq raced' /\ live' = live
      BY <1>1
    <3>4. QED
      BY <1>3, <2>3, <2>5, <3>1, <3>2, <3>3, FollowsStep
  <2>13. QED
    BY <2>6, <2>7, <2>8, <2>9, <2>10, <2>11, <2>12 DEF IInv
<1>8. QED
  BY <1>6, <1>7

LEMMA DropStep ==
    ASSUME IInv, NEW h \in Handlers, Drop(h)
    PROVE  IInv'
<1> DEFINE t0 == handler[h].task
           p == IF handler[h].at = "drop" THEN "unwatch" ELSE "add"
           s == [handler[h] EXCEPT !.held = NoJob, !.at = p]
           n == handler[h].held
<1>1. /\ handler[h].at \in {"drop", "dropAgain"}
      /\ UNCHANGED <<row, known, behind, shared, applied, job, jobs, watches, osWatch, raced,
                     requests>>
  BY DEF Drop, tables, arrivals, watch
<1>2. \/ Refuse(h) /\ live' = live
      \/ /\ live' = {j \in live : j.id # n} /\ Set(h, s) /\ UNCHANGED <<excused, refusals>>
  BY DEF Drop, WithoutHeld, AtPoint, refused
<1>3. t0 \in Tasks /\ t0 # NoTask /\ osWatch' \subseteq Folders
  BY <1>1, AtWork, TriggersAssumption DEF IInv, TypeOK
<1>4. CASE Refuse(h) /\ live' = live
  BY <1>1, <1>3, <1>4, RefuseStep
<1>5. CASE live' = {j \in live : j.id # n} /\ Set(h, s) /\ UNCHANGED <<excused, refusals>>
  <2>1. /\ p \in Points /\ p \notin Holding /\ p \in OnItsWay /\ p \in {"unwatch", "add"}
        /\ (p = "add" => handler[h].at = "dropAgain") /\ NoJob \in Nat
    BY <1>1 DEF Points, Holding, OnItsWay, NoJob
  <2> HIDE DEF p
  <2>2. /\ s \in Handler /\ s.at = p /\ s.task = t0 /\ s.trigger = handler[h].trigger
        /\ s.paths = handler[h].paths
    BY <2>1, HandlerFields DEF IInv, Handler
  <2> HIDE DEF s
  <2>3. Reads(s)
    BY <1>1, <1>3, <2>1, <2>2 DEF IInv, Busy, Reads
  <2>4. /\ handler' \in [Handlers -> Handler] /\ handler'[h] = s
        /\ \A g \in Handlers : g # h => handler'[g] = handler[g]
    BY <1>5, <2>2, SetTyped DEF IInv
  <2>5. TypeOK'
    BY <1>1, <1>5, <2>4 DEF IInv, TypeOK
  <2>6. Busy'
    BY <1>5, <2>2, <2>3, BusyStep
  <2>7. handler[h].at \in Holding
    BY <1>1 DEF Holding
  <2>8. /\ \A t \in Tasks : job[t] # n
        /\ \A g \in Handlers : g # h /\ handler[g].at \in Holding => handler[g].held # n
        /\ \A j \in live : j.id = n => j.task = t0
    BY <2>7 DEF IInv, Holders, Holds
  <2>9. Holders'
    <3>1. Ids(live', jobs)
      BY <1>5 DEF IInv, Holders, Ids
    <3>2. ASSUME NEW g \in Handlers PROVE Holds(handler'[g], live', jobs)
      <4>1. CASE g = h
        BY <2>1, <2>2, <2>4, <4>1 DEF Holds
      <4>2. CASE g # h
        <5>1. Holds(handler[g], live, jobs)
          BY DEF IInv, Holders
        <5>2. handler[g].at \in Holding => handler[g].held # n
          BY <2>8, <4>2
        <5>3. QED
          BY <1>5, <2>4, <4>2, <5>1, <5>2 DEF Holds
      <4>3. QED
        BY <4>1, <4>2
    <3>3. \A g \in Handlers : handler'[g].at \in Holding => g # h /\ handler'[g] = handler[g]
      BY <2>1, <2>2, <2>4
    <3>4. QED
      BY <1>1, <3>1, <3>2, <3>3 DEF IInv, Holders
  <2>10. MappedJobIsLive'
    BY <1>1, <1>5, <2>8 DEF IInv, MappedJobIsLive
  <2>11. Attended'
    BY <1>1, <1>3, <1>5, <2>1, <2>2, AttendedStep
  <2>12. NewIsUntouched' /\ Apart' /\ Sure' = Sure /\ \A t : Keeps(t)
    BY <1>1, <1>5, <2>2, TablesStay
  <2>13. Follows'
    <3>1. ASSUME t0 \notin excused' \cup raced'
          PROVE  /\ \A g \in Handlers : g # h => handler[g].task # t0
                 /\ Stage(t0, s, row'[t0], applied'[t0], live', job'[t0], watches'[t0],
                          Sure')
      <4>1. t0 \notin excused \cup raced
        BY <1>1, <1>5, <3>1
      <4>2. /\ \A g \in Handlers : g # h => handler[g].task # t0
            /\ Stage(t0, handler[h], row[t0], applied[t0], live, job[t0], watches[t0], Sure)
        BY <1>1, <4>1, AtWork
      <4>3. handler[h].at = "drop" /\ job[t0] = NoJob /\ OneJob(t0, live, n)
        BY <1>1, <4>2 DEF Stage
      <4>4. NoJobs(t0, live')
        BY <1>5, <4>3 DEF NoJobs, OneJob
      <4>5. s.at = "unwatch"
        BY <2>1, <2>2, <4>3
      <4>6. QED
        BY <1>1, <4>2, <4>3, <4>4, <4>5 DEF Stage
    <3>2. \A j \in live \cup live' : j.task # t0 => (j \in live <=> j \in live')
      BY <1>5, <2>8
    <3>3. excused \subseteq excused' /\ raced \subseteq raced'
      BY <1>1, <1>5
    <3>4. QED
      BY <1>1, <1>3, <1>5, <2>2, <2>12, <3>1, <3>2, <3>3, FollowsStep
  <2>14. QED
    BY <2>5, <2>6, <2>9, <2>10, <2>11, <2>12, <2>13 DEF IInv
<1>6. QED
  BY <1>2, <1>4, <1>5

LEMMA AddJobStep ==
    ASSUME IInv, NEW h \in Handlers, AddJob(h)
    PROVE  IInv'
<1> DEFINE t0 == handler[h].task
           n == jobs + 1
           new == [id |-> n, task |-> t0, expr |-> handler[h].trigger.expr]
           s == [handler[h] EXCEPT !.at = "map", !.held = n]
<1>1. /\ handler[h].at = "add"
      /\ UNCHANGED <<row, known, behind, shared, applied, job, watches, osWatch, raced,
                     requests>>
  BY DEF AddJob, AtPoint, MapBefore, tables, arrivals, watch
<1>2. \/ Refuse(h) /\ live' = live /\ jobs' = jobs
      \/ /\ live' = live \cup {new} /\ jobs' = n /\ Set(h, s)
         /\ UNCHANGED <<excused, refusals>>
  BY DEF AddJob, task, refused
<1>3. t0 \in Tasks /\ t0 # NoTask /\ osWatch' \subseteq Folders
  BY <1>1, AtWork, TriggersAssumption DEF IInv, TypeOK
<1>4. CASE Refuse(h) /\ live' = live /\ jobs' = jobs
  BY <1>1, <1>3, <1>4, RefuseStep
<1>5. CASE /\ live' = live \cup {new} /\ jobs' = n /\ Set(h, s)
           /\ UNCHANGED <<excused, refusals>>
  <2>1. jobs \in Nat /\ n \in Nat /\ n \in 1 .. n /\ n \notin 0 .. jobs
        /\ 0 .. jobs \subseteq 0 .. n /\ 1 .. jobs \subseteq 1 .. n
    BY DEF IInv, TypeOK
  <2>2. handler[h].trigger \in Trigger /\ handler[h].trigger.kind = "cron"
    BY <1>1, HandlerFields DEF IInv, Busy, Reads
  <2> HIDE DEF n
  <2>3. new \in Job /\ new.id = n /\ new.task = t0 /\ new.expr = handler[h].trigger.expr
    BY <1>3, <2>1, <2>2, CronExpr DEF Job
  <2> HIDE DEF new
  <2>4. "map" \in Points /\ "map" \in OnItsWay /\ "map" \in Holding
    BY DEF Points, Holding, OnItsWay
  <2>5. s \in Handler /\ s.at = "map" /\ s.task = t0 /\ s.held = n
        /\ s.paths = handler[h].paths
    BY <2>1, <2>4, HandlerFields DEF IInv, Handler
  <2> HIDE DEF s
  <2>6. /\ handler' \in [Handlers -> Handler] /\ handler'[h] = s
        /\ \A g \in Handlers : g # h => handler'[g] = handler[g]
    BY <1>5, <2>5, SetTyped DEF IInv
  <2>7. TypeOK'
    BY <1>1, <1>5, <2>1, <2>3, <2>6 DEF IInv, TypeOK
  <2>8. Reads(s)
    BY <1>3, <2>5 DEF Reads
  <2>9. Busy'
    BY <1>5, <2>5, <2>8, BusyStep
  <2>10. \A j \in live : j.id \in 1 .. jobs /\ j.id # n
    BY <2>1 DEF IInv, Holders, Ids
  <2>11. Ids(live', jobs')
    BY <1>5, <2>1, <2>3, <2>10 DEF IInv, Holders, Ids
  <2>12. \A g \in Handlers : handler[g].at \in Holding => handler[g].held \in 1 .. jobs
    BY DEF IInv, Holders, Holds
  <2>13. Holders'
    <3>1. ASSUME NEW g \in Handlers PROVE Holds(handler'[g], live', jobs')
      <4>1. CASE g = h
        BY <1>5, <2>1, <2>3, <2>5, <2>6, <2>10, <4>1 DEF Holds
      <4>2. CASE g # h
        <5>1. Holds(handler[g], live, jobs)
          BY DEF IInv, Holders
        <5>2. handler[g].at \in Holding => handler[g].held # n
          BY <2>1, <2>12
        <5>3. QED
          BY <1>5, <2>1, <2>3, <2>6, <4>2, <5>1, <5>2 DEF Holds
      <4>3. QED
        BY <4>1, <4>2
    <3>2. \A t \in Tasks : job[t] # n
      BY <2>1 DEF IInv, TypeOK
    <3>3. \A g \in Handlers : (g # h /\ handler[g].at \in Holding) => handler[g].held # n
      BY <2>1, <2>12
    <3>4. QED
      BY <1>1, <2>5, <2>6, <2>11, <3>1, <3>2, <3>3 DEF IInv, Holders
  <2>14. MappedJobIsLive'
    BY <1>1, <1>5 DEF IInv, MappedJobIsLive
  <2>15. Attended'
    BY <1>1, <1>3, <1>5, <2>4, <2>5, AttendedStep
  <2>16. NewIsUntouched' /\ Apart' /\ Sure' = Sure /\ \A t : Keeps(t)
    BY <1>1, <1>5, <2>5, TablesStay
  <2>17. Follows'
    <3>1. ASSUME t0 \notin excused' \cup raced'
          PROVE  /\ \A g \in Handlers : g # h => handler[g].task # t0
                 /\ Stage(t0, s, row'[t0], applied'[t0], live', job'[t0], watches'[t0],
                          Sure')
      <4>1. t0 \notin excused \cup raced
        BY <1>1, <1>5, <3>1
      <4>2. /\ \A g \in Handlers : g # h => handler[g].task # t0
            /\ Stage(t0, handler[h], row[t0], applied[t0], live, job[t0], watches[t0], Sure)
        BY <1>1, <4>1, AtWork
      <4>3. /\ NoJobs(t0, live) /\ watches[t0] = {} /\ row[t0].trigger.kind = "cron"
            /\ handler[h].trigger = row[t0].trigger /\ applied[t0].trigger = row[t0].trigger
        BY <1>1, <4>2 DEF Stage
      <4>4. OneJob(t0, live', n)
        BY <1>5, <2>3, <4>3 DEF NoJobs, OneJob
      <4>5. Runs(t0, live', n, row[t0].trigger.expr)
        BY <1>5, <2>3, <4>3 DEF NoJobs, Runs
      <4>6. QED
        BY <1>1, <2>5, <4>2, <4>3, <4>4, <4>5 DEF Stage
    <3>2. \A j \in live \cup live' : j.task # t0 => (j \in live <=> j \in live')
      BY <1>5, <2>3
    <3>3. excused \subseteq excused' /\ raced \subseteq raced'
      BY <1>1, <1>5
    <3>4. \A t \in Tasks : t # t0 =>
             /\ row'[t] = row[t] /\ job'[t] = job[t] /\ watches'[t] = watches[t]
             /\ applied'[t] = applied[t] /\ (t \in behind => t \in behind') /\ Keeps(t)
      BY <1>1, <2>16
    <3>5. Set(h, s) /\ s.task \in {t0, NoTask} /\ handler[h].task \in {t0, NoTask}
      BY <1>5, <2>5
    <3>6. s.task # NoTask
      BY <1>3, <2>5
    <3>7. QED
      BY <1>3, <2>5, <3>1, <3>2, <3>3, <3>4, <3>5, <3>6, FollowsStep
  <2>18. QED
    BY <2>7, <2>9, <2>13, <2>14, <2>15, <2>16, <2>17 DEF IInv
<1>6. QED
  BY <1>2, <1>4, <1>5

LEMMA MapJobStep ==
    ASSUME IInv, NEW h \in Handlers, MapJob(h)
    PROVE  IInv'
<1> DEFINE t0 == handler[h].task
           n == handler[h].held
<1>1. /\ handler[h].at = "map" /\ Set(h, Idle) /\ job' = [job EXCEPT ![t0] = n]
      /\ UNCHANGED <<row, known, behind, shared, applied, live, jobs, watches, osWatch,
                     excused, raced, requests, refusals>>
  BY DEF MapJob, AtPoint, Done, task, tables, arrivals, watch, refused
<1>2. t0 \in Tasks /\ t0 # NoTask
  BY <1>1, AtWork, TriggersAssumption
<1>3. handler[h].at \in Holding
  BY <1>1 DEF Holding
<1>4. /\ n \in 1 .. jobs /\ \E j \in live : j.id = n /\ j.task = t0
      /\ \A g \in Handlers : g # h /\ handler[g].at \in Holding => handler[g].held # n
  BY <1>1, <1>3 DEF IInv, Holders, Holds
<1>5. /\ job' \in [Tasks -> 0 .. jobs] /\ job'[t0] = n /\ n # NoJob
      /\ \A t \in Tasks : t # t0 => job'[t] = job[t]
  BY <1>1, <1>2, <1>4 DEF IInv, TypeOK, NoJob
<1>6. /\ handler' \in [Handlers -> Handler] /\ handler'[h] = Idle
      /\ \A g \in Handlers : g # h => handler'[g] = handler[g]
  BY <1>1, IdleTyped, SetTyped DEF IInv
<1>7. TypeOK'
  BY <1>1, <1>5, <1>6 DEF IInv, TypeOK
<1>8. Busy'
  BY <1>1, IdleTyped, BusyStep
<1>9. Holders'
  <2>1. ASSUME NEW g \in Handlers PROVE Holds(handler'[g], live, jobs)
    <3>1. CASE g = h
      BY <1>6, <3>1, IdleTyped DEF Holds
    <3>2. CASE g # h
      BY <1>6, <3>2 DEF IInv, Holders
    <3>3. QED
      BY <3>1, <3>2
  <2>2. \A g \in Handlers : handler'[g].at \in Holding => g # h /\ handler'[g] = handler[g]
    BY <1>6, IdleTyped
  <2>3. \A g \in Handlers : g # h /\ handler[g].at \in Holding
           => \A t \in Tasks : job'[t] # handler[g].held
    BY <1>4, <1>5 DEF IInv, Holders
  <2>4. QED
    BY <1>1, <2>1, <2>2, <2>3 DEF IInv, Holders
<1>10. MappedJobIsLive'
  BY <1>1, <1>4, <1>5 DEF IInv, MappedJobIsLive
<1>11. Attended'
  BY <1>1, <1>2, <1>5, IdleTyped, AttendedStep
<1>12. NewIsUntouched' /\ Apart' /\ Sure' = Sure /\ \A t : Keeps(t)
  BY <1>1, IdleTyped, TablesStay
<1>13. Follows'
  <2>1. ASSUME t0 \notin excused' \cup raced'
        PROVE  /\ \A g \in Handlers : g # h => handler[g].task # t0
               /\ Rests(t0, row'[t0], applied'[t0], t0 \in behind', live', job'[t0],
                        watches'[t0], Sure')
    <3>1. /\ \A g \in Handlers : g # h => handler[g].task # t0
          /\ Stage(t0, handler[h], row[t0], applied[t0], live, job[t0], watches[t0], Sure)
      BY <1>1, <2>1, AtWork
    <3>2. QED
      BY <1>1, <1>5, <3>1 DEF Stage, Settled, Rests
  <2>2. QED
    BY <1>1, <1>2, <1>5, <1>12, <2>1, IdleTyped, FollowsStep
<1>14. QED
  BY <1>7, <1>8, <1>9, <1>10, <1>11, <1>12, <1>13 DEF IInv

-----------------------------------------------------------------------------
(* The invariant.                                                          *)

LEMMA NextStep ==
    ASSUME IInv, [Next]_vars
    PROVE  IInv'
<1>1. ASSUME NEW h \in Handlers, Step(h) PROVE IInv'
  BY <1>1, SetFoldersStep, SetRestStep, CleanUpStep, UnmapStep, DropStep, ReadStep, AddJobStep, MapJobStep,
     UnwatchStep, UnwatchOsStep, ReadFoldersStep, WatchOsStep, WatchStep, DeleteRowStep
     DEF Step
<1>2. ASSUME NEW h \in Handlers, NEW t \in Tasks,
             StartDelete(h, t) \/ \E r \in Rows : Edit(h, t, r) \/ Create(h, t, r)
      PROVE  IInv'
  BY <1>2, StartDeleteStep, EditStep
<1>3. ASSUME NEW f \in Folders, DeleteFolder(f) PROVE IInv'
  BY <1>3, DeleteFolderStep
<1>4. CASE UNCHANGED vars
  <2>1. /\ UNCHANGED <<row, known, live, job, jobs, watches, osWatch, handler, excused>>
        /\ UNCHANGED <<raced, behind, applied, shared, requests, refusals>>
    BY <1>4 DEF vars
  <2>2. TypeOK' /\ Busy' /\ NewIsUntouched' /\ Holders'
    BY <2>1 DEF IInv, TypeOK, Busy, NewIsUntouched, Holders
  <2>3. MappedJobIsLive' /\ Attended'
    BY <2>1 DEF IInv, MappedJobIsLive, Attended
  <2>4. Follows'
    BY <2>1 DEF IInv, Follows, Alone, Sure
  <2>5. \A t, f : Owns(t, f)' <=> Owns(t, f)
    BY <2>1 DEF Owns, task
  <2>6. Apart'
    BY <2>1, <2>5 DEF IInv, Apart
  <2>7. QED
    BY <2>2, <2>3, <2>4, <2>6 DEF IInv
<1>5. QED
  BY <1>1, <1>2, <1>3, <1>4 DEF Next

LEMMA InitIInv ==
    ASSUME Init
    PROVE  IInv
<1>1. /\ row \in [Tasks -> {Bare("new"), Bare("manual")}] /\ live = {} /\ jobs = 0
      /\ job = [t \in Tasks |-> NoJob] /\ NoJob = 0 /\ watches = [t \in Tasks |-> {}]
      /\ osWatch = {} /\ known = Folders /\ applied = row
      /\ excused = {} /\ raced = {} /\ behind = {} /\ shared = {}
      /\ requests = 0 /\ refusals = 0
      /\ handler = [h \in Handlers |-> Idle]
  BY DEF Init, NoJob
<1>2. /\ handler \in [Handlers -> Handler] /\ \A h \in Handlers : handler[h] = Idle
  BY <1>1, IdleTyped
<1>3. /\ row \in [Tasks -> Row]
      /\ \A t \in Tasks : row[t].trigger.kind \in {"new", "manual"} /\ row[t].folders = {}
  BY <1>1, BareTyped
<1>4. TypeOK
  BY <1>1, <1>2, <1>3, TriggersAssumption DEF TypeOK
<1>5. \A h \in Handlers, t \in Tasks : handler[h].task # t
  BY <1>2, IdleTyped, TriggersAssumption
<1>6. Busy /\ NewIsUntouched
  BY <1>1, <1>2, <1>5, IdleTyped DEF Busy, NewIsUntouched
<1>7. Holders
  BY <1>1, <1>2, IdleTyped DEF Holders, Ids, Holds
<1>8. MappedJobIsLive /\ Attended
  BY <1>1, <1>3 DEF MappedJobIsLive, Attended
<1>9. ASSUME NEW t \in Tasks
      PROVE  Rests(t, row[t], applied[t], t \in behind, live, job[t], watches[t], Sure)
  BY <1>1, <1>3 DEF Settled, NoJobs, Rests
<1>10. Follows
  BY <1>5, <1>9 DEF Follows, Alone
<1>11. Apart
  BY <1>1, <1>3, <1>5 DEF Apart, Owns, task
<1>12. QED
  BY <1>4, <1>6, <1>7, <1>8, <1>10, <1>11 DEF IInv

LEMMA IInvHolds == Spec => []IInv
<1>1. Init => IInv
  BY InitIInv
<1>2. IInv /\ [Next]_vars => IInv'
  BY NextStep
<1>3. QED
  BY <1>1, <1>2, PTL DEF Spec

-----------------------------------------------------------------------------
(* The theorems.                                                           *)

\* Rows, registries and the requests' locals keep their types.
THEOREM TypeCorrect == Spec => []TypeOK
<1>1. IInv => TypeOK
  BY DEF IInv
<1>2. QED
  BY <1>1, IInvHolds, PTL

\* However many requests race, what CronScheduler.jobs holds is live, and a cron
\* task has a job when they are done, unless an error has kept it from one.
THEOREM RegistriesStayInStep == Spec => []CronJobsAreKept
<1>1. IInv => CronJobsAreKept
  <2> SUFFICES ASSUME IInv, Quiet, NEW t \in Tasks \ (excused \cup behind),
                      row[t].trigger.kind = "cron"
               PROVE  JobsOf(t) # {}
    BY DEF IInv, CronJobsAreKept, CronTaskIsScheduled
  <2>1. \A h \in Handlers : handler[h].at \notin OnItsWay
    BY DEF Quiet, AtPoint, OnItsWay
  <2>2. job[t] # NoJob
    BY <2>1 DEF IInv, Attended
  <2>3. PICK j \in live : j.id = job[t] /\ j.task = t
    BY <2>2 DEF IInv, MappedJobIsLive
  <2>4. j \in JobsOf(t)
    BY <2>3 DEF JobsOf
  <2>5. QED
    BY <2>4
<1>2. QED
  BY <1>1, IInvHolds, PTL

\* Registries that serve a row are its runtime.
LEMMA ServedRow ==
    ASSUME NEW t \in Tasks, NEW r, Settled(t, r, live, job[t], watches[t], Sure)
    PROVE  RuntimeServes(t, r)
<1>1. CASE r.trigger.kind = "cron"
  <2>1. PICK j \in live : j.id = job[t] /\ j.task = t /\ \A k \in live : k.task = t => k = j
    BY <1>1 DEF Settled, OneJob
  <2>2. JobsOf(t) = {j}
    BY <2>1 DEF JobsOf
  <2>3. Cardinality(JobsOf(t)) = 1
    BY <2>2, FS_Singleton
  <2>4. j.expr = r.trigger.expr
    BY <1>1, <2>1 DEF Settled, Runs
  <2>5. QED
    BY <1>1, <2>1, <2>2, <2>3, <2>4 DEF Settled, RuntimeServes
<1>2. CASE r.trigger.kind # "cron"
  <2>1. JobsOf(t) = {}
    BY <1>2 DEF Settled, NoJobs, JobsOf
  <2>2. Cardinality(JobsOf(t)) = 0
    BY <2>1, FS_EmptySet
  <2>3. QED
    BY <1>2, <2>2 DEF Settled, RuntimeServes, Sure
<1>3. QED
  BY <1>1, <1>2

\* A task whose requests came one after the other has the runtime of its row, or of
\* the row before if the last request failed after it had rewritten the row,
\* whatever raced elsewhere.
THEOREM RuntimeIsTheRows == Spec => []RuntimeFollowsRows
<1>1. IInv => RuntimeFollowsRows
  <2> SUFFICES ASSUME IInv, Quiet, NEW t \in Tasks \ (excused \cup raced)
               PROVE  RuntimeServes(t, IF t \in behind THEN applied[t] ELSE row[t])
    BY DEF RuntimeFollowsRows
  <2>1. \A h \in Handlers : handler[h].task # t
    BY TriggersAssumption DEF Quiet, AtPoint, IInv, Busy, Reads
  <2>2. Rests(t, row[t], applied[t], t \in behind, live, job[t], watches[t], Sure)
    BY <2>1 DEF IInv, Follows
  <2>3. Settled(t, IF t \in behind THEN applied[t] ELSE row[t], live, job[t], watches[t],
                Sure)
    BY <2>2 DEF Rests
  <2>4. QED
    BY <2>3, ServedRow
<1>2. QED
  BY <1>1, IInvHolds, PTL
=============================================================================
