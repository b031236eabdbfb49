--------------------------- MODULE ReseedRunProofs ---------------------------
(***************************************************************************)
(* Claims, counters and reports of the runs, for any number of tasks that  *)
(* share the destination, the history and the writer, any matches, and any *)
(* number of deaths of the writer and the process.                         *)
(*                                                                         *)
(* Adders.  Of the adders of a run, those that are to add or have just     *)
(* been refused hold their claims, and hold them apart (Claiming): so a    *)
(* release gives back a claim of its own.                                  *)
(*                                                                         *)
(* Reports.  Whoever sends a report holds the run's lock, or is the run    *)
(* itself while no adder works, until its flush is answered (Lock, Fits).  *)
(* So at most one flush of a run is in the queue (OneFlush), a report in   *)
(* the queue is the run's own (Fits) with its flush right behind it        *)
(* (Paired), and once there is none the row in the table is it             *)
(* (Committed).                                                            *)
(***************************************************************************)
EXTENDS ReseedRun, FiniteSetTheorems, TLAPS

Sum(s) == s.added + s.failed + s.skipped
Done(a) == {i \in Items : a[i].did # "none"}
AtWork(s, a) == {i \in s.matched : a[i].at # "waiting" /\ ~Over(a[i].at)}

\* A run s with its adders a: where they can be,
Place(s, a) ==
    /\ s.phase \in {"idle", "match", "matched"} => \A i \in Items : a[i].at = "waiting"
    /\ s.phase # "add" => \A i \in Items : a[i].at \in {"waiting", "ended", "error"}
    /\ \A i \in Items : a[i].at # "waiting" => i \in s.matched
    /\ s.phase \in {"flush", "done"} => \A i \in s.matched : a[i].at = "ended"
    /\ Cardinality(AtWork(s, a)) <= AddConcurrency

\* who holds the lock, and what the report says of those that have had it,
Lock(s, a) ==
    /\ \A i \in Items : a[i].at = "flushing" <=> s.holder = i
    /\ \A i \in Items : a[i].at \in {"flushing", "ended"} => s.report[i] = a[i].outcome

\* what is counted,
Early == {"waiting", "download", "mismatch", "claim", "exists", "add", "taken", "refused",
          "released"}
Count(s, a) ==
    /\ \A i \in Items : a[i].at \in Early => a[i].did = "none"
    /\ Sum(s) = Cardinality(Done(a))

\* and what is claimed, for hashes h and a destination d.
Holds(p) == p \in {"add", "refused"}
Claiming(s, a, h, d) ==
    /\ \A i \in Items : Holds(a[i].at) => h[i] \in s.claims
    /\ \A i, j \in Items : (i # j /\ Holds(a[i].at) /\ Holds(a[j].at)) => h[i] # h[j]
    /\ \A c \in s.claims : c \notin d => \E i \in Items : h[i] = c /\ Holds(a[i].at)
    /\ \A i \in Items : a[i].at = "taken" => h[i] \in d

Good(s, a, h, d) == Place(s, a) /\ Lock(s, a) /\ Count(s, a) /\ Claiming(s, a, h, d)

\* An operation in the queue is one that its run, if it has one, still waits for.
FlushFits(op, s) ==
    IF op.item = NoItem THEN s.phase \in {"matched", "flush"}
    ELSE s.phase = "add" /\ s.holder = op.item
Fits(op, rs, h, d) ==
    /\ op.kind = "flush" => FlushFits(op, rs[op.run])
    /\ op.kind = "log" => op.report = rs[op.run].report
    /\ op.kind = "history" /\ op.status = "success" => h[op.item] \in d

AllFit == \A k \in 1 .. Len(queue) : Fits(queue[k], run, infoHash, dest)

Paired(q) ==
    \A k \in 1 .. Len(q) : q[k].kind = "log" =>
        k + 1 \in 1 .. Len(q) /\ q[k + 1].kind = "flush" /\ q[k + 1].run = q[k].run

OneFlush(q) ==
    \A k, l \in 1 .. Len(q) :
        (q[k].kind = "flush" /\ q[l].kind = "flush" /\ q[k].run = q[l].run) => k = l

NoFlush(r, q) == \A k \in 1 .. Len(q) : ~(q[k].kind = "flush" /\ q[k].run = r)
NoLog(r, q) == \A k \in 1 .. Len(q) : ~(q[k].kind = "log" /\ q[k].run = r)

Committed ==
    \A r \in Runs :
        (writer = "up" /\ run[r].phase \in {"matched", "add", "flush"} /\ NoLog(r, queue))
            => log[r] = run[r].report

Recorded == \A i \in Items : <<i, "success">> \in history => infoHash[i] \in dest

IInv ==
    /\ TypeOK
    /\ \A r \in Runs : Good(run[r], adder[r], infoHash, dest)
    /\ AllFit /\ Paired(queue) /\ OneFlush(queue)
    /\ Committed /\ ReportIsComplete /\ Recorded

-----------------------------------------------------------------------------
(* Sequences.                                                              *)

LEMMA Appended ==
    ASSUME NEW q \in Seq(Op), NEW op \in Op
    PROVE  /\ Append(q, op) \in Seq(Op) /\ Len(Append(q, op)) = Len(q) + 1
           /\ \A k \in 1 .. Len(q) : Append(q, op)[k] = q[k]
           /\ Append(q, op)[Len(q) + 1] = op
OBVIOUS

LEMMA AppendedTwo ==
    ASSUME NEW q \in Seq(Op), NEW a \in Op, NEW b \in Op
    PROVE  /\ q \o <<a, b>> \in Seq(Op) /\ Len(q \o <<a, b>>) = Len(q) + 2
           /\ \A k \in 1 .. Len(q) : (q \o <<a, b>>)[k] = q[k]
           /\ (q \o <<a, b>>)[Len(q) + 1] = a /\ (q \o <<a, b>>)[Len(q) + 2] = b
<1>1. <<a, b>> \in Seq(Op) /\ Len(<<a, b>>) = 2 /\ <<a, b>>[1] = a /\ <<a, b>>[2] = b
  OBVIOUS
<1> DEFINE t == <<a, b>>
<1> HIDE DEF t
<1>2. /\ q \o t \in Seq(Op) /\ Len(q \o t) = Len(q) + Len(t)
      /\ \A k \in 1 .. Len(q) + Len(t) :
            (q \o t)[k] = IF k <= Len(q) THEN q[k] ELSE t[k - Len(q)]
  BY <1>1 DEF t
<1>3. Len(q) \in Nat /\ Len(t) = 2 /\ t[1] = a /\ t[2] = b
  BY <1>1 DEF t
<1>4. (q \o t)[Len(q) + 1] = a /\ (q \o t)[Len(q) + 2] = b
  BY <1>2, <1>3
<1>5. QED
  BY <1>2, <1>3, <1>4 DEF t

LEMMA TailOfQueue ==
    ASSUME NEW q \in Seq(Op), q # <<>>
    PROVE  /\ Tail(q) \in Seq(Op) /\ Len(Tail(q)) = Len(q) - 1 /\ Len(q) \in Nat \ {0}
           /\ \A k \in 1 .. Len(q) - 1 : Tail(q)[k] = q[k + 1]
           /\ Head(q) = q[1] /\ q[1] \in Op
OBVIOUS

\* A report is followed by its flush: where there is none, there is no report.
LEMMA NoFlushNoLog ==
    ASSUME NEW q \in Seq(Op), Paired(q), NEW r, NoFlush(r, q)
    PROVE  NoLog(r, q)
BY DEF Paired, NoFlush, NoLog

\* A record, or a flush of a run that has none, joins the queue.
LEMMA JoinOne ==
    ASSUME NEW q \in Seq(Op), NEW op \in Op, Paired(q), OneFlush(q), op.kind # "log",
           op.kind = "flush" => NoFlush(op.run, q)
    PROVE  /\ Paired(Append(q, op)) /\ OneFlush(Append(q, op))
           /\ \A r \in Runs : NoLog(r, Append(q, op)) => NoLog(r, q)
<1> DEFINE p == Append(q, op)
<1>1. /\ Len(p) = Len(q) + 1 /\ Len(q) \in Nat /\ p[Len(q) + 1] = op
      /\ \A k \in 1 .. Len(q) : p[k] = q[k]
  BY Appended
<1> HIDE DEF p
<1>2. Paired(p)
  BY <1>1 DEF Paired
<1>3. OneFlush(p)
  BY <1>1 DEF OneFlush, NoFlush
<1>4. \A r \in Runs : NoLog(r, p) => NoLog(r, q)
  BY <1>1 DEF NoLog
<1>5. QED
  BY <1>2, <1>3, <1>4 DEF p

\* A report and its flush join the queue.
LEMMA JoinTwo ==
    ASSUME NEW q \in Seq(Op), NEW a \in Op, NEW b \in Op, Paired(q), OneFlush(q),
           a.kind = "log", b.kind = "flush", a.run = b.run, NoFlush(b.run, q)
    PROVE  /\ Paired(q \o <<a, b>>) /\ OneFlush(q \o <<a, b>>)
           /\ \A r \in Runs : NoLog(r, q \o <<a, b>>) => NoLog(r, q) /\ r # a.run
<1> DEFINE p == q \o <<a, b>>
<1>1. /\ Len(p) = Len(q) + 2 /\ Len(q) \in Nat /\ p[Len(q) + 1] = a /\ p[Len(q) + 2] = b
      /\ \A k \in 1 .. Len(q) : p[k] = q[k]
  BY AppendedTwo
<1> HIDE DEF p
<1>2. Paired(p)
  <2> SUFFICES ASSUME NEW k \in 1 .. Len(p), p[k].kind = "log"
               PROVE  /\ k + 1 \in 1 .. Len(p) /\ p[k + 1].kind = "flush"
                      /\ p[k + 1].run = p[k].run
    BY DEF Paired
  <2>1. CASE k \in 1 .. Len(q)
    BY <1>1, <2>1 DEF Paired
  <2>2. CASE k = Len(q) + 1
    BY <1>1, <2>2
  <2>3. CASE k = Len(q) + 2
    BY <1>1, <2>3
  <2>4. QED
    BY <1>1, <2>1, <2>2, <2>3
<1>3. OneFlush(p)
  BY <1>1 DEF OneFlush, NoFlush
<1>4. \A r \in Runs : NoLog(r, p) => NoLog(r, q) /\ r # a.run
  BY <1>1 DEF NoLog
<1>5. QED
  BY <1>2, <1>3, <1>4 DEF p

\* The head leaves the queue.
LEMMA Leave ==
    ASSUME NEW q \in Seq(Op), q # <<>>, Paired(q), OneFlush(q)
    PROVE  /\ Paired(Tail(q)) /\ OneFlush(Tail(q))
           /\ Head(q).kind = "flush" => NoFlush(Head(q).run, Tail(q)) /\ NoLog(Head(q).run, q)
           /\ \A r \in Runs : (NoLog(r, Tail(q)) /\ (Head(q).kind = "log" => Head(q).run # r))
                                 => NoLog(r, q)
           /\ Head(q).kind = "log" => NoLog(Head(q).run, Tail(q))
<1> DEFINE p == Tail(q)
           n == Len(q)
<1>1. /\ Len(p) = n - 1 /\ n \in Nat \ {0} /\ Head(q) = q[1]
      /\ \A k \in 1 .. n - 1 : p[k] = q[k + 1]
  BY TailOfQueue
<1> HIDE DEF p, n
<1>2. \A k \in 1 .. n : q[k].kind = "log" =>
          k + 1 \in 1 .. n /\ q[k + 1].kind = "flush" /\ q[k + 1].run = q[k].run
  BY DEF Paired, n
<1>3. \A k, l \in 1 .. n :
          (q[k].kind = "flush" /\ q[l].kind = "flush" /\ q[k].run = q[l].run) => k = l
  BY DEF OneFlush, n
<1>4. Paired(p)
  <2> SUFFICES ASSUME NEW k \in 1 .. Len(p), p[k].kind = "log"
               PROVE  /\ k + 1 \in 1 .. Len(p) /\ p[k + 1].kind = "flush"
                      /\ p[k + 1].run = p[k].run
    BY DEF Paired
  <2>1. k + 1 \in 1 .. n /\ p[k] = q[k + 1]
    BY <1>1
  <2>2. (k + 1) + 1 \in 1 .. n /\ q[(k + 1) + 1].kind = "flush" /\ q[(k + 1) + 1].run = q[k + 1].run
    BY <1>2, <2>1
  <2>3. k + 1 \in 1 .. n - 1
    BY <1>1, <2>2
  <2>4. QED
    BY <1>1, <2>1, <2>2, <2>3
<1>5. OneFlush(p)
  <2> SUFFICES ASSUME NEW k \in 1 .. Len(p), NEW l \in 1 .. Len(p), p[k].kind = "flush",
                      p[l].kind = "flush", p[k].run = p[l].run
               PROVE  k = l
    BY DEF OneFlush
  <2>1. k + 1 \in 1 .. n /\ l + 1 \in 1 .. n /\ p[k] = q[k + 1] /\ p[l] = q[l + 1]
    BY <1>1
  <2>2. k + 1 = l + 1
    BY <1>3, <2>1
  <2>3. QED
    BY <2>2, <1>1
<1>6. ASSUME q[1].kind = "flush" PROVE NoFlush(q[1].run, p) /\ NoLog(q[1].run, q)
  <2>1. ASSUME NEW k \in 1 .. Len(p), p[k].kind = "flush", p[k].run = q[1].run PROVE FALSE
    <3>1. k + 1 \in 1 .. n /\ 1 \in 1 .. n /\ p[k] = q[k + 1]
      BY <1>1
    <3>2. k + 1 = 1
      BY <1>3, <1>6, <2>1, <3>1
    <3>3. QED
      BY <1>1, <3>2
  <2>2. ASSUME NEW k \in 1 .. n, q[k].kind = "log", q[k].run = q[1].run PROVE FALSE
    <3>1. k + 1 \in 1 .. n /\ q[k + 1].kind = "flush" /\ q[k + 1].run = q[1].run /\ 1 \in 1 .. n
      BY <1>1, <1>2, <2>2
    <3>2. k + 1 = 1
      BY <1>3, <1>6, <3>1
    <3>3. QED
      BY <1>1, <3>2
  <2>3. QED
    BY <2>1, <2>2 DEF NoFlush, NoLog, n
<1>7. ASSUME NEW r \in Runs, NoLog(r, p), q[1].kind = "log" => q[1].run # r
      PROVE  NoLog(r, q)
  <2> SUFFICES ASSUME NEW k \in 1 .. n, q[k].kind = "log", q[k].run = r PROVE FALSE
    BY DEF NoLog, n
  <2>1. k # 1
    BY <1>7
  <2>2. k - 1 \in 1 .. n - 1
    BY <1>1, <2>1
  <2>3. p[k - 1] = q[k]
    BY <1>1, <2>2
  <2>4. QED
    BY <1>1, <1>7, <2>2, <2>3 DEF NoLog
<1>8. ASSUME q[1].kind = "log" PROVE NoLog(q[1].run, p)
  <2> SUFFICES ASSUME NEW k \in 1 .. Len(p), p[k].kind = "log", p[k].run = q[1].run
               PROVE  FALSE
    BY DEF NoLog
  <2>1. k + 1 \in 1 .. n /\ 1 \in 1 .. n /\ p[k] = q[k + 1]
    BY <1>1
  <2>2. (k + 1) + 1 \in 1 .. n /\ q[(k + 1) + 1].kind = "flush" /\ q[(k + 1) + 1].run = q[1].run
    BY <1>2, <2>1
  <2>3. 1 + 1 \in 1 .. n /\ q[1 + 1].kind = "flush" /\ q[1 + 1].run = q[1].run
    BY <1>2, <1>8, <2>1
  <2>4. (k + 1) + 1 = 1 + 1
    BY <1>3, <2>2, <2>3
  <2>5. QED
    BY <1>1, <2>4
<1>9. QED
  BY <1>1, <1>4, <1>5, <1>6, <1>7, <1>8 DEF p

-----------------------------------------------------------------------------
(* Data.                                                                   *)

LEMMA RunFields ==
    ASSUME NEW s \in Run
    PROVE  /\ s.phase \in Phases /\ s.claims \in SUBSET Hashes /\ s.matched \in SUBSET Items
           /\ s.added \in Nat /\ s.failed \in Nat /\ s.skipped \in Nat
           /\ s.report \in Report /\ s.holder \in Items \cup {NoItem}
BY DEF Run

LEMMA AdderFields ==
    ASSUME NEW b \in Adder
    PROVE  /\ b.at \in Points /\ b.failedBefore \in Nat
           /\ b.did \in Outcomes \cup {"none"} /\ b.outcome \in Outcomes \cup {"none"}
BY DEF Adder

LEMMA Locals ==
    ASSUME IInv, NEW r \in Runs
    PROVE  /\ run[r] \in Run /\ adder[r] \in [Items -> Adder]
           /\ \A i \in Items : adder[r][i] \in Adder
           /\ Good(run[r], adder[r], infoHash, dest)
BY DEF IInv, TypeOK

LEMMA ReportTyped == NoReport \in Report
BY DEF NoReport, Report

LEMMA OpsTyped ==
    ASSUME NEW r \in Runs, NEW i \in Items, NEW x \in Items \cup {NoItem},
           NEW status \in Statuses, NEW report \in Report
    PROVE  /\ [kind |-> "history", item |-> i, status |-> status] \in Op
           /\ [kind |-> "log", run |-> r, report |-> report] \in Op
           /\ [kind |-> "flush", run |-> r, item |-> x] \in Op
BY DEF Op

LEMMA OpFields ==
    ASSUME NEW op \in Op
    PROVE  /\ op.kind \in {"history", "log", "flush"}
           /\ op.kind = "history" => op.item \in Items /\ op.status \in Statuses
           /\ op.kind = "log" => op.run \in Runs /\ op.report \in Report
           /\ op.kind = "flush" => op.run \in Runs /\ op.item \in Items \cup {NoItem}
BY DEF Op

LEMMA SetRunTyped ==
    ASSUME IInv, NEW r \in Runs, NEW t \in Run, SetRun(r, t)
    PROVE  /\ run' \in [Runs -> Run] /\ run'[r] = t
           /\ \A q \in Runs : q # r => run'[q] = run[q]
BY DEF IInv, TypeOK, SetRun

LEMMA SetAdderTyped ==
    ASSUME IInv, NEW r \in Runs, NEW i \in Items, NEW b \in Adder, SetAdder(r, i, b)
    PROVE  /\ adder' \in [Runs -> [Items -> Adder]]
           /\ adder'[r] = [adder[r] EXCEPT ![i] = b]
           /\ \A q \in Runs : q # r => adder'[q] = adder[q]
BY DEF IInv, TypeOK, SetAdder

LEMMA DoneFinite ==
    ASSUME NEW a
    PROVE  /\ IsFiniteSet(Done(a)) /\ Cardinality(Done(a)) \in Nat
           /\ Done(a) \subseteq Items
<1>1. Done(a) \subseteq Items
  BY DEF Done
<1>2. IsFiniteSet(Items)
  BY ReseedRunAssumption
<1>3. QED
  BY <1>1, <1>2, FS_Subset, FS_CardinalityType

\* One adder more has done its match.
LEMMA DoneMore ==
    ASSUME NEW a \in [Items -> Adder], NEW i \in Items, NEW b \in Adder,
           a[i].did = "none", b.did # "none"
    PROVE  Cardinality(Done([a EXCEPT ![i] = b])) = Cardinality(Done(a)) + 1
<1>1. Done([a EXCEPT ![i] = b]) = Done(a) \cup {i} /\ i \notin Done(a)
  BY DEF Done
<1>2. QED
  BY <1>1, DoneFinite, FS_AddElement

LEMMA DoneSame ==
    ASSUME NEW a \in [Items -> Adder], NEW i \in Items, NEW b \in Adder, b.did = a[i].did
    PROVE  Done([a EXCEPT ![i] = b]) = Done(a)
BY DEF Done

LEMMA AtWorkFewer ==
    ASSUME NEW s \in Run, NEW a, NEW S, IsFiniteSet(S), Cardinality(S) <= AddConcurrency,
           AtWork(s, a) \subseteq S
    PROVE  Cardinality(AtWork(s, a)) <= AddConcurrency
<1>1. /\ IsFiniteSet(AtWork(s, a)) /\ Cardinality(AtWork(s, a)) <= Cardinality(S)
  BY FS_Subset
<1>2. Cardinality(AtWork(s, a)) \in Nat /\ Cardinality(S) \in Nat /\ AddConcurrency \in Nat
  BY <1>1, FS_CardinalityType, ReseedRunAssumption
<1>3. QED
  BY <1>1, <1>2

LEMMA AtWorkFinite ==
    ASSUME NEW s \in Run, NEW a
    PROVE  IsFiniteSet(AtWork(s, a)) /\ Cardinality(AtWork(s, a)) \in Nat
<1>1. AtWork(s, a) \subseteq Items
  BY RunFields DEF AtWork
<1>2. IsFiniteSet(Items)
  BY ReseedRunAssumption
<1>3. QED
  BY <1>1, <1>2, FS_Subset, FS_CardinalityType

\* Nothing has begun.
LEMMA NewRun ==
    ASSUME NEW s \in Run, NEW a \in [Items -> Adder], \A i \in Items : a[i] = NotStarted,
           s.phase \in {"idle", "match"}, s.holder = NoItem, Sum(s) = 0,
           NEW h, NEW d, s.claims \subseteq d
    PROVE  Good(s, a, h, d)
<1>1. AtWork(s, a) = {} /\ Done(a) = {}
  BY RunFields DEF AtWork, Done, NotStarted
<1>2. Cardinality(AtWork(s, a)) = 0 /\ Cardinality(Done(a)) = 0
  BY <1>1, FS_EmptySet
<1>3. 0 <= AddConcurrency /\ NoItem \notin Items
  BY ReseedRunAssumption
<1>4. Place(s, a)
  BY <1>2, <1>3 DEF Place, NotStarted
<1>5. Lock(s, a)
  BY <1>3 DEF Lock, NotStarted
<1>6. Count(s, a)
  BY <1>2 DEF Count, NotStarted
<1>7. Claiming(s, a, h, d)
  BY DEF Claiming, NotStarted, Holds
<1>8. QED
  BY <1>4, <1>5, <1>6, <1>7 DEF Good

\* Claims are only better backed by a larger destination.
LEMMA GoodGrows ==
    ASSUME NEW s, NEW a, NEW h, NEW d, NEW d2, d \subseteq d2, Good(s, a, h, d)
    PROVE  Good(s, a, h, d2)
BY DEF Good, Claiming

-----------------------------------------------------------------------------
(* Frames.                                                                 *)

\* A run that does not wait for a flush has none in the queue, and no report.
LEMMA QuietRun ==
    ASSUME IInv, NEW r \in Runs,
           \/ run[r].phase \in {"idle", "match", "done", "failed"}
           \/ run[r].phase = "add" /\ run[r].holder = NoItem
    PROVE  NoFlush(r, queue) /\ NoLog(r, queue)
<1>1. queue \in Seq(Op)
  BY DEF IInv, TypeOK
<1>2. ASSUME NEW k \in 1 .. Len(queue), queue[k].kind = "flush", queue[k].run = r
      PROVE  FALSE
  BY <1>2 DEF IInv, AllFit, Fits, FlushFits
<1>3. NoFlush(r, queue)
  BY <1>2 DEF NoFlush
<1>4. QED
  BY <1>1, <1>3, NoFlushNoLog DEF IInv

\* What is in the queue still fits.
LEMMA FitStays ==
    ASSUME IInv, NEW r \in Runs, NEW t, NEW rs, rs[r] = t,
           \A q \in Runs : q # r => rs[q] = run[q],
           NEW d, dest \subseteq d,
           \/ NoFlush(r, queue)
           \/ t.phase = run[r].phase /\ t.holder = run[r].holder /\ t.report = run[r].report
    PROVE  \A k \in 1 .. Len(queue) : Fits(queue[k], rs, infoHash, d)
<1>1. queue \in Seq(Op)
  BY DEF IInv, TypeOK
<1>2. NoFlush(r, queue) => NoLog(r, queue)
  BY <1>1, NoFlushNoLog DEF IInv
<1>3. ASSUME NEW k \in 1 .. Len(queue) PROVE Fits(queue[k], rs, infoHash, d)
  <2>1. queue[k] \in Op /\ Fits(queue[k], run, infoHash, dest)
    BY <1>1 DEF IInv, AllFit
  <2>2. CASE NoFlush(r, queue)
    <3>1. ~(queue[k].kind = "flush" /\ queue[k].run = r)
          /\ ~(queue[k].kind = "log" /\ queue[k].run = r)
      BY <1>2, <2>2 DEF NoFlush, NoLog
    <3>2. QED
      BY <2>1, <3>1, OpFields DEF Fits
  <2>3. CASE t.phase = run[r].phase /\ t.holder = run[r].holder /\ t.report = run[r].report
    BY <2>1, <2>3, OpFields DEF Fits, FlushFits
  <2>4. QED
    BY <2>2, <2>3
<1>4. QED
  BY <1>3

\* One run moves.
LEMMA OneRun ==
    ASSUME IInv, NEW r \in Runs, NEW t \in Run, NEW a \in [Items -> Adder],
           run' \in [Runs -> Run], run'[r] = t, \A q \in Runs : q # r => run'[q] = run[q],
           adder' \in [Runs -> [Items -> Adder]], adder'[r] = a,
           \A q \in Runs : q # r => adder'[q] = adder[q],
           UNCHANGED <<infoHash, writer, history, faults, crashes>>,
           dest' \subseteq Hashes, dest \subseteq dest', starts' \in 0 .. MaxStarts,
           log' \in [Runs -> Report], \A q \in Runs : q # r => log'[q] = log[q],
           queue' \in Seq(Op), Paired(queue'), OneFlush(queue'), AllFit',
           \A q \in Runs : NoLog(q, queue') => NoLog(q, queue),
           (writer = "up" /\ t.phase \in {"matched", "add", "flush"} /\ NoLog(r, queue'))
              => log'[r] = t.report,
           t.phase = "done" => \A i \in t.matched : log'[r][i] = a[i].outcome,
           Good(t, a, infoHash, dest')
    PROVE  IInv'
<1>1. TypeOK'
  BY DEF IInv, TypeOK
<1>2. ASSUME NEW q \in Runs PROVE Good(run'[q], adder'[q], infoHash, dest')
  BY Locals, GoodGrows
<1>3. Committed'
  BY DEF IInv, Committed
<1>4. ReportIsComplete'
  BY DEF IInv, ReportIsComplete
<1>5. Recorded'
  BY DEF IInv, Recorded
<1>6. QED
  BY <1>1, <1>2, <1>3, <1>4, <1>5 DEF IInv

\* An adder at work goes on working.
Working == {"download", "mismatch", "claim", "exists", "add", "taken", "refused", "released",
            "persist"}

LEMMA WorkingStep ==
    ASSUME IInv, NEW r \in Runs, NEW i \in Items, NEW b \in Adder, NEW t \in Run,
           SetAdder(r, i, b), SetRun(r, t),
           UNCHANGED <<infoHash, writer, history, faults, crashes, starts, log>>,
           dest' \subseteq Hashes, dest \subseteq dest',
           run[r].phase = "add", t.phase = "add", t.matched = run[r].matched,
           t.holder = run[r].holder, t.report = run[r].report,
           adder[r][i].at \in Working, b.at \in Working,
           \/ queue' = queue
           \/ \E status \in Statuses :
                 /\ queue' = Append(queue, [kind |-> "history", item |-> i, status |-> status])
                 /\ status = "success" => infoHash[i] \in dest',
           \/ b.did = adder[r][i].did /\ Sum(t) = Sum(run[r])
              /\ (b.at \in Early => adder[r][i].at \in Early)
           \/ /\ adder[r][i].at \in Early /\ b.did # "none" /\ b.at = "persist"
              /\ Sum(t) = Sum(run[r]) + 1,
           Claiming(t, [adder[r] EXCEPT ![i] = b], infoHash, dest')
    PROVE  IInv'
<1> DEFINE a == [adder[r] EXCEPT ![i] = b]
<1>1. /\ run[r] \in Run /\ adder[r] \in [Items -> Adder] /\ adder[r][i] \in Adder
      /\ Good(run[r], adder[r], infoHash, dest)
  BY Locals
<1>2. /\ run' \in [Runs -> Run] /\ run'[r] = t /\ \A q \in Runs : q # r => run'[q] = run[q]
  BY SetRunTyped
<1>3. /\ adder' \in [Runs -> [Items -> Adder]] /\ adder'[r] = a
      /\ \A q \in Runs : q # r => adder'[q] = adder[q]
  BY SetAdderTyped
<1>4. a \in [Items -> Adder] /\ a[i] = b /\ \A j \in Items : j # i => a[j] = adder[r][j]
  BY <1>1
<1>5. Cardinality(Done(a)) = IF b.did = adder[r][i].did THEN Cardinality(Done(adder[r]))
                             ELSE Cardinality(Done(adder[r])) + 1
  <2>1. CASE b.did = adder[r][i].did
    BY <1>1, <2>1, DoneSame
  <2>2. CASE b.did # adder[r][i].did
    <3>1. adder[r][i].did = "none" /\ b.did # "none"
      BY <1>1, <2>2 DEF Good, Count
    <3>2. QED
      BY <1>1, <2>2, <3>1, DoneMore
  <2>3. QED
    BY <2>1, <2>2
<1> HIDE DEF a
<1>6. Working \cap {"waiting", "flushing", "ended", "error"} = {}
  BY DEF Working
<1>7. Place(t, a)
  <2>1. \A p \in Working : p # "waiting" /\ ~Over(p)
    BY DEF Working, Over
  <2>2. \A j \in Items : (a[j].at # "waiting" /\ ~Over(a[j].at))
                            <=> (adder[r][j].at # "waiting" /\ ~Over(adder[r][j].at))
    BY <1>4, <2>1
  <2>3. AtWork(t, a) = AtWork(run[r], adder[r])
    BY <1>1, <2>2, RunFields DEF AtWork
  <2>4. QED
    BY <1>1, <1>4, <1>6, <2>3 DEF Good, Place
<1>8. Lock(t, a)
  BY <1>1, <1>4, <1>6 DEF Good, Lock
<1>9. Count(t, a)
  <2>1. \A j \in Items : a[j].at \in Early => a[j].did = "none"
    BY <1>1, <1>4 DEF Good, Count, Early
  <2>2. Sum(t) = Cardinality(Done(a))
    BY <1>1, <1>5 DEF Good, Count
  <2>3. QED
    BY <2>1, <2>2 DEF Count
<1>10. Good(t, a, infoHash, dest')
  BY <1>7, <1>8, <1>9 DEF Good, a
<1>11. \A k \in 1 .. Len(queue) : Fits(queue[k], run', infoHash, dest')
  BY <1>2, FitStays
<1>12. queue \in Seq(Op) /\ Paired(queue) /\ OneFlush(queue)
  BY DEF IInv, TypeOK
<1>13. /\ queue' \in Seq(Op) /\ Paired(queue') /\ OneFlush(queue') /\ AllFit'
       /\ \A q \in Runs : NoLog(q, queue') => NoLog(q, queue)
  <2>1. CASE queue' = queue
    BY <1>11, <1>12, <2>1 DEF AllFit
  <2>2. CASE \E status \in Statuses :
                 /\ queue' = Append(queue, [kind |-> "history", item |-> i, status |-> status])
                 /\ status = "success" => infoHash[i] \in dest'
    <3>1. PICK status \in Statuses :
             /\ queue' = Append(queue, [kind |-> "history", item |-> i, status |-> status])
             /\ status = "success" => infoHash[i] \in dest'
      BY <2>2
    <3> DEFINE op == [kind |-> "history", item |-> i, status |-> status]
    <3>2. /\ op \in Op /\ op.kind = "history" /\ op.status = status /\ op.item = i
          /\ queue' = Append(queue, op)
      BY <3>1, OpsTyped, ReportTyped
    <3> HIDE DEF op
    <3>3. Fits(op, run', infoHash, dest')
      BY <3>1, <3>2 DEF Fits
    <3>4. /\ queue' \in Seq(Op) /\ Len(queue') = Len(queue) + 1 /\ Len(queue) \in Nat
          /\ \A k \in 1 .. Len(queue) : queue'[k] = queue[k]
          /\ queue'[Len(queue) + 1] = op
      BY <1>12, <3>2, Appended
    <3>5. ASSUME NEW k \in 1 .. Len(queue') PROVE Fits(queue'[k], run', infoHash', dest')
      <4>1. k \in 1 .. Len(queue) \/ k = Len(queue) + 1
        BY <3>4
      <4>2. QED
        BY <1>11, <3>3, <3>4, <4>1
    <3>6. AllFit'
      BY <3>5 DEF AllFit
    <3>7. QED
      BY <1>12, <3>2, <3>4, <3>6, JoinOne
  <2>3. QED
    BY <2>1, <2>2
<1>14. (writer = "up" /\ NoLog(r, queue')) => log[r] = run[r].report
  BY <1>13 DEF IInv, Committed
<1>15. starts' \in 0 .. MaxStarts /\ log' \in [Runs -> Report]
       /\ \A q \in Runs : q # r => log'[q] = log[q]
  BY DEF IInv, TypeOK
<1>16. QED
  BY <1>2, <1>3, <1>4, <1>10, <1>13, <1>14, <1>15, OneRun

-----------------------------------------------------------------------------
(* The adders.                                                             *)

LEMMA AdderGoes ==
    ASSUME NEW b \in Adder, NEW p \in Points
    PROVE  LET c == [b EXCEPT !.at = p]
           IN  /\ c \in Adder /\ c.at = p /\ c.did = b.did /\ c.outcome = b.outcome
               /\ c.failedBefore = b.failedBefore
BY DEF Adder

\* The run stays as it is.
LEMMA SameRun ==
    ASSUME IInv, NEW r \in Runs, run' = run
    PROVE  SetRun(r, run[r]) /\ run[r] \in Run
BY DEF IInv, TypeOK, SetRun

\* Claims stay when no adder comes to hold one, or ceases to.
LEMMA ClaimingStays ==
    ASSUME NEW s, NEW t, NEW a \in [Items -> Adder], NEW i \in Items, NEW b \in Adder,
           NEW h, NEW d, NEW d2, d \subseteq d2,
           Claiming(s, a, h, d), t.claims = s.claims, Holds(b.at) <=> Holds(a[i].at),
           b.at = "taken" => a[i].at = "taken"
    PROVE  Claiming(t, [a EXCEPT ![i] = b], h, d2)
<1> DEFINE a2 == [a EXCEPT ![i] = b]
<1>1. \A j \in Items : (Holds(a2[j].at) <=> Holds(a[j].at))
                       /\ (a2[j].at = "taken" => a[j].at = "taken")
  OBVIOUS
<1> HIDE DEF a2
<1>2. QED
  BY <1>1 DEF Claiming, a2

\* An error of add_torrent.
LEMMA ErredStep ==
    ASSUME IInv, NEW r \in Runs, NEW i \in Items, run[r].phase = "add",
           adder[r][i].at \in Early \cap Working, ~Holds(adder[r][i].at),
           Erred(r, i, run[r]),
           UNCHANGED <<infoHash, writer, history, faults, crashes, starts, log, dest, queue>>
    PROVE  IInv'
<1> DEFINE t == [run[r] EXCEPT !.failed = run[r].failed + 1]
           b == [adder[r][i] EXCEPT !.at = "persist", !.did = "failed", !.outcome = "failed"]
<1>1. /\ run[r] \in Run /\ adder[r] \in [Items -> Adder] /\ adder[r][i] \in Adder
      /\ Good(run[r], adder[r], infoHash, dest)
  BY Locals
<1>2. run[r].failed + 1 \in Nat
  BY <1>1, RunFields
<1>3. SetRun(r, t) /\ SetAdder(r, i, b)
  BY DEF Erred
<1>4. t \in Run /\ t.phase = "add" /\ t.matched = run[r].matched /\ t.holder = run[r].holder
      /\ t.report = run[r].report /\ t.claims = run[r].claims /\ t.added = run[r].added
      /\ t.skipped = run[r].skipped /\ t.failed = run[r].failed + 1
  <2>1. \A n \in Nat : LET u == [run[r] EXCEPT !.failed = n]
                       IN  /\ u \in Run /\ u.phase = run[r].phase
                           /\ u.matched = run[r].matched /\ u.holder = run[r].holder
                           /\ u.report = run[r].report /\ u.claims = run[r].claims
                           /\ u.added = run[r].added /\ u.skipped = run[r].skipped
                           /\ u.failed = n
    BY <1>1 DEF Run
  <2>2. QED
    BY <1>2, <2>1
<1>5. b \in Adder /\ b.at = "persist" /\ b.did = "failed"
  BY <1>1 DEF Adder, Points, Outcomes
<1> HIDE DEF t, b
<1>6. Sum(t) = Sum(run[r]) + 1
  BY <1>1, <1>4, RunFields DEF Sum
<1>7. Claiming(t, [adder[r] EXCEPT ![i] = b], infoHash, dest)
  BY <1>1, <1>4, <1>5, ClaimingStays DEF Good, Holds
<1>8. b.at \in Working /\ dest' \subseteq Hashes /\ adder[r][i].at \in Working
  BY <1>5 DEF Working, IInv, TypeOK
<1>9. QED
  BY <1>3, <1>4, <1>5, <1>6, <1>7, <1>8, WorkingStep

LEMMA DownloadStep ==
    ASSUME IInv, NEW r \in Runs, NEW i \in Items, Download(r, i)
    PROVE  IInv'
<1>1. /\ run[r].phase = "add" /\ adder[r][i].at = "download"
      /\ UNCHANGED <<infoHash, writer, history, faults, crashes, starts, log, dest, queue>>
  BY DEF Download, At
<1>2. adder[r][i].at \in Early \cap Working /\ ~Holds(adder[r][i].at)
  BY <1>1 DEF Early, Working, Holds
<1>3. CASE Erred(r, i, run[r])
  BY <1>1, <1>2, <1>3, ErredStep
<1>4. CASE \E p \in {"mismatch", "claim"} :
             SetAdder(r, i, [adder[r][i] EXCEPT !.at = p]) /\ UNCHANGED run
  <2>1. PICK p \in {"mismatch", "claim"} :
            SetAdder(r, i, [adder[r][i] EXCEPT !.at = p]) /\ UNCHANGED run
    BY <1>4
  <2> DEFINE b == [adder[r][i] EXCEPT !.at = p]
  <2>2. p \in Points /\ p \in Early /\ p \in Working /\ ~Holds(p) /\ p # "taken"
    BY DEF Points, Early, Working, Holds
  <2>3. b \in Adder /\ b.at = p /\ b.did = adder[r][i].did
    BY <2>2, Locals, AdderGoes
  <2> HIDE DEF b
  <2>4. Claiming(run[r], [adder[r] EXCEPT ![i] = b], infoHash, dest)
    BY <1>2, <2>2, <2>3, Locals, ClaimingStays DEF Good
  <2>5. SetRun(r, run[r]) /\ run[r] \in Run /\ SetAdder(r, i, b) /\ dest' \subseteq Hashes
    BY <1>1, <2>1, SameRun DEF b, IInv, TypeOK
  <2>6. QED
    BY <1>1, <1>2, <2>2, <2>3, <2>4, <2>5, WorkingStep
<1>5. QED
  BY <1>3, <1>4 DEF Download

LEMMA ClaimStep ==
    ASSUME IInv, NEW r \in Runs, NEW i \in Items, Claim(r, i)
    PROVE  IInv'
<1>1. /\ run[r].phase = "add" /\ adder[r][i].at = "claim"
      /\ UNCHANGED <<infoHash, writer, history, faults, crashes, starts, log, dest, queue>>
      /\ dest' \subseteq Hashes
  BY DEF Claim, At, IInv, TypeOK
<1>2. /\ run[r] \in Run /\ adder[r] \in [Items -> Adder] /\ adder[r][i] \in Adder
      /\ Claiming(run[r], adder[r], infoHash, dest) /\ infoHash[i] \in Hashes
  BY Locals DEF Good, IInv, TypeOK
<1>3. adder[r][i].at \in Early /\ adder[r][i].at \in Working /\ ~Holds(adder[r][i].at)
  BY <1>1 DEF Early, Working, Holds
<1>4. CASE infoHash[i] \in run[r].claims
  <2> DEFINE b == [adder[r][i] EXCEPT !.at = "exists"]
  <2>1. "exists" \in Points /\ "exists" \in Working /\ ~Holds("exists")
    BY DEF Points, Working, Holds
  <2>2. SetAdder(r, i, b) /\ run' = run
    BY <1>4 DEF Claim
  <2>3. b \in Adder /\ b.at = "exists" /\ b.did = adder[r][i].did
    BY <1>2, <2>1, AdderGoes
  <2> HIDE DEF b
  <2>4. Claiming(run[r], [adder[r] EXCEPT ![i] = b], infoHash, dest)
    BY <1>2, <1>3, <2>1, <2>3, ClaimingStays
  <2>5. SetRun(r, run[r])
    BY <2>2, SameRun
  <2>6. QED
    BY <1>1, <1>2, <1>3, <2>1, <2>2, <2>3, <2>4, <2>5, WorkingStep
<1>5. CASE infoHash[i] \notin run[r].claims
  <2> DEFINE b == [adder[r][i] EXCEPT !.at = "add"]
             t == [run[r] EXCEPT !.claims = run[r].claims \cup {infoHash[i]}]
             a == [adder[r] EXCEPT ![i] = b]
  <2>1. "add" \in Points /\ "add" \in Working /\ Holds("add")
    BY DEF Points, Working, Holds
  <2>2. SetAdder(r, i, b) /\ SetRun(r, t)
    BY <1>5 DEF Claim, Claimed
  <2>3. b \in Adder /\ b.at = "add" /\ b.did = adder[r][i].did
    BY <1>2, <2>1, AdderGoes
  <2>4. t \in Run /\ t.phase = "add" /\ t.matched = run[r].matched
        /\ t.holder = run[r].holder /\ t.report = run[r].report
        /\ t.claims = run[r].claims \cup {infoHash[i]} /\ Sum(t) = Sum(run[r])
    BY <1>1, <1>2 DEF Run, Sum
  <2> HIDE DEF b, t
  <2>5. a[i] = b /\ \A j \in Items : j # i => a[j] = adder[r][j]
    BY <1>2
  <2> HIDE DEF a
  <2>6. Claiming(t, a, infoHash, dest)
    <3>1. \A j \in Items : Holds(a[j].at) => infoHash[j] \in t.claims
      BY <1>2, <2>4, <2>5 DEF Claiming
    <3>2. \A j, k \in Items : (j # k /\ Holds(a[j].at) /\ Holds(a[k].at))
             => infoHash[j] # infoHash[k]
      BY <1>2, <1>5, <2>5 DEF Claiming
    <3>3. \A c \in t.claims : c \notin dest => \E j \in Items : infoHash[j] = c /\ Holds(a[j].at)
      <4> SUFFICES ASSUME NEW c \in t.claims, c \notin dest
                   PROVE  \E j \in Items : infoHash[j] = c /\ Holds(a[j].at)
        OBVIOUS
      <4>1. CASE c = infoHash[i]
        BY <2>1, <2>3, <2>5, <4>1
      <4>2. CASE c # infoHash[i]
        <5>1. PICK j \in Items : infoHash[j] = c /\ Holds(adder[r][j].at)
          BY <1>2, <2>4, <4>2 DEF Claiming
        <5>2. j # i
          BY <1>3, <5>1
        <5>3. QED
          BY <2>5, <5>1, <5>2
      <4>3. QED
        BY <4>1, <4>2
    <3>4. \A j \in Items : a[j].at = "taken" => infoHash[j] \in dest
      BY <1>2, <2>3, <2>5 DEF Claiming
    <3>5. QED
      BY <3>1, <3>2, <3>3, <3>4 DEF Claiming
  <2>7. QED
    BY <1>1, <1>2, <1>3, <2>1, <2>2, <2>3, <2>4, <2>6, WorkingStep DEF a
<1>6. QED
  BY <1>4, <1>5

LEMMA AddStepKeeps ==
    ASSUME IInv, NEW r \in Runs, NEW i \in Items, Add(r, i)
    PROVE  IInv'
<1>1. /\ run[r].phase = "add" /\ adder[r][i].at = "add"
      /\ UNCHANGED <<infoHash, writer, history, faults, crashes, starts, log, queue>>
      /\ run' = run
  BY DEF Add, At
<1>2. /\ run[r] \in Run /\ adder[r] \in [Items -> Adder] /\ adder[r][i] \in Adder
      /\ Claiming(run[r], adder[r], infoHash, dest) /\ infoHash[i] \in Hashes
      /\ dest \subseteq Hashes
  BY Locals DEF Good, IInv, TypeOK
<1>3. PICK taken \in BOOLEAN, answered \in BOOLEAN :
          /\ answered => taken
          /\ dest' = IF taken THEN dest \cup {infoHash[i]} ELSE dest
          /\ SetAdder(r, i, [adder[r][i] EXCEPT !.at = IF answered THEN "taken" ELSE "refused"])
  BY DEF Add
<1> DEFINE p == IF answered THEN "taken" ELSE "refused"
           b == [adder[r][i] EXCEPT !.at = p]
           a == [adder[r] EXCEPT ![i] = b]
<1>4. /\ p \in Points /\ p \in Working /\ p \in Early /\ p \in {"taken", "refused"}
      /\ (p = "taken" => infoHash[i] \in dest') /\ ~Holds("taken") /\ Holds("refused")
  BY <1>3 DEF Points, Working, Early, Holds
<1>5. dest' \subseteq Hashes /\ dest \subseteq dest'
  BY <1>2, <1>3
<1>6. SetAdder(r, i, b)
  BY <1>3
<1> HIDE DEF p
<1>7. b \in Adder /\ b.at = p /\ b.did = adder[r][i].did
  BY <1>2, <1>4, AdderGoes
<1> HIDE DEF b
<1>8. a[i] = b /\ \A j \in Items : j # i => a[j] = adder[r][j]
  BY <1>2
<1> HIDE DEF a
<1>9. Claiming(run[r], a, infoHash, dest')
  <2>1. \A j \in Items : Holds(a[j].at) => Holds(adder[r][j].at)
    BY <1>1, <1>8 DEF Holds
  <2>2. \A c \in run[r].claims : c \notin dest' => \E j \in Items : infoHash[j] = c /\ Holds(a[j].at)
    <3> SUFFICES ASSUME NEW c \in run[r].claims, c \notin dest'
                 PROVE  \E j \in Items : infoHash[j] = c /\ Holds(a[j].at)
      OBVIOUS
    <3>1. PICK j \in Items : infoHash[j] = c /\ Holds(adder[r][j].at)
      BY <1>2, <1>5 DEF Claiming
    <3>2. CASE j = i
      BY <1>4, <1>7, <1>8, <3>1, <3>2
    <3>3. CASE j # i
      BY <1>8, <3>1, <3>3
    <3>4. QED
      BY <3>2, <3>3
  <2>3. \A j \in Items : a[j].at = "taken" => infoHash[j] \in dest'
    BY <1>2, <1>4, <1>5, <1>7, <1>8 DEF Claiming
  <2>4. QED
    BY <1>2, <2>1, <2>2, <2>3 DEF Claiming
<1>10. adder[r][i].at \in Working /\ adder[r][i].at \in Early
  BY <1>1 DEF Working, Early
<1>11. SetRun(r, run[r])
  BY <1>1, SameRun
<1>12. QED
  BY <1>1, <1>2, <1>4, <1>5, <1>6, <1>7, <1>9, <1>10, <1>11, WorkingStep DEF a

LEMMA ReleaseStep ==
    ASSUME IInv, NEW r \in Runs, NEW i \in Items, Release(r, i)
    PROVE  IInv'
<1> DEFINE t == [run[r] EXCEPT !.claims = run[r].claims \ {infoHash[i]}]
           b == [adder[r][i] EXCEPT !.at = "released"]
           a == [adder[r] EXCEPT ![i] = b]
<1>1. /\ run[r].phase = "add" /\ adder[r][i].at = "refused"
      /\ UNCHANGED <<infoHash, writer, history, faults, crashes, starts, log, dest, queue>>
      /\ SetRun(r, t) /\ SetAdder(r, i, b)
  BY DEF Release, At, LeftClaims
<1>2. /\ run[r] \in Run /\ adder[r] \in [Items -> Adder] /\ adder[r][i] \in Adder
      /\ Claiming(run[r], adder[r], infoHash, dest) /\ dest \subseteq Hashes
  BY Locals DEF Good, IInv, TypeOK
<1>3. /\ "released" \in Points /\ "released" \in Working /\ "released" \in Early
      /\ ~Holds("released") /\ Holds("refused")
      /\ adder[r][i].at \in Working /\ adder[r][i].at \in Early
  BY <1>1 DEF Points, Working, Early, Holds
<1>4. b \in Adder /\ b.at = "released" /\ b.did = adder[r][i].did
  BY <1>2, <1>3, AdderGoes
<1>5. t \in Run /\ t.phase = "add" /\ t.matched = run[r].matched
      /\ t.holder = run[r].holder /\ t.report = run[r].report
      /\ t.claims = run[r].claims \ {infoHash[i]} /\ Sum(t) = Sum(run[r])
  BY <1>1, <1>2 DEF Run, Sum
<1> HIDE DEF b, t
<1>6. a[i] = b /\ \A j \in Items : j # i => a[j] = adder[r][j]
  BY <1>2
<1> HIDE DEF a
<1>7. Claiming(t, a, infoHash, dest)
  <2>1. \A j \in Items : Holds(a[j].at) => j # i /\ Holds(adder[r][j].at)
    BY <1>3, <1>4, <1>6
  <2>2. \A j \in Items : Holds(a[j].at) => infoHash[j] \in t.claims
    BY <1>1, <1>2, <1>3, <1>5, <2>1 DEF Claiming
  <2>3. \A c \in t.claims : c \notin dest => \E j \in Items : infoHash[j] = c /\ Holds(a[j].at)
    <3> SUFFICES ASSUME NEW c \in t.claims, c \notin dest
                 PROVE  \E j \in Items : infoHash[j] = c /\ Holds(a[j].at)
      OBVIOUS
    <3>1. PICK j \in Items : infoHash[j] = c /\ Holds(adder[r][j].at)
      BY <1>2, <1>5 DEF Claiming
    <3>2. j # i
      BY <1>5, <3>1
    <3>3. QED
      BY <1>6, <3>1, <3>2
  <2>4. \A j \in Items : a[j].at = "taken" => infoHash[j] \in dest
    BY <1>2, <1>4, <1>6 DEF Claiming
  <2>5. QED
    BY <1>2, <2>1, <2>2, <2>3, <2>4 DEF Claiming
<1>8. QED
  BY <1>1, <1>2, <1>3, <1>4, <1>5, <1>7, WorkingStep DEF a


\* One counter goes up by one.
LEMMA CountedTyped ==
    ASSUME IInv, NEW r \in Runs, NEW did \in Outcomes
    PROVE  LET t == Counted(r, did)
           IN  /\ t \in Run /\ t.phase = run[r].phase /\ t.matched = run[r].matched
               /\ t.holder = run[r].holder /\ t.report = run[r].report
               /\ t.claims = run[r].claims /\ Sum(t) = Sum(run[r]) + 1
<1>1. /\ run[r] \in Run /\ run[r].added + 1 \in Nat /\ run[r].failed + 1 \in Nat
      /\ run[r].skipped + 1 \in Nat
      /\ run[r].added \in Nat /\ run[r].failed \in Nat /\ run[r].skipped \in Nat
  BY Locals, RunFields
<1>2. \A n \in Nat :
         LET t == [run[r] EXCEPT !.added = n]
         IN  /\ t \in Run /\ t.phase = run[r].phase /\ t.matched = run[r].matched
             /\ t.holder = run[r].holder /\ t.report = run[r].report
             /\ t.claims = run[r].claims /\ t.added = n /\ t.failed = run[r].failed
             /\ t.skipped = run[r].skipped
  BY <1>1 DEF Run
<1>3. \A n \in Nat :
         LET t == [run[r] EXCEPT !.skipped = n]
         IN  /\ t \in Run /\ t.phase = run[r].phase /\ t.matched = run[r].matched
             /\ t.holder = run[r].holder /\ t.report = run[r].report
             /\ t.claims = run[r].claims /\ t.skipped = n /\ t.failed = run[r].failed
             /\ t.added = run[r].added
  BY <1>1 DEF Run
<1>4. \A n \in Nat :
         LET t == [run[r] EXCEPT !.failed = n]
         IN  /\ t \in Run /\ t.phase = run[r].phase /\ t.matched = run[r].matched
             /\ t.holder = run[r].holder /\ t.report = run[r].report
             /\ t.claims = run[r].claims /\ t.failed = n /\ t.added = run[r].added
             /\ t.skipped = run[r].skipped
  BY <1>1 DEF Run
<1>5. CASE did = "added"
  <2>1. Counted(r, did) = [run[r] EXCEPT !.added = run[r].added + 1]
    BY <1>5 DEF Counted
  <2>2. QED
    BY <1>1, <1>2, <2>1 DEF Sum
<1>6. CASE did = "skipped"
  <2>1. Counted(r, did) = [run[r] EXCEPT !.skipped = run[r].skipped + 1]
    BY <1>6 DEF Counted
  <2>2. QED
    BY <1>1, <1>3, <2>1 DEF Sum
<1>7. CASE did = "failed"
  <2>1. Counted(r, did) = [run[r] EXCEPT !.failed = run[r].failed + 1]
    BY <1>7 DEF Counted
  <2>2. QED
    BY <1>1, <1>4, <2>1 DEF Sum
<1>8. QED
  BY <1>5, <1>6, <1>7 DEF Outcomes

LEMMA RecordStep ==
    ASSUME IInv, NEW r \in Runs, NEW i \in Items, Record(r, i)
    PROVE  IInv'
<1>1. PICK p \in {"mismatch", "exists", "taken", "released"} :
        /\ At(r, i, p)
        /\ IF writer = "dead"
           THEN Erred(r, i, run[r]) /\ UNCHANGED queue
           ELSE /\ queue' = Append(queue, [kind |-> "history", item |-> i,
                                           status |-> StatusOf(p)])
                /\ SetRun(r, Counted(r, Did(p)))
                /\ SetAdder(r, i, [adder[r][i] EXCEPT
                       !.at = "persist", !.did = Did(p),
                       !.outcome = OutcomeOf(r, i, Did(p))])
        /\ UNCHANGED <<infoHash, dest, history, log, writer, starts, faults, crashes>>
  BY DEF Record
<1>2. /\ run[r].phase = "add" /\ adder[r][i].at = p
      /\ UNCHANGED <<infoHash, dest, history, log, writer, starts, faults, crashes>>
  BY <1>1 DEF At
<1>3. /\ adder[r][i].at \in Early /\ adder[r][i].at \in Working /\ ~Holds(adder[r][i].at)
  BY <1>2 DEF Early, Working, Holds
<1>4. CASE writer = "dead"
  BY <1>1, <1>2, <1>3, <1>4, ErredStep
<1>5. CASE writer # "dead"
  <2> DEFINE t == Counted(r, Did(p))
             out == OutcomeOf(r, i, Did(p))
             b == [adder[r][i] EXCEPT !.at = "persist", !.did = Did(p), !.outcome = out]
  <2>1. /\ adder[r] \in [Items -> Adder] /\ adder[r][i] \in Adder
        /\ Claiming(run[r], adder[r], infoHash, dest) /\ dest \subseteq Hashes
    BY Locals DEF Good, IInv, TypeOK
  <2>2. Did(p) \in Outcomes /\ StatusOf(p) \in Statuses /\ (StatusOf(p) = "success" => p = "taken")
    BY DEF Did, StatusOf, Outcomes, Statuses
  <2>3. out \in Outcomes
    BY <2>2 DEF OutcomeOf, Outcomes
  <2>4. SetAdder(r, i, b) /\ SetRun(r, t)
        /\ queue' = Append(queue, [kind |-> "history", item |-> i, status |-> StatusOf(p)])
    BY <1>1, <1>5
  <2>5. /\ t \in Run /\ t.phase = "add" /\ t.matched = run[r].matched
        /\ t.holder = run[r].holder /\ t.report = run[r].report
        /\ t.claims = run[r].claims /\ Sum(t) = Sum(run[r]) + 1
    BY <1>2, <2>2, CountedTyped
  <2> HIDE DEF t, out
  <2>6. \A o, u \in Outcomes :
           LET c == [adder[r][i] EXCEPT !.at = "persist", !.did = o, !.outcome = u]
           IN  c \in Adder /\ c.at = "persist" /\ c.did # "none"
    <3>1. "persist" \in Points
      BY DEF Points
    <3>2. QED
      BY <2>1, <3>1 DEF Adder, Outcomes
  <2>7. b \in Adder /\ b.at = "persist" /\ b.did # "none"
    BY <2>2, <2>3, <2>6
  <2> HIDE DEF b
  <2>8. Claiming(t, [adder[r] EXCEPT ![i] = b], infoHash, dest)
    BY <1>3, <2>1, <2>5, <2>7, ClaimingStays DEF Holds
  <2>9. StatusOf(p) = "success" => infoHash[i] \in dest
    BY <1>2, <2>1, <2>2 DEF Claiming
  <2>10. b.at \in Working
    BY <2>7 DEF Working
  <2>11. \E status \in Statuses :
            /\ queue' = Append(queue, [kind |-> "history", item |-> i, status |-> status])
            /\ status = "success" => infoHash[i] \in dest'
    BY <1>2, <2>2, <2>4, <2>9
  <2>12. QED
    BY <1>2, <1>3, <2>1, <2>4, <2>5, <2>7, <2>8, <2>10, <2>11, WorkingStep
<1>6. QED
  BY <1>4, <1>5

\* buffer_unordered takes up one future more.
LEMMA StartAddStep ==
    ASSUME IInv, NEW r \in Runs, NEW i \in Items, StartAdd(r, i)
    PROVE  IInv'
<1>1. /\ run[r].phase = "add" /\ adder[r][i].at = "waiting" /\ i \in run[r].matched
      /\ Cardinality(Active(r)) < AddConcurrency
      /\ UNCHANGED <<infoHash, dest, history, log, queue, writer, run, starts, faults, crashes>>
  BY DEF StartAdd, At
<1>2. PICK p \in {"download", "error"} :
          SetAdder(r, i, [adder[r][i] EXCEPT !.at = p, !.failedBefore = run[r].failed])
  BY DEF StartAdd
<1> DEFINE b == [adder[r][i] EXCEPT !.at = p, !.failedBefore = run[r].failed]
           a == [adder[r] EXCEPT ![i] = b]
<1>3. /\ run[r] \in Run /\ adder[r] \in [Items -> Adder] /\ adder[r][i] \in Adder
      /\ Good(run[r], adder[r], infoHash, dest) /\ run[r].failed \in Nat
  BY Locals, RunFields
<1>4. /\ b \in Adder /\ b.at = p /\ b.did = adder[r][i].did /\ b.outcome = adder[r][i].outcome
  <2>1. p \in Points
    BY DEF Points
  <2>2. QED
    BY <1>3, <2>1 DEF Adder
<1>5. SetAdder(r, i, b)
  BY <1>2
<1> HIDE DEF b
<1>6. /\ adder' \in [Runs -> [Items -> Adder]] /\ adder'[r] = a
      /\ \A q \in Runs : q # r => adder'[q] = adder[q]
  BY <1>4, <1>5, SetAdderTyped
<1>7. a \in [Items -> Adder] /\ a[i] = b /\ \A j \in Items : j # i => a[j] = adder[r][j]
  BY <1>3, <1>4
<1>8. Done(a) = Done(adder[r])
  BY <1>3, <1>4, DoneSame
<1>9. Claiming(run[r], a, infoHash, dest)
  <2>1. ~Holds("waiting") /\ ~Holds(p) /\ p # "taken"
    BY DEF Holds
  <2>2. QED
    BY <1>1, <1>3, <1>4, <2>1, ClaimingStays DEF Good
<1> HIDE DEF a
<1>10. Cardinality(AtWork(run[r], a)) <= AddConcurrency
  <2> DEFINE W == AtWork(run[r], adder[r])
  <2>1. W = Active(r)
    BY DEF AtWork, Active
  <2>2. IsFiniteSet(W) /\ Cardinality(W) \in Nat /\ i \notin W
    BY <1>1, <1>3, AtWorkFinite DEF AtWork
  <2> HIDE DEF W
  <2>3. IsFiniteSet(W \cup {i}) /\ Cardinality(W \cup {i}) = Cardinality(W) + 1
    BY <2>2, FS_AddElement
  <2>4. Cardinality(W \cup {i}) <= AddConcurrency
    BY <1>1, <2>1, <2>2, <2>3, ReseedRunAssumption
  <2>5. AtWork(run[r], a) \subseteq W \cup {i}
    BY <1>3, <1>7, RunFields DEF AtWork, W
  <2>6. QED
    BY <1>3, <2>3, <2>4, <2>5, AtWorkFewer
<1>11. Place(run[r], a)
  BY <1>1, <1>3, <1>7, <1>10 DEF Good, Place
<1>12. Lock(run[r], a)
  <2>1. run[r].holder # i
    BY <1>1, <1>3 DEF Good, Lock
  <2>2. QED
    BY <1>1, <1>3, <1>4, <1>7, <2>1 DEF Good, Lock
<1>13. Count(run[r], a)
  <2>1. "waiting" \in Early
    BY DEF Early
  <2>2. b.did = "none"
    BY <1>1, <1>3, <1>4, <2>1 DEF Good, Count
  <2>3. QED
    BY <1>3, <1>7, <1>8, <2>2 DEF Good, Count
<1>14. Good(run[r], a, infoHash, dest')
  BY <1>1, <1>9, <1>11, <1>12, <1>13 DEF Good
<1>15. /\ queue' \in Seq(Op) /\ Paired(queue') /\ OneFlush(queue') /\ AllFit'
       /\ run' \in [Runs -> Run] /\ run' = run /\ log' \in [Runs -> Report] /\ log' = log
       /\ dest' \subseteq Hashes /\ dest' = dest /\ starts' \in 0 .. MaxStarts
       /\ infoHash' = infoHash /\ queue' = queue
  BY <1>1 DEF IInv, TypeOK, AllFit
<1>16. (writer = "up" /\ NoLog(r, queue')) => log'[r] = run[r].report
  BY <1>1, <1>15 DEF IInv, Committed
<1>17. UNCHANGED <<infoHash, writer, history, faults, crashes>>
  BY <1>1
<1>18. QED
  BY <1>1, <1>3, <1>6, <1>7, <1>14, <1>15, <1>16, <1>17, OneRun

\* The item joins the report; the adder waits for the flush, or fails.
LEMMA Merging ==
    ASSUME IInv, NEW r \in Runs, NEW i \in Items, NEW t \in Run, NEW b \in Adder,
           run[r].phase = "add", run[r].holder = NoItem, adder[r][i].at = "persist",
           t.phase = "add", t.matched = run[r].matched, t.claims = run[r].claims,
           Sum(t) = Sum(run[r]), t.report = Merged(r, i),
           b.did = adder[r][i].did, b.outcome = adder[r][i].outcome,
           \/ b.at = "error" /\ t.holder = NoItem
           \/ b.at = "flushing" /\ t.holder = i
    PROVE  Good(t, [adder[r] EXCEPT ![i] = b], infoHash, dest)
<1> DEFINE a == [adder[r] EXCEPT ![i] = b]
<1>1. /\ run[r] \in Run /\ adder[r] \in [Items -> Adder] /\ adder[r][i] \in Adder
      /\ Good(run[r], adder[r], infoHash, dest) /\ NoItem \notin Items
      /\ run[r].report \in Report
  BY Locals, RunFields, ReseedRunAssumption
<1>2. a[i] = b /\ \A j \in Items : j # i => a[j] = adder[r][j]
  BY <1>1
<1>3. t.report[i] = b.outcome /\ \A j \in Items : j # i => t.report[j] = run[r].report[j]
  BY <1>1 DEF Merged, Report
<1>4. Done(a) = Done(adder[r])
  BY <1>1, DoneSame
<1>5. Claiming(t, a, infoHash, dest)
  BY <1>1, ClaimingStays DEF Good, Holds
<1> HIDE DEF a
<1>6. Place(t, a)
  <2>1. AtWork(t, a) \subseteq AtWork(run[r], adder[r])
    BY <1>1, <1>2, RunFields DEF AtWork, Over
  <2>2. Cardinality(AtWork(t, a)) <= AddConcurrency
    BY <1>1, <2>1, AtWorkFinite, AtWorkFewer DEF Good, Place
  <2>3. QED
    BY <1>1, <1>2, <2>2 DEF Good, Place
<1>7. Lock(t, a)
  BY <1>1, <1>2, <1>3 DEF Good, Lock
<1>8. Count(t, a)
  BY <1>1, <1>2, <1>4 DEF Good, Count, Early
<1>9. QED
  BY <1>5, <1>6, <1>7, <1>8 DEF Good, a

\* A report and its flush are sent by a run that has no flush in the queue.
LEMMA Sending ==
    ASSUME IInv, NEW r \in Runs, NEW t \in Run, NEW l \in Op, NEW f \in Op,
           NoFlush(r, queue), l.kind = "log", l.run = r, l.report = t.report,
           f.kind = "flush", f.run = r, FlushFits(f, t),
           NEW rs, rs[r] = t, \A q \in Runs : q # r => rs[q] = run[q]
    PROVE  /\ queue \o <<l, f>> \in Seq(Op)
           /\ Paired(queue \o <<l, f>>) /\ OneFlush(queue \o <<l, f>>)
           /\ \A k \in 1 .. Len(queue \o <<l, f>>) :
                 Fits((queue \o <<l, f>>)[k], rs, infoHash, dest)
           /\ \A q \in Runs : NoLog(q, queue \o <<l, f>>) => NoLog(q, queue) /\ q # r
<1> DEFINE q2 == queue \o <<l, f>>
<1>1. queue \in Seq(Op) /\ Paired(queue) /\ OneFlush(queue)
  BY DEF IInv, TypeOK
<1>5. /\ q2 \in Seq(Op) /\ Len(q2) = Len(queue) + 2 /\ Len(queue) \in Nat
      /\ \A k \in 1 .. Len(queue) : q2[k] = queue[k]
      /\ q2[Len(queue) + 1] = l /\ q2[Len(queue) + 2] = f
  BY <1>1, AppendedTwo
<1> HIDE DEF q2
<1>6. \A k \in 1 .. Len(queue) : Fits(queue[k], rs, infoHash, dest)
  BY FitStays
<1>7. Fits(l, rs, infoHash, dest) /\ Fits(f, rs, infoHash, dest)
  BY DEF Fits
<1>8. ASSUME NEW k \in 1 .. Len(q2) PROVE Fits(q2[k], rs, infoHash, dest)
  <2>1. k \in 1 .. Len(queue) \/ k = Len(queue) + 1 \/ k = Len(queue) + 2
    BY <1>5
  <2>2. QED
    BY <1>5, <1>6, <1>7, <2>1
<1>9. /\ Paired(q2) /\ OneFlush(q2)
      /\ \A q \in Runs : NoLog(q, q2) => NoLog(q, queue) /\ q # r
  BY <1>1, JoinTwo DEF q2
<1>10. QED
  BY <1>5, <1>8, <1>9 DEF q2

LEMMA PersistStep ==
    ASSUME IInv, NEW r \in Runs, NEW i \in Items, Persist(r, i)
    PROVE  IInv'
<1>1. /\ run[r].phase = "add" /\ adder[r][i].at = "persist" /\ run[r].holder = NoItem
      /\ UNCHANGED <<infoHash, dest, history, log, writer, starts, faults, crashes>>
  BY DEF Persist, At
<1>2. /\ run[r] \in Run /\ adder[r] \in [Items -> Adder] /\ adder[r][i] \in Adder
      /\ run[r].report \in Report /\ adder[r][i].outcome \in Outcomes \cup {"none"}
  BY Locals, RunFields, AdderFields
<1>3. Merged(r, i) \in Report
  BY <1>2 DEF Merged, Report
<1>4. NoFlush(r, queue) /\ NoLog(r, queue)
  BY <1>1, QuietRun
<1>5. /\ queue \in Seq(Op) /\ Paired(queue) /\ OneFlush(queue)
      /\ log' \in [Runs -> Report] /\ log' = log
      /\ dest' \subseteq Hashes /\ dest' = dest /\ starts' \in 0 .. MaxStarts
      /\ infoHash' = infoHash
      /\ UNCHANGED <<infoHash, writer, history, faults, crashes>>
  BY <1>1 DEF IInv, TypeOK
<1>6. CASE writer = "dead"
  <2> DEFINE t == [run[r] EXCEPT !.report = Merged(r, i)]
             b == [adder[r][i] EXCEPT !.at = "error"]
             a == [adder[r] EXCEPT ![i] = b]
  <2>1. SetRun(r, t) /\ SetAdder(r, i, b) /\ queue' = queue
    BY <1>6 DEF Persist
  <2>2. /\ t \in Run /\ t.phase = "add" /\ t.matched = run[r].matched /\ t.claims = run[r].claims
        /\ Sum(t) = Sum(run[r]) /\ t.report = Merged(r, i) /\ t.holder = NoItem
    BY <1>1, <1>2, <1>3 DEF Run, Sum
  <2>3. "error" \in Points
    BY DEF Points
  <2>4. b \in Adder /\ b.at = "error" /\ b.did = adder[r][i].did /\ b.outcome = adder[r][i].outcome
    BY <1>2, <2>3, AdderGoes
  <2> HIDE DEF t, b
  <2>5. Good(t, a, infoHash, dest)
    BY <1>1, <2>2, <2>4, Merging
  <2>6. run' \in [Runs -> Run] /\ run'[r] = t /\ \A q \in Runs : q # r => run'[q] = run[q]
    BY <2>1, <2>2, SetRunTyped
  <2>7. adder' \in [Runs -> [Items -> Adder]] /\ adder'[r] = a
        /\ \A q \in Runs : q # r => adder'[q] = adder[q]
    BY <2>1, <2>4, SetAdderTyped
  <2>8. a \in [Items -> Adder]
    BY <1>2, <2>4
  <2> HIDE DEF a
  <2>9. AllFit'
    <3>1. \A k \in 1 .. Len(queue) : Fits(queue[k], run', infoHash, dest)
      BY <1>4, <2>6, FitStays
    <3>2. QED
      BY <1>5, <2>1, <3>1 DEF AllFit
  <2>10. QED
    BY <1>5, <1>6, <2>1, <2>2, <2>5, <2>6, <2>7, <2>8, <2>9, OneRun
<1>7. CASE writer # "dead"
  <2> DEFINE t == [run[r] EXCEPT !.report = Merged(r, i), !.holder = i]
             b == [adder[r][i] EXCEPT !.at = "flushing"]
             a == [adder[r] EXCEPT ![i] = b]
  <2>1. /\ SetRun(r, t) /\ SetAdder(r, i, b)
        /\ queue' = queue \o << [kind |-> "log", run |-> r, report |-> Merged(r, i)],
                                [kind |-> "flush", run |-> r, item |-> i] >>
    BY <1>7 DEF Persist
  <2>2. /\ t \in Run /\ t.phase = "add" /\ t.matched = run[r].matched /\ t.claims = run[r].claims
        /\ Sum(t) = Sum(run[r]) /\ t.report = Merged(r, i) /\ t.holder = i
    BY <1>1, <1>2, <1>3 DEF Run, Sum
  <2>3. "flushing" \in Points
    BY DEF Points
  <2>4. b \in Adder /\ b.at = "flushing" /\ b.did = adder[r][i].did /\ b.outcome = adder[r][i].outcome
    BY <1>2, <2>3, AdderGoes
  <2> HIDE DEF t, b
  <2>5. Good(t, a, infoHash, dest)
    BY <1>1, <2>2, <2>4, Merging
  <2>6. run' \in [Runs -> Run] /\ run'[r] = t /\ \A q \in Runs : q # r => run'[q] = run[q]
    BY <2>1, <2>2, SetRunTyped
  <2>7. adder' \in [Runs -> [Items -> Adder]] /\ adder'[r] = a
        /\ \A q \in Runs : q # r => adder'[q] = adder[q]
    BY <2>1, <2>4, SetAdderTyped
  <2>8. a \in [Items -> Adder]
    BY <1>2, <2>4
  <2> HIDE DEF a
  <2> DEFINE l == [kind |-> "log", run |-> r, report |-> Merged(r, i)]
             f == [kind |-> "flush", run |-> r, item |-> i]
  <2>9. l \in Op /\ l.kind = "log" /\ l.run = r /\ l.report = t.report
    BY <1>3, <2>2 DEF Op
  <2>10. f \in Op /\ f.kind = "flush" /\ f.run = r /\ f.item = i
    BY DEF Op
  <2>11. queue' = queue \o <<l, f>>
    BY <2>1
  <2> HIDE DEF l, f
  <2>12. FlushFits(f, t)
    BY <2>2, <2>10, ReseedRunAssumption DEF FlushFits
  <2>13. /\ queue' \in Seq(Op) /\ Paired(queue') /\ OneFlush(queue')
         /\ \A k \in 1 .. Len(queue') : Fits(queue'[k], run', infoHash, dest)
         /\ \A q \in Runs : NoLog(q, queue') => NoLog(q, queue) /\ q # r
    <3> DEFINE q2 == queue \o <<l, f>>
               rs == run'
    <3>1. rs[r] = t /\ \A q \in Runs : q # r => rs[q] = run[q]
      BY <2>6
    <3> HIDE DEF rs
    <3>2. /\ q2 \in Seq(Op) /\ Paired(q2) /\ OneFlush(q2)
      BY <1>4, <2>2, <2>9, <2>10, <2>12, <3>1, Sending
    <3>3. \A k \in 1 .. Len(q2) : Fits(q2[k], rs, infoHash, dest)
      BY <1>4, <2>2, <2>9, <2>10, <2>12, <3>1, Sending
    <3>4. \A q \in Runs : NoLog(q, q2) => NoLog(q, queue) /\ q # r
      BY <1>4, <2>2, <2>9, <2>10, <2>12, <3>1, Sending
    <3>5. QED
      BY <2>11, <3>2, <3>3, <3>4 DEF rs
  <2>14. AllFit'
    BY <1>5, <2>13 DEF AllFit
  <2>15. QED
    BY <1>5, <2>2, <2>5, <2>6, <2>7, <2>8, <2>13, <2>14, OneRun
<1>8. QED
  BY <1>6, <1>7

-----------------------------------------------------------------------------
(* The run.                                                                *)

LEMMA NotRunningTyped ==
    /\ NotRunning \in Run /\ NotRunning.phase = "idle" /\ NotRunning.holder = NoItem
    /\ NotRunning.claims = {} /\ Sum(NotRunning) = 0 /\ NotStarted \in Adder
<1>1. NotRunning \in Run
  BY ReportTyped DEF NotRunning, Run, Phases
<1>2. NotStarted \in Adder
  BY DEF NotStarted, Adder, Points, Outcomes
<1>3. QED
  BY <1>1, <1>2 DEF NotRunning, Sum

LEMMA StartStep ==
    ASSUME IInv, NEW r \in Runs, Start(r)
    PROVE  IInv'
<1> DEFINE t == [NotRunning EXCEPT !.phase = "match", !.claims = dest]
           a == [i \in Items |-> NotStarted]
<1>1. /\ run[r].phase \in {"idle", "done", "failed"} /\ starts < MaxStarts /\ starts' = starts + 1
      /\ SetRun(r, t) /\ adder' = [adder EXCEPT ![r] = a] /\ log' = [log EXCEPT ![r] = NoReport]
      /\ UNCHANGED <<infoHash, dest, history, queue, writer, faults, crashes>>
  BY DEF Start
<1>2. /\ queue \in Seq(Op) /\ Paired(queue) /\ OneFlush(queue) /\ dest \subseteq Hashes
      /\ log \in [Runs -> Report] /\ adder \in [Runs -> [Items -> Adder]]
      /\ starts \in 0 .. MaxStarts /\ MaxStarts \in Nat
  BY ReseedRunAssumption DEF IInv, TypeOK
<1>3. /\ t \in Run /\ t.phase = "match" /\ t.holder = NoItem /\ Sum(t) = 0 /\ t.claims = dest
  <2>1. "match" \in Phases
    BY DEF Phases
  <2>2. \A z \in Run : \A p \in Phases : \A c \in SUBSET Hashes :
           LET u == [z EXCEPT !.phase = p, !.claims = c]
           IN  u \in Run /\ u.phase = p /\ u.claims = c /\ u.holder = z.holder
               /\ Sum(u) = Sum(z)
    BY DEF Run, Sum
  <2>3. NotRunning \in Run /\ dest \in SUBSET Hashes
    BY <1>2, NotRunningTyped
  <2>4. t \in Run /\ t.phase = "match" /\ t.claims = dest /\ t.holder = NotRunning.holder
        /\ Sum(t) = Sum(NotRunning)
    BY <2>1, <2>2, <2>3
  <2>5. QED
    BY <2>4, NotRunningTyped
<1> HIDE DEF t
<1>4. NotStarted \in Adder
  BY NotRunningTyped
<1>5. a \in [Items -> Adder] /\ \A i \in Items : a[i] = NotStarted
  BY <1>4
<1> HIDE DEF a
<1>6. Good(t, a, infoHash, dest)
  BY <1>3, <1>5, NewRun
<1>7. run' \in [Runs -> Run] /\ run'[r] = t /\ \A q \in Runs : q # r => run'[q] = run[q]
  BY <1>1, <1>3, SetRunTyped
<1>8. /\ adder' \in [Runs -> [Items -> Adder]] /\ adder'[r] = a
      /\ \A q \in Runs : q # r => adder'[q] = adder[q]
  BY <1>1, <1>2, <1>5
<1>9. /\ log' \in [Runs -> Report] /\ \A q \in Runs : q # r => log'[q] = log[q]
  BY <1>1, <1>2, ReportTyped
<1>10. AllFit'
  <2>1. NoFlush(r, queue)
    BY <1>1, QuietRun
  <2>2. \A k \in 1 .. Len(queue) : Fits(queue[k], run', infoHash, dest)
    BY <1>7, <2>1, FitStays
  <2>3. QED
    BY <1>1, <2>2 DEF AllFit
<1>11. starts' \in 0 .. MaxStarts /\ dest' = dest /\ queue' = queue /\ infoHash' = infoHash
       /\ UNCHANGED <<infoHash, writer, history, faults, crashes>>
  BY <1>1, <1>2
<1>12. QED
  BY <1>2, <1>3, <1>5, <1>6, <1>7, <1>8, <1>9, <1>10, <1>11, OneRun

LEMMA PhaseTyped ==
    ASSUME IInv, NEW r \in Runs, NEW p \in Phases
    PROVE  LET t == [run[r] EXCEPT !.phase = p]
           IN  /\ t \in Run /\ t.phase = p /\ t.matched = run[r].matched
               /\ t.claims = run[r].claims /\ t.holder = run[r].holder
               /\ t.report = run[r].report /\ Sum(t) = Sum(run[r])
<1>1. run[r] \in Run
  BY Locals
<1>2. QED
  BY <1>1 DEF Run, Sum

\* The run moves to a phase in which no adder is at work.
LEMMA Moves ==
    ASSUME IInv, NEW r \in Runs, NEW p \in {"add", "flush", "done", "failed"},
           NEW t \in Run, t.phase = p, t.matched = run[r].matched, t.claims = run[r].claims,
           t.holder = run[r].holder, t.report = run[r].report, Sum(t) = Sum(run[r]),
           \A i \in Items : adder[r][i].at \in {"waiting", "ended", "error"},
           p \in {"flush", "done"} => \A i \in run[r].matched : adder[r][i].at = "ended"
    PROVE  Good(t, adder[r], infoHash, dest)
<1>1. Good(run[r], adder[r], infoHash, dest)
  BY Locals
<1>2. AtWork(t, adder[r]) = AtWork(run[r], adder[r])
  BY DEF AtWork
<1>3. Place(t, adder[r])
  BY <1>1, <1>2 DEF Good, Place
<1>4. Lock(t, adder[r]) /\ Count(t, adder[r]) /\ Claiming(t, adder[r], infoHash, dest)
  BY <1>1 DEF Good, Lock, Count, Claiming
<1>5. QED
  BY <1>3, <1>4 DEF Good

\* One run moves; adders, tables and writer stay.
LEMMA RunMoves ==
    ASSUME IInv, NEW r \in Runs, NEW t \in Run, SetRun(r, t),
           Good(t, adder[r], infoHash, dest),
           UNCHANGED <<infoHash, dest, history, log, writer, adder, starts, faults, crashes>>,
           queue' \in Seq(Op), Paired(queue'), OneFlush(queue'), AllFit',
           \A q \in Runs : NoLog(q, queue') => NoLog(q, queue),
           (writer = "up" /\ t.phase \in {"matched", "add", "flush"} /\ NoLog(r, queue'))
              => log[r] = t.report,
           t.phase = "done" => \A i \in t.matched : log[r][i] = adder[r][i].outcome
    PROVE  IInv'
<1>1. run' \in [Runs -> Run] /\ run'[r] = t /\ \A q \in Runs : q # r => run'[q] = run[q]
  BY SetRunTyped
<1>2. /\ adder' \in [Runs -> [Items -> Adder]] /\ adder' = adder /\ adder[r] \in [Items -> Adder]
      /\ log' \in [Runs -> Report] /\ log' = log /\ dest' \subseteq Hashes /\ dest' = dest
      /\ starts' \in 0 .. MaxStarts /\ UNCHANGED <<infoHash, writer, history, faults, crashes>>
  BY DEF IInv, TypeOK
<1>3. QED
  BY <1>1, <1>2, OneRun

LEMMA MatchStep ==
    ASSUME IInv, NEW r \in Runs, Match(r)
    PROVE  IInv'
<1>1. PICK scanned \in SUBSET Items :
          LET known == {i \in scanned : <<i, "success">> \in history}
              report == [i \in Items |-> IF i \in known THEN "skipped" ELSE "none"]
          IN  /\ \E found \in SUBSET (scanned \ known) :
                    SetRun(r, [run[r] EXCEPT !.phase = "matched", !.matched = found,
                                             !.report = report])
              /\ queue' = queue \o
                     << [kind |-> "log", run |-> r, report |-> report],
                        [kind |-> "flush", run |-> r, item |-> NoItem] >>
  BY DEF Match
<1> DEFINE known == {i \in scanned : <<i, "success">> \in history}
           report == [i \in Items |-> IF i \in known THEN "skipped" ELSE "none"]
<1>2. PICK found \in SUBSET (scanned \ known) :
          SetRun(r, [run[r] EXCEPT !.phase = "matched", !.matched = found, !.report = report])
  BY <1>1
<1>3. /\ run[r].phase = "match"
      /\ UNCHANGED <<infoHash, dest, history, log, writer, adder, starts, faults, crashes>>
  BY DEF Match
<1>4. report \in Report /\ found \in SUBSET Items
  BY DEF Report, Outcomes
<1> HIDE DEF report, known
<1>5. queue' = queue \o << [kind |-> "log", run |-> r, report |-> report],
                           [kind |-> "flush", run |-> r, item |-> NoItem] >>
  BY <1>1 DEF report, known
<1> DEFINE t == [run[r] EXCEPT !.phase = "matched", !.matched = found, !.report = report]
           l == [kind |-> "log", run |-> r, report |-> report]
           f == [kind |-> "flush", run |-> r, item |-> NoItem]
<1>6. /\ run[r] \in Run /\ adder[r] \in [Items -> Adder] /\ Good(run[r], adder[r], infoHash, dest)
  BY Locals
<1>7. /\ t \in Run /\ t.phase = "matched" /\ t.matched = found /\ t.report = report
      /\ t.holder = run[r].holder /\ t.claims = run[r].claims /\ Sum(t) = Sum(run[r])
  <2>1. "matched" \in Phases
    BY DEF Phases
  <2>2. QED
    BY <1>4, <1>6, <2>1 DEF Run, Sum
<1>8. l \in Op /\ l.kind = "log" /\ l.run = r /\ l.report = report
  BY <1>4 DEF Op
<1>9. f \in Op /\ f.kind = "flush" /\ f.run = r /\ f.item = NoItem
  BY DEF Op
<1>10. SetRun(r, t) /\ queue' = queue \o <<l, f>>
  BY <1>2, <1>5
<1> HIDE DEF t, l, f
<1>11. Good(t, adder[r], infoHash, dest)
  <2>1. \A i \in Items : adder[r][i].at = "waiting"
    BY <1>3, <1>6 DEF Good, Place
  <2>2. AtWork(t, adder[r]) = {}
    BY <2>1, <1>4, <1>7 DEF AtWork
  <2>3. Cardinality(AtWork(t, adder[r])) <= AddConcurrency
    BY <2>2, FS_EmptySet, ReseedRunAssumption
  <2>4. Place(t, adder[r])
    BY <1>7, <2>1, <2>3 DEF Place
  <2>5. Lock(t, adder[r]) /\ Count(t, adder[r]) /\ Claiming(t, adder[r], infoHash, dest)
    BY <1>6, <1>7, <2>1 DEF Good, Lock, Count, Claiming
  <2>6. QED
    BY <2>4, <2>5 DEF Good
<1>12. FlushFits(f, t) /\ NoFlush(r, queue)
  BY <1>3, <1>7, <1>9, QuietRun DEF FlushFits
<1>13. run' \in [Runs -> Run] /\ run'[r] = t /\ \A q \in Runs : q # r => run'[q] = run[q]
  BY <1>7, <1>10, SetRunTyped
<1> DEFINE q2 == queue \o <<l, f>>
           rs == run'
<1>14. rs[r] = t /\ \A q \in Runs : q # r => rs[q] = run[q]
  BY <1>13
<1> HIDE DEF rs
<1>15. q2 \in Seq(Op) /\ Paired(q2) /\ OneFlush(q2)
  BY <1>7, <1>8, <1>9, <1>12, <1>14, Sending
<1>16. \A k \in 1 .. Len(q2) : Fits(q2[k], rs, infoHash, dest)
  BY <1>7, <1>8, <1>9, <1>12, <1>14, Sending
<1>17. \A q \in Runs : NoLog(q, q2) => NoLog(q, queue) /\ q # r
  BY <1>7, <1>8, <1>9, <1>12, <1>14, Sending
<1> HIDE DEF q2
<1>18. queue' = q2
  BY <1>10 DEF q2
<1>19. AllFit'
  BY <1>3, <1>16, <1>18 DEF AllFit, rs
<1>20. QED
  BY <1>3, <1>7, <1>10, <1>11, <1>15, <1>17, <1>18, <1>19, RunMoves

\* A run that was quiet fails.
LEMMA QuietFails ==
    ASSUME IInv, NEW r \in Runs, NoFlush(r, queue),
           SetRun(r, [run[r] EXCEPT !.phase = "failed"]),
           \A i \in Items : adder[r][i].at \in {"waiting", "ended", "error"},
           UNCHANGED <<infoHash, dest, history, log, queue, writer, adder, starts, faults, crashes>>
    PROVE  IInv'
<1> DEFINE t == [run[r] EXCEPT !.phase = "failed"]
<1>1. "failed" \in Phases
  BY DEF Phases
<1>2. /\ t \in Run /\ t.phase = "failed" /\ t.matched = run[r].matched
      /\ t.claims = run[r].claims /\ t.holder = run[r].holder
      /\ t.report = run[r].report /\ Sum(t) = Sum(run[r]) /\ SetRun(r, t)
  BY <1>1, PhaseTyped
<1> HIDE DEF t
<1>3. Good(t, adder[r], infoHash, dest)
  BY <1>2, Moves
<1>4. run'[r] = t /\ \A q \in Runs : q # r => run'[q] = run[q]
  BY <1>2, SetRunTyped
<1>5. \A k \in 1 .. Len(queue) : Fits(queue[k], run', infoHash, dest)
  BY <1>4, FitStays
<1>6. AllFit'
  BY <1>5 DEF AllFit
<1>7. queue' \in Seq(Op) /\ Paired(queue') /\ OneFlush(queue') /\ queue' = queue
  BY DEF IInv, TypeOK
<1>8. QED
  BY <1>2, <1>3, <1>6, <1>7, RunMoves

LEMMA FailsStep ==
    ASSUME IInv, NEW r \in Runs, Fails(r)
    PROVE  IInv'
<1>1. /\ run[r].phase = "match" /\ SetRun(r, [run[r] EXCEPT !.phase = "failed"])
      /\ UNCHANGED <<infoHash, dest, history, log, queue, writer, adder, starts, faults, crashes>>
  BY DEF Fails
<1>2. \A i \in Items : adder[r][i].at = "waiting"
  BY <1>1, Locals DEF Good, Place
<1>3. NoFlush(r, queue)
  BY <1>1, QuietRun
<1>4. QED
  BY <1>1, <1>2, <1>3, QuietFails

LEMMA CollectStep ==
    ASSUME IInv, NEW r \in Runs, Collect(r)
    PROVE  IInv'
<1>1. /\ run[r].phase = "add" /\ \A i \in run[r].matched : Over(adder[r][i].at)
      /\ UNCHANGED <<infoHash, dest, history, log, writer, adder, starts, faults, crashes>>
  BY DEF Collect
<1>2. /\ run[r] \in Run /\ Good(run[r], adder[r], infoHash, dest)
      /\ run[r].holder \in Items \cup {NoItem} /\ run[r].matched \in SUBSET Items
  BY Locals, RunFields
<1>3. \A i \in Items : adder[r][i].at \in {"waiting", "ended", "error"}
  BY <1>1, <1>2 DEF Good, Place, Over
<1>4. run[r].holder = NoItem
  BY <1>2, <1>3 DEF Good, Lock
<1>5. NoFlush(r, queue) /\ NoLog(r, queue)
  BY <1>1, <1>4, QuietRun
<1>6. CASE writer = "dead" \/ \E i \in run[r].matched : adder[r][i].at = "error"
  <2>1. SetRun(r, [run[r] EXCEPT !.phase = "failed"]) /\ UNCHANGED queue
    BY <1>6 DEF Collect
  <2>2. QED
    BY <1>1, <1>3, <1>5, <2>1, QuietFails
<1>7. CASE ~(writer = "dead" \/ \E i \in run[r].matched : adder[r][i].at = "error")
  <2> DEFINE t == [run[r] EXCEPT !.phase = "flush"]
             f == [kind |-> "flush", run |-> r, item |-> NoItem]
  <2>1. SetRun(r, t) /\ queue' = Append(queue, f)
    BY <1>7 DEF Collect
  <2>2. "flush" \in Phases
    BY DEF Phases
  <2>3. /\ t \in Run /\ t.phase = "flush" /\ t.matched = run[r].matched
        /\ t.claims = run[r].claims /\ t.holder = run[r].holder
        /\ t.report = run[r].report /\ Sum(t) = Sum(run[r])
    BY <2>2, PhaseTyped
  <2>4. f \in Op /\ f.kind = "flush" /\ f.run = r /\ f.item = NoItem
    BY DEF Op
  <2> HIDE DEF t, f
  <2>5. \A i \in run[r].matched : adder[r][i].at = "ended"
    BY <1>1, <1>7 DEF Over
  <2>6. Good(t, adder[r], infoHash, dest)
    BY <1>3, <2>3, <2>5, Moves
  <2>7. run'[r] = t /\ \A q \in Runs : q # r => run'[q] = run[q]
    BY <2>1, <2>3, SetRunTyped
  <2>8. \A k \in 1 .. Len(queue) : Fits(queue[k], run', infoHash, dest)
    BY <1>5, <2>7, FitStays
  <2>9. Fits(f, run', infoHash, dest)
    BY <2>3, <2>4, <2>7 DEF Fits, FlushFits
  <2>10. queue \in Seq(Op) /\ Paired(queue) /\ OneFlush(queue)
    BY DEF IInv, TypeOK
  <2>11. /\ queue' \in Seq(Op) /\ Len(queue') = Len(queue) + 1 /\ Len(queue) \in Nat
         /\ \A k \in 1 .. Len(queue) : queue'[k] = queue[k]
         /\ queue'[Len(queue) + 1] = f
    BY <2>1, <2>4, <2>10, Appended
  <2>12. AllFit'
    <3>1. ASSUME NEW k \in 1 .. Len(queue') PROVE Fits(queue'[k], run', infoHash, dest)
      <4>1. k \in 1 .. Len(queue) \/ k = Len(queue) + 1
        BY <2>11
      <4>2. QED
        BY <2>8, <2>9, <2>11, <4>1
    <3>2. QED
      BY <1>1, <3>1 DEF AllFit
  <2>13. /\ Paired(queue') /\ OneFlush(queue')
         /\ \A q \in Runs : NoLog(q, queue') => NoLog(q, queue)
    BY <1>5, <2>1, <2>4, <2>10, JoinOne
  <2>14. (writer = "up" /\ NoLog(r, queue')) => log[r] = run[r].report
    BY <1>1, <2>13 DEF IInv, Committed
  <2>15. QED
    BY <1>1, <2>1, <2>3, <2>6, <2>11, <2>12, <2>13, <2>14, RunMoves
<1>8. QED
  BY <1>6, <1>7

-----------------------------------------------------------------------------
(* The writer and the process.                                             *)

\* What is behind the head of the queue still fits, when a run that has nothing
\* there moves.
LEMMA TailFits ==
    ASSUME IInv, queue # <<>>, NEW r \in Runs, NoFlush(r, Tail(queue)),
           Paired(Tail(queue)), NEW rs, \A q \in Runs : q # r => rs[q] = run[q]
    PROVE  \A k \in 1 .. Len(Tail(queue)) : Fits(Tail(queue)[k], rs, infoHash, dest)
<1> DEFINE p == Tail(queue)
<1>1. queue \in Seq(Op)
  BY DEF IInv, TypeOK
<1>2. /\ p \in Seq(Op) /\ Len(p) = Len(queue) - 1 /\ Len(queue) \in Nat \ {0}
      /\ \A k \in 1 .. Len(queue) - 1 : p[k] = queue[k + 1]
  BY <1>1, TailOfQueue
<1> HIDE DEF p
<1>3. NoFlush(r, p) /\ NoLog(r, p)
  BY <1>2, NoFlushNoLog DEF p
<1>4. ASSUME NEW k \in 1 .. Len(p) PROVE Fits(p[k], rs, infoHash, dest)
  <2>1. k + 1 \in 1 .. Len(queue) /\ p[k] = queue[k + 1] /\ p[k] \in Op
    BY <1>2
  <2>2. Fits(p[k], run, infoHash, dest)
    BY <2>1 DEF IInv, AllFit
  <2>3. ~(p[k].kind = "flush" /\ p[k].run = r) /\ ~(p[k].kind = "log" /\ p[k].run = r)
    BY <1>3 DEF NoFlush, NoLog
  <2>4. QED
    BY <2>1, <2>2, <2>3, OpFields DEF Fits
<1>5. QED
  BY <1>4 DEF p

\* The head of the queue.
LEMMA HeadOfQueue ==
    ASSUME IInv, queue # <<>>
    PROVE  /\ queue \in Seq(Op) /\ Paired(queue) /\ OneFlush(queue)
           /\ Tail(queue) \in Seq(Op) /\ Head(queue) \in Op
           /\ Fits(Head(queue), run, infoHash, dest)
<1>1. queue \in Seq(Op) /\ Paired(queue) /\ OneFlush(queue)
  BY DEF IInv, TypeOK
<1>2. /\ Tail(queue) \in Seq(Op) /\ Len(queue) \in Nat \ {0} /\ Head(queue) = queue[1]
      /\ queue[1] \in Op
  BY <1>1, TailOfQueue
<1>3. Fits(queue[1], run, infoHash, dest)
  BY <1>2 DEF IInv, AllFit
<1>4. QED
  BY <1>1, <1>2, <1>3

LEMMA AnsweredStep ==
    ASSUME IInv, queue # <<>>, Head(queue).kind = "flush", NEW p \in {"ended", "error"},
           p = "ended" => writer = "up", p = "error" => writer = "dead",
           Answered(Head(queue).run, Head(queue).item, p), queue' = Tail(queue),
           UNCHANGED <<infoHash, dest, history, log, writer, starts, faults, crashes>>
    PROVE  IInv'
<1> DEFINE op == Head(queue)
           r == op.run
           i == op.item
<1>1. /\ queue \in Seq(Op) /\ Paired(queue) /\ OneFlush(queue)
      /\ Tail(queue) \in Seq(Op) /\ op \in Op /\ Fits(op, run, infoHash, dest)
  BY HeadOfQueue
<1>2. /\ Paired(Tail(queue)) /\ OneFlush(Tail(queue)) /\ NoFlush(r, Tail(queue)) /\ NoLog(r, queue)
      /\ \A q \in Runs : NoLog(q, Tail(queue)) => NoLog(q, queue)
  BY <1>1, Leave
<1>3. op.kind = "flush" /\ Answered(r, i, p)
  OBVIOUS
<1> HIDE DEF op
<1>4. r \in Runs /\ i \in Items \cup {NoItem} /\ FlushFits(op, run[r])
  BY <1>1, <1>3, OpFields DEF Fits
<1>5. i = op.item
  OBVIOUS
<1> HIDE DEF r, i
<1>6. /\ run[r] \in Run /\ adder[r] \in [Items -> Adder]
      /\ Good(run[r], adder[r], infoHash, dest)
  BY <1>4, Locals
<1>7. writer = "up" /\ run[r].phase \in {"matched", "add", "flush"} => log[r] = run[r].report
  BY <1>2, <1>4 DEF IInv, Committed
<1>8. /\ queue' \in Seq(Op) /\ Paired(queue') /\ OneFlush(queue')
      /\ \A q \in Runs : NoLog(q, queue') => NoLog(q, queue)
  BY <1>1, <1>2
<1>9. CASE i = NoItem
  <2> DEFINE np == IF p = "ended" THEN AfterFlush(r) ELSE "failed"
             t == [run[r] EXCEPT !.phase = np]
  <2>1. SetRun(r, t) /\ adder' = adder
    BY <1>3, <1>9 DEF Answered
  <2>2. run[r].phase \in {"matched", "flush"}
    BY <1>4, <1>5, <1>9 DEF FlushFits
  <2>3. /\ np \in {"add", "done", "failed"} /\ (np \in {"add", "done"} => writer = "up")
        /\ np = "add" => run[r].phase = "matched"
        /\ np = "done" => run[r].phase = "flush" \/ run[r].matched = {}
    BY <2>2 DEF AfterFlush
  <2> HIDE DEF np
  <2>4. np \in Phases /\ np \in {"add", "flush", "done", "failed"}
    BY <2>3 DEF Phases
  <2>5. /\ t \in Run /\ t.phase = np /\ t.matched = run[r].matched
        /\ t.claims = run[r].claims /\ t.holder = run[r].holder
        /\ t.report = run[r].report /\ Sum(t) = Sum(run[r])
    BY <1>4, <2>4, PhaseTyped
  <2> HIDE DEF t
  <2>6. \A j \in Items : adder[r][j].at \in {"waiting", "ended", "error"}
    BY <1>6, <2>2 DEF Good, Place
  <2>7. np = "done" => \A j \in run[r].matched : adder[r][j].at = "ended"
    BY <1>6, <2>3 DEF Good, Place
  <2>8. Good(t, adder[r], infoHash, dest)
    <3>1. np \in {"flush", "done"} => \A j \in run[r].matched : adder[r][j].at = "ended"
      BY <2>3, <2>7
    <3>2. QED
      BY <1>4, <2>4, <2>5, <2>6, <3>1, Moves
  <2>9. \A q \in Runs : q # r => run'[q] = run[q]
    BY <1>4, <2>1, <2>5, SetRunTyped
  <2>10. AllFit'
    <3>1. \A k \in 1 .. Len(Tail(queue)) : Fits(Tail(queue)[k], run', infoHash, dest)
      BY <1>2, <1>4, <2>9, TailFits
    <3>2. QED
      BY <3>1 DEF AllFit
  <2>11. np \in {"matched", "add", "flush"} => log[r] = t.report
    BY <1>7, <2>2, <2>3, <2>5
  <2>12. np = "done" => \A j \in t.matched : log[r][j] = adder[r][j].outcome
    <3> SUFFICES ASSUME np = "done", NEW j \in run[r].matched
                 PROVE  log[r][j] = adder[r][j].outcome
      BY <2>5
    <3>1. log[r] = run[r].report /\ adder[r][j].at = "ended" /\ j \in Items
      BY <1>6, <1>7, <2>2, <2>3, <2>7, RunFields
    <3>2. QED
      BY <1>6, <3>1 DEF Good, Lock
  <2>13. QED
    BY <1>4, <1>8, <2>1, <2>5, <2>8, <2>10, <2>11, <2>12, RunMoves
<1>10. CASE i # NoItem
  <2> DEFINE t == [run[r] EXCEPT !.holder = NoItem]
             b == [adder[r][i] EXCEPT !.at = p]
             a == [adder[r] EXCEPT ![i] = b]
  <2>1. SetRun(r, t) /\ SetAdder(r, i, b) /\ i \in Items /\ NoItem \notin Items
    BY <1>3, <1>4, <1>10, ReseedRunAssumption DEF Answered
  <2>2. run[r].phase = "add" /\ run[r].holder = i
    BY <1>4, <1>5, <1>10 DEF FlushFits
  <2>3. adder[r][i].at = "flushing" /\ adder[r][i] \in Adder
    BY <1>6, <2>1, <2>2 DEF Good, Lock
  <2>4. /\ t \in Run /\ t.phase = "add" /\ t.matched = run[r].matched /\ t.claims = run[r].claims
        /\ Sum(t) = Sum(run[r]) /\ t.report = run[r].report /\ t.holder = NoItem
    BY <1>6, <2>2 DEF Run, Sum
  <2>5. p \in Points
    BY DEF Points
  <2>6. /\ b \in Adder /\ b.at = p /\ b.did = adder[r][i].did
        /\ b.outcome = adder[r][i].outcome
    BY <2>3, <2>5, AdderGoes
  <2> HIDE DEF t, b
  <2>7. a \in [Items -> Adder] /\ a[i] = b /\ \A j \in Items : j # i => a[j] = adder[r][j]
    BY <1>6, <2>1, <2>6
  <2>8. run' \in [Runs -> Run] /\ run'[r] = t /\ \A q \in Runs : q # r => run'[q] = run[q]
    BY <1>4, <2>1, <2>4, SetRunTyped
  <2>9. adder' \in [Runs -> [Items -> Adder]] /\ adder'[r] = a
        /\ \A q \in Runs : q # r => adder'[q] = adder[q]
    BY <1>4, <2>1, <2>6, SetAdderTyped
  <2>10. Done(a) = Done(adder[r])
    BY <1>6, <2>1, <2>6, DoneSame
  <2>11. Claiming(t, a, infoHash, dest)
    <3>1. ~Holds("flushing") /\ ~Holds(p) /\ p # "taken"
      BY DEF Holds
    <3>2. QED
      BY <1>6, <2>1, <2>3, <2>4, <2>6, <3>1, ClaimingStays DEF Good
  <2> HIDE DEF a
  <2>12. Place(t, a)
    <3>1. AtWork(t, a) \subseteq AtWork(run[r], adder[r])
      BY <1>6, <2>3, <2>4, <2>6, <2>7, RunFields DEF AtWork, Over
    <3>2. Cardinality(AtWork(t, a)) <= AddConcurrency
      BY <1>6, <2>4, <3>1, AtWorkFinite, AtWorkFewer DEF Good, Place
    <3>3. QED
      BY <1>6, <2>2, <2>3, <2>4, <2>6, <2>7, <3>2 DEF Good, Place
  <2>13. Lock(t, a)
    <3>1. \A j \in Items : a[j].at # "flushing"
      BY <1>6, <2>2, <2>6, <2>7 DEF Good, Lock
    <3>2. \A j \in Items : a[j].at = "ended" => t.report[j] = a[j].outcome
      BY <1>6, <2>3, <2>4, <2>6, <2>7 DEF Good, Lock
    <3>3. QED
      BY <2>1, <2>4, <3>1, <3>2 DEF Lock
  <2>14. Count(t, a)
    BY <1>6, <2>4, <2>6, <2>7, <2>10 DEF Good, Count, Early
  <2>15. Good(t, a, infoHash, dest')
    BY <2>11, <2>12, <2>13, <2>14 DEF Good
  <2>16. AllFit'
    <3>1. \A k \in 1 .. Len(Tail(queue)) : Fits(Tail(queue)[k], run', infoHash, dest)
      BY <1>2, <1>4, <2>8, TailFits
    <3>2. QED
      BY <3>1 DEF AllFit
  <2>17. /\ log' \in [Runs -> Report] /\ log' = log /\ dest' \subseteq Hashes /\ dest' = dest
         /\ starts' \in 0 .. MaxStarts /\ UNCHANGED <<infoHash, writer, history, faults, crashes>>
    BY DEF IInv, TypeOK
  <2>18. writer = "up" => log'[r] = t.report
    BY <1>7, <2>2, <2>4, <2>17
  <2>19. QED
    BY <1>4, <1>8, <2>4, <2>7, <2>8, <2>9, <2>15, <2>16, <2>17, <2>18, OneRun
<1>11. QED
  BY <1>9, <1>10

\* An operation that no run waits for leaves the queue.
LEMMA TakenOff ==
    ASSUME IInv, queue # <<>>, queue' = Tail(queue),
           UNCHANGED <<infoHash, dest, writer, run, adder, starts, faults, crashes>>,
           history' \subseteq Items \X Statuses, log' \in [Runs -> Report],
           Recorded', Committed', ReportIsComplete'
    PROVE  IInv'
<1>1. /\ queue \in Seq(Op) /\ Paired(queue) /\ OneFlush(queue) /\ Tail(queue) \in Seq(Op)
  BY HeadOfQueue
<1>2. Paired(queue') /\ OneFlush(queue') /\ queue' \in Seq(Op)
  BY <1>1, Leave
<1>3. TypeOK'
  BY <1>2 DEF IInv, TypeOK
<1>4. AllFit'
  <2>1. /\ Len(queue') = Len(queue) - 1 /\ Len(queue) \in Nat \ {0}
        /\ \A k \in 1 .. Len(queue) - 1 : queue'[k] = queue[k + 1]
    BY <1>1, TailOfQueue
  <2>2. ASSUME NEW k \in 1 .. Len(queue') PROVE Fits(queue'[k], run', infoHash', dest')
    <3>1. k + 1 \in 1 .. Len(queue) /\ queue'[k] = queue[k + 1]
      BY <2>1
    <3>2. QED
      BY <3>1 DEF IInv, AllFit
  <2>3. QED
    BY <2>2 DEF AllFit
<1>5. QED
  BY <1>2, <1>3, <1>4 DEF IInv

LEMMA CommitStep ==
    ASSUME IInv, writer = "up", Commit
    PROVE  IInv'
<1> DEFINE op == Head(queue)
<1>1. /\ queue # <<>> /\ queue' = Tail(queue)
      /\ UNCHANGED <<infoHash, dest, writer, starts, faults, crashes>>
  BY DEF Commit
<1>2. /\ queue \in Seq(Op) /\ Paired(queue) /\ OneFlush(queue)
      /\ op \in Op /\ Fits(op, run, infoHash, dest)
  BY <1>1, HeadOfQueue
<1>3. op.kind \in {"history", "log", "flush"}
  BY <1>2, OpFields
<1>4. CASE op.kind = "history"
  <2>1. history' = history \cup {<<op.item, op.status>>} /\ UNCHANGED <<log, run, adder>>
    BY <1>4 DEF Commit
  <2>2. op.item \in Items /\ op.status \in Statuses
    BY <1>2, <1>4, OpFields
  <2>3. \A r \in Runs : NoLog(r, queue') => NoLog(r, queue)
    BY <1>1, <1>2, <1>4, Leave
  <2>4. op.status = "success" => infoHash[op.item] \in dest
    BY <1>2, <1>4 DEF Fits
  <2> HIDE DEF op
  <2>5. Recorded'
    BY <1>1, <2>1, <2>4 DEF IInv, Recorded
  <2>6. Committed' /\ ReportIsComplete'
    BY <1>1, <2>1, <2>3 DEF IInv, Committed, ReportIsComplete
  <2>7. history' \subseteq Items \X Statuses /\ log' \in [Runs -> Report]
    BY <2>1, <2>2 DEF IInv, TypeOK
  <2>8. QED
    BY <1>1, <2>1, <2>5, <2>6, <2>7, TakenOff
<1>5. CASE op.kind = "log"
  <2>1. log' = [log EXCEPT ![op.run] = op.report] /\ UNCHANGED <<history, run, adder>>
    BY <1>5 DEF Commit
  <2>2. op.run \in Runs /\ op.report \in Report /\ op.report = run[op.run].report
    BY <1>2, <1>5, OpFields DEF Fits
  <2>3. \A r \in Runs : (NoLog(r, queue') /\ op.run # r) => NoLog(r, queue)
    BY <1>1, <1>2, Leave
  <2>4. ~NoLog(op.run, queue)
    <3>1. 1 \in 1 .. Len(queue) /\ op = queue[1]
      BY <1>1, <1>2, TailOfQueue
    <3>2. QED
      BY <1>5, <3>1 DEF NoLog
  <2>5. run[op.run].phase # "done"
    BY <2>2, <2>4, QuietRun
  <2> HIDE DEF op
  <2>6. /\ log' \in [Runs -> Report] /\ log'[op.run] = op.report
        /\ \A r \in Runs : r # op.run => log'[r] = log[r]
    BY <2>1, <2>2 DEF IInv, TypeOK
  <2>7. Committed'
    BY <1>1, <2>1, <2>2, <2>3, <2>6 DEF IInv, Committed
  <2>8. ReportIsComplete'
    BY <2>1, <2>5, <2>6 DEF IInv, ReportIsComplete
  <2>9. Recorded' /\ history' \subseteq Items \X Statuses
    BY <1>1, <2>1 DEF IInv, TypeOK, Recorded
  <2>10. QED
    BY <1>1, <2>1, <2>6, <2>7, <2>8, <2>9, TakenOff
<1>6. CASE op.kind = "flush"
  <2>1. Answered(op.run, op.item, "ended") /\ UNCHANGED <<history, log>>
    BY <1>6 DEF Commit
  <2>2. QED
    BY <1>1, <1>6, <2>1, AnsweredStep
<1>7. QED
  BY <1>3, <1>4, <1>5, <1>6

LEMMA FlushFailsStep ==
    ASSUME IInv, FlushFails
    PROVE  IInv'
<1> DEFINE op == Head(queue)
<1>1. /\ writer = "dead" /\ queue # <<>> /\ queue' = Tail(queue)
      /\ UNCHANGED <<infoHash, dest, history, log, writer, starts, faults, crashes>>
  BY DEF FlushFails
<1>2. CASE op.kind = "flush"
  <2>1. Answered(op.run, op.item, "error")
    BY <1>2 DEF FlushFails, Dropped
  <2>2. QED
    BY <1>1, <1>2, <2>1, AnsweredStep
<1>3. CASE op.kind # "flush"
  <2>1. UNCHANGED <<run, adder>>
    BY <1>3 DEF FlushFails
  <2>2. history' \subseteq Items \X Statuses /\ log' \in [Runs -> Report]
    BY <1>1 DEF IInv, TypeOK
  <2>3. Recorded' /\ Committed' /\ ReportIsComplete'
    BY <1>1, <2>1 DEF IInv, Recorded, Committed, ReportIsComplete
  <2>4. QED
    BY <1>1, <2>1, <2>2, <2>3, TakenOff
<1>4. QED
  BY <1>2, <1>3

LEMMA WriterDiesStep ==
    ASSUME IInv, WriterDies
    PROVE  IInv'
<1>1. /\ writer' = "dead" /\ faults < MaxFaults /\ faults' = faults + 1
      /\ UNCHANGED <<infoHash, dest, history, log, queue, run, adder, starts, crashes>>
  BY DEF WriterDies
<1>2. faults \in 0 .. MaxFaults /\ MaxFaults \in Nat
  BY ReseedRunAssumption DEF IInv, TypeOK
<1>3. TypeOK'
  BY <1>1, <1>2 DEF IInv, TypeOK
<1>4. AllFit' /\ Paired(queue') /\ OneFlush(queue')
  BY <1>1 DEF IInv, AllFit
<1>5. Committed' /\ ReportIsComplete' /\ Recorded'
  BY <1>1 DEF IInv, Committed, ReportIsComplete, Recorded
<1>6. QED
  BY <1>1, <1>3, <1>4, <1>5 DEF IInv

LEMMA CrashStep ==
    ASSUME IInv, Crash
    PROVE  IInv'
<1>1. /\ crashes < MaxCrashes /\ crashes' = crashes + 1
      /\ run' = [r \in Runs |-> NotRunning]
      /\ adder' = [r \in Runs |-> [i \in Items |-> NotStarted]]
      /\ queue' = <<>> /\ writer' = "up"
      /\ UNCHANGED <<infoHash, dest, history, log, starts, faults>>
  BY DEF Crash
<1>2. crashes \in 0 .. MaxCrashes /\ MaxCrashes \in Nat
  BY ReseedRunAssumption DEF IInv, TypeOK
<1>3. TypeOK'
  <2>1. run' \in [Runs -> Run] /\ adder' \in [Runs -> [Items -> Adder]] /\ queue' \in Seq(Op)
    BY <1>1, NotRunningTyped
  <2>2. QED
    BY <1>1, <1>2, <2>1 DEF IInv, TypeOK
<1>4. ASSUME NEW r \in Runs PROVE Good(run'[r], adder'[r], infoHash', dest')
  <2>1. run'[r] = NotRunning /\ adder'[r] = [i \in Items |-> NotStarted]
    BY <1>1
  <2>2. \A i \in Items : adder'[r][i] = NotStarted
    BY <2>1
  <2>3. adder'[r] \in [Items -> Adder]
    BY <2>1, NotRunningTyped
  <2>4. QED
    BY <2>1, <2>2, <2>3, NotRunningTyped, NewRun
<1>5. AllFit' /\ Paired(queue') /\ OneFlush(queue')
  BY <1>1 DEF AllFit, Paired, OneFlush
<1>6. Committed' /\ ReportIsComplete'
  BY <1>1, NotRunningTyped DEF Committed, ReportIsComplete
<1>7. Recorded'
  BY <1>1 DEF IInv, Recorded
<1>8. QED
  BY <1>3, <1>4, <1>5, <1>6, <1>7 DEF IInv

-----------------------------------------------------------------------------
(* The invariant and the theorems.                                         *)

LEMMA InitIInv == Init => IInv
<1> SUFFICES ASSUME Init PROVE IInv
  OBVIOUS
<1>1. /\ infoHash \in [Items -> Hashes] /\ dest = {} /\ history = {}
      /\ log = [r \in Runs |-> NoReport] /\ queue = <<>> /\ writer = "up"
      /\ run = [r \in Runs |-> NotRunning]
      /\ adder = [r \in Runs |-> [i \in Items |-> NotStarted]]
      /\ starts = 0 /\ faults = 0 /\ crashes = 0
  BY DEF Init
<1>2. MaxStarts \in Nat /\ MaxFaults \in Nat /\ MaxCrashes \in Nat
  BY ReseedRunAssumption
<1>3. TypeOK
  <2>1. run \in [Runs -> Run] /\ adder \in [Runs -> [Items -> Adder]] /\ queue \in Seq(Op)
        /\ log \in [Runs -> Report]
    BY <1>1, NotRunningTyped, ReportTyped
  <2>2. QED
    BY <1>1, <1>2, <2>1 DEF TypeOK
<1>4. ASSUME NEW r \in Runs PROVE Good(run[r], adder[r], infoHash, dest)
  <2>1. run[r] = NotRunning /\ adder[r] = [i \in Items |-> NotStarted]
    BY <1>1
  <2>2. (\A i \in Items : adder[r][i] = NotStarted) /\ adder[r] \in [Items -> Adder]
    BY <2>1, NotRunningTyped
  <2>3. QED
    BY <2>1, <2>2, NotRunningTyped, NewRun
<1>5. AllFit /\ Paired(queue) /\ OneFlush(queue)
  BY <1>1 DEF AllFit, Paired, OneFlush
<1>6. Committed /\ ReportIsComplete /\ Recorded
  BY <1>1, NotRunningTyped DEF Committed, ReportIsComplete, Recorded
<1>7. QED
  BY <1>3, <1>4, <1>5, <1>6 DEF IInv

LEMMA NextStep == IInv /\ [Next]_vars => IInv'
<1> SUFFICES ASSUME IInv, [Next]_vars PROVE IInv'
  OBVIOUS
<1>1. ASSUME NEW r \in Runs, Start(r) PROVE IInv'
  BY <1>1, StartStep
<1>2. ASSUME NEW r \in Runs, RunStep(r) PROVE IInv'
  BY <1>2, MatchStep, FailsStep, CollectStep DEF RunStep
<1>3. ASSUME NEW r \in Runs, NEW i \in Items, AddStep(r, i) PROVE IInv'
  BY <1>3, StartAddStep, DownloadStep, ClaimStep, AddStepKeeps, ReleaseStep, RecordStep,
     PersistStep DEF AddStep
<1>4. CASE writer = "up" /\ Commit
  BY <1>4, CommitStep
<1>5. CASE WriterDies
  BY <1>5, WriterDiesStep
<1>6. CASE FlushFails
  BY <1>6, FlushFailsStep
<1>7. CASE Crash
  BY <1>7, CrashStep
<1>8. CASE UNCHANGED vars
  <2>1. TypeOK' /\ AllFit' /\ Committed' /\ ReportIsComplete' /\ Recorded'
    BY <1>8 DEF vars, IInv, TypeOK, AllFit, Committed, ReportIsComplete, Recorded
  <2>2. QED
    BY <1>8, <2>1 DEF vars, IInv
<1>9. QED
  BY <1>1, <1>2, <1>3, <1>4, <1>5, <1>6, <1>7, <1>8 DEF Next

LEMMA IInvHolds == Spec => []IInv
BY InitIInv, NextStep, PTL DEF Spec

\* Tables, locals, queue and counters stay within their types.
THEOREM TypeCorrect == Spec => []TypeOK
<1>1. IInv => TypeOK
  BY DEF IInv
<1>2. QED
  BY <1>1, IInvHolds, PTL

\* At most AddConcurrency adders of a run are at work, no two of them hand the
\* destination one torrent, and every claim is backed by the destination or by an adder
\* that will give it back (adder.rs:87 and 175, pipeline.rs).
THEOREM AddersStayApart == Spec => []AddersKeepApart
<1>1. ASSUME IInv PROVE AddersKeepApart
  <2>1. ASSUME NEW r \in Runs
        PROVE  Good(run[r], adder[r], infoHash, dest)
    BY <1>1, Locals
  <2>2. OneAddPerHash
    BY <2>1 DEF OneAddPerHash, At, Good, Claiming, Holds
  <2>3. ClaimsAreBacked
    <3> SUFFICES ASSUME NEW r \in Runs, NEW c \in run[r].claims \ dest
                 PROVE  \E i \in Items : infoHash[i] = c /\ (At(r, i, "add") \/ At(r, i, "refused"))
      BY DEF ClaimsAreBacked
    <3>1. PICK i \in Items : infoHash[i] = c /\ Holds(adder[r][i].at)
      BY <2>1 DEF Good, Claiming
    <3>2. run[r].phase = "add"
      BY <2>1, <3>1 DEF Good, Place, Holds
    <3>3. QED
      BY <3>1, <3>2 DEF At, Holds
  <2>4. \A r \in Runs : Active(r) = AtWork(run[r], adder[r])
    BY DEF Active, AtWork
  <2>5. \A r \in Runs : Cardinality(Active(r)) <= AddConcurrency
    BY <2>1, <2>4 DEF Good, Place
  <2>6. QED
    BY <2>2, <2>3, <2>5 DEF AddersKeepApart
<1>2. QED
  BY <1>1, IInvHolds, PTL

\* Every match is counted once, and the log row of a finished run has the outcome of each
\* of its matches, although the adders overwrite that row whole and concurrently.
THEOREM ReportsAddUp == Spec => []ReportAddsUp
<1>1. ASSUME IInv PROVE ReportAddsUp
  <2>1. ASSUME NEW r \in Runs
        PROVE  run[r].added + run[r].failed + run[r].skipped
                   = Cardinality({i \in Items : adder[r][i].did # "none"})
    BY <1>1, Locals DEF Good, Count, Sum, Done
  <2>2. QED
    BY <1>1, <2>1 DEF ReportAddsUp, CountedOnce, IInv
<1>2. QED
  BY <1>1, IInvHolds, PTL

\* A success in the history, or on its way there, is a torrent the destination took.
THEOREM SuccessesArePresent == Spec => []SuccessIsInDestination
<1>1. ASSUME IInv PROVE SuccessIsInDestination
  <2> SUFFICES ASSUME NEW i \in Items, <<i, "success">> \in Written
               PROVE  infoHash[i] \in dest
    BY DEF SuccessIsInDestination
  <2>1. CASE <<i, "success">> \in history
    BY <1>1, <2>1 DEF IInv, Recorded
  <2>2. CASE \E k \in DOMAIN queue :
                queue[k].kind = "history" /\ queue[k].item = i /\ queue[k].status = "success"
    <3>1. PICK k \in 1 .. Len(queue) :
             queue[k].kind = "history" /\ queue[k].item = i /\ queue[k].status = "success"
      BY <1>1, <2>2 DEF IInv, TypeOK
    <3>2. QED
      BY <1>1, <3>1 DEF IInv, AllFit, Fits
  <2>3. QED
    BY <2>1, <2>2 DEF Written
<1>2. QED
  BY <1>1, IInvHolds, PTL

=============================================================================
