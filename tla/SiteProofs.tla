----------------------------- MODULE SiteProofs -----------------------------
(***************************************************************************)
(* Safety of the repost queue, for any entries, actors and bounds, and of  *)
(* the adapters that it submits with, for any families and credentials.    *)
(*                                                                         *)
(* A row is overwritten by what an actor read earlier, so the properties   *)
(* of the table need their counterparts for every copy an actor still      *)
(* holds: ActorOK.                                                         *)
(*                                                                         *)
(* An adapter's script is one of many, but an answer does one of few       *)
(* things to the call that waits for it (Effect).  A call that began on a  *)
(* dead session gets no further than its first answer (LateCall).          *)
(***************************************************************************)
EXTENDS RepostQueue, SiteAdapters, TLAPS

\* What holds of a row, or of a copy of row x read at some time.
CopyOK(r, x) ==
    /\ r.status = "submitted" => uploads[x] > 0
    /\ r.status = "approved" => x \in approved

RowOK(x) ==
    /\ CopyOK(row[x], x)
    /\ row[x].status = "approved" => row[x].adapted
    /\ uploads[x] > 0 => x \in approved

\* What an actor's locals promise about what it will write.
ActorOK(a) ==
    LET me == actor[a]
    IN  /\ me.at \notin {"idle", "pick"} => me.entry \in Entries
        /\ me.at = "adapt" => CopyOK(me.read, me.entry)
        /\ me.at = "check" /\ me.target = "approved" =>
              row[me.entry].adapted \/ row[me.entry].status \in {"rejected", "gone"}
        /\ me.at = "decide" /\ me.target = "approved" => me.read.adapted
        /\ me.at \in {"upload", "recordOk", "recordFailed"} =>
              me.read.adapted /\ me.entry \in approved
        /\ me.at = "recordOk" => uploads[me.entry] > 0

IInv ==
    /\ TypeOK
    /\ \A x \in Entries : RowOK(x)
    /\ \A a \in Actors : ActorOK(a)

-----------------------------------------------------------------------------
LEMMA RowTyped ==
    ASSUME NEW s \in Statuses \cup {"gone"}, NEW d \in BOOLEAN, NEW t \in BOOLEAN
    PROVE  [status |-> s, adapted |-> d, stamped |-> t] \in Row
BY DEF Row

LEMMA FreshTyped == Fresh \in Row /\ Fresh.status = "pending" /\ Fresh.adapted = FALSE
BY DEF Fresh, Row, Statuses

LEMMA IdleTyped == Idle \in Actor /\ Idle.at = "idle"
BY FreshTyped DEF Idle, Actor, Points, Targets

\* A record of an actor with some of its fields replaced.
LEMMA ActorTyped ==
    ASSUME NEW p \in Points, NEW x \in Entries \cup {NoEntry}, NEW r \in Row,
           NEW t \in Targets, NEW todo \in SUBSET Entries
    PROVE  [at |-> p, entry |-> x, read |-> r, target |-> t, todo |-> todo] \in Actor
BY DEF Actor

LEMMA ActorFields ==
    ASSUME NEW s \in Actor
    PROVE  /\ s.at \in Points /\ s.entry \in Entries \cup {NoEntry}
           /\ s.read \in Row /\ s.target \in Targets /\ s.todo \in SUBSET Entries
           /\ s = [at |-> s.at, entry |-> s.entry, read |-> s.read,
                   target |-> s.target, todo |-> s.todo]
BY DEF Actor

\* Update of the row by Write.
LEMMA WriteRow ==
    ASSUME NEW x \in Entries, NEW s \in Statuses \cup {"gone"}, NEW d \in BOOLEAN,
           NEW t \in BOOLEAN, row \in [Entries -> Row], Write(x, s, d, t)
    PROVE  /\ row' \in [Entries -> Row]
           /\ \A y \in Entries : y # x => row'[y] = row[y]
           /\ Present(x) => row'[x] = [status |-> s, adapted |-> d, stamped |-> t]
           /\ ~Present(x) => row'[x] = row[x]
<1>1. [status |-> s, adapted |-> d, stamped |-> t] \in Row
  BY RowTyped
<1>2. QED
  BY <1>1 DEF Write

LEMMA StepActor ==
    ASSUME NEW a \in Actors, NEW s \in Actor, actor \in [Actors -> Actor], Step(a, s)
    PROVE  /\ actor' \in [Actors -> Actor] /\ actor'[a] = s
           /\ \A b \in Actors : b # a => actor'[b] = actor[b]
BY DEF Step

\* Nobody else's promises are broken while uploads and approvals only grow and a
\* row changes to one that is adapted, rejected or gone.
LEMMA OthersKeep ==
    ASSUME IInv, NEW b \in Actors, actor'[b] = actor[b],
           \A x \in Entries : uploads'[x] >= uploads[x],
           approved \subseteq approved', uploads' \in [Entries -> Nat],
           \A x \in Entries : row'[x] = row[x] \/ row'[x].adapted
                                 \/ row'[x].status \in {"rejected", "gone"}
    PROVE  ActorOK(b)'
<1> USE DEF IInv
<1>1. actor[b] \in Actor /\ ActorOK(b)
  BY DEF TypeOK
<1>2. CASE actor[b].entry \in Entries
  BY <1>1, <1>2 DEF ActorOK, CopyOK, TypeOK
<1>3. CASE actor[b].entry \notin Entries
  BY <1>1, <1>3 DEF ActorOK
<1>4. QED
  BY <1>2, <1>3

\* Rows that a step leaves alone stay right.
LEMMA RowsKeep ==
    ASSUME IInv, NEW x \in Entries, row'[x] = row[x],
           uploads'[x] = uploads[x] \/ x \in approved, uploads'[x] >= uploads[x],
           uploads'[x] \in Nat, approved \subseteq approved'
    PROVE  RowOK(x)'
BY DEF IInv, RowOK, CopyOK, TypeOK

\* An actor that moves without touching the table, the site or the approvals.
LEMMA QuietStep ==
    ASSUME IInv, NEW a \in Actors, NEW s \in Actor, Step(a, s),
           UNCHANGED <<row, uploads, approved, crashes>>,
           requests' \in 0 .. MaxRequests, ActorOK(a)'
    PROVE  IInv'
<1> USE DEF IInv
<1>1. /\ actor' \in [Actors -> Actor]
      /\ \A b \in Actors : b # a => actor'[b] = actor[b]
  BY StepActor DEF TypeOK
<1>2. TypeOK'
  BY <1>1 DEF TypeOK
<1>3. \A x \in Entries : RowOK(x)'
  BY DEF RowOK, CopyOK
<1>4. ASSUME NEW b \in Actors, b # a PROVE ActorOK(b)'
  <2>1. actor'[b] = actor[b]
    BY <1>1, <1>4
  <2>2. QED
    BY <2>1 DEF ActorOK, CopyOK
<1>5. QED
  BY <1>2, <1>3, <1>4

\* The fields of an actor that changes some of them.
LEMMA Moved ==
    ASSUME NEW s \in Actor, NEW p \in Points
    PROVE  [s EXCEPT !.at = p] \in Actor
BY DEF Actor

LEMMA StartReviewStep ==
    ASSUME IInv, NEW a \in Actors, NEW x \in Entries, NEW t \in Targets,
           StartReview(a, x, t)
    PROVE  IInv'
<1> DEFINE s == [Idle EXCEPT !.at = IF t = "approved" THEN "adapt" ELSE "check",
                             !.entry = x, !.read = row[x], !.target = t]
<1>1. row[x] \in Row /\ RowOK(x)
  BY DEF IInv, TypeOK
<1> DEFINE p == IF t = "approved" THEN "adapt" ELSE "check"
<1>2. p \in Points /\ (p = "adapt" \/ (p = "check" /\ t # "approved"))
  BY DEF Points
<1>3. s \in Actor /\ s.at = p /\ s.entry = x /\ s.read = row[x] /\ s.target = t
  <2> HIDE DEF p
  <2>1. [Idle EXCEPT !.at = p, !.entry = x, !.read = row[x], !.target = t] \in Actor
    BY <1>1, <1>2, IdleTyped DEF Actor
  <2>2. QED
    BY <2>1, IdleTyped DEF p, Actor
<1>4. Step(a, s) /\ UNCHANGED <<row, uploads, approved, crashes>>
      /\ requests' \in 0 .. MaxRequests
  BY RepostQueueAssumption DEF StartReview, Arrives, IInv, TypeOK
<1>5. actor'[a] = s
  BY <1>3, <1>4, StepActor DEF IInv, TypeOK
<1>6. ActorOK(a)'
  BY <1>1, <1>2, <1>3, <1>4, <1>5 DEF ActorOK, CopyOK, RowOK
<1> HIDE DEF s
<1>7. QED
  BY <1>3, <1>4, <1>6, QuietStep

LEMMA StartSubmitStep ==
    ASSUME IInv, NEW a \in Actors, NEW x \in Entries, StartSubmit(a, x)
    PROVE  IInv'
<1> DEFINE s == [Idle EXCEPT !.at = "load", !.entry = x]
<1>1. s \in Actor /\ s.at = "load" /\ s.entry = x
  BY IdleTyped DEF Actor, Points
<1>2. Step(a, s) /\ UNCHANGED <<row, uploads, approved, crashes>>
      /\ requests' \in 0 .. MaxRequests
  BY RepostQueueAssumption DEF StartSubmit, Arrives, IInv, TypeOK
<1> HIDE DEF s
<1>3. actor'[a] = s
  BY <1>1, <1>2, StepActor DEF IInv, TypeOK
<1>4. ActorOK(a)'
  BY <1>1, <1>3 DEF ActorOK
<1>5. QED
  BY <1>1, <1>2, <1>4, QuietStep

LEMMA StartBatchStep ==
    ASSUME IInv, NEW a \in Actors, NEW batch \in SUBSET Entries, StartBatch(a, batch)
    PROVE  IInv'
<1> DEFINE s == [Idle EXCEPT !.at = "pick", !.todo = batch]
<1>1. s \in Actor /\ s.at = "pick"
  BY IdleTyped DEF Actor, Points
<1>2. Step(a, s) /\ UNCHANGED <<row, uploads, approved, crashes>>
      /\ requests' \in 0 .. MaxRequests
  BY RepostQueueAssumption DEF StartBatch, Arrives, IInv, TypeOK
<1> HIDE DEF s
<1>3. actor'[a] = s
  BY <1>1, <1>2, StepActor DEF IInv, TypeOK
<1>4. ActorOK(a)'
  BY <1>1, <1>3 DEF ActorOK
<1>5. QED
  BY <1>1, <1>2, <1>4, QuietStep

\* An actor that gives up, or that is back at its batch, promises nothing.
LEMMA RestStep ==
    ASSUME IInv, NEW a \in Actors, NEW s \in Actor, Step(a, s),
           s.at \in {"idle", "pick"},
           UNCHANGED <<row, uploads, approved, requests, crashes>>
    PROVE  IInv'
<1>1. actor'[a] = s
  BY StepActor DEF IInv, TypeOK
<1>2. ActorOK(a)'
  BY <1>1 DEF ActorOK
<1>3. requests' \in 0 .. MaxRequests
  BY DEF IInv, TypeOK
<1>4. QED
  BY <1>2, <1>3, QuietStep

LEMMA ReviewFailsStep ==
    ASSUME IInv, NEW a \in Actors, ReviewFails(a)
    PROVE  IInv'
BY RestStep, IdleTyped DEF ReviewFails

LEMMA ContinuedTyped ==
    ASSUME NEW s \in Actor
    PROVE  Continued(s) \in Actor /\ Continued(s).at = "pick"
BY DEF Continued, Actor, Points

LEMMA RecordFailsStep ==
    ASSUME IInv, NEW a \in Actors, RecordFails(a)
    PROVE  IInv'
<1>1. actor[a] \in Actor
  BY DEF IInv, TypeOK
<1>2. QED
  BY <1>1, ContinuedTyped, RestStep DEF RecordFails

LEMMA CheckStep ==
    ASSUME IInv, NEW a \in Actors, Check(a)
    PROVE  IInv'
<1> DEFINE me == actor[a]
<1>1. me \in Actor /\ me.entry \in Entries /\ ActorOK(a) /\ me.at = "check"
  BY DEF IInv, TypeOK, ActorOK, Check
<1>2. CASE Present(me.entry) /\ CanTransition(row[me.entry].status, me.target)
  <2> DEFINE s == [me EXCEPT !.at = "decide", !.read = row[me.entry]]
  <2>1. row[me.entry] \in Row
    BY <1>1 DEF IInv, TypeOK
  <2>2. s \in Actor /\ s.at = "decide" /\ s.entry = me.entry
        /\ s.target = me.target /\ s.read = row[me.entry]
    BY <1>1, <2>1 DEF Actor, Points
  <2>3. Step(a, s) /\ UNCHANGED <<row, uploads, approved, requests, crashes>>
    BY <1>2 DEF Check
  <2> HIDE DEF s
  <2>4. actor'[a] = s
    BY <2>2, <2>3, StepActor DEF IInv, TypeOK
  <2>5. me.target = "approved" => row[me.entry].adapted
    BY <1>1, <1>2 DEF ActorOK, Present, CanTransition
  <2>6. ActorOK(a)'
    BY <1>1, <2>2, <2>4, <2>5 DEF ActorOK
  <2>7. requests' \in 0 .. MaxRequests
    BY <2>3 DEF IInv, TypeOK
  <2>8. QED
    BY <2>2, <2>3, <2>6, <2>7, QuietStep
<1>3. CASE ~(Present(me.entry) /\ CanTransition(row[me.entry].status, me.target))
  BY <1>3, RestStep, IdleTyped DEF Check
<1>4. QED
  BY <1>2, <1>3

LEMMA PickStep ==
    ASSUME IInv, NEW a \in Actors, Pick(a)
    PROVE  IInv'
<1> DEFINE me == actor[a]
<1>1. me \in Actor
  BY DEF IInv, TypeOK
<1>2. CASE Step(a, Idle)
  BY <1>2, RestStep, IdleTyped DEF Pick
<1>3. ASSUME NEW x \in me.todo,
             Step(a, [me EXCEPT !.at = "load", !.entry = x, !.todo = Remaining(@, x)])
      PROVE  IInv'
  <2> DEFINE s == [me EXCEPT !.at = "load", !.entry = x, !.todo = Remaining(@, x)]
  <2>1. x \in Entries /\ me.todo \in SUBSET Entries
    BY <1>1, ActorFields
  <2>2. s \in Actor /\ s.at = "load" /\ s.entry = x
    BY <1>1, <2>1 DEF Actor, Points, Remaining
  <2>3. Step(a, s) /\ UNCHANGED <<row, uploads, approved, requests, crashes>>
    BY <1>3 DEF Pick
  <2> HIDE DEF s
  <2>4. actor'[a] = s
    BY <2>2, <2>3, StepActor DEF IInv, TypeOK
  <2>5. ActorOK(a)'
    BY <2>1, <2>2, <2>4 DEF ActorOK
  <2>6. requests' \in 0 .. MaxRequests
    BY <2>3 DEF IInv, TypeOK
  <2>7. QED
    BY <2>2, <2>3, <2>5, <2>6, QuietStep
<1>4. QED
  BY <1>2, <1>3 DEF Pick

LEMMA LoadStep ==
    ASSUME IInv, NEW a \in Actors, Load(a)
    PROVE  IInv'
<1> DEFINE me == actor[a]
<1>1. me \in Actor /\ me.entry \in Entries
  BY DEF IInv, TypeOK, ActorOK, Load
<1>2. CASE Present(me.entry) /\ Ready(row[me.entry]) /\ row[me.entry].adapted
  <2> DEFINE s == [me EXCEPT !.at = "upload", !.read = row[me.entry]]
  <2>1. row[me.entry] \in Row /\ RowOK(me.entry)
    BY <1>1 DEF IInv, TypeOK
  <2>2. s \in Actor /\ s.at = "upload" /\ s.entry = me.entry
        /\ s.read = row[me.entry]
    BY <1>1, <2>1 DEF Actor, Points
  <2>3. Step(a, s) /\ UNCHANGED <<row, uploads, approved, requests, crashes>>
    BY <1>2 DEF Load
  <2> HIDE DEF s
  <2>4. actor'[a] = s
    BY <2>2, <2>3, StepActor DEF IInv, TypeOK
  <2>5. me.entry \in approved
    BY <1>2, <2>1 DEF RowOK, CopyOK, Ready
  <2>6. ActorOK(a)'
    BY <1>1, <1>2, <2>2, <2>3, <2>4, <2>5 DEF ActorOK
  <2>7. requests' \in 0 .. MaxRequests
    BY <2>3 DEF IInv, TypeOK
  <2>8. QED
    BY <2>2, <2>3, <2>6, <2>7, QuietStep
<1>3. CASE ~(Present(me.entry) /\ Ready(row[me.entry]) /\ row[me.entry].adapted)
  BY <1>1, <1>3, RestStep, ContinuedTyped DEF Load
<1>4. QED
  BY <1>2, <1>3

-----------------------------------------------------------------------------
(* The steps that write.                                                   *)

LEMMA WriteBackStep ==
    ASSUME IInv, NEW a \in Actors, WriteBack(a)
    PROVE  IInv'
<1> DEFINE me == actor[a]
           s == [me EXCEPT !.at = "check"]
<1>1. me \in Actor /\ me.at = "adapt" /\ me.entry \in Entries /\ me.read \in Row
      /\ CopyOK(me.read, me.entry)
  BY ActorFields DEF IInv, TypeOK, ActorOK, WriteBack
<1>2. s \in Actor /\ s.at = "check" /\ s.entry = me.entry /\ s.target = me.target
  BY <1>1 DEF Actor, Points
<1>3. Step(a, s) /\ UNCHANGED <<uploads, approved, requests, crashes>>
      /\ Write(me.entry, me.read.status, TRUE, FALSE)
  BY DEF WriteBack, StoredInfo
<1> HIDE DEF s
<1>4. /\ actor' \in [Actors -> Actor] /\ actor'[a] = s
      /\ \A b \in Actors : b # a => actor'[b] = actor[b]
  BY <1>2, <1>3, StepActor DEF IInv, TypeOK
<1>5. me.read.status \in Statuses \cup {"gone"}
  BY <1>1 DEF Row
<1>6. /\ row' \in [Entries -> Row]
      /\ \A y \in Entries : y # me.entry => row'[y] = row[y]
      /\ Present(me.entry) =>
            row'[me.entry] = [status |-> me.read.status, adapted |-> TRUE,
                              stamped |-> FALSE]
      /\ ~Present(me.entry) => row'[me.entry] = row[me.entry]
  BY <1>1, <1>3, <1>5, WriteRow DEF IInv, TypeOK
<1>7. TypeOK'
  BY <1>3, <1>4, <1>6 DEF IInv, TypeOK
<1>8. \A x \in Entries : row'[x] = row[x] \/ row'[x].adapted
                             \/ row'[x].status \in {"rejected", "gone"}
  BY <1>6
<1>9. ASSUME NEW x \in Entries PROVE RowOK(x)'
  <2>1. CASE row'[x] = row[x]
    BY <1>3, <2>1, RowsKeep DEF IInv, TypeOK
  <2>2. CASE x = me.entry /\ Present(x)
    BY <1>1, <1>3, <1>6, <2>2 DEF IInv, RowOK, CopyOK
  <2>3. QED
    BY <1>6, <2>1, <2>2
<1>10. ActorOK(a)'
  <2>1. row'[me.entry].adapted \/ row'[me.entry].status \in {"rejected", "gone"}
    BY <1>1, <1>6 DEF Present
  <2>2. QED
    BY <1>1, <1>2, <1>4, <2>1 DEF ActorOK
<1>11. ASSUME NEW b \in Actors, b # a PROVE ActorOK(b)'
  BY <1>3, <1>4, <1>8, <1>11, OthersKeep DEF IInv, TypeOK
<1>12. QED
  BY <1>7, <1>9, <1>10, <1>11 DEF IInv

LEMMA DecideStep ==
    ASSUME IInv, NEW a \in Actors, Decide(a)
    PROVE  IInv'
<1> DEFINE me == actor[a]
<1>1. me \in Actor /\ me.at = "decide" /\ me.entry \in Entries /\ me.read \in Row
      /\ me.target \in Targets /\ ActorOK(a)
  BY ActorFields DEF IInv, TypeOK, ActorOK, Decide
<1>2. Step(a, Idle) /\ UNCHANGED <<uploads, requests, crashes>>
      /\ Write(me.entry, me.target, me.read.adapted, FALSE)
      /\ approved' = IF me.target = "approved" /\ Present(me.entry)
                     THEN approved \cup {me.entry} ELSE approved
  BY DEF Decide
<1>3. /\ actor' \in [Actors -> Actor] /\ actor'[a] = Idle
      /\ \A b \in Actors : b # a => actor'[b] = actor[b]
  BY <1>2, StepActor, IdleTyped DEF IInv, TypeOK
<1>4. me.target \in Statuses \cup {"gone"} /\ me.read.adapted \in BOOLEAN
  BY <1>1 DEF Targets, Statuses, Row
<1>5. /\ row' \in [Entries -> Row]
      /\ \A y \in Entries : y # me.entry => row'[y] = row[y]
      /\ Present(me.entry) =>
            row'[me.entry] = [status |-> me.target, adapted |-> me.read.adapted,
                              stamped |-> FALSE]
      /\ ~Present(me.entry) => row'[me.entry] = row[me.entry]
  BY <1>1, <1>2, <1>4, WriteRow DEF IInv, TypeOK
<1>6. approved \subseteq approved' /\ approved' \subseteq Entries
  BY <1>1, <1>2 DEF IInv, TypeOK
<1>7. TypeOK'
  BY <1>2, <1>3, <1>5, <1>6 DEF IInv, TypeOK
<1>8. me.target = "approved" => me.read.adapted
  BY <1>1 DEF ActorOK
<1>9. \A x \in Entries : row'[x] = row[x] \/ row'[x].adapted
                             \/ row'[x].status \in {"rejected", "gone"}
  BY <1>1, <1>5, <1>8 DEF Targets
<1>10. ASSUME NEW x \in Entries PROVE RowOK(x)'
  <2>1. CASE row'[x] = row[x]
    BY <1>2, <1>6, <2>1, RowsKeep DEF IInv, TypeOK
  <2>2. CASE x = me.entry /\ Present(x)
    <3>1. row'[x].status = me.target /\ row'[x].adapted = me.read.adapted
      BY <1>5, <2>2
    <3>2. me.target = "approved" => x \in approved'
      BY <1>2, <2>2
    <3>3. uploads[x] > 0 => x \in approved
      BY DEF IInv, RowOK
    <3>4. me.target # "submitted"
      BY <1>1 DEF Targets
    <3>5. QED
      BY <1>2, <1>6, <1>8, <3>1, <3>2, <3>3, <3>4 DEF RowOK, CopyOK
  <2>3. QED
    BY <1>5, <2>1, <2>2
<1>11. ActorOK(a)'
  BY <1>3, IdleTyped DEF ActorOK
<1>12. ASSUME NEW b \in Actors, b # a PROVE ActorOK(b)'
  BY <1>2, <1>3, <1>6, <1>9, <1>12, OthersKeep DEF IInv, TypeOK
<1>13. QED
  BY <1>7, <1>10, <1>11, <1>12 DEF IInv

LEMMA UploadStep ==
    ASSUME IInv, NEW a \in Actors, Upload(a)
    PROVE  IInv'
<1> DEFINE me == actor[a]
<1>1. me \in Actor /\ me.at = "upload" /\ me.entry \in Entries /\ me.read.adapted
      /\ me.entry \in approved
  BY DEF IInv, TypeOK, ActorOK, Upload
<1>2. PICK taken \in BOOLEAN, answered \in BOOLEAN :
          /\ answered => taken
          /\ uploads' = IF taken THEN [uploads EXCEPT ![me.entry] = @ + 1] ELSE uploads
          /\ Step(a, [me EXCEPT !.at = IF answered THEN "recordOk" ELSE "recordFailed"])
  BY DEF Upload
<1> DEFINE p == IF answered THEN "recordOk" ELSE "recordFailed"
           s == [me EXCEPT !.at = p]
<1>3. p \in Points /\ p \in {"recordOk", "recordFailed"} /\ (p = "recordOk" => answered)
  BY DEF Points
<1>4. s \in Actor /\ s.at = p /\ s.entry = me.entry /\ s.read = me.read
  <2> HIDE DEF p
  <2>1. QED
    BY <1>1, <1>3 DEF Actor
<1>5. Step(a, s) /\ UNCHANGED <<row, approved, requests, crashes>>
  BY <1>2 DEF Upload
<1> HIDE DEF p, s
<1>6. /\ actor' \in [Actors -> Actor] /\ actor'[a] = s
      /\ \A b \in Actors : b # a => actor'[b] = actor[b]
  BY <1>4, <1>5, StepActor DEF IInv, TypeOK
<1>7. /\ uploads' \in [Entries -> Nat]
      /\ \A x \in Entries : uploads'[x] >= uploads[x]
      /\ \A x \in Entries : x # me.entry => uploads'[x] = uploads[x]
      /\ answered => uploads'[me.entry] > 0
  BY <1>1, <1>2 DEF IInv, TypeOK
<1>8. TypeOK'
  BY <1>5, <1>6, <1>7 DEF IInv, TypeOK
<1>9. ASSUME NEW x \in Entries PROVE RowOK(x)'
  <2>1. uploads'[x] = uploads[x] \/ x \in approved
    BY <1>1, <1>7
  <2>2. row'[x] = row[x] /\ uploads'[x] >= uploads[x] /\ uploads'[x] \in Nat
        /\ approved \subseteq approved'
    BY <1>5, <1>7
  <2>3. QED
    BY <2>1, <2>2, RowsKeep
<1>10. ActorOK(a)'
  BY <1>1, <1>3, <1>4, <1>5, <1>6, <1>7 DEF ActorOK
<1>11. ASSUME NEW b \in Actors, b # a PROVE ActorOK(b)'
  <2>1. \A x \in Entries : row'[x] = row[x]
    BY <1>5
  <2>2. actor'[b] = actor[b] /\ approved \subseteq approved'
    BY <1>5, <1>6, <1>11
  <2>3. QED
    BY <1>7, <2>1, <2>2, OthersKeep
<1>12. QED
  BY <1>8, <1>9, <1>10, <1>11 DEF IInv

LEMMA RecordStep ==
    ASSUME IInv, NEW a \in Actors, Record(a)
    PROVE  IInv'
<1> DEFINE me == actor[a]
<1>1. me \in Actor /\ me.at \in {"recordOk", "recordFailed"} /\ me.entry \in Entries
      /\ me.read.adapted = TRUE /\ (me.at = "recordOk" => uploads[me.entry] > 0)
  <2>1. me \in Actor /\ me.at \in {"recordOk", "recordFailed"} /\ ActorOK(a)
    BY DEF IInv, TypeOK, Record
  <2>2. me.read \in Row
    BY <2>1, ActorFields
  <2>3. me.read.adapted \in BOOLEAN
    BY <2>2 DEF Row
  <2>4. me.read.adapted /\ me.entry \in Entries
        /\ (me.at = "recordOk" => uploads[me.entry] > 0)
    BY <2>1 DEF ActorOK
  <2>5. QED
    BY <2>1, <2>3, <2>4
<1>2. /\ Write(me.entry, Outcome(a), TRUE, me.at = "recordOk")
      /\ Step(a, Continued(me))
      /\ UNCHANGED <<uploads, approved, requests, crashes>>
  BY <1>1 DEF Record
<1>3. /\ actor' \in [Actors -> Actor] /\ actor'[a] = Continued(me)
      /\ \A b \in Actors : b # a => actor'[b] = actor[b]
  BY <1>1, <1>2, ContinuedTyped, StepActor DEF IInv, TypeOK
<1>4. Outcome(a) \in {"submitted", "failed"}
      /\ (Outcome(a) = "submitted" => uploads[me.entry] > 0)
  BY <1>1 DEF Outcome
<1>5. Outcome(a) \in Statuses \cup {"gone"} /\ (me.at = "recordOk") \in BOOLEAN
  BY <1>4 DEF Statuses
<1>6. /\ row' \in [Entries -> Row]
      /\ \A y \in Entries : y # me.entry => row'[y] = row[y]
      /\ Present(me.entry) =>
            row'[me.entry] = [status |-> Outcome(a), adapted |-> TRUE,
                              stamped |-> (me.at = "recordOk")]
      /\ ~Present(me.entry) => row'[me.entry] = row[me.entry]
  BY <1>1, <1>2, <1>5, WriteRow DEF IInv, TypeOK
<1>7. TypeOK'
  BY <1>2, <1>3, <1>6 DEF IInv, TypeOK
<1>8. \A x \in Entries : row'[x] = row[x] \/ row'[x].adapted
                             \/ row'[x].status \in {"rejected", "gone"}
  BY <1>6
<1>9. ASSUME NEW x \in Entries PROVE RowOK(x)'
  <2>1. CASE row'[x] = row[x]
    BY <1>2, <2>1, RowsKeep DEF IInv, TypeOK
  <2>2. CASE x = me.entry /\ Present(x)
    <3>1. row'[x].status = Outcome(a)
      BY <1>6, <2>2
    <3>2. uploads[x] > 0 => x \in approved
      BY DEF IInv, RowOK
    <3>3. QED
      BY <1>2, <1>4, <2>2, <3>1, <3>2 DEF RowOK, CopyOK
  <2>3. QED
    BY <1>6, <2>1, <2>2
<1>10. ActorOK(a)'
  BY <1>1, <1>3, ContinuedTyped DEF ActorOK
<1>11. ASSUME NEW b \in Actors, b # a PROVE ActorOK(b)'
  BY <1>2, <1>3, <1>8, <1>11, OthersKeep DEF IInv, TypeOK
<1>12. QED
  BY <1>7, <1>9, <1>10, <1>11 DEF IInv

LEMMA DeleteStep ==
    ASSUME IInv, NEW x \in Entries, Delete(x)
    PROVE  IInv'
<1>1. [Fresh EXCEPT !.status = "gone"] \in Row
      /\ [Fresh EXCEPT !.status = "gone"].status = "gone"
  BY FreshTyped DEF Row
<1>2. /\ row' \in [Entries -> Row] /\ row'[x].status = "gone"
      /\ \A y \in Entries : y # x => row'[y] = row[y]
      /\ UNCHANGED <<actor, uploads, approved, requests, crashes>>
  BY <1>1 DEF Delete, IInv, TypeOK
<1>3. TypeOK'
  BY <1>2 DEF IInv, TypeOK
<1>4. \A y \in Entries : RowOK(y)'
  BY <1>2 DEF IInv, RowOK, CopyOK
<1>5. ASSUME NEW b \in Actors PROVE ActorOK(b)'
  <2>1. \A y \in Entries : row'[y] = row[y] \/ row'[y].adapted
                               \/ row'[y].status \in {"rejected", "gone"}
    BY <1>2
  <2>2. actor'[b] = actor[b] /\ uploads' = uploads /\ approved' = approved
    BY <1>2
  <2>3. uploads' \in [Entries -> Nat] /\ \A y \in Entries : uploads'[y] >= uploads[y]
    BY <2>2 DEF IInv, TypeOK
  <2>4. QED
    BY <2>1, <2>2, <2>3, OthersKeep
<1>6. QED
  BY <1>3, <1>4, <1>5 DEF IInv

LEMMA CrashStep ==
    ASSUME IInv, Crash
    PROVE  IInv'
<1>1. /\ actor' = [a \in Actors |-> Idle] /\ crashes' \in 0 .. MaxCrashes
      /\ UNCHANGED <<row, uploads, approved, requests>>
  BY RepostQueueAssumption DEF Crash, IInv, TypeOK
<1>2. \A a \in Actors : actor'[a] \in Actor /\ actor'[a].at = "idle"
  BY <1>1, IdleTyped
<1>3. TypeOK'
  BY <1>1, IdleTyped DEF IInv, TypeOK
<1>4. \A x \in Entries : RowOK(x)'
  BY <1>1 DEF IInv, RowOK, CopyOK
<1>5. \A a \in Actors : ActorOK(a)'
  BY <1>2 DEF ActorOK
<1>6. QED
  BY <1>3, <1>4, <1>5 DEF IInv

-----------------------------------------------------------------------------
(* The theorems.                                                           *)

LEMMA InitIInv == Init => IInv
<1> SUFFICES ASSUME Init PROVE IInv
  OBVIOUS
<1>1. TypeOK
  BY RepostQueueAssumption, FreshTyped, IdleTyped DEF Init, TypeOK
<1>2. \A x \in Entries : RowOK(x)
  BY FreshTyped DEF Init, RowOK, CopyOK
<1>3. \A a \in Actors : ActorOK(a)
  BY IdleTyped DEF Init, ActorOK
<1>4. QED
  BY <1>1, <1>2, <1>3 DEF IInv

LEMMA NextIInv == IInv /\ [Next]_vars => IInv'
<1> SUFFICES ASSUME IInv, [Next]_vars PROVE IInv'
  OBVIOUS
<1>1. CASE UNCHANGED vars
  BY <1>1 DEF IInv, TypeOK, RowOK, ActorOK, CopyOK, vars
<1>2. ASSUME NEW a \in Actors, NEW x \in Entries, NEW t \in Targets, StartReview(a, x, t)
      PROVE  IInv'
  BY <1>2, StartReviewStep
<1>3. ASSUME NEW a \in Actors, NEW x \in Entries, StartSubmit(a, x) PROVE IInv'
  BY <1>3, StartSubmitStep
<1>4. ASSUME NEW a \in Actors, NEW batch \in SUBSET Entries, StartBatch(a, batch)
      PROVE  IInv'
  BY <1>4, StartBatchStep
<1>5. ASSUME NEW a \in Actors, Work(a) PROVE IInv'
  BY <1>5, WriteBackStep, ReviewFailsStep, CheckStep, DecideStep, PickStep, LoadStep,
     UploadStep, RecordStep, RecordFailsStep DEF Work
<1>6. ASSUME NEW x \in Entries, Delete(x) PROVE IInv'
  BY <1>6, DeleteStep
<1>7. CASE Crash
  BY <1>7, CrashStep
<1>8. QED
  BY <1>1, <1>2, <1>3, <1>4, <1>5, <1>6, <1>7 DEF Next

LEMMA Invariance == Spec => []IInv
BY InitIInv, NextIInv, PTL DEF Spec

\* Rows, the actors' locals and the counters keep their types (TypeOK).
THEOREM TypeCorrect == Spec => []TypeOK
<1>1. IInv => TypeOK
  BY DEF IInv
<1>2. QED
  BY <1>1, Invariance, PTL

\* A row marked "submitted" was taken by the target site, whatever stale row a
\* review or a submission wrote over it (api/repost.rs:151, submitter.rs:146).
THEOREM SubmittedMeansUploaded == Spec => []SubmittedWasUploaded
<1>1. IInv => SubmittedWasUploaded
  BY DEF IInv, RowOK, CopyOK, SubmittedWasUploaded
<1>2. QED
  BY <1>1, Invariance, PTL

\* What reaches a target site was approved by a review at some time
\* (submitter.rs:123).
THEOREM OnlyApprovedIsUploaded == Spec => []UploadedWasApproved
<1>1. IInv => UploadedWasApproved
  BY DEF IInv, RowOK, UploadedWasApproved
<1>2. QED
  BY <1>1, Invariance, PTL

\* An approved row has its adapted info (api/repost.rs:282), although reviews that
\* do not build it overwrite the column too.
THEOREM ApprovedHasInfo == Spec => []ApprovedIsAdapted
<1>1. IInv => ApprovedIsAdapted
  BY DEF IInv, RowOK, ApprovedIsAdapted
<1>2. QED
  BY <1>1, Invariance, PTL
-----------------------------------------------------------------------------
(* The list of a batch.                                                    *)

\* Outside of a batch, nothing is left to be submitted.
Listless(s) == s.at \in {"idle", "adapt", "check", "decide"} => s.todo = {}
ListInv == IInv /\ \A a \in Actors : Listless(actor[a])

\* From one record of an actor to the next, only the entry it takes up leaves.
TakesUp(me, s) == \A x \in me.todo \ s.todo : s.entry = x

LEMMA IdleListless == Idle \in Actor /\ Idle.todo = {} /\ Listless(Idle)
BY IdleTyped DEF Idle, Listless

\* A record that moves and keeps its list, within a batch or without one.
LEMMA KeptList ==
    ASSUME NEW me \in Actor, NEW p \in Points, NEW r \in Row, Listless(me),
           p \in {"idle", "adapt", "check", "decide"} =>
               me.at \in {"idle", "adapt", "check", "decide"}
    PROVE  /\ [me EXCEPT !.at = p] \in Actor
           /\ Listless([me EXCEPT !.at = p]) /\ TakesUp(me, [me EXCEPT !.at = p])
           /\ [me EXCEPT !.at = p, !.read = r] \in Actor
           /\ Listless([me EXCEPT !.at = p, !.read = r])
           /\ TakesUp(me, [me EXCEPT !.at = p, !.read = r])
BY DEF Actor, Listless, TakesUp

\* What a request makes of a free actor.
LEMMA RequestTakesUp ==
    ASSUME ListInv, NEW a \in Actors,
           \/ \E x \in Entries, t \in Targets : StartReview(a, x, t)
           \/ \E x \in Entries : StartSubmit(a, x)
           \/ \E batch \in SUBSET Entries : StartBatch(a, batch)
    PROVE  \E s \in Actor : Step(a, s) /\ Listless(s) /\ TakesUp(actor[a], s)
<1>1. actor[a].at = "idle" => actor[a].todo = {}
  BY DEF ListInv, Listless
<1>2. ASSUME NEW x \in Entries, NEW t \in Targets, StartReview(a, x, t)
      PROVE  \E s \in Actor : Step(a, s) /\ Listless(s) /\ TakesUp(actor[a], s)
  <2> DEFINE p == IF t = "approved" THEN "adapt" ELSE "check"
             s == [Idle EXCEPT !.at = p, !.entry = x, !.read = row[x], !.target = t]
  <2>1. p \in Points /\ row[x] \in Row
    BY DEF Points, ListInv, IInv, TypeOK
  <2>2. Step(a, s) /\ actor[a].at = "idle"
    BY <1>2 DEF StartReview, Arrives
  <2> HIDE DEF p
  <2>3. s \in Actor /\ s.todo = {}
    BY <2>1, IdleListless DEF Actor
  <2> HIDE DEF s
  <2>4. QED
    BY <1>1, <2>2, <2>3 DEF Listless, TakesUp
<1>3. ASSUME NEW x \in Entries, StartSubmit(a, x)
      PROVE  \E s \in Actor : Step(a, s) /\ Listless(s) /\ TakesUp(actor[a], s)
  <2> DEFINE s == [Idle EXCEPT !.at = "load", !.entry = x]
  <2>1. Step(a, s) /\ actor[a].at = "idle"
    BY <1>3 DEF StartSubmit, Arrives
  <2>2. s \in Actor /\ s.todo = {}
    BY IdleListless DEF Actor, Points
  <2> HIDE DEF s
  <2>3. QED
    BY <1>1, <2>1, <2>2 DEF Listless, TakesUp
<1>4. ASSUME NEW batch \in SUBSET Entries, StartBatch(a, batch)
      PROVE  \E s \in Actor : Step(a, s) /\ Listless(s) /\ TakesUp(actor[a], s)
  <2> DEFINE s == [Idle EXCEPT !.at = "pick", !.todo = batch]
  <2>1. Step(a, s) /\ actor[a].at = "idle"
    BY <1>4 DEF StartBatch, Arrives
  <2>2. s \in Actor /\ s.at = "pick"
    BY IdleListless DEF Actor, Points
  <2> HIDE DEF s
  <2>3. QED
    BY <1>1, <2>1, <2>2 DEF Listless, TakesUp
<1>5. QED
  BY <1>2, <1>3, <1>4

\* What the work of an actor makes of its record.
LEMMA WorkTakesUp ==
    ASSUME ListInv, NEW a \in Actors, Work(a)
    PROVE  \E s \in Actor : Step(a, s) /\ Listless(s) /\ TakesUp(actor[a], s)
<1> DEFINE me == actor[a]
           Goal == \E s \in Actor : Step(a, s) /\ Listless(s) /\ TakesUp(me, s)
<1>1. me \in Actor /\ Listless(me) /\ me.read \in Row
  BY ActorFields DEF ListInv, IInv, TypeOK
<1>2. ASSUME me.todo = {}, Step(a, Idle) PROVE Goal
  BY <1>2, IdleListless DEF TakesUp
<1>3. ASSUME NEW p \in Points \ {"idle", "adapt", "check", "decide"},
             Step(a, [me EXCEPT !.at = p]) PROVE Goal
  <2>1. QED
    BY <1>1, <1>3, KeptList
<1>4. ASSUME NEW p \in Points, NEW r \in Row,
             p \in {"idle", "adapt", "check", "decide"} =>
                 me.at \in {"idle", "adapt", "check", "decide"},
             Step(a, [me EXCEPT !.at = p, !.read = r]) PROVE Goal
  BY <1>1, <1>4, KeptList
<1>5. CASE WriteBack(a)
  <2>1. me.at = "adapt" /\ Step(a, [me EXCEPT !.at = "check"])
    BY <1>5 DEF WriteBack
  <2>2. "check" \in Points
    BY DEF Points
  <2>3. QED
    BY <1>1, <2>1, <2>2, KeptList
<1>6. CASE ReviewFails(a)
  BY <1>1, <1>2, <1>6 DEF ReviewFails, Listless
<1>7. CASE Check(a)
  <2>1. me.at = "check" /\ me.todo = {}
    BY <1>1, <1>7 DEF Check, Listless
  <2>2. CASE Step(a, Idle)
    BY <1>2, <2>1, <2>2
  <2>3. CASE /\ Present(me.entry)
             /\ Step(a, [me EXCEPT !.at = "decide", !.read = row[me.entry]])
    <3>1. "decide" \in Points
      BY DEF Points
    <3>2. row[me.entry] \in Row
      BY <2>1 DEF ListInv, IInv, TypeOK, ActorOK
    <3>3. QED
      BY <1>4, <2>1, <2>3, <3>1, <3>2
  <2>4. QED
    BY <1>7, <2>2, <2>3 DEF Check
<1>8. CASE Decide(a)
  BY <1>1, <1>2, <1>8 DEF Decide, Listless
<1>9. CASE Pick(a)
  <2>1. ASSUME NEW x \in me.todo,
               Step(a, [me EXCEPT !.at = "load", !.entry = x, !.todo = Remaining(@, x)])
        PROVE  Goal
    <3> DEFINE s == [me EXCEPT !.at = "load", !.entry = x, !.todo = Remaining(@, x)]
    <3>1. s \in Actor /\ s.at = "load" /\ s.entry = x /\ s.todo = me.todo \ {x}
      BY <1>1, ActorFields DEF Actor, Points, Remaining
    <3>2. Step(a, s)
      BY <2>1
    <3> HIDE DEF s
    <3>3. Listless(s) /\ TakesUp(me, s)
      BY <3>1 DEF Listless, TakesUp
    <3>4. QED
      BY <3>1, <3>2, <3>3
  <2>2. QED
    BY <1>2, <1>9, <2>1 DEF Pick
<1>10. CASE Load(a)
  <2>1. row[me.entry] \in Row
    BY <1>10 DEF Load, ListInv, IInv, TypeOK, ActorOK
  <2>2. CASE Step(a, [me EXCEPT !.at = "upload", !.read = row[me.entry]])
    BY <1>4, <2>1, <2>2 DEF Points
  <2>3. CASE Step(a, Continued(me))
    BY <1>3, <2>3 DEF Continued, Points
  <2>4. QED
    BY <1>10, <2>2, <2>3 DEF Load
<1>11. CASE Upload(a)
  BY <1>3, <1>11 DEF Upload, Points
<1>12. CASE Record(a) \/ RecordFails(a)
  BY <1>3, <1>12 DEF Record, RecordFails, Continued, Points
<1>13. QED
  BY <1>5, <1>6, <1>7, <1>8, <1>9, <1>10, <1>11, <1>12 DEF Work

LEMMA ListStep ==
    ASSUME ListInv, IInv', [Next]_vars
    PROVE  /\ ListInv'
           /\ \A a \in Actors : TakesUp(actor[a], actor'[a]) \/ crashes' # crashes
<1>1. ASSUME NEW a \in Actors,
             \E s \in Actor : Step(a, s) /\ Listless(s) /\ TakesUp(actor[a], s)
      PROVE  /\ ListInv'
             /\ \A b \in Actors : TakesUp(actor[b], actor'[b])
  <2>1. PICK s \in Actor : Step(a, s) /\ Listless(s) /\ TakesUp(actor[a], s)
    BY <1>1
  <2>2. /\ actor'[a] = s
        /\ \A b \in Actors : b # a => actor'[b] = actor[b]
    BY <2>1, StepActor DEF ListInv, IInv, TypeOK
  <2>3. QED
    BY <2>1, <2>2 DEF ListInv, TakesUp
<1>2. ASSUME NEW x \in Entries, Delete(x) \/ UNCHANGED vars
      PROVE  /\ ListInv'
             /\ \A b \in Actors : TakesUp(actor[b], actor'[b])
  BY <1>2 DEF Delete, vars, ListInv, TakesUp
<1>3. CASE UNCHANGED vars
  BY <1>3 DEF vars, ListInv, TakesUp
<1>4. CASE Crash
  <2>1. crashes' # crashes /\ actor' = [a \in Actors |-> Idle]
    BY <1>4 DEF Crash, ListInv, IInv, TypeOK
  <2>2. \A a \in Actors : Listless(actor'[a])
    BY <2>1, IdleListless
  <2>3. QED
    BY <2>1, <2>2 DEF ListInv
<1>5. CASE Next
  BY <1>1, <1>2, <1>4, <1>5, RequestTakesUp, WorkTakesUp DEF Next
<1>6. QED
  BY <1>3, <1>5

\* "A failure in one entry does not stop the rest" (submitter.rs:179): whatever the
\* site or the database answers, an entry leaves the list of a batch only by being
\* taken up, and only a crash drops the list.
THEOREM BatchesAreServed == Spec => BatchTakesEveryEntry
<1>1. Init => ListInv
  BY InitIInv, IdleListless DEF Init, ListInv
<1>2. ListInv /\ [Next]_vars => ListInv'
  BY ListStep, NextIInv DEF ListInv
<1>3. ListInv /\ [Next]_vars =>
          [\A a \in Actors : \A x \in actor[a].todo \ actor'[a].todo :
              actor'[a].entry = x \/ crashes' # crashes]_vars
  BY ListStep, NextIInv DEF ListInv, TakesUp
<1>4. QED
  BY <1>1, <1>2, <1>3, PTL DEF Spec, BatchTakesEveryEntry

-----------------------------------------------------------------------------
(***************************************************************************)
(* The site adapters.                                                      *)
(***************************************************************************)
Requests == {"none", "index", "main", "ajax", "dltoken", "file"}
Results == {"pending", "Ok", "OkNone", "HttpError", "ParseError", "AuthFailed",
            "RateLimited", "NotFound"}
Call == [op : Op \cup {"none"}, req : Requests, result : Results, fields : SUBSET Field,
         file : BOOLEAN, stored : BOOLEAN, lateStart : BOOLEAN]
Probe == [stage : {"off", "query", "userinfo", "passkey"}, passed : BOOLEAN,
          failed : BOOLEAN, status : {"unknown", "ok", "partial", "failed"},
          refused : BOOLEAN, lateStart : BOOLEAN]

AdapterTypes ==
    /\ family \in Family /\ cred \in SUBSET Credential
    /\ seedingSwitch \in BOOLEAN /\ session \in BOOLEAN
    /\ call \in Call /\ probe \in Probe

\* An operation that asks for more than it was given without a session.
Believing == <<family, call.op>> \in Credulous

\* An operation that may find nothing on a page that is not what it asked for.
Overlooks == <<family, call.op>> \in Overlooking

\* A call that began on a dead session: it is dead until the call has ended, the
\* first answer ends it, and it learns no statistics.
LateCall ==
    call.lateStart =>
        /\ call.req # "none" => ~session
        /\ call.req # "none" /\ ~Believing => call.req = FirstRequest(family, call.op)
        /\ call.op = "userinfo" => call.fields = {}

\* Some operation of a probe lacks its credential.
Unset == \E op \in {"query", "userinfo", "passkey"} : Local(family, op) = "AuthFailed"

\* What a probe has learnt so far: without a reason, the site was reachable, and on a
\* dead session a field is missing.
ProbeSoFar ==
    probe.stage # "off" =>
        /\ call.op = probe.stage
        /\ probe.lateStart => ~session /\ call.lateStart
        /\ probe.stage = "query" /\ call.req = "none" =>
               Succeeded \/ probe.refused \/ Unset
        /\ probe.stage # "query" => probe.passed \/ probe.refused \/ Unset
        /\ probe.stage = "passkey" /\ probe.lateStart => probe.failed

AdapterInv ==
    /\ AdapterTypes
    /\ call.req # "none" => call.op \in Op /\ Local(family, call.op) = "pending"
    /\ LateCall
    /\ SubmittedIsStored /\ DeadSessionIsReported
    /\ ProbeSoFar /\ ProbeIsJust

-----------------------------------------------------------------------------
(* What an answer does to the call that waits for it.                      *)

Full == [status |-> "ok", body |-> "good"]

\* A submission is acknowledged only if it is stored, a first answer that is not what
\* was asked for ends the call without a result, and a full answer to the hash query
\* ends it with one.
Effect(a) ==
    /\ call' \in Call /\ call'.op = call.op /\ call'.lateStart = call.lateStart
    /\ (call.op = "submit" /\ call'.result = "Ok" /\ family \in Acknowledging)
           => call'.stored
    /\ (a.body # "good" /\ ~Believing /\ call.req = FirstRequest(family, call.op))
           => /\ call'.req = "none" /\ call'.result # "Ok"
              /\ call'.result = "OkNone" => Overlooks
              /\ call'.fields \subseteq call.fields
    /\ (call.op = "query" /\ a = Full) => call'.result = "Ok"

\* A call may only take this answer for the one it asked for, or not need it.
MayTake(a) == a.body = "good" \/ Believing \/ call.req # FirstRequest(family, call.op)

LEMMA EndEffect ==
    ASSUME call \in Call, NEW a \in Answer, NEW res \in Results, End(res),
           call.op # "submit", res = "Ok" => MayTake(a),
           res = "OkNone" => MayTake(a) \/ Overlooks,
           (call.op = "query" /\ a = Full) => res = "Ok"
    PROVE  Effect(a)
<1>1. /\ call' \in Call /\ call'.op = call.op /\ call'.lateStart = call.lateStart
      /\ call'.req = "none" /\ call'.result = res /\ call'.fields = call.fields
  BY DEF End, Call, Requests
<1>2. QED
  BY <1>1 DEF Effect, MayTake

LEMMA EndWithEffect ==
    ASSUME call \in Call, NEW a \in Answer, NEW res \in Results,
           NEW fields \in SUBSET Field, EndWith(res, fields),
           call.op = "userinfo", res = "Ok" => MayTake(a), res # "OkNone"
    PROVE  Effect(a)
<1> DEFINE got == IF res = "Ok" THEN fields ELSE {}
<1>1. got \in SUBSET Field /\ (res # "Ok" => got = {})
  OBVIOUS
<1>2. call' = [call EXCEPT !.req = "none", !.result = res, !.fields = got]
  BY DEF EndWith
<1> HIDE DEF got
<1>3. /\ call' \in Call /\ call'.op = call.op /\ call'.lateStart = call.lateStart
      /\ call'.req = "none" /\ call'.result = res /\ call'.fields = got
  BY <1>1, <1>2 DEF Call, Requests
<1>4. QED
  BY <1>1, <1>3 DEF Effect, MayTake

LEMMA AskEffect ==
    ASSUME call \in Call, NEW a \in Answer, NEW req \in Requests \ {"none"}, Ask(req),
           call.op \notin {"query", "submit"}, MayTake(a)
    PROVE  Effect(a)
<1>1. /\ call' \in Call /\ call'.op = call.op /\ call'.lateStart = call.lateStart
  BY DEF Ask, Call
<1>2. QED
  BY <1>1 DEF Effect, MayTake

LEMMA FirstIsNotFile == FirstRequest(family, call.op) \in {"index", "main"}
BY DEF FirstRequest

LEMMA FileEffect ==
    ASSUME call \in Call, NEW a \in Answer, FetchFile(a), call.req = "file",
           call.op \notin {"query", "submit"}
    PROVE  Effect(a)
<1> DEFINE got == a.status = "ok"
<1>1. got \in BOOLEAN
  OBVIOUS
<1>2. call' = [call EXCEPT !.req = "none", !.result = "Ok", !.file = got]
  BY DEF FetchFile
<1> HIDE DEF got
<1>3. /\ call' \in Call /\ call'.op = call.op /\ call'.lateStart = call.lateStart
  BY <1>1, <1>2 DEF Call, Requests, Results
<1>4. QED
  BY <1>3, FirstIsNotFile DEF Effect

LEMMA SubmitEffect ==
    ASSUME call \in Call, NEW a \in Answer, NEW res \in Results, NEW stored \in BOOLEAN,
           EndSubmit(res, stored), call.op = "submit", res # "OkNone",
           res = "Ok" => a.body = "good" \/ Believing,
           res = "Ok" /\ family \in Acknowledging => stored
    PROVE  Effect(a)
<1>1. /\ call' \in Call /\ call'.op = call.op /\ call'.lateStart = call.lateStart
      /\ call'.req = "none" /\ call'.result = res /\ call'.fields = call.fields
      /\ call'.stored = stored
  BY DEF EndSubmit, Call, Requests
<1>2. QED
  BY <1>1 DEF Effect

\* An answer is read as "Ok" exactly when it is what was asked for.
LEMMA MTeamAnswer ==
    ASSUME NEW a \in Answer
    PROVE  /\ MTeamReads(a) \in Results \ {"OkNone"} /\ (MTeamReads(a) = "Ok" => a.body = "good")
           /\ a = Full => MTeamReads(a) = "Ok"
BY DEF MTeamReads, Results, Answer, Status, Body, Full

LEMMA ZhuqueAnswer ==
    ASSUME NEW a \in Answer, NEW isPost \in BOOLEAN
    PROVE  /\ ZhuqueReads(a, isPost) \in Results \ {"OkNone"}
           /\ ZhuqueReads(a, isPost) = "Ok" => a.body = "good"
           /\ a = Full => ZhuqueReads(a, isPost) = "Ok"
BY DEF ZhuqueReads, Results, Answer, Status, Body, Full

LEMMA GazelleAnswer ==
    ASSUME NEW a \in Answer
    PROVE  GazelleReads(a) \in Results \ {"OkNone"} /\ (GazelleReads(a) = "Ok" => a.body = "good")
BY DEF GazelleReads, Results, Answer, Status, Body

LEMMA Unit3dAnswer ==
    ASSUME NEW a \in Answer
    PROVE  Unit3dReads(a) \in Results \ {"OkNone"} /\ (Unit3dReads(a) = "Ok" => a.body = "good")
BY DEF Unit3dReads, Results, Answer, Status, Body

\* Errors and results are named among Results.
LEMMA ResultNames ==
    {"Ok", "OkNone", "HttpError", "ParseError", "AuthFailed", "RateLimited"}
        \subseteq Results
BY DEF Results

\* What is said of an upload that a family acknowledges.
LEMMA Acknowledged ==
    ASSUME NEW a \in Answer, NEW stored \in MayBeStored(a)
    PROVE  stored \in BOOLEAN /\ (a.body = "good" => stored)
BY DEF MayBeStored

LEMMA LearntFields ==
    ASSUME NEW f \in Family, NEW fields \in SUBSET Exposed(f)
    PROVE  fields \in SUBSET Field
BY FamilyAssumption DEF Exposed, Field

-----------------------------------------------------------------------------
(* The scripts of the five families.                                       *)

LEMMA NexusEffect ==
    ASSUME call \in Call, NEW a \in Answer, Plausible(a), NEW fields \in SUBSET Field,
           \/ NexusQuery(a) \/ NexusUserInfo(a, fields) \/ NexusPasskey(a)
           \/ NexusDetail(a) \/ NexusSearch(a)
           \/ \E stored \in MayBeStored(a) : NexusSubmit(a, stored)
    PROVE  Effect(a)
<1>1. CASE NexusQuery(a)
  <2>1. Believing /\ call.op = "query" /\ End(NexusReadsHashes(a))
    BY <1>1 DEF NexusQuery, At, Believing, Credulous
  <2>2. NexusReadsHashes(a) \in Results \ {"OkNone"} /\ (a = Full => NexusReadsHashes(a) = "Ok")
    BY ResultNames DEF NexusReadsHashes, Full, Answer, Status, Body
  <2>3. QED
    BY <2>1, <2>2, EndEffect DEF MayTake
<1>2. CASE NexusDetail(a)
  <2>1. Believing /\ call.op = "detail"
    BY <1>2 DEF NexusDetail, At, Believing, Credulous
  <2>2. CASE Ask("file")
    BY <2>1, <2>2, AskEffect DEF MayTake, Requests
  <2>3. CASE End("HttpError")
    BY <2>1, <2>3, EndEffect, ResultNames DEF MayTake
  <2>4. CASE call.req = "file" /\ FetchFile(a)
    BY <2>1, <2>4, FileEffect
  <2>5. QED
    BY <1>2, <2>2, <2>3, <2>4 DEF NexusDetail
<1>3. CASE NexusSearch(a)
  <2>1. Believing /\ call.op = "search" /\ End(NexusReadsPage(a))
    BY <1>3 DEF NexusSearch, At, Believing, Credulous
  <2>2. NexusReadsPage(a) \in Results \ {"OkNone"}
    BY ResultNames DEF NexusReadsPage
  <2>3. QED
    BY <2>1, <2>2, EndEffect DEF MayTake
<1>4. ASSUME NEW stored \in MayBeStored(a), NexusSubmit(a, stored) PROVE Effect(a)
  <2> DEFINE res == IF a.status # "none" /\ a.body = "good" THEN "Ok" ELSE "HttpError"
  <2>1. call.op = "submit" /\ EndSubmit(res, stored)
    BY <1>4 DEF NexusSubmit, At
  <2>2. res \in Results \ {"OkNone"} /\ (res = "Ok" => a.body = "good")
    BY ResultNames
  <2>3. stored \in BOOLEAN /\ (res = "Ok" => stored)
    BY <1>4, <2>2, Acknowledged
  <2> HIDE DEF res
  <2>4. QED
    BY <2>1, <2>2, <2>3, SubmitEffect
<1>5. ASSUME call.op \in {"userinfo", "passkey"}, family = "nexusphp"
      PROVE  FirstRequest(family, call.op) = "index"
  BY <1>5 DEF FirstRequest
\* The index page is the first request: without the page there is no user's page.
<1>6. ASSUME NEW seen \in SUBSET Field, NexusResolve(a, seen, "main"),
             call.op \in {"userinfo", "passkey"}
      PROVE  Effect(a)
  <2>1. CASE End("HttpError") \/ End("AuthFailed")
    BY <1>6, <2>1, EndEffect, ResultNames
  <2>2. CASE a.body = "good" /\ call' = [call EXCEPT !.req = "main", !.fields = seen]
    <3>1. /\ call' \in Call /\ call'.op = call.op /\ call'.lateStart = call.lateStart
      BY <2>2 DEF Call, Requests
    <3>2. QED
      BY <1>6, <2>2, <3>1 DEF Effect
  <2>3. QED
    BY <1>6, <2>1, <2>2 DEF NexusResolve
<1>7. CASE NexusPasskey(a)
  <2>1. call.op = "passkey" /\ family = "nexusphp"
    BY <1>7 DEF NexusPasskey, At
  <2>2. CASE NexusResolve(a, {}, "main")
    BY <1>6, <2>1, <2>2
  <2>3. CASE call.req = "main" /\ \E res \in {"HttpError", "Ok", "OkNone"} : End(res)
    BY <1>5, <2>1, <2>3, EndEffect, ResultNames DEF MayTake
  <2>4. QED
    BY <1>7, <2>2, <2>3 DEF NexusPasskey
<1>8. CASE NexusUserInfo(a, fields)
  <2>1. call.op = "userinfo" /\ family = "nexusphp"
    BY <1>8 DEF NexusUserInfo, At
  <2>2. CASE NexusResolve(a, fields, "main")
    BY <1>6, <2>1, <2>2
  <2>3. CASE call.req \in {"main", "ajax"}
    <3>1. MayTake(a) /\ call.fields \in SUBSET Field
      BY <1>5, <2>1, <2>3 DEF MayTake, Call
    <3>2. CASE End("HttpError")
      BY <2>1, <3>1, <3>2, EndEffect, ResultNames
    <3>3. ASSUME NEW all \in SUBSET Field, EndWith("Ok", all) PROVE Effect(a)
      BY <2>1, <3>1, <3>3, EndWithEffect, ResultNames
    <3>4. ASSUME NEW all \in SUBSET Field,
                 call' = [call EXCEPT !.req = "ajax", !.fields = all]
          PROVE  Effect(a)
      <4>1. /\ call' \in Call /\ call'.op = call.op /\ call'.lateStart = call.lateStart
        BY <3>4 DEF Call, Requests
      <4>2. QED
        BY <1>5, <2>1, <2>3, <4>1 DEF Effect
    <3>5. CASE call.req = "main"
      <4> DEFINE merged == call.fields \cup (IF a.body = "good" THEN fields ELSE {})
      <4>1. merged \in SUBSET Field
        BY <3>1
      <4>2. \/ End("HttpError")
            \/ call' = [call EXCEPT !.req = "ajax", !.fields = merged]
            \/ EndWith("Ok", merged)
        BY <1>8, <3>5 DEF NexusUserInfo, NexusResolve
      <4> HIDE DEF merged
      <4>3. QED
        BY <3>2, <3>3, <3>4, <4>1, <4>2
    <3>6. CASE call.req = "ajax"
      <4> DEFINE all ==
                   call.fields \cup
                       (IF a = [status |-> "ok", body |-> "good"] THEN {"size"} ELSE {})
      <4>1. all \in SUBSET Field
        BY <3>1 DEF Field
      <4>2. EndWith("Ok", all)
        BY <1>8, <3>6 DEF NexusUserInfo, NexusResolve
      <4> HIDE DEF all
      <4>3. QED
        BY <3>3, <4>1, <4>2
    <3>7. QED
      BY <2>3, <3>5, <3>6
  <2>4. QED
    BY <1>8, <2>2, <2>3 DEF NexusUserInfo
<1>9. QED
  BY <1>1, <1>2, <1>3, <1>4, <1>7, <1>8

LEMMA MTeamEffect ==
    ASSUME call \in Call, NEW a \in Answer, Plausible(a), NEW fields \in SUBSET Field,
           \/ MTeamQuery(a) \/ MTeamUserInfo(a, fields) \/ MTeamPasskey(a)
           \/ MTeamDetail(a) \/ MTeamSearch(a)
           \/ \E stored \in MayBeStored(a) : MTeamSubmit(a, stored)
    PROVE  Effect(a)
<1>1. CASE MTeamQuery(a) \/ MTeamSearch(a)
  <2>1. call.op \in {"query", "search"} /\ End(MTeamReads(a))
    BY <1>1 DEF MTeamQuery, MTeamSearch, At
  <2>2. QED
    BY <2>1, EndEffect, MTeamAnswer DEF MayTake
<1>2. CASE MTeamUserInfo(a, fields)
  <2>1. call.op = "userinfo" /\ EndWith(MTeamReads(a), fields)
    BY <1>2 DEF MTeamUserInfo, At
  <2>2. QED
    BY <2>1, EndWithEffect, MTeamAnswer DEF MayTake
<1>3. CASE MTeamPasskey(a)
  <2> DEFINE res == IF a.status # "ok" THEN "HttpError"
                    ELSE IF a.body = "good" THEN "Ok" ELSE "OkNone"
  <2>1. call.op = "passkey" /\ Overlooks /\ End(res)
    BY <1>3 DEF MTeamPasskey, At, Overlooks, Overlooking
  <2>2. res \in Results /\ (res = "Ok" => a.body = "good")
    BY ResultNames
  <2> HIDE DEF res
  <2>3. QED
    BY <2>1, <2>2, EndEffect DEF MayTake
<1>4. CASE MTeamDetail(a)
  <2>1. call.op = "detail" /\ family = "mteam"
    BY <1>4 DEF MTeamDetail, At
  <2>2. FirstRequest(family, call.op) = "main"
    BY <2>1 DEF FirstRequest
  <2>3. CASE call.req = "main"
    <3>1. CASE MTeamReads(a) = "Ok" /\ Ask("dltoken")
      BY <2>1, <3>1, AskEffect, MTeamAnswer DEF MayTake, Requests
    <3>2. CASE MTeamReads(a) # "Ok" /\ End(MTeamReads(a))
      BY <2>1, <3>2, EndEffect, MTeamAnswer
    <3>3. QED
      BY <1>4, <2>3, <3>1, <3>2 DEF MTeamDetail
  <2>4. CASE call.req = "dltoken"
    <3>1. MayTake(a)
      BY <2>2, <2>4 DEF MayTake
    <3>2. Ask("file") \/ End("Ok")
      BY <1>4, <2>4 DEF MTeamDetail
    <3>3. QED
      BY <2>1, <3>1, <3>2, AskEffect, EndEffect, ResultNames DEF Requests
  <2>5. CASE call.req = "file" /\ FetchFile(a)
    BY <2>1, <2>5, FileEffect
  <2>6. QED
    BY <1>4, <2>3, <2>4, <2>5 DEF MTeamDetail
<1>5. ASSUME NEW stored \in MayBeStored(a), MTeamSubmit(a, stored) PROVE Effect(a)
  <2> DEFINE res == CASE a.status = "none" -> "HttpError"
                      [] a.status = "denied" -> "AuthFailed"
                      [] a.body = "page" -> "ParseError"
                      [] a.body = "good" -> "Ok"
                      [] OTHER -> "HttpError"
  <2>1. call.op = "submit" /\ EndSubmit(res, stored)
    BY <1>5 DEF MTeamSubmit, At
  <2>2. res \in Results \ {"OkNone"} /\ (res = "Ok" => a.body = "good")
    BY ResultNames DEF Answer, Status, Body
  <2>3. stored \in BOOLEAN /\ (res = "Ok" => stored)
    BY <1>5, <2>2, Acknowledged
  <2> HIDE DEF res
  <2>4. QED
    BY <2>1, <2>2, <2>3, SubmitEffect
<1>6. QED
  BY <1>1, <1>2, <1>3, <1>4, <1>5

LEMMA Unit3dEffect ==
    ASSUME call \in Call, NEW a \in Answer, Plausible(a), NEW fields \in SUBSET Field,
           \/ Unit3dUserInfo(a, fields) \/ Unit3dDetail(a) \/ Unit3dSearch(a)
           \/ \E stored \in MayBeStored(a) : Unit3dSubmit(a, stored)
    PROVE  Effect(a)
<1>1. CASE Unit3dUserInfo(a, fields)
  <2>1. call.op = "userinfo" /\ EndWith(Unit3dReads(a), fields)
    BY <1>1 DEF Unit3dUserInfo, At
  <2>2. QED
    BY <2>1, EndWithEffect, Unit3dAnswer DEF MayTake
<1>2. CASE Unit3dSearch(a)
  <2>1. call.op = "search" /\ End(Unit3dReads(a))
    BY <1>2 DEF Unit3dSearch, At
  <2>2. QED
    BY <2>1, EndEffect, Unit3dAnswer DEF MayTake
<1>3. CASE Unit3dDetail(a)
  <2>1. call.op = "detail"
    BY <1>3 DEF Unit3dDetail, At
  <2>2. CASE Unit3dReads(a) = "Ok" /\ Ask("file")
    BY <2>1, <2>2, AskEffect, Unit3dAnswer DEF MayTake, Requests
  <2>3. CASE Unit3dReads(a) # "Ok" /\ End(Unit3dReads(a))
    BY <2>1, <2>3, EndEffect, Unit3dAnswer
  <2>4. CASE call.req = "file" /\ FetchFile(a)
    BY <2>1, <2>4, FileEffect
  <2>5. QED
    BY <1>3, <2>2, <2>3, <2>4 DEF Unit3dDetail
<1>4. ASSUME NEW stored \in MayBeStored(a), Unit3dSubmit(a, stored) PROVE Effect(a)
  <2> DEFINE res == CASE a.status = "ok" -> "Ok"
                      [] a.status = "denied" -> "AuthFailed"
                      [] a.status = "limited" -> "RateLimited"
                      [] OTHER -> "HttpError"
  <2>1. call.op = "submit" /\ family = "unit3d" /\ EndSubmit(res, stored)
    BY <1>4 DEF Unit3dSubmit, At
  <2>2. res \in Results \ {"OkNone"} /\ stored \in BOOLEAN
    BY <1>4, ResultNames, Acknowledged
  <2>3. Believing /\ family \notin Acknowledging
    BY <2>1 DEF Believing, Credulous, Acknowledging
  <2> HIDE DEF res
  <2>4. QED
    BY <2>1, <2>2, <2>3, SubmitEffect
<1>5. QED
  BY <1>1, <1>2, <1>3, <1>4

LEMMA GazelleEffect ==
    ASSUME call \in Call, NEW a \in Answer, Plausible(a), NEW fields \in SUBSET Field,
           \/ GazelleUserInfo(a, fields) \/ GazellePasskey(a)
           \/ GazelleDetail(a) \/ GazelleSearch(a)
           \/ \E stored \in MayBeStored(a) : GazelleSubmit(a, stored)
    PROVE  Effect(a)
<1>1. CASE GazelleUserInfo(a, fields)
  <2>1. call.op = "userinfo" /\ EndWith(GazelleReads(a), fields)
    BY <1>1 DEF GazelleUserInfo, At
  <2>2. QED
    BY <2>1, EndWithEffect, GazelleAnswer DEF MayTake
<1>2. CASE GazelleSearch(a)
  <2>1. call.op = "search" /\ End(GazelleReads(a))
    BY <1>2 DEF GazelleSearch, At
  <2>2. QED
    BY <2>1, EndEffect, GazelleAnswer DEF MayTake
<1>3. CASE GazellePasskey(a)
  <2> DEFINE res == IF a.status # "ok" THEN "HttpError"
                    ELSE IF a.body = "good" THEN "Ok" ELSE "OkNone"
  <2>1. call.op = "passkey" /\ Overlooks /\ End(res)
    BY <1>3 DEF GazellePasskey, At, Overlooks, Overlooking
  <2>2. res \in Results /\ (res = "Ok" => a.body = "good")
    BY ResultNames
  <2> HIDE DEF res
  <2>3. QED
    BY <2>1, <2>2, EndEffect DEF MayTake
<1>4. CASE GazelleDetail(a)
  <2>1. call.op = "detail"
    BY <1>4 DEF GazelleDetail, At
  <2>2. CASE GazelleReads(a) = "Ok" /\ Ask("file")
    BY <2>1, <2>2, AskEffect, GazelleAnswer DEF MayTake, Requests
  <2>3. CASE GazelleReads(a) # "Ok" /\ End(GazelleReads(a))
    BY <2>1, <2>3, EndEffect, GazelleAnswer
  <2>4. CASE call.req = "file" /\ FetchFile(a)
    BY <2>1, <2>4, FileEffect
  <2>5. QED
    BY <1>4, <2>2, <2>3, <2>4 DEF GazelleDetail
<1>5. ASSUME NEW stored \in MayBeStored(a), GazelleSubmit(a, stored) PROVE Effect(a)
  <2> DEFINE res == IF a.status \in {"ok", "redirect"}
                       \/ (a.status # "none" /\ a.body = "good")
                    THEN "Ok" ELSE "HttpError"
  <2>1. call.op = "submit" /\ family = "gazelle" /\ EndSubmit(res, stored)
    BY <1>5 DEF GazelleSubmit, At
  <2>2. res \in Results \ {"OkNone"} /\ stored \in BOOLEAN
    BY <1>5, ResultNames, Acknowledged
  <2>3. Believing /\ family \notin Acknowledging
    BY <2>1 DEF Believing, Credulous, Acknowledging
  <2> HIDE DEF res
  <2>4. QED
    BY <2>1, <2>2, <2>3, SubmitEffect
<1>6. QED
  BY <1>1, <1>2, <1>3, <1>4, <1>5

LEMMA ZhuqueEffect ==
    ASSUME call \in Call, NEW a \in Answer, Plausible(a), NEW fields \in SUBSET Field,
           \/ ZhuqueQuery(a) \/ ZhuqueUserInfo(a, fields) \/ ZhuqueDetail(a)
           \/ ZhuqueSearch(a)
           \/ \E known \in BOOLEAN : ZhuquePasskey(a, known)
           \/ \E stored \in MayBeStored(a) : ZhuqueSubmit(a, stored)
    PROVE  Effect(a)
<1>1. CASE ZhuqueQuery(a) \/ ZhuqueSearch(a)
  <2>1. PICK isPost \in BOOLEAN : End(ZhuqueReads(a, isPost))
    BY <1>1 DEF ZhuqueQuery, ZhuqueSearch
  <2>2. call.op \in {"query", "search"}
    BY <1>1 DEF ZhuqueQuery, ZhuqueSearch, At
  <2>3. QED
    BY <2>1, <2>2, EndEffect, ZhuqueAnswer DEF MayTake
<1>2. CASE ZhuqueUserInfo(a, fields)
  <2>1. call.op = "userinfo" /\ EndWith(ZhuqueReads(a, FALSE), fields)
    BY <1>2 DEF ZhuqueUserInfo, At
  <2>2. QED
    BY <2>1, EndWithEffect, ZhuqueAnswer DEF MayTake
<1>3. ASSUME NEW known \in BOOLEAN, ZhuquePasskey(a, known) PROVE Effect(a)
  <2> DEFINE res == IF ZhuqueReads(a, FALSE) = "Ok" /\ ~known THEN "OkNone"
                    ELSE ZhuqueReads(a, FALSE)
  <2>1. call.op = "passkey" /\ End(res)
    BY <1>3 DEF ZhuquePasskey, At
  <2>2. res \in Results /\ (res \in {"Ok", "OkNone"} => a.body = "good")
    BY ResultNames, ZhuqueAnswer
  <2> HIDE DEF res
  <2>3. QED
    BY <2>1, <2>2, EndEffect DEF MayTake
<1>4. CASE ZhuqueDetail(a)
  <2>1. call.op = "detail"
    BY <1>4 DEF ZhuqueDetail, At
  <2>2. CASE ZhuqueReads(a, FALSE) = "Ok" /\ Ask("file")
    BY <2>1, <2>2, AskEffect, ZhuqueAnswer DEF MayTake, Requests
  <2>3. CASE ZhuqueReads(a, FALSE) # "Ok" /\ End(ZhuqueReads(a, FALSE))
    BY <2>1, <2>3, EndEffect, ZhuqueAnswer
  <2>4. CASE call.req = "file" /\ FetchFile(a)
    BY <2>1, <2>4, FileEffect
  <2>5. QED
    BY <1>4, <2>2, <2>3, <2>4 DEF ZhuqueDetail
<1>5. ASSUME NEW stored \in MayBeStored(a), ZhuqueSubmit(a, stored) PROVE Effect(a)
  <2> DEFINE res == IF a.status # "none" /\ a.body \in {"good", "empty"}
                    THEN "Ok" ELSE "HttpError"
  <2>1. call.op = "submit" /\ family = "zhuque" /\ EndSubmit(res, stored)
    BY <1>5 DEF ZhuqueSubmit, At
  <2>2. res \in Results \ {"OkNone"} /\ stored \in BOOLEAN
    BY <1>5, ResultNames, Acknowledged
  <2>3. Believing /\ family \notin Acknowledging
    BY <2>1 DEF Believing, Credulous, Acknowledging
  <2> HIDE DEF res
  <2>4. QED
    BY <2>1, <2>2, <2>3, SubmitEffect
<1>6. QED
  BY <1>1, <1>2, <1>3, <1>4, <1>5

\* One answer, whichever script waits for it.
LEMMA ReplyEffect ==
    ASSUME AdapterTypes, Reply
    PROVE  \E a \in Answer :
              /\ Plausible(a) /\ Effect(a)
              /\ probe' = [probe EXCEPT !.refused =
                               @ \/ (probe.stage # "off" /\ a # Full)]
<1>1. PICK a \in Answer,
           fields \in (IF call.op = "userinfo" THEN SUBSET Exposed(family) ELSE {{}}) :
          /\ Plausible(a)
          /\ \/ NexusQuery(a) \/ NexusUserInfo(a, fields) \/ NexusPasskey(a)
             \/ NexusDetail(a) \/ NexusSearch(a)
             \/ MTeamQuery(a) \/ MTeamUserInfo(a, fields) \/ MTeamPasskey(a)
             \/ MTeamDetail(a) \/ MTeamSearch(a)
             \/ Unit3dUserInfo(a, fields) \/ Unit3dDetail(a) \/ Unit3dSearch(a)
             \/ GazelleUserInfo(a, fields) \/ GazellePasskey(a)
             \/ GazelleDetail(a) \/ GazelleSearch(a)
             \/ ZhuqueQuery(a) \/ ZhuqueUserInfo(a, fields) \/ ZhuqueDetail(a)
             \/ ZhuqueSearch(a)
             \/ \E found \in BOOLEAN : ZhuquePasskey(a, found)
             \/ \E stored \in MayBeStored(a) :
                   \/ NexusSubmit(a, stored) \/ MTeamSubmit(a, stored)
                   \/ Unit3dSubmit(a, stored) \/ GazelleSubmit(a, stored)
                   \/ ZhuqueSubmit(a, stored)
          /\ probe' = [probe EXCEPT !.refused =
                           @ \/ (/\ probe.stage # "off"
                                 /\ a # [status |-> "ok", body |-> "good"])]
  BY ZenonT(30) DEF Reply
<1>2. fields \in SUBSET Field
  BY <1>1, LearntFields DEF AdapterTypes
<1>3. call \in Call
  BY DEF AdapterTypes
<1>4. Effect(a)
  BY <1>1, <1>2, <1>3, NexusEffect, MTeamEffect, Unit3dEffect, GazelleEffect, ZhuqueEffect
<1>5. QED
  BY <1>1, <1>4 DEF Full

-----------------------------------------------------------------------------
(* Calls, the session and the probe.                                       *)

\* What an operation answers without asking the site.
LEMMA LocalAnswer ==
    ASSUME family \in Family, NEW op \in Op
    PROVE  /\ Local(family, op) \in {"Ok", "OkNone", "AuthFailed", "pending"}
           /\ op = "submit" => Local(family, op) # "Ok"
           /\ op = "query" => Local(family, op) # "OkNone"
BY FamilyAssumption DEF Local, Op

LEMMA NewCallMade ==
    ASSUME AdapterTypes, NEW op \in Op, call' = NewCall(op),
           UNCHANGED <<family, cred, session>>
    PROVE  /\ call' \in Call /\ call'.op = op /\ call'.fields = {}
           /\ call'.result = Local(family, op) /\ call'.lateStart = ~session
           /\ call'.req = IF Local(family, op) = "pending" THEN FirstRequest(family, op)
                          ELSE "none"
<1> DEFINE first == IF Local(family, op) = "pending" THEN FirstRequest(family, op)
                    ELSE "none"
           late == ~session
           local == Local(family, op)
<1>1. first \in Requests /\ local \in Results /\ late \in BOOLEAN
  BY LocalAnswer DEF FirstRequest, Requests, Results, AdapterTypes
<1>2. call' = [op |-> op, req |-> first, result |-> local, fields |-> {},
               file |-> FALSE, stored |-> FALSE, lateStart |-> late]
  BY DEF NewCall
<1> HIDE DEF first, late, local
<1>3. /\ call' \in Call /\ call'.op = op /\ call'.fields = {}
      /\ call'.result = local /\ call'.lateStart = late /\ call'.req = first
  BY <1>1, <1>2 DEF Call
<1>4. QED
  BY <1>3 DEF first, late, local

\* Credentials and family last: what an operation answers by itself does too.
LEMMA LocalLasts ==
    ASSUME UNCHANGED <<family, cred>>, NEW op, call'.op = op
    PROVE  /\ Local(family, call.op)' = Local(family, op)
           /\ FirstRequest(family, call.op)' = FirstRequest(family, op)
           /\ Believing' = (<<family, op>> \in Credulous)
           /\ Overlooks' = (<<family, op>> \in Overlooking)
BY DEF Local, HasCredential, NoHashApi, FirstRequest, Believing, Overlooks

LEMMA UnsetLasts ==
    ASSUME UNCHANGED <<family, cred>>
    PROVE  Unset' = Unset
BY DEF Unset, Local, HasCredential, NoHashApi

\* The part of the invariant that is about one call.
CallOK ==
    /\ call.req # "none" => call.op \in Op /\ Local(family, call.op) = "pending"
    /\ LateCall /\ SubmittedIsStored /\ DeadSessionIsReported

LEMMA NewCallOK ==
    ASSUME AdapterInv, NEW op \in Op, call' = NewCall(op),
           UNCHANGED <<family, cred, seedingSwitch, session>>
    PROVE  CallOK'
<1>1. /\ call' \in Call /\ call'.op = op /\ call'.fields = {}
      /\ call'.result = Local(family, op) /\ call'.lateStart = ~session
      /\ call'.req = IF Local(family, op) = "pending" THEN FirstRequest(family, op)
                     ELSE "none"
  BY NewCallMade DEF AdapterInv
<1>2. /\ Local(family, call.op)' = Local(family, op)
      /\ FirstRequest(family, call.op)' = FirstRequest(family, op)
  BY <1>1, LocalLasts
<1>3. FirstRequest(family, op) # "none"
  BY DEF FirstRequest
<1>4. op = "submit" => Local(family, op) # "Ok"
  BY LocalAnswer DEF AdapterInv, AdapterTypes
<1>5. (call.req # "none" => call.op \in Op /\ Local(family, call.op) = "pending")'
  BY <1>1, <1>2
<1>6. LateCall'
  BY <1>1, <1>2 DEF LateCall
<1>7. SubmittedIsStored'
  BY <1>1, <1>4 DEF SubmittedIsStored, Ended
<1>8. DeadSessionIsReported'
  BY <1>1, <1>2, <1>3 DEF DeadSessionIsReported, Ended
<1>9. QED
  BY <1>5, <1>6, <1>7, <1>8 DEF CallOK

LEMMA ReplyOK ==
    ASSUME AdapterInv, Reply, NEW a \in Answer, Plausible(a), Effect(a)
    PROVE  CallOK'
<1>1. UNCHANGED <<family, cred, seedingSwitch, session>> /\ call.req # "none"
  BY DEF Reply
<1>2. /\ call.op \in Op /\ Local(family, call.op) = "pending" /\ LateCall
  BY <1>1 DEF AdapterInv
<1>3. /\ call' \in Call /\ call'.op = call.op /\ call'.lateStart = call.lateStart
  BY DEF Effect
<1>4. /\ Local(family, call.op)' = Local(family, call.op)
      /\ FirstRequest(family, call.op)' = FirstRequest(family, call.op)
      /\ Believing' = Believing /\ Overlooks' = Overlooks
  <2>1. PICK op : op = call.op
    OBVIOUS
  <2>2. call'.op = op
    BY <1>3, <2>1
  <2>3. QED
    BY <1>1, <2>1, <2>2, LocalLasts DEF Believing, Overlooks
<1>5. (call.req # "none" => call.op \in Op /\ Local(family, call.op) = "pending")'
  BY <1>2, <1>3, <1>4
<1>6. call.lateStart => ~session /\ a.body # "good"
  BY <1>1, <1>2 DEF LateCall, Plausible
<1>7. call.lateStart /\ ~Believing =>
          /\ call'.req = "none" /\ call'.result # "Ok" /\ call'.fields \subseteq call.fields
          /\ call'.result = "OkNone" => Overlooks
  BY <1>1, <1>2, <1>6 DEF LateCall, Effect
<1>8. call.op = "userinfo" => ~Believing
  BY DEF Believing, Credulous
<1>9. LateCall'
  BY <1>1, <1>2, <1>3, <1>4, <1>6, <1>7, <1>8 DEF LateCall
<1>10. SubmittedIsStored'
  BY <1>1, <1>3 DEF SubmittedIsStored, Effect
<1>11. DeadSessionIsReported'
  BY <1>1, <1>3, <1>4, <1>7 DEF DeadSessionIsReported, Believing, Overlooks, Succeeded
<1>12. QED
  BY <1>5, <1>9, <1>10, <1>11 DEF CallOK

\* The call stays; the session may end, and begins only when no call is under way.
LEMMA SameCallOK ==
    ASSUME AdapterInv, UNCHANGED <<family, cred, call>>,
           session' = FALSE \/ session' = session \/ call.req = "none"
    PROVE  CallOK'
<1>1. PICK op : op = call.op
  OBVIOUS
<1>2. /\ Local(family, call.op)' = Local(family, call.op)
      /\ FirstRequest(family, call.op)' = FirstRequest(family, call.op)
      /\ Believing' = Believing /\ Overlooks' = Overlooks
  BY <1>1, LocalLasts DEF Believing, Overlooks
<1>3. (call.req # "none" => call.op \in Op /\ Local(family, call.op) = "pending")'
  BY <1>2 DEF AdapterInv
<1>4. LateCall'
  BY <1>2 DEF AdapterInv, LateCall
<1>5. SubmittedIsStored' /\ DeadSessionIsReported'
  BY <1>2 DEF AdapterInv, SubmittedIsStored, DeadSessionIsReported, Ended,
                    Believing, Overlooks, Succeeded
<1>6. QED
  BY <1>3, <1>4, <1>5 DEF CallOK

\* Nothing but the session changes.
LEMMA SessionStep ==
    ASSUME AdapterInv, UNCHANGED <<family, cred, seedingSwitch, call, probe>>,
           \/ session' = FALSE
           \/ session' = TRUE /\ call.req = "none" /\ probe.stage = "off"
           \/ session' = session
    PROVE  AdapterInv'
<1>1. AdapterTypes'
  BY DEF AdapterInv, AdapterTypes
<1>2. CallOK'
  BY SameCallOK
<1>3. Unset' = Unset
  BY UnsetLasts
<1>4. ProbeSoFar'
  BY <1>3 DEF AdapterInv, ProbeSoFar, Succeeded
<1>5. ProbeIsJust'
  BY <1>3 DEF AdapterInv, ProbeIsJust, Unset
<1>6. QED
  BY <1>1, <1>2, <1>4, <1>5 DEF AdapterInv, CallOK

LEMMA ReplyStep ==
    ASSUME AdapterInv, Reply
    PROVE  AdapterInv'
<1>1. PICK a \in Answer :
          /\ Plausible(a) /\ Effect(a)
          /\ probe' = [probe EXCEPT !.refused = @ \/ (probe.stage # "off" /\ a # Full)]
  BY ReplyEffect DEF AdapterInv
<1>2. UNCHANGED <<family, cred, seedingSwitch, session>> /\ call.req # "none"
  BY DEF Reply
<1>3. call' \in Call /\ call'.op = call.op /\ call'.lateStart = call.lateStart
  BY <1>1 DEF Effect
<1> DEFINE refused == probe.refused \/ (probe.stage # "off" /\ a # Full)
<1>4. refused \in BOOLEAN /\ probe \in Probe
  BY DEF AdapterInv, AdapterTypes, Probe
<1>5. /\ probe' \in Probe /\ probe'.refused = refused /\ probe'.stage = probe.stage
      /\ probe'.passed = probe.passed /\ probe'.failed = probe.failed
      /\ probe'.status = probe.status /\ probe'.lateStart = probe.lateStart
  <2>1. probe' = [probe EXCEPT !.refused = refused]
    BY <1>1
  <2> HIDE DEF refused
  <2>2. QED
    BY <1>4, <2>1 DEF Probe
<1>6. AdapterTypes'
  BY <1>2, <1>3, <1>5 DEF AdapterInv, AdapterTypes
<1>7. CallOK'
  BY <1>1, ReplyOK
<1>8. Unset' = Unset
  BY <1>2, UnsetLasts
<1>9. ProbeSoFar'
  <2>1. SUFFICES ASSUME probe.stage # "off" PROVE ProbeSoFar'
    BY <1>5 DEF ProbeSoFar
  <2>2. probe.stage = "query" => call'.result = "Ok" \/ refused
    BY <1>1, <2>1 DEF AdapterInv, ProbeSoFar, Effect
  <2>3. QED
    BY <1>2, <1>3, <1>5, <1>8, <2>1, <2>2 DEF AdapterInv, ProbeSoFar, Succeeded
<1>10. ProbeIsJust'
  BY <1>5, <1>8 DEF AdapterInv, ProbeIsJust, Unset
<1>11. QED
  BY <1>6, <1>7, <1>9, <1>10 DEF AdapterInv, CallOK

LEMMA BeginStep ==
    ASSUME AdapterInv, NEW op \in Op, Begin(op)
    PROVE  AdapterInv'
<1>1. /\ call' = NewCall(op) /\ probe.stage = "off"
      /\ UNCHANGED <<family, cred, seedingSwitch, session, probe>>
  BY DEF Begin
<1>2. call' \in Call
  BY <1>1, NewCallMade DEF AdapterInv
<1>3. AdapterTypes'
  BY <1>1, <1>2 DEF AdapterInv, AdapterTypes
<1>4. CallOK'
  BY <1>1, NewCallOK
<1>5. Unset' = Unset
  BY <1>1, UnsetLasts
<1>6. ProbeSoFar' /\ ProbeIsJust'
  BY <1>1, <1>5 DEF AdapterInv, ProbeSoFar, ProbeIsJust, Unset
<1>7. QED
  BY <1>3, <1>4, <1>6 DEF AdapterInv, CallOK

LEMMA ProbeStartStep ==
    ASSUME AdapterInv, ProbeStart
    PROVE  AdapterInv'
<1>1. /\ call' = NewCall("query") /\ "query" \in Op
      /\ UNCHANGED <<family, cred, seedingSwitch, session>>
  BY DEF ProbeStart, Op
<1>2. /\ call' \in Call /\ call'.op = "query"
      /\ call'.result = Local(family, "query") /\ call'.lateStart = ~session
      /\ call'.req = IF Local(family, "query") = "pending"
                     THEN FirstRequest(family, "query") ELSE "none"
  BY <1>1, NewCallMade DEF AdapterInv
<1>3. Local(family, "query") \in {"Ok", "AuthFailed", "pending"}
      /\ FirstRequest(family, "query") # "none"
  BY <1>1, LocalAnswer DEF AdapterInv, AdapterTypes, FirstRequest
<1> DEFINE late == ~session
<1>4. probe' = [stage |-> "query", passed |-> FALSE, failed |-> FALSE,
                status |-> "unknown", refused |-> FALSE, lateStart |-> late]
      /\ late \in BOOLEAN
  BY DEF ProbeStart
<1>5. probe' \in Probe /\ probe'.stage = "query" /\ probe'.lateStart = ~session
  <2> HIDE DEF late
  <2>1. probe' \in Probe /\ probe'.stage = "query" /\ probe'.lateStart = late
    BY <1>4 DEF Probe
  <2>2. QED
    BY <2>1 DEF late
<1>6. AdapterTypes'
  BY <1>1, <1>2, <1>5 DEF AdapterInv, AdapterTypes
<1>7. CallOK'
  BY <1>1, NewCallOK
<1>8. Unset' = Unset /\ (Local(family, "query") = "AuthFailed" => Unset)
  BY <1>1, UnsetLasts DEF Unset
<1>9. ProbeSoFar'
  BY <1>1, <1>2, <1>3, <1>5, <1>8 DEF ProbeSoFar, Succeeded
<1>10. ProbeIsJust'
  BY <1>5 DEF ProbeIsJust
<1>11. QED
  BY <1>6, <1>7, <1>9, <1>10 DEF AdapterInv, CallOK

LEMMA ProbeUserInfoStep ==
    ASSUME AdapterInv, ProbeUserInfo
    PROVE  AdapterInv'
<1>1. /\ call' = NewCall("userinfo") /\ "userinfo" \in Op /\ call.req = "none"
      /\ UNCHANGED <<family, cred, seedingSwitch, session>> /\ probe.stage = "query"
  BY DEF ProbeUserInfo, Op
<1>2. call' \in Call /\ call'.op = "userinfo" /\ call'.lateStart = ~session
  BY <1>1, NewCallMade DEF AdapterInv
<1> DEFINE ok == Succeeded
           bad == ~Succeeded
<1>3. ok \in BOOLEAN /\ bad \in BOOLEAN /\ probe \in Probe
  BY DEF Succeeded, AdapterInv, AdapterTypes
<1>4. /\ probe' \in Probe /\ probe'.stage = "userinfo" /\ probe'.passed = ok
      /\ probe'.refused = probe.refused /\ probe'.lateStart = probe.lateStart
  <2>1. probe' = [probe EXCEPT !.stage = "userinfo", !.passed = ok, !.failed = bad]
    BY DEF ProbeUserInfo
  <2> HIDE DEF ok, bad
  <2>2. QED
    BY <1>3, <2>1 DEF Probe
<1>5. AdapterTypes'
  BY <1>1, <1>2, <1>4 DEF AdapterInv, AdapterTypes
<1>6. CallOK'
  BY <1>1, NewCallOK
<1>7. Unset' = Unset
  BY <1>1, UnsetLasts
<1>8. ProbeSoFar'
  BY <1>1, <1>2, <1>4, <1>7 DEF AdapterInv, ProbeSoFar
<1>9. ProbeIsJust'
  BY <1>4 DEF ProbeIsJust
<1>10. QED
  BY <1>5, <1>6, <1>8, <1>9 DEF AdapterInv, CallOK

LEMMA ProbePasskeyStep ==
    ASSUME AdapterInv, ProbePasskey
    PROVE  AdapterInv'
<1>1. /\ call' = NewCall("passkey") /\ "passkey" \in Op /\ call.req = "none"
      /\ UNCHANGED <<family, cred, seedingSwitch, session>> /\ probe.stage = "userinfo"
  BY DEF ProbePasskey, Op
<1>2. call' \in Call /\ call'.op = "passkey" /\ call'.lateStart = ~session
  BY <1>1, NewCallMade DEF AdapterInv
<1> DEFINE ok == probe.passed \/ call.fields # {}
           bad == probe.failed \/ ~Succeeded \/ call.fields # Field
<1>3. ok \in BOOLEAN /\ bad \in BOOLEAN /\ probe \in Probe
  BY DEF AdapterInv, AdapterTypes, Probe
<1>4. /\ probe' \in Probe /\ probe'.stage = "passkey" /\ probe'.passed = ok
      /\ probe'.failed = bad /\ probe'.refused = probe.refused
      /\ probe'.lateStart = probe.lateStart
  <2>1. probe' = [probe EXCEPT !.stage = "passkey", !.passed = ok, !.failed = bad]
    BY DEF ProbePasskey
  <2> HIDE DEF ok, bad
  <2>2. QED
    BY <1>3, <2>1 DEF Probe
<1>5. AdapterTypes'
  BY <1>1, <1>2, <1>4 DEF AdapterInv, AdapterTypes
<1>6. CallOK'
  BY <1>1, NewCallOK
<1>7. Unset' = Unset
  BY <1>1, UnsetLasts
<1>8. probe.lateStart => bad
  <2>1. probe.lateStart => call.fields = {}
    BY <1>1 DEF AdapterInv, ProbeSoFar, LateCall
  <2>2. {} # Field
    BY DEF Field
  <2>3. QED
    BY <2>1, <2>2
<1>9. ProbeSoFar'
  BY <1>1, <1>2, <1>4, <1>7, <1>8 DEF AdapterInv, ProbeSoFar
<1>10. ProbeIsJust'
  BY <1>4 DEF ProbeIsJust
<1>11. QED
  BY <1>5, <1>6, <1>9, <1>10 DEF AdapterInv, CallOK

LEMMA ProbeEndStep ==
    ASSUME AdapterInv, ProbeEnd
    PROVE  AdapterInv'
<1>1. /\ UNCHANGED <<family, cred, seedingSwitch, session, call>>
      /\ probe.stage = "passkey"
  BY DEF ProbeEnd
<1> DEFINE ok == probe.passed \/ call.result = "Ok"
           bad == probe.failed \/ ~Succeeded
           status == Overall(ok, bad)
<1>2. ok \in BOOLEAN /\ bad \in BOOLEAN /\ probe \in Probe
  BY DEF AdapterInv, AdapterTypes, Probe
<1>3. /\ status \in {"ok", "partial", "failed"}
      /\ status = "failed" => ~ok
      /\ status = "ok" => ~bad
  BY DEF Overall
<1>4. /\ probe' \in Probe /\ probe'.stage = "off" /\ probe'.status = status
      /\ probe'.refused = probe.refused /\ probe'.lateStart = probe.lateStart
  <2>1. probe' = [probe EXCEPT !.stage = "off", !.passed = ok, !.failed = bad,
                               !.status = status]
    BY DEF ProbeEnd
  <2> HIDE DEF ok, bad, status
  <2>2. QED
    BY <1>2, <1>3, <2>1 DEF Probe
<1>5. AdapterTypes'
  BY <1>1, <1>4 DEF AdapterInv, AdapterTypes
<1>6. CallOK'
  BY <1>1, SameCallOK
<1>7. Unset' = Unset
  BY <1>1, UnsetLasts
<1>8. ~ok => probe.refused \/ Unset
  BY <1>1 DEF AdapterInv, ProbeSoFar
<1>9. probe.lateStart => bad
  BY <1>1 DEF AdapterInv, ProbeSoFar
<1>10. ProbeSoFar'
  BY <1>4 DEF ProbeSoFar
<1>11. ProbeIsJust'
  <2> HIDE DEF ok, bad, status
  <2>1. probe'.status = "failed" => probe'.refused \/ Unset'
    BY <1>3, <1>4, <1>7, <1>8
  <2>2. probe'.status = "ok" => ~probe'.lateStart
    BY <1>3, <1>4, <1>9
  <2>3. QED
    BY <2>1, <2>2 DEF ProbeIsJust, Unset
<1>12. QED
  BY <1>5, <1>6, <1>10, <1>11 DEF AdapterInv, CallOK

-----------------------------------------------------------------------------
(* The theorems on adapters.                                               *)

LEMMA AdapterStart == AdapterInit => AdapterInv
<1> SUFFICES ASSUME AdapterInit PROVE AdapterInv
  OBVIOUS
<1>1. /\ call \in Call /\ call.op = "none" /\ call.req = "none" /\ ~call.lateStart
      /\ call.result = "pending"
  BY DEF AdapterInit, Call, Requests, Results
<1>2. probe \in Probe /\ probe.stage = "off" /\ probe.status = "unknown"
  BY DEF AdapterInit, Probe
<1>3. AdapterTypes
  BY <1>1, <1>2 DEF AdapterInit, AdapterTypes
<1>4. QED
  BY <1>1, <1>2, <1>3 DEF AdapterInv, LateCall, SubmittedIsStored, DeadSessionIsReported,
                          Ended, ProbeSoFar, ProbeIsJust

LEMMA AdapterKept == AdapterInv /\ [AdapterNext]_adapterVars => AdapterInv'
<1> SUFFICES ASSUME AdapterInv, [AdapterNext]_adapterVars PROVE AdapterInv'
  OBVIOUS
<1>1. CASE UNCHANGED adapterVars \/ Expire \/ Renew
  BY <1>1, SessionStep DEF adapterVars, Expire, Renew
<1>2. CASE \E op \in Op : Begin(op)
  BY <1>2, BeginStep
<1>3. CASE Reply \/ ProbeStart \/ ProbeUserInfo \/ ProbePasskey \/ ProbeEnd
  BY <1>3, ReplyStep, ProbeStartStep, ProbeUserInfoStep, ProbePasskeyStep, ProbeEndStep
<1>4. QED
  BY <1>1, <1>2, <1>3 DEF AdapterNext

LEMMA AdapterInvHolds == AdapterSpec => []AdapterInv
BY AdapterStart, AdapterKept, PTL DEF AdapterSpec

\* An upload that a NexusPHP or M-Team adapter reports as submitted is on the tracker,
\* whatever the tracker answered (nexusphp.rs, mteam.rs submit_torrent): the repost
\* queue marks its entry on the strength of it.
THEOREM SubmissionsAreStored == AdapterSpec => []SubmittedIsStored
<1>1. AdapterInv => SubmittedIsStored
  BY DEF AdapterInv
<1>2. QED
  BY <1>1, AdapterInvHolds, PTL

\* An operation that began on a dead session does not succeed, with a result or with
\* none, however many requests its script has, but for the named ones that take any
\* page for the answer and the two passkeys that may be reported as not found.
THEOREM DeadSessionsAreReported == AdapterSpec => []DeadSessionIsReported
<1>1. AdapterInv => DeadSessionIsReported
  BY DEF AdapterInv
<1>2. QED
  BY <1>1, AdapterInvHolds, PTL

\* A probe that fails met a refusal or a credential that is not configured, and one
\* that says "ok" began on a session that was alive (probe.rs).
THEOREM ProbesAreJust == AdapterSpec => []ProbeIsJust
<1>1. AdapterInv => ProbeIsJust
  BY DEF AdapterInv
<1>2. QED
  BY <1>1, AdapterInvHolds, PTL
=============================================================================
