---------------------------- MODULE RepostQueue ----------------------------
(***************************************************************************)
(* The repost queue: review, submission and batch submission of entries    *)
(* (crates/core/src/repost, crates/server/src/api/repost.rs).              *)
(*                                                                         *)
(* Every handler reads a row of repost_queue, decides on what it read, and *)
(* later overwrites the row: reads and writes are separate statements, no  *)
(* write is conditional, and the site is called in between.  Handlers and  *)
(* the repost task run side by side, each an actor here.  The target site  *)
(* may accept an upload whose answer never arrives.                        *)
(***************************************************************************)
EXTENDS Integers, FiniteSets

CONSTANTS Entries,      \* rows of repost_queue
          NoEntry,      \* not a row
          Actors,       \* concurrent handlers and repost tasks
          MaxRequests,  \* bound: requests and batches over a behaviour
          MaxCrashes    \* bound: times the process dies

ASSUME RepostQueueAssumption ==
    NoEntry \notin Entries /\ MaxRequests \in Nat /\ MaxCrashes \in Nat

VARIABLES
    row,      \* the table
    actor,    \* where each actor is, what it read, what it still has to do
    uploads,  \* how often the target site took the entry (the site's own state)
    approved, \* entries a review has approved at some time
    requests, crashes

vars == <<row, actor, uploads, approved, requests, crashes>>

Statuses == {"pending", "approved", "rejected", "submitted", "failed"}
Row == [status : Statuses \cup {"gone"}, adapted : BOOLEAN, stamped : BOOLEAN]
Points == {"idle", "adapt", "check", "decide", "pick", "load", "upload",
           "recordOk", "recordFailed"}
Targets == {"approved", "rejected"}
Actor == [at : Points, entry : Entries \cup {NoEntry}, read : Row,
          target : Targets, todo : SUBSET Entries]

Fresh == [status |-> "pending", adapted |-> FALSE, stamped |-> FALSE]
Idle == [at |-> "idle", entry |-> NoEntry, read |-> Fresh, target |-> "approved",
         todo |-> {}]

Init ==
    /\ row = [x \in Entries |-> Fresh]
    /\ actor = [a \in Actors |-> Idle]
    /\ uploads = [x \in Entries |-> 0] /\ approved = {}
    /\ requests = 0 /\ crashes = 0

Present(x) == row[x].status # "gone"
Step(a, s) == actor' = [actor EXCEPT ![a] = s]

\* update_repost_status: every column, whatever the row holds now; nothing
\* happens to a deleted row.
Write(x, status, adapted, stamped) ==
    row' = IF Present(x)
           THEN [row EXCEPT ![x] = [status |-> status, adapted |-> adapted,
                                    stamped |-> stamped]]
           ELSE row

\* A request arrives while the actor is free.
Arrives(a) ==
    /\ actor[a].at = "idle" /\ requests < MaxRequests
    /\ requests' = requests + 1

CanTransition(s, t) ==
    <<s, t>> \in {<<"pending", "approved">>, <<"pending", "rejected">>,
                  <<"approved", "submitted">>, <<"approved", "failed">>,
                  <<"failed", "approved">>}

-----------------------------------------------------------------------------
(* POST /repost/queue/:id/review: the handler, then review_entry.          *)

StartReview(a, x, t) ==
    /\ Arrives(a) /\ Present(x)
    /\ Step(a, [Idle EXCEPT !.at = IF t = "approved" THEN "adapt" ELSE "check",
                            !.entry = x, !.read = row[x], !.target = t])
    /\ UNCHANGED <<row, uploads, approved, crashes>>

\* Fault: the adapted info is built and not stored.
NothingStored(a) == actor[a].read.adapted
StoredInfo(a) == TRUE

\* build_adapted_json, then the status of the handler's own read is written back
\* with the adapted info, and submitted_at is cleared.
WriteBack(a) ==
    LET me == actor[a]
    IN  /\ me.at = "adapt"
        /\ Write(me.entry, me.read.status, StoredInfo(a), FALSE)
        /\ Step(a, [me EXCEPT !.at = "check"])
        /\ UNCHANGED <<uploads, approved, requests, crashes>>

\* The adapted info cannot be built, or the database refuses a statement.
ReviewFails(a) ==
    /\ actor[a].at \in {"adapt", "check", "decide"}
    /\ Step(a, Idle)
    /\ UNCHANGED <<row, uploads, approved, requests, crashes>>

\* review_entry reads again and refuses an illegal transition.
Check(a) ==
    LET me == actor[a]
    IN  /\ me.at = "check"
        /\ IF Present(me.entry) /\ CanTransition(row[me.entry].status, me.target)
           THEN Step(a, [me EXCEPT !.at = "decide", !.read = row[me.entry]])
           ELSE Step(a, Idle)
        /\ UNCHANGED <<row, uploads, approved, requests, crashes>>

Decide(a) ==
    LET me == actor[a]
    IN  /\ me.at = "decide"
        /\ Write(me.entry, me.target, me.read.adapted, FALSE)
        /\ approved' = IF me.target = "approved" /\ Present(me.entry)
                       THEN approved \cup {me.entry} ELSE approved
        /\ Step(a, Idle)
        /\ UNCHANGED <<uploads, requests, crashes>>

-----------------------------------------------------------------------------
(* submit_entry, for one entry or for each of a batch.                     *)

StartSubmit(a, x) ==
    /\ Arrives(a)
    /\ Step(a, [Idle EXCEPT !.at = "load", !.entry = x])
    /\ UNCHANGED <<row, uploads, approved, crashes>>

\* submit_batch: the entries approved now, less those that the task's sites and
\* limit leave out.
StartBatch(a, batch) ==
    /\ Arrives(a)
    /\ batch \subseteq {x \in Entries : row[x].status = "approved"}
    /\ Step(a, [Idle EXCEPT !.at = "pick", !.todo = batch])
    /\ UNCHANGED <<row, uploads, approved, crashes>>

\* Fault: the entry taken up stays on the list.
KeptListed(todo, x) == todo
Remaining(todo, x) == todo \ {x}

Pick(a) ==
    LET me == actor[a]
    IN  /\ me.at = "pick"
        /\ \/ me.todo = {} /\ Step(a, Idle)
           \/ \E x \in me.todo : Step(a, [me EXCEPT !.at = "load", !.entry = x,
                                                    !.todo = Remaining(@, x)])
        /\ UNCHANGED <<row, uploads, approved, requests, crashes>>

\* Fault: the batch ends with the first entry that cannot be submitted.
StopsBatch(me) == [me EXCEPT !.at = "pick", !.todo = {}]
Continued(me) == [me EXCEPT !.at = "pick"]

\* Fault: any status but "submitted" will do.
AnythingUnsent(r) == r.status # "submitted"
Ready(r) == r.status = "approved"

\* Only what was read here decides: an approved entry with its adapted info.
Load(a) ==
    LET me == actor[a]
    IN  /\ me.at = "load"
        /\ IF Present(me.entry) /\ Ready(row[me.entry]) /\ row[me.entry].adapted
           THEN Step(a, [me EXCEPT !.at = "upload", !.read = row[me.entry]])
           ELSE Step(a, Continued(me))
        /\ UNCHANGED <<row, uploads, approved, requests, crashes>>

\* submit_torrent waits for the rate limiter and calls the site: it answers, or
\* it does not take the upload, or it takes it and the answer is lost.
Upload(a) ==
    LET me == actor[a]
    IN  /\ me.at = "upload"
        /\ \E taken, answered \in BOOLEAN :
              /\ answered => taken
              /\ uploads' = IF taken THEN [uploads EXCEPT ![me.entry] = @ + 1]
                            ELSE uploads
              /\ Step(a, [me EXCEPT !.at = IF answered THEN "recordOk"
                                           ELSE "recordFailed"])
        /\ UNCHANGED <<row, approved, requests, crashes>>

\* Fault: the failed upload is recorded like the successful one.
SubmittedAnyway(a) == "submitted"
Outcome(a) == IF actor[a].at = "recordOk" THEN "submitted" ELSE "failed"

\* The outcome is written over the row as it was read before the upload.
Record(a) ==
    LET me == actor[a]
    IN  /\ me.at \in {"recordOk", "recordFailed"}
        /\ Write(me.entry, Outcome(a), me.read.adapted, me.at = "recordOk")
        /\ Step(a, Continued(me))
        /\ UNCHANGED <<uploads, approved, requests, crashes>>

\* The database refuses the outcome; submit_entry fails and the row stays.
RecordFails(a) ==
    /\ actor[a].at \in {"recordOk", "recordFailed"}
    /\ Step(a, Continued(actor[a]))
    /\ UNCHANGED <<row, uploads, approved, requests, crashes>>

\* DELETE /repost/queue/:id.
Delete(x) ==
    /\ Present(x)
    /\ row' = [row EXCEPT ![x] = [Fresh EXCEPT !.status = "gone"]]
    /\ UNCHANGED <<actor, uploads, approved, requests, crashes>>

\* Nothing but the table survives, and nothing resumes what an actor was doing.
Crash ==
    /\ crashes < MaxCrashes
    /\ crashes' = crashes + 1
    /\ actor' = [a \in Actors |-> Idle]
    /\ UNCHANGED <<row, uploads, approved, requests>>

Work(a) ==
    \/ WriteBack(a)
    \/ ReviewFails(a)
    \/ Check(a)
    \/ Decide(a)
    \/ Pick(a)
    \/ Load(a)
    \/ Upload(a)
    \/ Record(a)
    \/ RecordFails(a)

Next ==
    \/ \E a \in Actors :
          \/ \E x \in Entries :
                \/ \E t \in Targets : StartReview(a, x, t)
                \/ StartSubmit(a, x)
          \/ \E batch \in SUBSET Entries : StartBatch(a, batch)
          \/ Work(a)
    \/ \E x \in Entries : Delete(x)
    \/ Crash

Spec == Init /\ [][Next]_vars

\* Handlers and tasks keep being polled, and the site is called with a time-out.
FairSpec == Spec /\ \A a \in Actors : WF_vars(Work(a))

-----------------------------------------------------------------------------
(* Properties.                                                             *)

\* Rows, locals and counters stay within their types.
TypeOK ==
    /\ row \in [Entries -> Row]
    /\ actor \in [Actors -> Actor]
    /\ uploads \in [Entries -> Nat]
    /\ approved \subseteq Entries
    /\ requests \in 0 .. MaxRequests /\ crashes \in 0 .. MaxCrashes

\* The queue never claims a submission that did not happen: whatever is written
\* back over it and whoever dies, a "submitted" row was taken by the site.
SubmittedWasUploaded ==
    \A x \in Entries : row[x].status = "submitted" => uploads[x] > 0

\* Nothing reaches a target site that no review has approved.
UploadedWasApproved == \A x \in Entries : uploads[x] > 0 => x \in approved

\* An approved entry carries the adapted info that autofill and submission need,
\* whichever reviews race (api/repost.rs:282).
ApprovedIsAdapted ==
    \A x \in Entries : row[x].status = "approved" => row[x].adapted

\* "A failure in one entry does not stop the rest" (submitter.rs:179): an entry
\* leaves a batch only by being taken up, unless the process dies.
BatchTakesEveryEntry ==
    [][\A a \in Actors : \A x \in actor[a].todo \ actor'[a].todo :
          actor'[a].entry = x \/ crashes' # crashes]_vars

\* Every review, submission and batch comes to an end.
ActorsFinish == \A a \in Actors : actor[a].at # "idle" ~> actor[a].at = "idle"

(* What the repository says and the code does not do.                      *)

\* submitter.rs:126 "entry must be approved before submission": the site is only
\* given an entry that is approved at that moment.
UploadsOnlyApproved ==
    [][\A x \in Entries :
          uploads'[x] # uploads[x] => row[x].status = "approved"]_vars

=============================================================================
