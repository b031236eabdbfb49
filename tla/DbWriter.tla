------------------------------ MODULE DbWriter ------------------------------
(***************************************************************************)
(* The asynchronous SQLite writer of crates/core/src/db/writer.rs.         *)
(*                                                                         *)
(* Callers push write operations into a bounded mpsc channel.  One task    *)
(* receives them, collects a batch, and commits the batch in a single      *)
(* transaction; when that fails it retries operation by operation.  A      *)
(* Flush message carries a oneshot responder: its caller is told Ok once   *)
(* everything taken from the channel before it has been flushed.  A        *)
(* residual failure ends the writer for the rest of the process's life.    *)
(*                                                                         *)
(* A message is known by its position in `sent`, the history of everything *)
(* the channel accepted; the channel itself is the suffix of `sent` after  *)
(* `taken`.  What an operation writes is abstracted: the database either   *)
(* commits it or refuses it (a foreign key that no longer exists, a busy   *)
(* database after the 5 s timeout, a full disk).                           *)
(***************************************************************************)
EXTENDS Integers, Sequences, FiniteSets

CONSTANTS Callers,      \* clones of DbWriterHandle in use
          Capacity,     \* bound of the mpsc channel (1024 in the code)
          BatchSize,    \* largest batch collected without blocking (100)
          MaxMessages,  \* bound: messages sent over a whole behaviour
          MaxCrashes    \* bound: process crashes over a whole behaviour

ASSUME DbWriterAssumption ==
    /\ Capacity \in Nat \ {0}
    /\ BatchSize \in Nat
    /\ MaxMessages \in Nat
    /\ MaxCrashes \in Nat

VARIABLES
    sent,       \* messages the channel has accepted, in order
    taken,      \* how many of them the writer has received
    base,       \* Len(sent) when the current process started
    wpc,        \* where the writer task is
    resume,     \* the receive point flush_buffer returns to
    buffer,     \* positions of the operations collected and not yet executed
    responder,  \* position of the Flush being served, 0 if none
    failed,     \* did an operation fail in the current fallback?
    table,      \* committed operations, in commit order (survives a crash)
    refused,    \* operations the database refused on their own
    call,       \* what each caller is doing
    promised,   \* operations some caller was told are flushed
    crashes

wvars == <<wpc, resume, buffer, responder, failed>>
vars == <<sent, taken, base, wvars, table, refused, call, promised, crashes>>

Kinds == {"op", "flush"}
Message == [kind : Kinds, from : Callers]
WriterPoints == {"connect", "recv", "collect", "write", "fallback", "ack",
                 "dead", "exited"}
CallPoints == {"idle", "sendOp", "sendFlush", "awaitAck", "dropped"}

Committed == {table[i] : i \in DOMAIN table}
Buffered == {buffer[i] : i \in DOMAIN buffer}
Backlog == Len(sent) - taken
IsOp(p) == sent[p].kind = "op"
Positions == 1 .. Len(sent)

\* The receiver is dropped when run_loop returns: every send fails from then
\* on, and the responders still queued are dropped with it.
ReceiverGone == wpc \in {"dead", "exited"}

Init ==
    /\ sent = <<>> /\ taken = 0 /\ base = 0
    /\ wpc = "connect" /\ resume = "recv"
    /\ buffer = <<>> /\ responder = 0 /\ failed = FALSE
    /\ table = <<>> /\ refused = {}
    /\ call = [c \in Callers |-> "idle"]
    /\ promised = {} /\ crashes = 0

-----------------------------------------------------------------------------
(* The callers: DbWriterHandle::send and DbWriterHandle::flush.            *)

Pending == {c \in Callers : call[c] \in {"sendOp", "sendFlush"}}

StartSend(c) ==
    /\ call[c] = "idle"
    /\ Len(sent) + Cardinality(Pending) < MaxMessages
    /\ call' = [call EXCEPT ![c] = "sendOp"]
    /\ UNCHANGED <<sent, taken, base, wvars, table, refused, promised, crashes>>

StartFlush(c) ==
    /\ call[c] = "idle"
    /\ Len(sent) + Cardinality(Pending) < MaxMessages
    /\ call' = [call EXCEPT ![c] = "sendFlush"]
    /\ UNCHANGED <<sent, taken, base, wvars, table, refused, promised, crashes>>

HasRoom == Backlog < Capacity

\* The channel takes the message once it has room; a flush then waits on its
\* oneshot, a send is finished.
ChannelAccepts(c) ==
    /\ c \in Pending
    /\ ~ReceiverGone
    /\ HasRoom
    /\ sent' = Append(sent, [kind |-> IF call[c] = "sendOp" THEN "op" ELSE "flush",
                             from |-> c])
    /\ call' = [call EXCEPT ![c] = IF @ = "sendOp" THEN "idle" ELSE "awaitAck"]
    /\ UNCHANGED <<taken, base, wvars, table, refused, promised, crashes>>

\* send fails on a closed channel, and a flush whose responder was dropped
\* unanswered fails too: both return WriterChannelClosed.
WriterChannelClosed(c) ==
    /\ c \in Pending \/ call[c] = "awaitAck"
    /\ ReceiverGone
    /\ call' = [call EXCEPT ![c] = "idle"]
    /\ UNCHANGED <<sent, taken, base, wvars, table, refused, promised, crashes>>

DropHandle(c) ==
    /\ call[c] = "idle"
    /\ call' = [call EXCEPT ![c] = "dropped"]
    /\ UNCHANGED <<sent, taken, base, wvars, table, refused, promised, crashes>>

-----------------------------------------------------------------------------
(* The writer task: run_loop and flush_buffer.                             *)

Connect(ok) ==
    /\ wpc = "connect"
    /\ wpc' = IF ok THEN "recv" ELSE "dead"
    /\ UNCHANGED <<sent, taken, base, resume, buffer, responder, failed, table,
                   refused, call, promised, crashes>>

Receiving ==
    \/ wpc = "recv"
    \/ wpc = "collect" /\ Len(buffer) < BatchSize

\* Fault: the buffer is filled from the front.
PushedInFront == <<taken + 1>> \o buffer
Pushed == Append(buffer, taken + 1)

\* An operation, whether recv waited for it or try_recv found it.
TakeOp ==
    /\ Receiving
    /\ Backlog > 0 /\ IsOp(taken + 1)
    /\ taken' = taken + 1
    /\ buffer' = Pushed
    /\ wpc' = "collect"
    /\ UNCHANGED <<sent, base, resume, responder, failed, table, refused, call,
                   promised, crashes>>

ServeFlush == IF buffer = <<>> THEN "ack" ELSE "write"

\* A Flush: flush_buffer runs at once (a no-op on an empty buffer), then the
\* responder is answered and the loop the message came from continues.
TakeFlush ==
    /\ Receiving
    /\ Backlog > 0 /\ ~IsOp(taken + 1)
    /\ taken' = taken + 1
    /\ responder' = taken + 1
    /\ resume' = wpc
    /\ wpc' = ServeFlush
    /\ UNCHANGED <<sent, base, buffer, failed, table, refused, call, promised,
                   crashes>>

\* Fault: the writer waits until the batch is full.
OnlyFullBatch == Len(buffer) >= BatchSize
BatchReady == Len(buffer) >= BatchSize \/ Backlog = 0

\* The batch is full or the channel is empty.
EndCollect ==
    /\ wpc = "collect"
    /\ BatchReady
    /\ wpc' = IF buffer = <<>> THEN "recv" ELSE "write"
    /\ resume' = "recv"
    /\ UNCHANGED <<sent, taken, base, buffer, responder, failed, table, refused,
                   call, promised, crashes>>

AfterFlush == IF responder = 0 THEN resume ELSE "ack"

\* One transaction for the whole batch: all of it commits, or none of it and
\* the fallback starts.
CommitBatch ==
    /\ wpc = "write"
    /\ table' = table \o buffer
    /\ buffer' = <<>>
    /\ wpc' = AfterFlush
    /\ UNCHANGED <<sent, taken, base, resume, responder, failed, refused, call,
                   promised, crashes>>

\* Fault: no transaction around the batch, its first row stays behind.
BatchFailsHalfway ==
    /\ wpc = "write"
    /\ wpc' = "fallback"
    /\ failed' = FALSE
    /\ table' = Append(table, Head(buffer))
    /\ UNCHANGED <<sent, taken, base, resume, buffer, responder, refused, call,
                   promised, crashes>>
BatchFails ==
    /\ wpc = "write"
    /\ wpc' = "fallback"
    /\ failed' = FALSE
    /\ UNCHANGED <<sent, taken, base, resume, buffer, responder, table, refused,
                   call, promised, crashes>>

\* Fault: the fallback stops after its first operation.
NothingLeft == <<>>
RestOfBatch == Tail(buffer)

\* The next operation of the batch in a transaction of its own.
FallbackCommit ==
    /\ wpc = "fallback" /\ buffer # <<>>
    /\ table' = Append(table, Head(buffer))
    /\ buffer' = RestOfBatch
    /\ UNCHANGED <<sent, taken, base, wpc, resume, responder, failed, refused,
                   call, promised, crashes>>

FallbackRefuse ==
    /\ wpc = "fallback" /\ buffer # <<>>
    /\ refused' = refused \cup {Head(buffer)}
    /\ failed' = TRUE
    /\ buffer' = RestOfBatch
    /\ UNCHANGED <<sent, taken, base, wpc, resume, responder, table, call,
                   promised, crashes>>

\* Fault: residual failures are only logged.
CarryOn == AfterFlush
AfterFallback == IF failed THEN "dead" ELSE AfterFlush

\* A residual failure is returned by flush_buffer, and `?` ends run_loop.
EndFallback ==
    /\ wpc = "fallback" /\ buffer = <<>>
    /\ wpc' = AfterFallback
    /\ UNCHANGED <<sent, taken, base, resume, buffer, responder, failed, table,
                   refused, call, promised, crashes>>

\* The operations an acknowledgement of the Flush at position p vouches for:
\* everything this process had accepted before it.
CoveredBy(p) == {q \in base + 1 .. p : IsOp(q)}

Acknowledge ==
    /\ wpc = "ack"
    /\ promised' = promised \cup CoveredBy(responder)
    /\ call' = [call EXCEPT ![sent[responder].from] = "idle"]
    /\ responder' = 0
    /\ wpc' = resume
    /\ UNCHANGED <<sent, taken, base, resume, buffer, failed, table, refused,
                   crashes>>

\* recv returns None: every handle is dropped and the channel is drained.
ChannelClosed ==
    /\ wpc = "recv" /\ Backlog = 0
    /\ \A c \in Callers : call[c] = "dropped"
    /\ wpc' = "exited"
    /\ UNCHANGED <<sent, taken, base, resume, buffer, responder, failed, table,
                   refused, call, promised, crashes>>

-----------------------------------------------------------------------------
\* The process dies and is started again: what was not committed is gone.
Crash ==
    /\ crashes < MaxCrashes
    /\ crashes' = crashes + 1
    /\ base' = Len(sent) /\ taken' = Len(sent)
    /\ wpc' = "connect" /\ resume' = "recv"
    /\ buffer' = <<>> /\ responder' = 0 /\ failed' = FALSE
    /\ call' = [c \in Callers |-> "idle"]
    /\ UNCHANGED <<sent, table, refused, promised>>

WriterStep ==
    \/ \E ok \in BOOLEAN : Connect(ok)
    \/ TakeOp \/ TakeFlush \/ EndCollect
    \/ CommitBatch \/ BatchFails
    \/ FallbackCommit \/ FallbackRefuse \/ EndFallback
    \/ Acknowledge \/ ChannelClosed

CallStep(c) == ChannelAccepts(c) \/ WriterChannelClosed(c)

Next ==
    \/ \E c \in Callers : StartSend(c) \/ StartFlush(c) \/ DropHandle(c)
    \/ \E c \in Callers : CallStep(c)
    \/ WriterStep
    \/ Crash

Spec == Init /\ [][Next]_vars

\* The runtime keeps polling the writer task, and a caller waiting on the
\* channel or on its oneshot is woken; nobody is obliged to call.
FairSpec == /\ Spec
            /\ WF_vars(WriterStep)
            /\ \A c \in Callers : WF_vars(CallStep(c))

-----------------------------------------------------------------------------
(* Properties.                                                             *)

\* The types, the channel's capacity (mpsc::channel(1024)) and the batch bound
\* of the collecting loop.
TypeOK ==
    /\ sent \in Seq(Message)
    /\ taken \in Nat /\ base \in Nat /\ base <= taken /\ taken <= Len(sent)
    /\ Backlog <= Capacity
    /\ wpc \in WriterPoints /\ resume \in {"recv", "collect"}
    /\ buffer \in Seq(Nat) /\ (Len(buffer) <= BatchSize \/ Len(buffer) <= 1)
    /\ responder \in 0 .. taken /\ failed \in BOOLEAN
    /\ table \in Seq(Nat) /\ refused \subseteq Nat
    /\ call \in [Callers -> CallPoints]
    /\ promised \subseteq Nat /\ crashes \in 0 .. MaxCrashes

\* An acknowledged flush is never a lie: whatever a caller was told is flushed
\* is in the database, also after a crash ("so callers (e.g. flush) do not
\* treat silent data loss as success", writer.rs:186-188).
PromisedIsDurable == promised \subseteq Committed

\* Rows are committed in the order the channel accepted them and never twice,
\* although a batch may be retried operation by operation (flush_buffer).
RowsInOrder == \A i, j \in DOMAIN table : i < j => table[i] < table[j]

\* An operation this process received and no longer holds is committed, or the
\* database refused that very operation: "one bad op does not drop the rest of
\* the batch" (writer.rs:186).
OnlyRefusedAreDropped ==
    \A p \in base + 1 .. taken :
        IsOp(p) => p \in Committed \cup refused \cup Buffered

\* The writer keeps the promise of DurableLog: every step of the channel, of
\* the batching writer and of a crash is a step of the promise or a stutter.
Submissions == [p \in Positions |-> sent[p].kind]
Promise == INSTANCE DurableLog
             WITH submitted <- Submissions,
                  since <- base, durable <- table, vouched <- promised
ImplementsDurableLog == Promise!DSpec

\* An accepted operation does not linger: it is committed or refused, unless
\* the writer or the process dies first.  No later message is needed to push a
\* partly filled batch out.
OperationSettles ==
    \A p \in 1 .. MaxMessages :
        (p \in Positions /\ IsOp(p)) ~> \/ p \in Committed \cup refused
                                        \/ p <= base \/ ReceiverGone
=============================================================================
