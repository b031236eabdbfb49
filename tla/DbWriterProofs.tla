--------------------------- MODULE DbWriterProofs ---------------------------
(***************************************************************************)
(* For every number of callers, channel bound, batch bound and number of   *)
(* crashes: the writer keeps its types and bounds, an acknowledged flush   *)
(* is never a lie, and rows are committed once, in submission order.       *)
(*                                                                         *)
(* PromisedIsDurable is not inductive: that the operations before a Flush  *)
(* are committed when it is acknowledged needs to know where every         *)
(* received operation is (OnlyRefusedAreDropped), that a refusal leaves    *)
(* the writer in a state that never acknowledges (RefusalIsFatal), and     *)
(* that nothing is buffered at that point (ControlOK).  RowsInOrder needs  *)
(* the order of the buffer and that it lies after the table (QueueInOrder).*)
(***************************************************************************)
EXTENDS DbWriter, TLAPS

ControlOK ==
    /\ wpc \in {"connect", "recv", "ack"} => buffer = <<>>
    /\ wpc \in {"connect", "recv", "collect"} => responder = 0
    /\ wpc = "ack" => responder # 0
    /\ responder # 0 => responder = taken /\ sent[responder].kind = "flush"

QueueInOrder ==
    /\ \A i, j \in DOMAIN buffer : i < j => buffer[i] < buffer[j]
    /\ \A i \in DOMAIN buffer : buffer[i] \in base + 1 .. taken
    /\ \A i \in DOMAIN table : table[i] <= taken
    /\ \A i \in DOMAIN table, j \in DOMAIN buffer : table[i] < buffer[j]

RefusalIsFatal ==
    \A p \in refused : /\ p <= taken
                       /\ p > base => wpc = "dead" \/ (wpc = "fallback" /\ failed)

IInv ==
    /\ TypeOK
    /\ ControlOK
    /\ QueueInOrder
    /\ RowsInOrder
    /\ OnlyRefusedAreDropped
    /\ RefusalIsFatal
    /\ PromisedIsDurable

-----------------------------------------------------------------------------
(* Type correctness.                                                       *)

\* What the type invariant needs to know of the control state.
TypeInv == TypeOK /\ ControlOK

LEMMA InitTypeInv == Init => TypeInv
<1> SUFFICES ASSUME Init PROVE TypeInv
  OBVIOUS
<1>1. sent \in Seq(Message) /\ Len(sent) = 0
  BY DEF Init
<1>2. buffer \in Seq(Nat) /\ Len(buffer) = 0 /\ table \in Seq(Nat)
  BY DEF Init
<1>3. TypeOK
  <2>1. taken = 0 /\ base = 0 /\ responder = 0 /\ failed \in BOOLEAN
        /\ wpc \in WriterPoints /\ resume \in {"recv", "collect"}
    BY DEF Init, WriterPoints
  <2>2. call \in [Callers -> CallPoints] /\ refused \subseteq Nat
        /\ promised \subseteq Nat /\ crashes = 0
    BY DEF Init, CallPoints
  <2>3. QED
    <3>1. Backlog <= Capacity /\ base <= taken /\ taken <= Len(sent)
      BY <1>1, <2>1, DbWriterAssumption DEF Backlog
    <3>2. Len(buffer) <= BatchSize /\ crashes \in 0 .. MaxCrashes
      BY <1>2, <2>2, DbWriterAssumption
    <3>3. QED
      BY <1>1, <1>2, <2>1, <2>2, <3>1, <3>2 DEF TypeOK
<1>4. ControlOK
  BY DEF Init, ControlOK
<1>5. QED
  BY <1>3, <1>4 DEF TypeInv

LEMMA NextTypeInv == TypeInv /\ [Next]_vars => TypeInv'
<1> SUFFICES ASSUME TypeInv, [Next]_vars PROVE TypeInv'
  OBVIOUS
<1> USE DbWriterAssumption
    DEF TypeInv, TypeOK, ControlOK, Backlog, Kinds, WriterPoints, CallPoints,
        wvars, IsOp
<1>1. ASSUME NEW c \in Callers, StartSend(c) \/ StartFlush(c) \/ DropHandle(c)
      PROVE  TypeInv'
  BY <1>1 DEF StartSend, StartFlush, DropHandle
<1>2. ASSUME NEW c \in Callers, ChannelAccepts(c)
      PROVE  TypeInv'
  <2>1. PICK m \in Message : sent' = Append(sent, m)
    BY <1>2 DEF ChannelAccepts, Message
  <2>2. /\ sent' \in Seq(Message) /\ Len(sent') = Len(sent) + 1
        /\ \A p \in 1 .. Len(sent) : sent'[p] = sent[p]
    BY <2>1
  <2>3. QED
    BY <1>2, <2>2 DEF ChannelAccepts, HasRoom, Pending
<1>3. ASSUME NEW c \in Callers, WriterChannelClosed(c)
      PROVE  TypeInv'
  BY <1>3 DEF WriterChannelClosed, Pending
<1>4. ASSUME NEW ok \in BOOLEAN, Connect(ok)
      PROVE  TypeInv'
  BY <1>4 DEF Connect
<1>5. CASE TakeOp
  BY <1>5 DEF TakeOp, Receiving, Pushed
<1>6. CASE TakeFlush
  <2>1. taken + 1 \in 1 .. Len(sent) /\ sent[taken + 1].kind = "flush"
    <3>1. taken + 1 \in 1 .. Len(sent) /\ sent[taken + 1].kind # "op"
      BY <1>6 DEF TakeFlush
    <3>2. sent[taken + 1] \in Message
      BY <3>1
    <3>3. QED
      BY <3>1, <3>2 DEF Message
  <2>2. QED
    BY <1>6, <2>1 DEF TakeFlush, Receiving, ServeFlush
<1>7. CASE EndCollect
  BY <1>7 DEF EndCollect
<1>8. CASE CommitBatch
  BY <1>8 DEF CommitBatch, AfterFlush
<1>9. CASE BatchFails
  BY <1>9 DEF BatchFails
<1>10. CASE FallbackCommit
  <2>1. Head(buffer) \in Nat /\ Tail(buffer) \in Seq(Nat)
        /\ Len(Tail(buffer)) = Len(buffer) - 1
    BY <1>10 DEF FallbackCommit
  <2>2. QED
    BY <1>10, <2>1 DEF FallbackCommit, RestOfBatch
<1>11. CASE FallbackRefuse
  <2>1. Head(buffer) \in Nat /\ Tail(buffer) \in Seq(Nat)
        /\ Len(Tail(buffer)) = Len(buffer) - 1
    BY <1>11 DEF FallbackRefuse
  <2>2. refused' \subseteq Nat
    BY <1>11, <2>1 DEF FallbackRefuse
  <2>3. QED
    BY <1>11, <2>1, <2>2 DEF FallbackRefuse, RestOfBatch
<1>12. CASE EndFallback
  BY <1>12 DEF EndFallback, AfterFallback, AfterFlush
<1>13. CASE Acknowledge
  <2>1. CoveredBy(responder) \subseteq Nat
    BY DEF CoveredBy
  <2>4. promised' \subseteq Nat
    BY <1>13, <2>1 DEF Acknowledge
  <2>2. call' \in [Callers -> CallPoints]
    BY <1>13 DEF Acknowledge
  <2>3. QED
    BY <1>13, <2>4, <2>2 DEF Acknowledge
<1>14. CASE ChannelClosed
  BY <1>14 DEF ChannelClosed
<1>15. CASE Crash
  <2>1. buffer' \in Seq(Nat) /\ Len(buffer') = 0
        /\ call' \in [Callers -> CallPoints]
        /\ Len(sent) \in Nat /\ base' = Len(sent) /\ taken' = Len(sent)
    BY <1>15 DEF Crash
  <2>2. Backlog' <= Capacity /\ crashes' \in 0 .. MaxCrashes
    BY <1>15, <2>1 DEF Crash
  <2>6. failed' \in BOOLEAN
    BY <1>15 DEF Crash
  <2>3. ControlOK'
    BY <1>15, <2>1 DEF Crash
  <2>4. TypeOK'
    BY <1>15, <2>1, <2>2, <2>6 DEF Crash
  <2>5. QED
    BY <2>3, <2>4
<1>16. CASE UNCHANGED vars
  BY <1>16 DEF vars
<1>17. QED
  BY <1>1, <1>2, <1>3, <1>4, <1>5, <1>6, <1>7, <1>8, <1>9, <1>10, <1>11,
     <1>12, <1>13, <1>14, <1>15, <1>16 DEF Next, CallStep, WriterStep

\* The writer's variables keep their types, the channel its capacity and the
\* buffer its batch bound, for every value of the constants.
THEOREM TypeCorrect == Spec => []TypeOK
<1>1. Spec => []TypeInv
  BY InitTypeInv, NextTypeInv, PTL DEF Spec
<1>2. TypeInv => TypeOK
  BY DEF TypeInv
<1>3. QED
  BY <1>1, <1>2, PTL

-----------------------------------------------------------------------------
(* The inductive invariant.                                                *)

LEMMA InitIInv == Init => IInv
<1> SUFFICES ASSUME Init PROVE IInv
  OBVIOUS
<1>1. TypeOK /\ ControlOK
  BY InitTypeInv DEF TypeInv
<1>2. buffer = <<>> /\ table = <<>> /\ refused = {} /\ promised = {}
      /\ base = 0 /\ taken = 0
  BY DEF Init
<1>3. QueueInOrder /\ RowsInOrder
  BY <1>2 DEF QueueInOrder, RowsInOrder
<1>4. OnlyRefusedAreDropped /\ RefusalIsFatal /\ PromisedIsDurable
  BY <1>2 DEF OnlyRefusedAreDropped, RefusalIsFatal, PromisedIsDurable
<1>5. QED
  BY <1>1, <1>3, <1>4 DEF IInv

\* A step that leaves the operations where they are keeps everything but
\* RefusalIsFatal, which also depends on the writer's control point.
LEMMA OperationsStay ==
  ASSUME IInv, TypeInv', Len(sent) <= Len(sent'),
         \A p \in Positions : sent'[p] = sent[p],
         UNCHANGED <<base, buffer, table, refused>>,
         taken <= taken',
         \A p \in taken + 1 .. taken' : ~IsOp(p),
         taken' <= Len(sent),
         promised' \subseteq Committed,
         RefusalIsFatal'
  PROVE  IInv'
<1> USE DEF IInv, TypeInv
<1>1. taken \in Nat /\ taken' \in Nat /\ base \in Nat /\ sent \in Seq(Message)
  BY DEF TypeOK
<1>2. QueueInOrder'
  BY <1>1 DEF QueueInOrder, TypeOK
<1>3. RowsInOrder'
  BY DEF RowsInOrder
<1>4. OnlyRefusedAreDropped'
  <2> SUFFICES ASSUME NEW p \in base + 1 .. taken', IsOp(p)'
               PROVE  p \in Committed \cup refused \cup Buffered
    BY DEF OnlyRefusedAreDropped, Committed, Buffered
  <2>1. p \in Positions
    BY <1>1 DEF Positions
  <2>2. IsOp(p)
    BY <2>1 DEF IsOp
  <2>3. p \in base + 1 .. taken
    BY <2>2, <1>1
  <2>4. QED
    BY <2>2, <2>3 DEF OnlyRefusedAreDropped
<1>5. PromisedIsDurable'
  BY DEF PromisedIsDurable, Committed
<1>6. QED
  BY <1>2, <1>3, <1>4, <1>5

LEMMA TakeOpKeepsIInv == IInv /\ TypeInv' /\ TakeOp => IInv'
<1> SUFFICES ASSUME IInv, TypeInv', TakeOp PROVE IInv'
  OBVIOUS
<1> USE DEF IInv, TypeInv, TakeOp
<1>1. /\ taken \in Nat /\ base \in Nat /\ base <= taken
      /\ buffer \in Seq(Nat) /\ taken' = taken + 1
  BY DEF TypeOK
<1>2. /\ buffer' \in Seq(Nat) /\ Len(buffer') = Len(buffer) + 1
      /\ \A i \in 1 .. Len(buffer) : buffer'[i] = buffer[i]
      /\ buffer'[Len(buffer) + 1] = taken + 1
  BY <1>1 DEF Pushed
<1>3. DOMAIN buffer = 1 .. Len(buffer) /\ DOMAIN buffer' = 1 .. Len(buffer) + 1
  BY <1>1, <1>2
<1>4. QueueInOrder'
  <2>1. ASSUME NEW i \in DOMAIN buffer', NEW j \in DOMAIN buffer', i < j
        PROVE  buffer'[i] < buffer'[j]
    <3>1. i \in DOMAIN buffer /\ buffer'[i] = buffer[i] /\ buffer[i] \in base + 1 .. taken
      BY <2>1, <1>1, <1>2, <1>3 DEF QueueInOrder
    <3>2. CASE j \in DOMAIN buffer
      BY <2>1, <3>1, <3>2, <1>2, <1>3 DEF QueueInOrder
    <3>3. CASE j = Len(buffer) + 1
      BY <3>1, <3>3, <1>1, <1>2
    <3>4. QED
      BY <3>2, <3>3, <1>1, <1>3
  <2>2. \A i \in DOMAIN buffer' : buffer'[i] \in base + 1 .. taken'
    BY <1>1, <1>2, <1>3 DEF QueueInOrder
  <2>3. \A i \in DOMAIN table : table[i] \in Nat
    BY DEF TypeOK
  <2>4. /\ \A i \in DOMAIN table : table[i] <= taken'
        /\ \A i \in DOMAIN table, j \in DOMAIN buffer' : table[i] < buffer'[j]
    BY <1>1, <1>2, <1>3, <2>3 DEF QueueInOrder
  <2>5. QED
    BY <2>1, <2>2, <2>4 DEF QueueInOrder
<1>5. RowsInOrder'
  BY DEF RowsInOrder
<1>6. OnlyRefusedAreDropped'
  <2>1. Buffered' = Buffered \cup {taken + 1}
    BY <1>2, <1>3 DEF Buffered
  <2>2. \A p : IsOp(p)' <=> IsOp(p)
    BY DEF IsOp
  <2>3. Committed' = Committed /\ refused' = refused
    BY DEF Committed
  <2>4. QED
    BY <1>1, <2>1, <2>2, <2>3 DEF OnlyRefusedAreDropped
<1>7. RefusalIsFatal'
  BY <1>1 DEF RefusalIsFatal, Receiving, TypeOK
<1>8. PromisedIsDurable'
  BY DEF PromisedIsDurable, Committed
<1>9. QED
  BY <1>4, <1>5, <1>6, <1>7, <1>8

LEMMA CommitBatchKeepsIInv == IInv /\ TypeInv' /\ CommitBatch => IInv'
<1> SUFFICES ASSUME IInv, TypeInv', CommitBatch PROVE IInv'
  OBVIOUS
<1> USE DEF IInv, TypeInv, CommitBatch
<1>1. table \in Seq(Nat) /\ buffer \in Seq(Nat) /\ taken \in Nat /\ base \in Nat
  BY DEF TypeOK
<1>2. /\ Len(table') = Len(table) + Len(buffer)
      /\ DOMAIN table' = 1 .. Len(table) + Len(buffer)
      /\ \A i \in 1 .. Len(table) : table'[i] = table[i]
      /\ \A i \in 1 .. Len(table) + Len(buffer) :
            i > Len(table) => table'[i] = buffer[i - Len(table)]
  BY <1>1
<1>3. DOMAIN table = 1 .. Len(table) /\ DOMAIN buffer = 1 .. Len(buffer)
      /\ DOMAIN buffer' = {}
  BY <1>1
<1>4. /\ \A i \in DOMAIN table : table[i] \in Nat
      /\ \A i \in DOMAIN buffer : buffer[i] \in Nat
  BY <1>1, <1>3
<1>5. RowsInOrder'
  <2> SUFFICES ASSUME NEW i \in DOMAIN table', NEW j \in DOMAIN table', i < j
               PROVE  table'[i] < table'[j]
    BY DEF RowsInOrder
  <2>1. CASE j <= Len(table)
    BY <2>1, <1>1, <1>2, <1>3 DEF RowsInOrder
  <2>2. CASE i <= Len(table) /\ j > Len(table)
    BY <2>2, <1>1, <1>2, <1>3 DEF QueueInOrder
  <2>3. CASE i > Len(table)
    <3>1. /\ i - Len(table) \in DOMAIN buffer /\ j - Len(table) \in DOMAIN buffer
          /\ i - Len(table) < j - Len(table)
          /\ table'[i] = buffer[i - Len(table)] /\ table'[j] = buffer[j - Len(table)]
      BY <2>3, <1>1, <1>2, <1>3
    <3>2. QED
      BY <3>1 DEF QueueInOrder
  <2>4. QED
    BY <2>1, <2>2, <2>3, <1>1, <1>2
<1>6. QueueInOrder'
  <2>1. \A i \in DOMAIN table' : table'[i] <= taken
    BY <1>1, <1>2, <1>3 DEF QueueInOrder
  <2>2. QED
    BY <2>1, <1>3 DEF QueueInOrder
<1>7. Committed' = Committed \cup Buffered
  <2>1. \A i \in DOMAIN buffer : /\ i + Len(table) \in DOMAIN table'
                                /\ table'[i + Len(table)] = buffer[i]
    BY <1>1, <1>2, <1>3
  <2>2. \A i \in DOMAIN table : i \in DOMAIN table' /\ table'[i] = table[i]
    BY <1>1, <1>2, <1>3
  <2>3. \A i \in DOMAIN table' : \/ i \in DOMAIN table
                                \/ i - Len(table) \in DOMAIN buffer
    BY <1>1, <1>2, <1>3
  <2>4. Committed' \subseteq Committed \cup Buffered
    BY <2>3, <1>1, <1>2, <1>3 DEF Committed, Buffered
  <2>5. Committed \subseteq Committed'
    BY <2>2 DEF Committed
  <2>6. Buffered \subseteq Committed'
    BY <2>1 DEF Committed, Buffered
  <2>7. QED
    BY <2>4, <2>5, <2>6
<1>8. OnlyRefusedAreDropped'
  <2>1. \A p : IsOp(p)' <=> IsOp(p)
    BY DEF IsOp
  <2>2. QED
    BY <1>7, <2>1 DEF OnlyRefusedAreDropped
<1>9. RefusalIsFatal'
  BY <1>1 DEF RefusalIsFatal
<1>10. PromisedIsDurable'
  BY <1>7 DEF PromisedIsDurable
<1>11. QED
  BY <1>5, <1>6, <1>8, <1>9, <1>10

\* The head of the batch leaves the buffer, into the table or among the refused.
LEMMA HeadLeaves ==
  ASSUME IInv, buffer # <<>>
  PROVE  /\ Head(buffer) = buffer[1] /\ 1 \in DOMAIN buffer
         /\ Head(buffer) \in base + 1 .. taken
         /\ Tail(buffer) \in Seq(Nat)
         /\ DOMAIN Tail(buffer) = 1 .. Len(buffer) - 1
         /\ \A i \in DOMAIN Tail(buffer) : /\ i + 1 \in DOMAIN buffer
                                          /\ Tail(buffer)[i] = buffer[i + 1]
         /\ Buffered \subseteq {Head(buffer)} \cup {Tail(buffer)[i] : i \in DOMAIN Tail(buffer)}
<1> USE DEF IInv
<1>1. buffer \in Seq(Nat) /\ Len(buffer) \in Nat \ {0} /\ DOMAIN buffer = 1 .. Len(buffer)
  BY DEF TypeOK
<1>2. /\ Head(buffer) = buffer[1] /\ 1 \in DOMAIN buffer
      /\ Tail(buffer) \in Seq(Nat) /\ Len(Tail(buffer)) = Len(buffer) - 1
  BY <1>1
<1>3. /\ DOMAIN Tail(buffer) = 1 .. Len(buffer) - 1
      /\ \A i \in DOMAIN Tail(buffer) : /\ i + 1 \in DOMAIN buffer
                                       /\ Tail(buffer)[i] = buffer[i + 1]
  BY <1>1, <1>2
<1>4. Head(buffer) \in base + 1 .. taken
  BY <1>2 DEF QueueInOrder
<1>5. ASSUME NEW i \in DOMAIN buffer, i # 1
      PROVE  i - 1 \in DOMAIN Tail(buffer) /\ Tail(buffer)[i - 1] = buffer[i]
  BY <1>1, <1>3, <1>5
<1>6. Buffered \subseteq {Head(buffer)} \cup {Tail(buffer)[i] : i \in DOMAIN Tail(buffer)}
  BY <1>2, <1>5 DEF Buffered
<1>7. QED
  BY <1>2, <1>3, <1>4, <1>6

LEMMA FallbackCommitKeepsIInv == IInv /\ TypeInv' /\ FallbackCommit => IInv'
<1> SUFFICES ASSUME IInv, TypeInv', FallbackCommit PROVE IInv'
  OBVIOUS
<1> USE DEF IInv, TypeInv, FallbackCommit, RestOfBatch
<1>1. table \in Seq(Nat) /\ taken \in Nat /\ base \in Nat
  BY DEF TypeOK
<1>2. /\ DOMAIN table' = 1 .. Len(table) + 1 /\ DOMAIN table = 1 .. Len(table)
      /\ \A i \in DOMAIN table : i \in DOMAIN table' /\ table'[i] = table[i]
      /\ table'[Len(table) + 1] = Head(buffer) /\ Len(table) + 1 \in DOMAIN table'
      /\ \A i \in DOMAIN table : table[i] \in Nat
  BY <1>1, HeadLeaves
<1>3. RowsInOrder'
  <2> SUFFICES ASSUME NEW i \in DOMAIN table', NEW j \in DOMAIN table', i < j
               PROVE  table'[i] < table'[j]
    BY DEF RowsInOrder
  <2>1. i \in DOMAIN table
    BY <1>1, <1>2
  <2>2. CASE j \in DOMAIN table
    BY <2>1, <2>2, <1>2 DEF RowsInOrder
  <2>3. CASE j = Len(table) + 1
    BY <2>1, <2>3, <1>2, HeadLeaves DEF QueueInOrder
  <2>4. QED
    BY <2>2, <2>3, <1>1, <1>2
<1>4. QueueInOrder'
  <2>1. \A i, j \in DOMAIN buffer' : i < j => buffer'[i] < buffer'[j]
    BY HeadLeaves DEF QueueInOrder
  <2>2. \A i \in DOMAIN buffer' : buffer'[i] \in base + 1 .. taken
    BY HeadLeaves DEF QueueInOrder
  <2>3. \A i \in DOMAIN table' : table'[i] <= taken
    BY <1>1, <1>2, HeadLeaves DEF QueueInOrder
  <2>4. ASSUME NEW i \in DOMAIN table', NEW j \in DOMAIN buffer'
        PROVE  table'[i] < buffer'[j]
    <3>1. /\ j + 1 \in DOMAIN buffer /\ buffer'[j] = buffer[j + 1]
          /\ 1 \in DOMAIN buffer /\ 1 < j + 1
      BY HeadLeaves
    <3>2. CASE i \in DOMAIN table
      BY <3>1, <3>2, <1>2 DEF QueueInOrder
    <3>3. CASE i = Len(table) + 1
      BY <3>1, <3>3, <1>2, HeadLeaves DEF QueueInOrder
    <3>4. QED
      BY <3>2, <3>3, <1>1, <1>2
  <2>5. QED
    BY <2>1, <2>2, <2>3, <2>4 DEF QueueInOrder
<1>5. Committed \subseteq Committed' /\ Head(buffer) \in Committed'
  BY <1>2 DEF Committed
<1>6. OnlyRefusedAreDropped'
  <2>1. \A p : IsOp(p)' <=> IsOp(p)
    BY DEF IsOp
  <2>2. Buffered \subseteq Committed' \cup Buffered'
    BY <1>5, HeadLeaves DEF Buffered
  <2>3. QED
    BY <1>5, <2>1, <2>2 DEF OnlyRefusedAreDropped
<1>7. RefusalIsFatal'
  BY DEF RefusalIsFatal
<1>8. PromisedIsDurable'
  BY <1>5 DEF PromisedIsDurable
<1>9. QED
  BY <1>3, <1>4, <1>6, <1>7, <1>8

LEMMA FallbackRefuseKeepsIInv == IInv /\ TypeInv' /\ FallbackRefuse => IInv'
<1> SUFFICES ASSUME IInv, TypeInv', FallbackRefuse PROVE IInv'
  OBVIOUS
<1> USE DEF IInv, TypeInv, FallbackRefuse, RestOfBatch
<1>1. QueueInOrder'
  <2>1. \A i \in DOMAIN buffer' : /\ i \in Nat /\ i + 1 \in DOMAIN buffer
                                 /\ buffer'[i] = buffer[i + 1]
    BY HeadLeaves
  <2>2. QED
    BY <2>1 DEF QueueInOrder
<1>2. RowsInOrder' /\ PromisedIsDurable'
  BY DEF RowsInOrder, PromisedIsDurable, Committed
<1>3. OnlyRefusedAreDropped'
  <2>1. \A p : IsOp(p)' <=> IsOp(p)
    BY DEF IsOp
  <2>2. Buffered \subseteq {Head(buffer)} \cup Buffered'
    BY HeadLeaves DEF Buffered
  <2>3. Committed' = Committed /\ Head(buffer) \in refused'
    BY DEF Committed
  <2>4. QED
    BY <2>1, <2>2, <2>3 DEF OnlyRefusedAreDropped
<1>4. RefusalIsFatal'
  <2>1. Head(buffer) <= taken
    BY HeadLeaves DEF TypeOK
  <2>2. QED
    BY <2>1 DEF RefusalIsFatal
<1>5. QED
  BY <1>1, <1>2, <1>3, <1>4

LEMMA CrashKeepsIInv == IInv /\ TypeInv' /\ Crash => IInv'
<1> SUFFICES ASSUME IInv, TypeInv', Crash PROVE IInv'
  OBVIOUS
<1> USE DEF IInv, TypeInv, Crash
<1>1. /\ taken \in Nat /\ base' = Len(sent) /\ taken' = Len(sent)
      /\ Len(sent) \in Nat /\ taken <= Len(sent)
      /\ DOMAIN buffer' = {} /\ \A i \in DOMAIN table : table[i] \in Nat
  BY DEF TypeOK
<1>2. QueueInOrder' /\ RowsInOrder'
  BY <1>1 DEF QueueInOrder, RowsInOrder
<1>3. OnlyRefusedAreDropped'
  BY <1>1 DEF OnlyRefusedAreDropped
<1>4. RefusalIsFatal'
  BY <1>1 DEF RefusalIsFatal, TypeOK
<1>5. PromisedIsDurable'
  BY DEF PromisedIsDurable, Committed
<1>6. QED
  BY <1>2, <1>3, <1>4, <1>5

\* What an acknowledgement vouches for is committed.
LEMMA CoveredIsCommitted ==
  ASSUME IInv, wpc = "ack"
  PROVE  CoveredBy(responder) \subseteq Committed
<1> SUFFICES ASSUME NEW p \in base + 1 .. responder, IsOp(p)
             PROVE  p \in Committed
  BY DEF CoveredBy
<1> USE DEF IInv
<1>1. responder = taken /\ buffer = <<>>
  BY DEF ControlOK
<1>2. Buffered = {}
  BY <1>1 DEF Buffered
<1>3. p \notin refused
  BY <1>1 DEF RefusalIsFatal, TypeOK
<1>4. QED
  BY <1>1, <1>2, <1>3 DEF OnlyRefusedAreDropped

LEMMA NextIInv == IInv /\ [Next]_vars => IInv'
<1> SUFFICES ASSUME IInv, [Next]_vars PROVE IInv'
  OBVIOUS
<1>1. TypeInv' /\ TypeInv
  BY NextTypeInv DEF IInv, TypeInv
<1>2. /\ taken \in Nat /\ base \in Nat /\ sent \in Seq(Message) /\ Len(sent) \in Nat
      /\ taken <= Len(sent) /\ refused \subseteq Nat
  BY DEF IInv, TypeOK
<1>3. promised \subseteq Committed /\ RefusalIsFatal
  BY DEF IInv, PromisedIsDurable
<1> USE <1>1, <1>2, <1>3 DEF wvars
<1>4. ASSUME NEW c \in Callers, StartSend(c) \/ StartFlush(c) \/ DropHandle(c)
                                 \/ WriterChannelClosed(c)
      PROVE  IInv'
  <2>1. UNCHANGED <<sent, taken, base, buffer, wpc, failed, table, refused, promised>>
    BY <1>4 DEF StartSend, StartFlush, DropHandle, WriterChannelClosed
  <2>2. RefusalIsFatal'
    BY <2>1 DEF RefusalIsFatal
  <2>3. QED
    BY <2>1, <2>2, OperationsStay
<1>5. ASSUME NEW c \in Callers, ChannelAccepts(c)
      PROVE  IInv'
  <2>1. PICK m : sent' = Append(sent, m)
    BY <1>5 DEF ChannelAccepts
  <2>2. Len(sent) <= Len(sent') /\ \A p \in Positions : sent'[p] = sent[p]
    BY <2>1 DEF Positions
  <2>3. UNCHANGED <<taken, base, buffer, wpc, failed, table, refused, promised>>
    BY <1>5 DEF ChannelAccepts
  <2>4. RefusalIsFatal'
    BY <2>3 DEF RefusalIsFatal
  <2>5. QED
    BY <2>2, <2>3, <2>4, OperationsStay
<1>6. ASSUME NEW ok \in BOOLEAN, Connect(ok)
      PROVE  IInv'
  <2>1. UNCHANGED <<sent, taken, base, buffer, table, refused, promised>>
    BY <1>6 DEF Connect
  <2>2. RefusalIsFatal'
    BY <1>6 DEF RefusalIsFatal, Connect
  <2>3. QED
    BY <2>1, <2>2, OperationsStay
<1>7. CASE TakeOp
  BY <1>7, TakeOpKeepsIInv
<1>8. CASE TakeFlush
  <2>1. /\ UNCHANGED <<sent, base, buffer, table, refused, promised>>
        /\ taken' = taken + 1 /\ taken' <= Len(sent) /\ ~IsOp(taken + 1)
    BY <1>8 DEF TakeFlush, Backlog
  <2>2. RefusalIsFatal'
    BY <1>8 DEF RefusalIsFatal, TakeFlush, Receiving
  <2>3. QED
    BY <2>1, <2>2, OperationsStay
<1>9. CASE EndCollect \/ BatchFails \/ ChannelClosed
  <2>1. UNCHANGED <<sent, taken, base, buffer, table, refused, promised>>
    BY <1>9 DEF EndCollect, BatchFails, ChannelClosed
  <2>2. RefusalIsFatal'
    BY <1>9 DEF RefusalIsFatal, EndCollect, BatchFails, ChannelClosed
  <2>3. QED
    BY <2>1, <2>2, OperationsStay
<1>10. CASE CommitBatch
  BY <1>10, CommitBatchKeepsIInv
<1>11. CASE FallbackCommit
  BY <1>11, FallbackCommitKeepsIInv
<1>12. CASE FallbackRefuse
  BY <1>12, FallbackRefuseKeepsIInv
<1>13. CASE EndFallback
  <2>1. UNCHANGED <<sent, taken, base, buffer, table, refused, promised>>
    BY <1>13 DEF EndFallback
  <2>2. RefusalIsFatal'
    BY <1>13 DEF RefusalIsFatal, EndFallback, AfterFallback
  <2>3. QED
    BY <2>1, <2>2, OperationsStay
<1>14. CASE Acknowledge
  <2>1. UNCHANGED <<sent, taken, base, buffer, table, refused>> /\ wpc = "ack"
    BY <1>14 DEF Acknowledge
  <2>2. promised' \subseteq Committed
    BY <1>14, <2>1, CoveredIsCommitted DEF Acknowledge
  <2>3. RefusalIsFatal'
    BY <1>14 DEF RefusalIsFatal, Acknowledge
  <2>4. QED
    BY <2>1, <2>2, <2>3, OperationsStay
<1>15. CASE Crash
  BY <1>15, CrashKeepsIInv
<1>16. CASE UNCHANGED vars
  <2>1. UNCHANGED <<sent, taken, base, buffer, wpc, failed, table, refused, promised>>
    BY <1>16 DEF vars
  <2>2. RefusalIsFatal'
    BY <2>1 DEF RefusalIsFatal
  <2>3. QED
    BY <2>1, <2>2, OperationsStay
<1>17. QED
  BY <1>4, <1>5, <1>6, <1>7, <1>8, <1>9, <1>10, <1>11, <1>12, <1>13, <1>14,
     <1>15, <1>16 DEF Next, CallStep, WriterStep

LEMMA Inductive == Spec => []IInv
  BY InitIInv, NextIInv, PTL DEF Spec

\* A flush that returned Ok vouches only for committed operations, whatever
\* batches failed, whatever the database refused and whenever the process died.
THEOREM AcknowledgedFlushIsDurable == Spec => []PromisedIsDurable
<1>1. IInv => PromisedIsDurable
  BY DEF IInv
<1>2. QED
  BY <1>1, Inductive, PTL

\* Rows are committed in submission order and at most once.
THEOREM RowsCommitInOrder == Spec => []RowsInOrder
<1>1. IInv => RowsInOrder
  BY DEF IInv
<1>2. QED
  BY <1>1, Inductive, PTL

\* A received operation leaves the writer's memory only by being committed or
\* by being refused itself.
THEOREM NothingElseIsDropped == Spec => []OnlyRefusedAreDropped
<1>1. IInv => OnlyRefusedAreDropped
  BY DEF IInv
<1>2. QED
  BY <1>1, Inductive, PTL

-----------------------------------------------------------------------------
(* Refinement: the writer implements DurableLog.                           *)

\* The buffer holds operations, never a Flush, and the Flush being served was
\* received by this process.
RefinementInv ==
    /\ \A i \in DOMAIN buffer : IsOp(buffer[i])
    /\ responder # 0 => responder > base

LEMMA InitRefinementInv == Init => RefinementInv
  BY DEF Init, RefinementInv

LEMMA NextRefinementInv == IInv /\ RefinementInv /\ [Next]_vars => RefinementInv'
<1> SUFFICES ASSUME IInv, RefinementInv, [Next]_vars PROVE RefinementInv'
  OBVIOUS
<1>1. /\ sent \in Seq(Message) /\ taken \in Nat /\ base \in Nat /\ base <= taken
      /\ taken <= Len(sent) /\ buffer \in Seq(Nat) /\ responder \in Nat
      /\ \A i \in DOMAIN buffer : buffer[i] \in base + 1 .. taken
  BY DEF IInv, TypeOK, QueueInOrder
<1> USE <1>1 DEF RefinementInv, wvars
<1>2. CASE UNCHANGED <<sent, base, buffer, responder>>
  BY <1>2 DEF IsOp
<1>3. ASSUME NEW c \in Callers, ChannelAccepts(c)
      PROVE  RefinementInv'
  <2>1. PICK m : sent' = Append(sent, m)
    BY <1>3 DEF ChannelAccepts
  <2>2. \A p \in 1 .. Len(sent) : sent'[p] = sent[p]
    BY <2>1
  <2>3. UNCHANGED <<base, buffer, responder>>
    BY <1>3 DEF ChannelAccepts
  <2>4. QED
    BY <2>2, <2>3 DEF IsOp
<1>4. CASE TakeOp
  <2>1. /\ DOMAIN buffer' = 1 .. Len(buffer) + 1 /\ DOMAIN buffer = 1 .. Len(buffer)
        /\ \A i \in DOMAIN buffer : buffer'[i] = buffer[i]
        /\ buffer'[Len(buffer) + 1] = taken + 1
    BY <1>4 DEF TakeOp, Pushed
  <2>2. IsOp(taken + 1) /\ UNCHANGED <<sent, base, responder>>
    BY <1>4 DEF TakeOp
  <2>3. QED
    BY <2>1, <2>2 DEF IsOp
<1>5. CASE TakeFlush
  BY <1>5 DEF TakeFlush, IsOp
<1>6. CASE CommitBatch
  BY <1>6 DEF CommitBatch
<1>7. CASE FallbackCommit \/ FallbackRefuse
  <2>1. UNCHANGED <<sent, base, responder>> /\ buffer # <<>> /\ buffer' = Tail(buffer)
    BY <1>7 DEF FallbackCommit, FallbackRefuse, RestOfBatch
  <2>2. QED
    BY <2>1, HeadLeaves DEF IsOp
<1>8. CASE Acknowledge
  BY <1>8 DEF Acknowledge, IsOp
<1>9. CASE Crash
  BY <1>9 DEF Crash
<1>10. QED
  BY <1>2, <1>3, <1>4, <1>5, <1>6, <1>7, <1>8, <1>9
     DEF Next, CallStep, WriterStep, vars, StartSend, StartFlush, DropHandle,
         WriterChannelClosed, Connect, EndCollect, BatchFails, EndFallback,
         ChannelClosed

LEMMA StepRefines ==
  IInv /\ RefinementInv /\ [Next]_vars => [Promise!DNext]_(Promise!dvars)
<1> SUFFICES ASSUME IInv, RefinementInv, [Next]_vars
             PROVE  [Promise!DNext]_(Promise!dvars)
  OBVIOUS
<1>1. /\ sent \in Seq(Message) /\ taken \in Nat /\ base \in Nat /\ base <= taken
      /\ taken <= Len(sent) /\ Len(sent) \in Nat /\ buffer \in Seq(Nat)
      /\ table \in Seq(Nat) /\ responder \in 0 .. taken
  BY DEF IInv, TypeOK
<1>2. /\ Submissions \in Seq(Kinds) /\ Len(Submissions) = Len(sent)
      /\ \A p \in Positions : Submissions[p] = sent[p].kind
  <2>1. \A p \in Positions : sent[p] \in Message
    BY <1>1 DEF Positions
  <2>3. \A p \in Positions : sent[p].kind \in Kinds
    BY <2>1 DEF Message
  <2>2. QED
    BY <1>1, <2>3 DEF Submissions, Positions
<1> USE DEF wvars
<1>3. CASE UNCHANGED <<sent, base, table, promised>>
  BY <1>3 DEF Promise!dvars, Submissions, Positions
<1>4. ASSUME NEW c \in Callers, ChannelAccepts(c)
      PROVE  Promise!Submit
  <2>1. PICK k \in Kinds : sent' = Append(sent, [kind |-> k, from |-> c])
    BY <1>4 DEF ChannelAccepts, Kinds
  <2>2. /\ Len(sent') = Len(sent) + 1
        /\ \A p \in 1 .. Len(sent) : sent'[p] = sent[p]
        /\ sent'[Len(sent) + 1].kind = k
    BY <1>1, <2>1
  <2>3. Submissions' = Append(Submissions, k)
    BY <1>1, <1>2, <2>2 DEF Submissions, Positions
  <2>4. UNCHANGED <<base, table, promised>>
    BY <1>4 DEF ChannelAccepts
  <2>5. QED
    BY <2>3, <2>4 DEF Promise!Submit, Kinds
<1>5. CASE CommitBatch \/ FallbackCommit
  <2>1. UNCHANGED <<sent, base, promised>>
    BY <1>5 DEF CommitBatch, FallbackCommit
  <2>2. RowsInOrder'
    BY NextIInv DEF IInv
  <2>3. /\ \A i \in DOMAIN table : i \in DOMAIN table' /\ table'[i] = table[i]
        /\ \A i \in DOMAIN table' \ DOMAIN table : table'[i] \in Buffered
    <3>1. CASE CommitBatch
      <4>1. table' = table \o buffer
        BY <3>1 DEF CommitBatch
      <4>2. /\ DOMAIN table' = 1 .. Len(table) + Len(buffer)
            /\ DOMAIN table = 1 .. Len(table) /\ DOMAIN buffer = 1 .. Len(buffer)
            /\ \A i \in 1 .. Len(table) : table'[i] = table[i]
            /\ \A i \in DOMAIN table' : i > Len(table) => table'[i] = buffer[i - Len(table)]
        BY <1>1, <4>1
      <4>3. \A i \in DOMAIN table' \ DOMAIN table : i > Len(table) /\ i - Len(table) \in DOMAIN buffer
        BY <1>1, <4>2
      <4>4. QED
        BY <1>1, <4>2, <4>3 DEF Buffered
    <3>2. CASE FallbackCommit
      <4>1. table' = Append(table, Head(buffer)) /\ Head(buffer) \in Buffered
        BY <3>2, HeadLeaves DEF FallbackCommit, Buffered
      <4>2. QED
        BY <1>1, <4>1 DEF Buffered
    <3>3. QED
      BY <1>5, <3>1, <3>2
  <2>4. \A p \in Buffered : p \in base + 1 .. Len(sent) /\ IsOp(p)
    BY <1>1 DEF IInv, QueueInOrder, RefinementInv, Buffered
  <2>5. \A p \in Buffered : Submissions[p] = "op"
    BY <1>1, <2>4 DEF Submissions, Positions, IsOp
  <2>6. Submissions' = Submissions
    BY <2>1 DEF Submissions, Positions
  <2>7. QED
    BY <1>2, <2>1, <2>2, <2>3, <2>4, <2>5, <2>6
       DEF Promise!DNext, Promise!Persist, RowsInOrder
<1>6. CASE Acknowledge
  <2>1. /\ responder \in base + 1 .. Len(sent) /\ sent[responder].kind = "flush"
        /\ wpc = "ack"
    BY <1>1, <1>6 DEF Acknowledge, IInv, ControlOK, RefinementInv
  <2>2. CoveredBy(responder) \subseteq Committed
    BY <2>1, CoveredIsCommitted
  <2>3. /\ UNCHANGED <<sent, base, table>>
        /\ promised' = promised \cup CoveredBy(responder)
    BY <1>6 DEF Acknowledge
  <2>4. CoveredBy(responder) = {q \in base + 1 .. responder : Submissions[q] = "op"}
    BY <1>1, <2>1 DEF CoveredBy, IsOp, Submissions, Positions
  <2>5. Submissions[responder] = "flush" /\ Submissions' = Submissions
    BY <1>1, <2>1, <2>3 DEF Submissions, Positions
  <2>6. QED
    BY <1>2, <2>1, <2>2, <2>3, <2>4, <2>5
       DEF Promise!DNext, Promise!Vouch, Promise!Durable, Committed
<1>7. CASE Crash
  <2>1. Submissions' = Submissions
    BY <1>7 DEF Crash, Submissions, Positions
  <2>2. QED
    BY <1>2, <1>7, <2>1 DEF Crash, Promise!DNext, Promise!Restart
<1>8. CASE Next
  BY <1>8, <1>3, <1>4, <1>5, <1>6, <1>7
     DEF Next, CallStep, WriterStep, Promise!DNext, StartSend, StartFlush,
         DropHandle, WriterChannelClosed, Connect, TakeOp, TakeFlush, EndCollect,
         BatchFails, FallbackRefuse, EndFallback, ChannelClosed
<1>9. QED
  BY <1>3, <1>8 DEF vars

\* Every behaviour of the writer is a behaviour of the promise DurableLog.
THEOREM WriterImplementsDurableLog == Spec => ImplementsDurableLog
<1>1. Init => Promise!DInit
  BY DEF Init, Promise!DInit, Submissions, Positions
<1>2. Spec => [](IInv /\ RefinementInv)
  BY InitIInv, NextIInv, InitRefinementInv, NextRefinementInv, PTL DEF Spec
<1>3. QED
  BY <1>1, <1>2, StepRefines, PTL DEF Spec, ImplementsDurableLog, Promise!DSpec

=============================================================================
