-------------------------- MODULE StatsConsumerProofs -------------------------
(***************************************************************************)
(* Theorems about StatsConsumer for any number of containers, messages and *)
(* interruptions, and batches of any size.                                 *)
(***************************************************************************)
EXTENDS StatsConsumer, SequenceTheorems, TLAPS

LEMMA BatchTypes ==
  ASSUME NEW b \in Batches
  PROVE  b \in Seq(Msgs) /\ 1 \in DOMAIN b
<1>1. PICK k \in 1 .. BatchSize : b \in [1 .. k -> Receivable] BY DEF Batches
<1>2. k \in Nat \ {0} BY <1>1, ConsumerAssumption
<1>3. b \in [1 .. k -> Msgs] BY <1>1 DEF Receivable
<1>4. b \in Seq(Msgs) BY <1>2, <1>3, SeqDef
<1> QED BY <1>2, <1>3, <1>4

LEMMA CurrentIsMsg ==
  ASSUME TypeOK, NEW c \in Consumers, pc[c] \in {"process", "ack"}
  PROVE  Current(c) \in Msgs /\ Len(batch[c]) \in Nat /\ DOMAIN batch[c] = 1 .. Len(batch[c])
  BY DEF TypeOK, Current

\* The rows after an insert.
LEMMA InsertedRows ==
  ASSUME TypeOK, NEW m \in Msgs, rows' = Inserted(m)
  PROVE  /\ rows' \subseteq Msgs
         /\ m \in rows'
         /\ \A k \in Msgs : k \in rows => k \in rows'
  BY DEF TypeOK, Inserted
-------------------------------------------------------------------------------
(* The inductive invariant.                                                *)

\* The records that the loop over the batch has passed, and did not report as
\* failed, have their rows.
Passed(c) == IF pc[c] = "process" THEN 1 .. at[c] - 1
             ELSE IF pc[c] = "ack" THEN DOMAIN batch[c]
             ELSE {}

PassedIsStored ==
    \A c \in Consumers : \A i \in Passed(c) :
        batch[c][i] \notin failed[c] => batch[c][i] \in rows

Inv == TypeOK /\ DeletedIsStored /\ PassedIsStored
-------------------------------------------------------------------------------
LEMMA InitInv == Init => Inv
<1> SUFFICES ASSUME Init PROVE Inv
  OBVIOUS
<1>1. TypeOK BY EmptySeq DEF Init, TypeOK
<1>2. DeletedIsStored /\ PassedIsStored
  BY DEF Init, DeletedIsStored, PassedIsStored, Passed
<1> QED BY <1>1, <1>2 DEF Inv

\* Steps that change neither the rows nor a batch: the queue forgets nothing, and
\* no container enters the loops over its batch.
LEMMA OutsideOfBatch ==
  ASSUME Inv, TypeOK', UNCHANGED rows,
         \A m \in Msgs : queue'[m] = "deleted" => queue[m] = "deleted",
         \A c \in Consumers :
             \/ pc'[c] \notin {"process", "ack"}
             \/ UNCHANGED <<pc[c], batch[c], at[c], failed[c]>>
             \/ pc'[c] = "process" /\ at'[c] = 1
  PROVE  Inv'
<1>1. DeletedIsStored' BY DEF Inv, DeletedIsStored
<1>2. PassedIsStored'
  <2> SUFFICES ASSUME NEW c \in Consumers, NEW i \in Passed(c)', batch'[c][i] \notin failed'[c]
               PROVE  batch'[c][i] \in rows'
    BY DEF PassedIsStored
  <2>1. UNCHANGED <<pc[c], batch[c], at[c], failed[c]>> BY DEF Passed
  <2> QED BY <2>1 DEF Inv, PassedIsStored, Passed
<1> QED BY <1>1, <1>2 DEF Inv

LEMMA QueueSteps ==
  ASSUME Inv, NEW m \in Msgs, Enqueue(m) \/ VisibilityTimeout(m)
  PROVE  Inv'
<1> USE DEF loop
<1>1. TypeOK' BY DEF Inv, TypeOK, Enqueue, VisibilityTimeout
<1>2. \A k \in Msgs : queue'[k] = "deleted" => queue[k] = "deleted"
  BY DEF Inv, TypeOK, Enqueue, VisibilityTimeout
<1>3. UNCHANGED <<rows, pc, batch, at, failed>> BY DEF Enqueue, VisibilityTimeout
<1> QED BY <1>1, <1>2, <1>3, OutsideOfBatch

LEMMA HideForgetsNothing ==
  ASSUME TypeOK, NEW S, Hide(S)
  PROVE  /\ queue' \in [Msgs -> {"unsent", "visible", "hidden", "deleted"}]
         /\ \A m \in Msgs : queue'[m] = "deleted" => queue[m] = "deleted"
  BY DEF TypeOK, Hide

LEMMA ReceiveKeepsInv ==
  ASSUME Inv, NEW c \in Consumers, NEW b \in Batches, Receive(c, b)
  PROVE  Inv'
<1>1. b \in Seq(Msgs) /\ 1 \in DOMAIN b BY BatchTypes
<1>2. at[c] = 1 BY DEF Inv, TypeOK, Receive
<1>3. /\ queue' \in [Msgs -> {"unsent", "visible", "hidden", "deleted"}]
      /\ \A m \in Msgs : queue'[m] = "deleted" => queue[m] = "deleted"
  BY HideForgetsNothing DEF Inv, Receive
<1>4. TypeOK' BY <1>1, <1>2, <1>3 DEF Inv, TypeOK, Receive
<1>5. \A d \in Consumers : \/ UNCHANGED <<pc[d], batch[d], at[d], failed[d]>>
                           \/ pc'[d] = "process" /\ at'[d] = 1
  BY <1>2 DEF Inv, TypeOK, Receive
<1> QED BY <1>3, <1>4, <1>5, OutsideOfBatch DEF Receive

\* The other steps that leave the batches of all containers alone.
LEMMA ControlSteps ==
  ASSUME Inv, NEW c \in Consumers,
         Start(c) \/ ReceiveFails(c) \/ WakeUp(c) \/ Exit(c) \/ Signal(c) \/ Crash(c)
  PROVE  Inv'
<1> USE DEF loop
<1>1. /\ queue' \in [Msgs -> {"unsent", "visible", "hidden", "deleted"}]
      /\ \A m \in Msgs : queue'[m] = "deleted" => queue[m] = "deleted"
  BY HideForgetsNothing
     DEF Inv, TypeOK, Start, ReceiveFails, WakeUp, Exit, Signal, Crash
<1>2. TypeOK'
  <2>1. CASE Start(c) BY <2>1 DEF Inv, TypeOK, Start
  <2>2. CASE ReceiveFails(c) BY <2>2, <1>1 DEF Inv, TypeOK, ReceiveFails
  <2>3. CASE WakeUp(c) BY <2>3 DEF Inv, TypeOK, WakeUp, Cancelled
  <2>4. CASE Exit(c) BY <2>4 DEF Inv, TypeOK, Exit, Cancelled
  <2>5. CASE Signal(c) BY <2>5, <1>1 DEF Inv, TypeOK, Signal, Interrupt
  <2>6. CASE Crash(c) BY <2>6, EmptySeq DEF Inv, TypeOK, Crash, Interrupt, LeaveBatch
  <2> QED BY <2>1, <2>2, <2>3, <2>4, <2>5, <2>6
<1>3. \A d \in Consumers : \/ pc'[d] \notin {"process", "ack"}
                           \/ UNCHANGED <<pc[d], batch[d], at[d], failed[d]>>
  BY DEF Inv, TypeOK, Start, ReceiveFails, WakeUp, Exit, Signal, Crash, LeaveBatch
<1> QED
  BY <1>1, <1>2, <1>3, OutsideOfBatch
     DEF Start, ReceiveFails, WakeUp, Exit, Signal, Crash
-------------------------------------------------------------------------------
(* The steps of the two loops over a batch.                                *)

LEMMA NextRecordTypes ==
  ASSUME TypeOK, NEW c \in Consumers, pc[c] = "process", NextRecord(c)
  PROVE  /\ pc' \in [Consumers -> {"down", "receive", "backoff", "process", "ack"}]
         /\ at' \in [Consumers -> Nat \ {0}]
         /\ batch' = batch
         /\ pc'[c] \in {"process", "ack"} /\ at'[c] \in DOMAIN batch[c]
         /\ Passed(c)' = Passed(c) \cup {at[c]}
         /\ \A d \in Consumers \ {c} : pc'[d] = pc[d] /\ at'[d] = at[d]
<1>1. /\ Len(batch[c]) \in Nat /\ DOMAIN batch[c] = 1 .. Len(batch[c])
      /\ at[c] \in 1 .. Len(batch[c])
  BY CurrentIsMsg DEF TypeOK
<1>2. CASE at[c] < Len(batch[c])
  <2>1. at' = [at EXCEPT ![c] = @ + 1] /\ pc' = pc /\ batch' = batch
    BY <1>2 DEF NextRecord
  <2>2. at'[c] = at[c] + 1 BY <2>1 DEF TypeOK
  <2>3. at[c] + 1 \in 1 .. Len(batch[c]) BY <1>1, <1>2
  <2>4. Passed(c)' = 1 .. at'[c] - 1 BY <2>1 DEF Passed
  <2>5. 1 .. at'[c] - 1 = (1 .. at[c] - 1) \cup {at[c]} BY <1>1, <2>2
  <2>6. Passed(c)' = Passed(c) \cup {at[c]} BY <2>4, <2>5 DEF Passed
  <2>7. at' \in [Consumers -> Nat \ {0}] BY <2>1 DEF TypeOK
  <2>8. \A d \in Consumers \ {c} : at'[d] = at[d] BY <2>1 DEF TypeOK
  <2> QED BY <1>1, <2>1, <2>2, <2>3, <2>6, <2>7, <2>8 DEF TypeOK
<1>3. CASE ~(at[c] < Len(batch[c]))
  <2>1. /\ at' = [at EXCEPT ![c] = 1] /\ pc' = [pc EXCEPT ![c] = "ack"] /\ batch' = batch
    BY <1>3 DEF NextRecord
  <2>2. at[c] = Len(batch[c]) BY <1>1, <1>3
  <2>3. Passed(c)' = 1 .. Len(batch[c]) BY <1>1, <2>1 DEF Passed, TypeOK
  <2>4. 1 .. Len(batch[c]) = (1 .. at[c] - 1) \cup {at[c]} BY <1>1, <2>2
  <2>5. Passed(c)' = Passed(c) \cup {at[c]} BY <2>3, <2>4 DEF Passed
  <2>6. at'[c] = 1 /\ pc'[c] = "ack" /\ 1 \in DOMAIN batch[c] BY <1>1, <2>1 DEF TypeOK
  <2>7. /\ pc' \in [Consumers -> {"down", "receive", "backoff", "process", "ack"}]
        /\ at' \in [Consumers -> Nat \ {0}]
    BY <2>1 DEF TypeOK
  <2>8. \A d \in Consumers \ {c} : pc'[d] = pc[d] /\ at'[d] = at[d] BY <2>1 DEF TypeOK
  <2> QED BY <2>1, <2>5, <2>6, <2>7, <2>8
<1> QED BY <1>2, <1>3

\* A record that is passed is stored or reported as failed.
LEMMA RecordPassed ==
  ASSUME Inv, NEW c \in Consumers, pc[c] = "process", NextRecord(c),
         UNCHANGED queue, stopping' \in [Consumers -> BOOLEAN], interruptions' \in Nat,
         \/ rows' = rows /\ Current(c) \in failed'[c]
         \/ rows' = Inserted(Current(c)),
         failed' \in [Consumers -> SUBSET Msgs],
         failed[c] \subseteq failed'[c],
         \A d \in Consumers \ {c} : failed'[d] = failed[d]
  PROVE  Inv'
<1>1. Current(c) \in Msgs BY CurrentIsMsg DEF Inv
<1>2. /\ rows' \subseteq Msgs
      /\ \A k \in Msgs : k \in rows => k \in rows'
      /\ Current(c) \in failed'[c] \/ Current(c) \in rows'
  BY <1>1, InsertedRows DEF Inv, TypeOK
<1>3. TypeOK' BY <1>2, NextRecordTypes DEF Inv, TypeOK
<1>4. DeletedIsStored' BY <1>2 DEF Inv, DeletedIsStored
<1>5. PassedIsStored'
  <2> SUFFICES ASSUME NEW d \in Consumers, NEW i \in Passed(d)', batch'[d][i] \notin failed'[d]
               PROVE  batch'[d][i] \in rows'
    BY DEF PassedIsStored
  <2>1. batch' = batch BY NextRecordTypes DEF Inv
  <2>2. CASE d = c /\ i = at[c] BY <2>1, <2>2, <1>2 DEF Current
  <2>3. CASE ~(d = c /\ i = at[c])
    <3>1. i \in Passed(d)
      BY <2>3, <2>1, NextRecordTypes DEF Inv, Passed
    <3>2. batch[d][i] \notin failed[d] BY <2>1
    <3>3. batch[d][i] \in Msgs BY <3>1 DEF Inv, TypeOK, Passed
    <3> QED BY <2>1, <3>1, <3>2, <3>3, <1>2 DEF Inv, PassedIsStored
  <2> QED BY <2>2, <2>3
<1> QED BY <1>2, <1>3, <1>4, <1>5 DEF Inv

LEMMA ProcessKeepsInv == ASSUME Inv, NEW c \in Consumers, Process(c) PROVE Inv'
<1>1. Current(c) \in Msgs
  BY CurrentIsMsg
     DEF Inv, Process, Persist, PersistFails, PersistUnanswered, PersistInterrupted
<1>2. CASE Persist(c) BY <1>2, RecordPassed DEF Inv, TypeOK, Persist
<1>3. CASE PersistFails(c)
  BY <1>1, <1>3, RecordPassed DEF Inv, TypeOK, PersistFails, RecordFails
<1>4. CASE PersistUnanswered(c)
  BY <1>1, <1>4, RecordPassed DEF Inv, TypeOK, PersistUnanswered, RecordFails
<1>5. CASE PersistInterrupted(c)
  <2>1. stopping' \in [Consumers -> BOOLEAN] /\ interruptions' \in Nat
    BY <1>5 DEF Inv, TypeOK, PersistInterrupted
  <2>2. /\ failed' \in [Consumers -> SUBSET Msgs] /\ failed[c] \subseteq failed'[c]
        /\ \A d \in Consumers \ {c} : failed'[d] = failed[d]
    BY <1>1, <1>5 DEF Inv, TypeOK, PersistInterrupted, RecordFails
  <2> QED BY <1>5, <2>1, <2>2, RecordPassed DEF PersistInterrupted, RecordFails
<1> QED BY <1>2, <1>3, <1>4, <1>5 DEF Process

\* The loop of the deletes changes no row and no record of a batch it stays in.
LEMMA NextDeleteSteps ==
  ASSUME Inv, NEW c \in Consumers, pc[c] = "ack", NextDelete(c),
         queue' \in [Msgs -> {"unsent", "visible", "hidden", "deleted"}],
         UNCHANGED <<rows, stopping, interruptions>>
  PROVE  TypeOK' /\ PassedIsStored'
<1>1. /\ Len(batch[c]) \in Nat /\ DOMAIN batch[c] = 1 .. Len(batch[c])
      /\ at[c] \in 1 .. Len(batch[c])
  BY CurrentIsMsg DEF Inv, TypeOK
<1>2. CASE at[c] < Len(batch[c])
  <2>1. /\ at' = [at EXCEPT ![c] = @ + 1] /\ UNCHANGED <<pc, batch, failed>>
    BY <1>2 DEF NextDelete
  <2>2. TypeOK' BY <1>1, <1>2, <2>1 DEF Inv, TypeOK
  <2>3. PassedIsStored'
    BY <2>1 DEF Inv, TypeOK, PassedIsStored, Passed
  <2> QED BY <2>2, <2>3 DEF Inv
<1>3. CASE ~(at[c] < Len(batch[c]))
  <2>1. LeaveBatch(c, "receive") BY <1>3 DEF NextDelete
  <2>2. TypeOK' BY <2>1, EmptySeq DEF Inv, TypeOK, LeaveBatch
  <2>3. PassedIsStored'
    BY <2>1 DEF Inv, TypeOK, PassedIsStored, Passed, LeaveBatch
  <2> QED BY <2>2, <2>3 DEF Inv
<1> QED BY <1>2, <1>3

LEMMA DeletionKeepsInv == ASSUME Inv, NEW c \in Consumers, Deletion(c) PROVE Inv'
<1>1. pc[c] = "ack" /\ NextDelete(c) /\ UNCHANGED <<rows, stopping, interruptions>>
  BY DEF Deletion, Ack, AckFails, LeaveForRedelivery
<1>2. queue' \in [Msgs -> {"unsent", "visible", "hidden", "deleted"}]
  BY DEF Inv, TypeOK, Deletion, Ack, AckFails, LeaveForRedelivery
<1>3. DeletedIsStored'
  <2>1. CASE Ack(c)
    <3>1. at[c] \in Passed(c) BY <1>1 DEF Inv, TypeOK, Passed
    <3>2. Current(c) \in rows
      BY <2>1, <3>1 DEF Ack, Deletes, Current, Inv, PassedIsStored
    <3> QED BY <2>1, <3>2 DEF Ack, Inv, TypeOK, DeletedIsStored
  <2>2. CASE AckFails(c) \/ LeaveForRedelivery(c)
    BY <2>2 DEF AckFails, LeaveForRedelivery, Inv, DeletedIsStored
  <2> QED BY <2>1, <2>2 DEF Deletion
<1> QED BY <1>1, <1>2, <1>3, NextDeleteSteps DEF Inv

LEMMA NextInv == Inv /\ [Next]_vars => Inv'
<1> SUFFICES ASSUME Inv, [Next]_vars PROVE Inv'
  OBVIOUS
<1>1. CASE Next
  BY <1>1, QueueSteps, ReceiveKeepsInv, ControlSteps, ProcessKeepsInv, DeletionKeepsInv DEF Next
<1>2. CASE UNCHANGED vars
  BY <1>2 DEF vars, loop, Inv, TypeOK, DeletedIsStored, PassedIsStored, Passed
<1> QED BY <1>1, <1>2

LEMMA Invariance == Spec => []Inv
  BY InitInv, NextInv, PTL DEF Spec
-------------------------------------------------------------------------------
(* Every variable keeps its type, and the loops over a batch stay inside   *)
(* it, between batches as between its two passes.                          *)
THEOREM TypeCorrect == Spec => []TypeOK
<1>1. Inv => TypeOK BY DEF Inv
<1> QED BY <1>1, Invariance, PTL

(* No message is deleted from the queue before it has its row: failures,   *)
(* signals and crashes at any step lose nothing.                           *)
THEOREM NothingIsLost == Spec => []DeletedIsStored
<1>1. Inv => DeletedIsStored BY DEF Inv
<1> QED BY <1>1, Invariance, PTL
-------------------------------------------------------------------------------
(* The refinement of StatsDelivery.                                        *)

\* Only what was sent is delivered, and has a row.
SentFirst ==
    /\ \A m \in Msgs : m \in rows => queue[m] # "unsent"
    /\ \A c \in Consumers : \A i \in DOMAIN batch[c] : queue[batch[c][i]] # "unsent"

Inv2 == Inv /\ SentFirst

\* At first nothing is sent.
LEMMA InitInv2 == Init => Inv2
<1> SUFFICES ASSUME Init PROVE SentFirst
  BY InitInv DEF Inv2
<1>1. \A c \in Consumers : batch[c] = << >> BY DEF Init
<1> QED BY <1>1 DEF Init, SentFirst

\* The messages of a batch that is handed out were sent.
LEMMA BatchWasSent ==
  ASSUME NEW b \in Batches
  PROVE  \A i \in DOMAIN b : b[i] \in Msgs /\ queue[b[i]] # "unsent"
<1>1. PICK k \in 1 .. BatchSize : b \in [1 .. k -> Receivable] BY DEF Batches
<1> QED BY <1>1 DEF Receivable

\* A message that is sent stays so.
LEMMA StaysSent ==
  ASSUME Inv, Next
  PROVE  \A m \in Msgs : queue[m] # "unsent" => queue'[m] # "unsent"
<1>1. ASSUME NEW m \in Msgs, Enqueue(m) \/ VisibilityTimeout(m)
      PROVE  \A k \in Msgs : queue[k] # "unsent" => queue'[k] # "unsent"
  BY <1>1 DEF Inv, TypeOK, Enqueue, VisibilityTimeout
<1>2. ASSUME NEW S, Hide(S)
      PROVE  \A k \in Msgs : queue[k] # "unsent" => queue'[k] # "unsent"
  BY <1>2 DEF Hide
<1>3. ASSUME NEW c \in Consumers, Ack(c)
      PROVE  \A k \in Msgs : queue[k] # "unsent" => queue'[k] # "unsent"
  BY <1>3 DEF Inv, TypeOK, Ack
<1>4. CASE UNCHANGED queue
  BY <1>4
<1> QED
  BY <1>1, <1>2, <1>3, <1>4
     DEF Next, Start, Receive, ReceiveFails, WakeUp, Exit, Process, Persist, PersistFails,
         PersistUnanswered, PersistInterrupted, RecordFails, Deletion, AckFails,
         LeaveForRedelivery, Signal, Crash

\* A batch is left as it is, left altogether, or has just been handed out.
LEMMA BatchesAfter ==
  ASSUME Inv, Next, NEW c \in Consumers
  PROVE  batch'[c] = batch[c] \/ batch'[c] = << >> \/ \E b \in Batches : batch'[c] = b
<1>1. ASSUME NEW d \in Consumers, NEW b \in Batches, Receive(d, b)
      PROVE  batch'[c] = batch[c] \/ \E e \in Batches : batch'[c] = e
  BY <1>1 DEF Inv, TypeOK, Receive
<1>2. ASSUME NEW d \in Consumers, NEW step, LeaveBatch(d, step)
      PROVE  batch'[c] = batch[c] \/ batch'[c] = << >>
  BY <1>2 DEF Inv, TypeOK, LeaveBatch
<1>3. ASSUME NEW d \in Consumers, NextRecord(d) PROVE batch' = batch
  BY <1>3 DEF NextRecord
<1>4. ASSUME NEW d \in Consumers, NextDelete(d)
      PROVE  batch'[c] = batch[c] \/ batch'[c] = << >>
  BY <1>2, <1>4 DEF NextDelete
<1>5. CASE UNCHANGED batch
  BY <1>5
<1> QED
  BY <1>1, <1>2, <1>3, <1>4, <1>5
     DEF Next, loop, Enqueue, VisibilityTimeout, Start, ReceiveFails, WakeUp, Exit, Process,
         Persist, PersistFails, PersistUnanswered, PersistInterrupted, RecordFails, Deletion,
         Ack, AckFails, LeaveForRedelivery, Signal, Crash

\* The message that a container is at was sent.
LEMMA CurrentWasSent ==
  ASSUME Inv2, NEW c \in Consumers, pc[c] \in {"process", "ack"}
  PROVE  Current(c) \in Msgs /\ queue[Current(c)] # "unsent"
<1>1. Current(c) \in Msgs BY CurrentIsMsg DEF Inv2, Inv
<1>2. at[c] \in DOMAIN batch[c] BY DEF Inv2, Inv, TypeOK
<1> QED BY <1>1, <1>2 DEF Inv2, SentFirst, Current

\* Process inserts no row, or that of the message it is at.
LEMMA ProcessRows ==
  ASSUME NEW c \in Consumers, Process(c)
  PROVE  /\ UNCHANGED queue
         /\ pc[c] = "process"
         /\ \/ rows' = rows
            \/ rows' = Inserted(Current(c)) /\ Current(c) \notin Unstorable
  BY DEF Process, Persist, PersistFails, PersistUnanswered, PersistInterrupted

\* Only Process touches the table.
LEMMA RowsAfter ==
  ASSUME Next
  PROVE  UNCHANGED rows \/ \E c \in Consumers : Process(c)
  BY DEF Next, Enqueue, VisibilityTimeout, Start, Receive, ReceiveFails, WakeUp, Exit, Deletion,
         Ack, AckFails, LeaveForRedelivery, Signal, Crash

\* Messages reach a batch, and then the table, from the queue only.
LEMMA NextInv2 == Inv2 /\ [Next]_vars => Inv2'
<1> SUFFICES ASSUME Inv2, [Next]_vars PROVE SentFirst'
  BY NextInv DEF Inv2
<1> USE DEF Inv2
<1>1. CASE UNCHANGED vars
  BY <1>1 DEF vars, loop, SentFirst
<1>2. CASE Next
  <2>1. \A m \in Msgs : queue[m] # "unsent" => queue'[m] # "unsent"
    BY <1>2, StaysSent
  <2>2. \A m \in Msgs : m \in rows' => queue'[m] # "unsent"
    <3>1. CASE UNCHANGED rows BY <2>1, <3>1 DEF SentFirst
    <3>2. ASSUME NEW c \in Consumers, Process(c)
          PROVE  \A m \in Msgs : m \in rows' => queue'[m] # "unsent"
      <4>1. UNCHANGED queue BY <3>2, ProcessRows
      <4>2. Current(c) \in Msgs /\ queue[Current(c)] # "unsent"
        <5>1. pc[c] = "process" BY <3>2, ProcessRows
        <5> QED BY <5>1, CurrentWasSent
      <4>3. \A m \in Msgs : m # Current(c) => (m \in rows' <=> m \in rows)
        BY <3>2, ProcessRows DEF Inserted, Inv, TypeOK
      <4> QED BY <4>1, <4>2, <4>3 DEF SentFirst
    <3> QED BY <1>2, <3>1, <3>2, RowsAfter
  <2>3. \A c \in Consumers : \A i \in DOMAIN batch'[c] : queue'[batch'[c][i]] # "unsent"
    <3> SUFFICES ASSUME NEW c \in Consumers, NEW i \in DOMAIN batch'[c]
                 PROVE  queue'[batch'[c][i]] # "unsent"
      OBVIOUS
    <3>1. CASE batch'[c] = batch[c]
      <4>1. batch[c][i] \in Msgs BY <3>1 DEF Inv, TypeOK
      <4> QED BY <2>1, <3>1, <4>1 DEF SentFirst
    <3>2. CASE batch'[c] = << >> BY <3>2
    <3>3. CASE \E b \in Batches : batch'[c] = b BY <2>1, <3>3, BatchWasSent
    <3> QED BY <1>2, <3>1, <3>2, <3>3, BatchesAfter
  <2> QED BY <2>2, <2>3 DEF SentFirst
<1> QED BY <1>1, <1>2
-------------------------------------------------------------------------------
\* A step that changes the status of one message.
LEMMA StatusMoves ==
  ASSUME NEW m \in Msgs, NEW to, Status(m)' = to,
         \A k \in Msgs \ {m} : queue'[k] = queue[k] /\ (k \in rows' <=> k \in rows)
  PROVE  Delivery!Becomes(m, Status(m), to)
  BY DEF Delivery!Becomes, Status

\* A step that inserts and deletes nothing, and sends nothing.
LEMMA StatusStays ==
  ASSUME UNCHANGED rows,
         \A m \in Msgs : /\ queue'[m] = "unsent" <=> queue[m] = "unsent"
                         /\ queue'[m] = "deleted" <=> queue[m] = "deleted"
  PROVE  UNCHANGED [m \in Msgs |-> Status(m)]
  BY DEF Status

\* Enqueue accepts a message, the first insert of its row stores it, and the first
\* delete forgets it; every other step is invisible.
LEMMA DeliveryStep ==
  ASSUME Inv2, Inv2', [Next]_vars
  PROVE  Delivery!Next \/ UNCHANGED [m \in Msgs |-> Status(m)]
<1> USE DEF Inv2, Inv
<1>1. CASE UNCHANGED <<queue, rows>>
  BY <1>1, StatusStays
<1>2. ASSUME NEW m \in Msgs, Enqueue(m)
      PROVE  Delivery!Next
  <2>1. queue'[m] = "visible" /\ \A k \in Msgs \ {m} : queue'[k] = queue[k]
    BY <1>2 DEF Enqueue, TypeOK
  <2>2. UNCHANGED rows /\ queue[m] = "unsent" BY <1>2 DEF Enqueue
  <2>3. Status(m) = "unsent" /\ Status(m)' = "queued"
    BY <2>1, <2>2 DEF Status, SentFirst
  <2>4. Delivery!Accept(m) BY <2>1, <2>2, <2>3, StatusMoves DEF Delivery!Accept
  <2> QED BY <2>4 DEF Delivery!Next
<1>3. ASSUME NEW m \in Msgs, VisibilityTimeout(m)
      PROVE  UNCHANGED [k \in Msgs |-> Status(k)]
  BY <1>3, StatusStays DEF VisibilityTimeout, TypeOK
<1>4. ASSUME NEW S, Hide(S), UNCHANGED rows
      PROVE  UNCHANGED [k \in Msgs |-> Status(k)]
  BY <1>4, StatusStays DEF Hide
<1>5. ASSUME NEW c \in Consumers, Process(c)
      PROVE  Delivery!Next \/ UNCHANGED [k \in Msgs |-> Status(k)]
  <2>1. PICK m \in Msgs : m = Current(c) /\ queue[m] # "unsent"
    <3>1. pc[c] = "process" BY <1>5, ProcessRows
    <3> QED BY <3>1, CurrentWasSent
  <2>2. UNCHANGED queue BY <1>5, ProcessRows
  <2>3. CASE rows' = rows BY <1>1, <2>2, <2>3
  <2>4. CASE rows' = Inserted(m) /\ m \notin Unstorable
    <3>1. \A k \in Msgs \ {m} : k \in rows' <=> k \in rows BY <2>4 DEF Inserted, TypeOK
    <3>2. m \in rows' BY <2>4, InsertedRows
    <3>3. CASE m \in rows
      <4>1. \A k \in Msgs : k \in rows' <=> k \in rows BY <3>1, <3>2, <3>3
      <4> QED BY <2>2, <4>1 DEF Status
    <3>4. CASE m \notin rows
      <4>1. Status(m) = "queued" /\ Status(m)' = "stored"
        BY <2>1, <2>2, <3>2, <3>4 DEF Status, DeletedIsStored
      <4>2. Delivery!Store(m) BY <2>2, <2>4, <3>1, <4>1, StatusMoves DEF Delivery!Store
      <4> QED BY <4>2 DEF Delivery!Next
    <3> QED BY <3>3, <3>4
  <2> QED BY <1>5, <2>1, <2>3, <2>4, ProcessRows
<1>6. ASSUME NEW c \in Consumers, Ack(c)
      PROVE  Delivery!Next \/ UNCHANGED [k \in Msgs |-> Status(k)]
  <2>1. PICK m \in Msgs : m = Current(c) /\ queue[m] # "unsent"
    BY <1>6, CurrentWasSent DEF Ack
  <2>2. /\ UNCHANGED rows /\ queue'[m] = "deleted"
        /\ \A k \in Msgs \ {m} : queue'[k] = queue[k]
    BY <1>6, <2>1 DEF Ack, TypeOK
  <2>3. CASE queue[m] = "deleted" BY <2>2, <2>3, StatusStays
  <2>4. CASE queue[m] # "deleted"
    <3>1. Status(m) = "stored" /\ Status(m)' = "done"
      BY <2>1, <2>2, <2>4 DEF Status, DeletedIsStored
    <3>2. Delivery!Forget(m) BY <2>2, <3>1, StatusMoves DEF Delivery!Forget
    <3> QED BY <3>2 DEF Delivery!Next
  <2> QED BY <2>3, <2>4
<1> QED
  BY <1>1, <1>2, <1>3, <1>4, <1>5, <1>6
     DEF Next, vars, Start, Receive, ReceiveFails, WakeUp, Exit, Deletion, AckFails,
         LeaveForRedelivery, Signal, Crash

\* No message has been sent.
LEMMA DeliveryInit == Init => Delivery!Init
  BY DEF Init, Delivery!Init, Status

\* Every behaviour of the consumers is one of StatsDelivery, fairness apart: whatever is
\* redelivered, lost or interrupted, a message is stored once it was accepted, and
\* forgotten once it is stored, in this order and never back.
THEOREM StoredThenForgotten == Spec => Delivery!Spec
<1>1. Inv2 /\ Inv2' /\ [Next]_vars => [Delivery!Next]_([m \in Msgs |-> Status(m)])
  BY DeliveryStep
<1> QED BY <1>1, InitInv2, NextInv2, DeliveryInit, PTL DEF Spec, Delivery!Spec
===============================================================================
