---------------------------- MODULE StatsConsumer -----------------------------
(***************************************************************************)
(* The stats consumer (cmd/consumer): one or more containers that poll an  *)
(* SQS standard queue, insert each message into the Postgres table         *)
(* stats_events and delete what they have inserted.                        *)
(*                                                                         *)
(* The queue delivers at least once: a received message is hidden until    *)
(* its visibility timeout, may be handed out again meanwhile, or after it  *)
(* was deleted, and is hidden as well when the answer of a receive is      *)
(* lost.  A step is one call to SQS or Postgres.  SIGTERM cancels the      *)
(* context that pollLoop hands to the receive and to the inserts; the      *)
(* deletes run under a context of their own.                               *)
(***************************************************************************)
EXTENDS Naturals, Sequences, FiniteSets

CONSTANTS
    Consumers,         \* containers running at once
    Msgs,              \* messages, named by their SQS message id
    Unstorable,        \* those whose payload the JSONB column rejects
    BatchSize,         \* receiveBatchSize, 10 in the code
    CallsMayFail,      \* whether calls to SQS and Postgres may fail
    Redeliveries,      \* whether SQS repeats deliveries out of turn
    MaxInterruptions   \* bound on the signals and crashes

ASSUME ConsumerAssumption ==
    /\ Unstorable \subseteq Msgs
    /\ BatchSize \in Nat \ {0}
    /\ {CallsMayFail, Redeliveries} \subseteq BOOLEAN
    /\ MaxInterruptions \in Nat

VARIABLES
    queue,          \* what SQS holds of each message
    rows,           \* stats_events: the message ids that have a row
    pc,             \* where each container's pollLoop is
    stopping,       \* whether its context is cancelled
    batch,          \* out.Messages
    at,             \* the position of the loop over the batch
    failed,         \* Result.FailedMessageIDs
    interruptions

loop == <<pc, batch, at, failed>>
vars == <<queue, rows, loop, stopping, interruptions>>

TypeOK ==
    /\ queue \in [Msgs -> {"unsent", "visible", "hidden", "deleted"}]
    /\ rows \subseteq Msgs
    /\ pc \in [Consumers -> {"down", "receive", "backoff", "process", "ack"}]
    /\ stopping \in [Consumers -> BOOLEAN]
    /\ batch \in [Consumers -> Seq(Msgs)]
    /\ at \in [Consumers -> Nat \ {0}]
    /\ failed \in [Consumers -> SUBSET Msgs]
    /\ interruptions \in Nat
    /\ \A c \in Consumers :
          IF pc[c] \in {"process", "ack"}
          THEN at[c] \in DOMAIN batch[c]
          ELSE batch[c] = <<>> /\ at[c] = 1 /\ failed[c] = {}

Init ==
    /\ queue = [m \in Msgs |-> "unsent"]
    /\ rows = {}
    /\ pc = [c \in Consumers |-> "down"]
    /\ stopping = [c \in Consumers |-> FALSE]
    /\ batch = [c \in Consumers |-> <<>>]
    /\ at = [c \in Consumers |-> 1]
    /\ failed = [c \in Consumers |-> {}]
    /\ interruptions = 0
-------------------------------------------------------------------------------
(* Control of one container.                                               *)

Current(c) == batch[c][at[c]]

(* Faulty variants of definitions below, each a bug the code could have had; *)
(* a run with one of them in place must break a property.                    *)

\* Every message of the batch is deleted.
DeletesAll(c, m) == TRUE

\* The loop over the records runs one past the end.
PastTheEnd(c) ==
    /\ at' = [at EXCEPT ![c] = @ + 1]
    /\ pc' = [pc EXCEPT ![c] = IF at[c] > Len(batch[c]) THEN "ack" ELSE @]
    /\ UNCHANGED batch

\* The first failure gives up the rest of the batch.
BatchFails(c) ==
    /\ failed' = [failed EXCEPT ![c] = { batch[c][i] : i \in at[c] .. Len(batch[c]) }]
    /\ at' = [at EXCEPT ![c] = 1]
    /\ pc' = [pc EXCEPT ![c] = "ack"]
    /\ UNCHANGED batch

\* The long poll runs under a context of its own, like the deletes.
OnlySleepCancelled(c) == stopping[c] /\ pc[c] = "backoff"

\* The loop variables between two batches.
LeaveBatch(c, step) ==
    /\ pc' = [pc EXCEPT ![c] = step]
    /\ batch' = [batch EXCEPT ![c] = <<>>]
    /\ at' = [at EXCEPT ![c] = 1]
    /\ failed' = [failed EXCEPT ![c] = {}]

\* The next record of Process, or the first delete.
NextRecord(c) ==
    /\ IF at[c] < Len(batch[c])
       THEN /\ at' = [at EXCEPT ![c] = @ + 1]
            /\ UNCHANGED pc
       ELSE /\ at' = [at EXCEPT ![c] = 1]
            /\ pc' = [pc EXCEPT ![c] = "ack"]
    /\ UNCHANGED batch

\* A record that failed to persist; the loop goes on with the next one.
RecordFails(c) ==
    /\ failed' = [failed EXCEPT ![c] = @ \cup {Current(c)}]
    /\ NextRecord(c)

\* The next message to delete, or the next poll.
NextDelete(c) ==
    IF at[c] < Len(batch[c])
    THEN /\ at' = [at EXCEPT ![c] = @ + 1]
         /\ UNCHANGED <<pc, batch, failed>>
    ELSE LeaveBatch(c, "receive")

\* There is a row after the insert, and never a second one: the id is UNIQUE, and
\* the insert ends with ON CONFLICT (message_id) DO NOTHING.
Inserted(m) == rows \cup {m}

\* What is deleted: not the messages that failed.
Deletes(c, m) == m \notin failed[c]

\* pollLoop sees the cancelled context at the top of the loop, in the long poll and
\* in the sleep.
Cancelled(c) == stopping[c] /\ pc[c] \in {"receive", "backoff"}
-------------------------------------------------------------------------------
(* The queue.                                                              *)

\* The ingest endpoint sends a message.
Enqueue(m) ==
    /\ queue[m] = "unsent"
    /\ queue' = [queue EXCEPT ![m] = "visible"]
    /\ UNCHANGED <<rows, loop, stopping, interruptions>>

VisibilityTimeout(m) ==
    /\ queue[m] = "hidden"
    /\ queue' = [queue EXCEPT ![m] = "visible"]
    /\ UNCHANGED <<rows, loop, stopping, interruptions>>

Receivable == { m \in Msgs : \/ queue[m] = "visible"
                              \/ /\ Redeliveries
                                 /\ queue[m] \in {"hidden", "deleted"} }

\* Up to BatchSize messages; the same one twice only when deliveries repeat.
Batches == { b \in UNION { [1 .. n -> Receivable] : n \in 1 .. BatchSize } :
                 Redeliveries \/ \A i, j \in DOMAIN b : b[i] = b[j] => i = j }

Hide(S) == queue' = [m \in Msgs |-> IF m \in S /\ queue[m] = "visible" THEN "hidden"
                                    ELSE queue[m]]
-------------------------------------------------------------------------------
(* pollLoop.                                                               *)

\* The orchestrator starts the container; main connects and enters pollLoop.
Start(c) ==
    /\ pc[c] = "down"
    /\ pc' = [pc EXCEPT ![c] = "receive"]
    /\ stopping' = [stopping EXCEPT ![c] = FALSE]
    /\ UNCHANGED <<queue, rows, batch, at, failed, interruptions>>

\* A long poll that returns messages.  One that returns none is a stuttering step.
Receive(c, b) ==
    /\ pc[c] = "receive" /\ ~Cancelled(c)
    /\ Hide({ b[i] : i \in DOMAIN b })
    /\ batch' = [batch EXCEPT ![c] = b]
    /\ pc' = [pc EXCEPT ![c] = "process"]
    /\ UNCHANGED <<rows, at, failed, stopping, interruptions>>

\* The receive fails, perhaps with messages already hidden, and the loop sleeps.
ReceiveFails(c) ==
    /\ CallsMayFail
    /\ pc[c] = "receive" /\ ~Cancelled(c)
    /\ \E S \in SUBSET Receivable : Cardinality(S) <= BatchSize /\ Hide(S)
    /\ pc' = [pc EXCEPT ![c] = "backoff"]
    /\ UNCHANGED <<rows, batch, at, failed, stopping, interruptions>>

WakeUp(c) ==
    /\ pc[c] = "backoff" /\ ~Cancelled(c)
    /\ pc' = [pc EXCEPT ![c] = "receive"]
    /\ UNCHANGED <<queue, rows, batch, at, failed, stopping, interruptions>>

\* pollLoop and main return.
Exit(c) ==
    /\ Cancelled(c)
    /\ pc' = [pc EXCEPT ![c] = "down"]
    /\ UNCHANGED <<queue, rows, batch, at, failed, stopping, interruptions>>
-------------------------------------------------------------------------------
(* Process: one insert per record of the batch.                            *)

Persist(c) ==
    /\ pc[c] = "process" /\ ~stopping[c]
    /\ Current(c) \notin Unstorable
    /\ rows' = Inserted(Current(c))
    /\ NextRecord(c)
    /\ UNCHANGED <<queue, failed, stopping, interruptions>>

\* The database rejects or misses the insert, or the context is cancelled before.
PersistFails(c) ==
    /\ pc[c] = "process"
    /\ CallsMayFail \/ stopping[c] \/ Current(c) \in Unstorable
    /\ RecordFails(c)
    /\ UNCHANGED <<queue, rows, stopping, interruptions>>

\* The row is committed, but the answer is lost.
PersistUnanswered(c) ==
    /\ CallsMayFail
    /\ pc[c] = "process" /\ ~stopping[c]
    /\ Current(c) \notin Unstorable
    /\ rows' = Inserted(Current(c))
    /\ RecordFails(c)
    /\ UNCHANGED <<queue, stopping, interruptions>>

\* SIGTERM arrives while the insert runs: its row may be committed, but the
\* cancelled context makes it an error.
PersistInterrupted(c) ==
    /\ pc[c] = "process" /\ ~stopping[c]
    /\ Current(c) \notin Unstorable
    /\ interruptions < MaxInterruptions
    /\ interruptions' = interruptions + 1
    /\ stopping' = [stopping EXCEPT ![c] = TRUE]
    /\ rows' = Inserted(Current(c))
    /\ RecordFails(c)
    /\ UNCHANGED queue
-------------------------------------------------------------------------------
(* The deletes, under a context that SIGTERM does not cancel.              *)

\* A delete that takes effect, whatever its answer: errors are only logged.
Ack(c) ==
    /\ pc[c] = "ack"
    /\ Deletes(c, Current(c))
    /\ queue' = [queue EXCEPT ![Current(c)] = "deleted"]
    /\ NextDelete(c)
    /\ UNCHANGED <<rows, stopping, interruptions>>

\* A delete without effect: it fails, ackTimeout has passed, or the receipt is not
\* the latest one of the message.
AckFails(c) ==
    /\ CallsMayFail \/ Redeliveries
    /\ pc[c] = "ack"
    /\ Deletes(c, Current(c))
    /\ NextDelete(c)
    /\ UNCHANGED <<queue, rows, stopping, interruptions>>

LeaveForRedelivery(c) ==
    /\ pc[c] = "ack"
    /\ ~Deletes(c, Current(c))
    /\ NextDelete(c)
    /\ UNCHANGED <<queue, rows, stopping, interruptions>>
-------------------------------------------------------------------------------
(* Signals and crashes.                                                    *)

Interrupt ==
    /\ interruptions < MaxInterruptions
    /\ interruptions' = interruptions + 1

\* SIGTERM or SIGINT between two calls, or during a long poll, which may already
\* have hidden messages whose answer is then dropped.
Signal(c) ==
    /\ pc[c] # "down" /\ ~stopping[c]
    /\ Interrupt
    /\ stopping' = [stopping EXCEPT ![c] = TRUE]
    /\ \/ UNCHANGED queue
       \/ /\ pc[c] = "receive"
          /\ \E S \in SUBSET Receivable : Cardinality(S) <= BatchSize /\ Hide(S)
    /\ UNCHANGED <<rows, loop>>

Crash(c) ==
    /\ pc[c] # "down"
    /\ Interrupt
    /\ LeaveBatch(c, "down")
    /\ UNCHANGED <<queue, rows, stopping>>
-------------------------------------------------------------------------------
Process(c) == Persist(c) \/ PersistFails(c) \/ PersistUnanswered(c) \/ PersistInterrupted(c)

Deletion(c) == Ack(c) \/ AckFails(c) \/ LeaveForRedelivery(c)

Next ==
    \/ \E m \in Msgs : Enqueue(m) \/ VisibilityTimeout(m)
    \/ \E c \in Consumers :
          \/ Start(c) \/ (\E b \in Batches : Receive(c, b)) \/ ReceiveFails(c) \/ WakeUp(c)
          \/ Exit(c) \/ Process(c) \/ Deletion(c) \/ Signal(c) \/ Crash(c)

\* Containers are restarted and scheduled; SQS, for each message, ends its
\* visibility timeout and hands it out again and again; calls to Postgres and SQS
\* about a message do not fail for ever.
Fairness ==
    /\ \A c \in Consumers :
          /\ WF_vars(Start(c)) /\ WF_vars(WakeUp(c)) /\ WF_vars(Exit(c))
          /\ WF_vars(Process(c)) /\ WF_vars(Deletion(c))
    /\ \A m \in Msgs :
          /\ WF_vars(VisibilityTimeout(m))
          /\ SF_vars(\E c \in Consumers, b \in Batches :
                        (\E i \in DOMAIN b : b[i] = m) /\ Receive(c, b))
          /\ SF_vars(\E c \in Consumers : Persist(c) /\ Current(c) = m)
          /\ SF_vars(\E c \in Consumers : Ack(c) /\ Current(c) = m)

Spec == Init /\ [][Next]_vars

FairSpec == Spec /\ Fairness
-------------------------------------------------------------------------------
(* Properties.                                                             *)

\* A message is deleted only after its row exists, so no failed insert, signal or
\* crash between the insert and the delete loses it (Process reports the failures
\* that pollLoop skips when it deletes).
DeletedIsStored == \A m \in Msgs : queue[m] = "deleted" => m \in rows

\* A container told to stop does, whatever SQS and Postgres answer: it takes no new
\* batch, and the one in flight is over after its inserts and deletes.
StopsAfterSignal == \A c \in Consumers : stopping[c] ~> pc[c] = "down"

Status(m) ==
    IF queue[m] = "unsent" THEN "unsent"
    ELSE IF queue[m] = "deleted" THEN "done"
    ELSE IF m \in rows THEN "stored"
    ELSE "queued"

Delivery == INSTANCE StatsDelivery WITH status <- [m \in Msgs |-> Status(m)]

\* The consumer implements StatsDelivery: a message is stored before the queue
\* forgets it, and every one that the table accepts is stored in the end, even
\* next to one that is rejected again and again.
ImplementsDelivery == Delivery!FairSpec
-------------------------------------------------------------------------------
(* What the documentation says, and the code does not keep.                *)

\* cmd/consumer/README.md:110-111: after SIGTERM "the in-flight batch (if any)
\* completes, then the process exits".
BatchCompletesAfterSignal ==
    [][\A c \in Consumers :
          stopping[c] /\ pc[c] = "ack" /\ pc'[c] = "receive" =>
              \A i \in DOMAIN batch[c] : batch[c][i] \notin Unstorable => batch[c][i] \in rows]_vars
===============================================================================
