------------------------------ MODULE BatchFanout -----------------------------
(***************************************************************************)
(* The batch tools create_transactions, update_transactions and            *)
(* delete_transactions: CreateBatch, UpdateBatch and DeleteBatch of        *)
(* internal/usecase/transaction.go, which are the same fan-out over        *)
(* Create, Update and Delete, and the tallies of their handlers in         *)
(* internal/adapter/mcp/tools_transactions.go.                             *)
(*                                                                         *)
(* The caller starts one goroutine per item and waits for all of them; a   *)
(* semaphore admits batchConcurrency of them to the Organizze API, which   *)
(* is one HTTP request per item without retry.  A request that times out,  *)
(* is cancelled or whose response does not decode is an error of the item, *)
(* whether or not Organizze has carried it out or still will.              *)
(***************************************************************************)
EXTENDS Integers, FiniteSets

CONSTANTS
    MaxItems,           \* bound on the size of the batches that are tried
    MaxBatch,           \* domain.MaxBatchCreateTransactions, 100 in the code
    BatchConcurrency    \* batchConcurrency, 5 in the code

ASSUME FanoutAssumption ==
    /\ {MaxItems, MaxBatch} \subseteq Nat
    /\ BatchConcurrency \in Nat \ {0}

VARIABLES
    n,          \* len(items)
    valid,      \* the items that pass the validation of Create, Update or Delete
    caller,     \* where the calling goroutine is
    spawned,    \* how many goroutines it has started
    wg,         \* the counter of the wait group
    sem,        \* how many tokens are in the semaphore channel
    pc,         \* where the goroutine of each item is
    results,    \* results[i].Err, "none" until it is written
    api,        \* what becomes of the item's request at Organizze
    tally       \* <<Created, Failed>> of the tool's answer

goroutines == <<spawned, wg, sem, pc>>
vars == <<n, valid, caller, goroutines, results, api, tally>>

Items == 1 .. n

InFlight == { i \in Items : pc[i] \in {"running", "sent", "written"} }

TypeOK ==
    /\ n \in 0 .. MaxItems
    /\ valid \subseteq Items
    /\ caller \in {"called", "spawning", "waiting", "tallying", "answered", "rejected"}
    /\ spawned \in 0 .. n
    /\ wg \in Nat
    /\ sem \in 0 .. BatchConcurrency
    /\ pc \in [Items -> {"new", "waiting", "running", "sent", "written", "released", "done"}]
    /\ results \in [Items -> {"none", "ok", "error"}]
    /\ api \in [Items -> {"none", "pending", "applied", "refused"}]
    /\ tally \in Nat \X Nat

Init ==
    /\ n \in 0 .. MaxItems
    /\ valid \in SUBSET Items
    /\ caller = "called"
    /\ spawned = 0
    /\ wg = 0
    /\ sem = 0
    /\ pc = [i \in Items |-> "new"]
    /\ results = [i \in Items |-> "none"]
    /\ api = [i \in Items |-> "none"]
    /\ tally = <<0, 0>>
-------------------------------------------------------------------------------
(* Faulty variants of definitions below, each a bug the code could have    *)
(* had; a run with one of them in place must break a property.             *)

\* The semaphore has room for one token too many.
OneTooMany == sem <= BatchConcurrency

\* The goroutine calls wg.Add itself, which it may do too late.
NotYetCounted == 0

\* The result goes to the position of the last item.
MixedUp(i, err) == [results EXCEPT ![n] = err]

\* The first failure is the answer of the whole batch.
StopsAtFailure == wg = 0 \/ \E i \in Items : results[i] = "error"

\* A batch of exactly the maximum is refused.
TooLargeAtMax == n >= MaxBatch
-------------------------------------------------------------------------------
(* The calling goroutine.                                                  *)

TooLarge == n > MaxBatch

\* The size guard: an error for the whole batch, and no item is attempted.
RejectBatch ==
    /\ caller = "called"
    /\ n = 0 \/ TooLarge
    /\ caller' = "rejected"
    /\ UNCHANGED <<n, valid, goroutines, results, api, tally>>

AcceptBatch ==
    /\ caller = "called"
    /\ ~(n = 0 \/ TooLarge)
    /\ caller' = "spawning"
    /\ UNCHANGED <<n, valid, goroutines, results, api, tally>>

\* What wg.Add contributes before the goroutine starts.
AddedAtSpawn == 1

Spawn ==
    /\ caller = "spawning"
    /\ spawned < n
    /\ spawned' = spawned + 1
    /\ wg' = wg + AddedAtSpawn
    /\ pc' = [pc EXCEPT ![spawned'] = "waiting"]
    /\ UNCHANGED <<n, valid, caller, sem, results, api, tally>>

EndOfSpawning ==
    /\ caller = "spawning"
    /\ spawned = n
    /\ caller' = "waiting"
    /\ UNCHANGED <<n, valid, goroutines, results, api, tally>>

\* wg.Wait lets the caller through.
AllDone == wg = 0

Return ==
    /\ caller = "waiting"
    /\ AllDone
    /\ caller' = "tallying"
    /\ UNCHANGED <<n, valid, goroutines, results, api, tally>>

\* The handler counts the results and answers.
Answer ==
    /\ caller = "tallying"
    /\ tally' = << Cardinality({ i \in Items : results[i] = "ok" }),
                   Cardinality({ i \in Items : results[i] # "ok" }) >>
    /\ caller' = "answered"
    /\ UNCHANGED <<n, valid, goroutines, results, api>>
-------------------------------------------------------------------------------
(* The goroutine of item i.                                                *)

HasRoom == sem < BatchConcurrency

WriteResult(i, err) == [results EXCEPT ![i] = err]

GoTo(i, step) == pc' = [pc EXCEPT ![i] = step]

Acquire(i) ==
    /\ pc[i] = "waiting"
    /\ HasRoom
    /\ sem' = sem + 1
    /\ GoTo(i, "running")
    /\ UNCHANGED <<n, valid, caller, spawned, wg, results, api, tally>>

\* The item does not pass validation: nothing is sent.
Invalid(i) ==
    /\ pc[i] = "running"
    /\ i \notin valid
    /\ results' = WriteResult(i, "error")
    /\ GoTo(i, "written")
    /\ UNCHANGED <<n, valid, caller, spawned, wg, sem, api, tally>>

Send(i) ==
    /\ pc[i] = "running"
    /\ i \in valid
    /\ api' = [api EXCEPT ![i] = "pending"]
    /\ GoTo(i, "sent")
    /\ UNCHANGED <<n, valid, caller, spawned, wg, sem, results, tally>>

Succeed(i) ==
    /\ pc[i] = "sent"
    /\ api[i] = "applied"
    /\ results' = WriteResult(i, "ok")
    /\ GoTo(i, "written")
    /\ UNCHANGED <<n, valid, caller, spawned, wg, sem, api, tally>>

\* Refused by Organizze (not found, rate limited, ...), or no usable answer.
Fail(i) ==
    /\ pc[i] = "sent"
    /\ results' = WriteResult(i, "error")
    /\ GoTo(i, "written")
    /\ UNCHANGED <<n, valid, caller, spawned, wg, sem, api, tally>>

\* The deferred calls run in reverse order: the token first.
Release(i) ==
    /\ pc[i] = "written"
    /\ sem' = sem - 1
    /\ GoTo(i, "released")
    /\ UNCHANGED <<n, valid, caller, spawned, wg, results, api, tally>>

Done(i) ==
    /\ pc[i] = "released"
    /\ wg' = wg - 1
    /\ GoTo(i, "done")
    /\ UNCHANGED <<n, valid, caller, spawned, sem, results, api, tally>>
-------------------------------------------------------------------------------
(* Organizze: a request is carried out or refused, if it arrives at all.   *)

Decide(i) ==
    /\ api[i] = "pending"
    /\ \E decision \in {"applied", "refused"} : api' = [api EXCEPT ![i] = decision]
    /\ UNCHANGED <<n, valid, caller, goroutines, results, tally>>
-------------------------------------------------------------------------------
Goroutine(i) ==
    Acquire(i) \/ Invalid(i) \/ Send(i) \/ Succeed(i) \/ Fail(i) \/ Release(i) \/ Done(i)

Caller == RejectBatch \/ AcceptBatch \/ Spawn \/ EndOfSpawning \/ Return \/ Answer

Next == Caller \/ \E i \in Items : Goroutine(i) \/ Decide(i)

Spec == Init /\ [][Next]_vars

\* The Go scheduler runs every goroutine that can go on, and every request ends, by
\* the timeout of the HTTP client at the latest.
Fairness == WF_vars(Caller) /\ \A i \in 1 .. MaxItems : WF_vars(i \in Items /\ Goroutine(i))

FairSpec == Spec /\ Fairness
-------------------------------------------------------------------------------
(* Properties.                                                             *)

\* No more than batchConcurrency items are being carried out at any time, however
\* the goroutines are scheduled (the semaphore of the batch functions).
BoundedConcurrency == Cardinality(InFlight) <= BatchConcurrency

\* When the batch function returns, every result is written and stands at the index
\* of its item: success only of what Organizze carried out, and an error for what
\* was invalid, which was never sent.
AlignedResults ==
    caller \in {"tallying", "answered"} => \A i \in Items :
        /\ results[i] # "none"
        /\ results[i] = "ok" => api[i] = "applied"
        /\ i \notin valid => results[i] = "error" /\ api[i] = "none"

\* The totals of the answer are those of the results, and no goroutine changes a
\* result after they were taken.
TotalsMatchResults ==
    caller = "answered" =>
        tally = << Cardinality({ i \in Items : results[i] = "ok" }),
                   Cardinality({ i \in Items : results[i] = "error" }) >>

Acceptable == n \in 1 .. MaxBatch

Batch == INSTANCE BestEffortBatch WITH
    Items <- 1 .. MaxItems,
    wanted <- IF Acceptable THEN Items ELSE {},
    allowed <- IF Acceptable THEN valid ELSE {},
    applied <- { i \in Items : api[i] = "applied" },
    outcome <- [i \in 1 .. MaxItems |-> IF i \in Items THEN results[i] ELSE "none"],
    returned <- caller \in {"tallying", "answered", "rejected"}

\* The fan-out implements BestEffortBatch: a batch of one item up to the maximum is
\* settled item by item, whatever fails, another is not touched, and the call
\* always returns.
ImplementsBatch == Batch!FairSpec
===============================================================================
