--------------------------- MODULE BatchFanoutProofs --------------------------
(***************************************************************************)
(* Theorems about BatchFanout for batches of any size, any cap and any     *)
(* concurrency.                                                            *)
(***************************************************************************)
EXTENDS BatchFanout, FiniteSetTheorems, TLAPS

(* The inductive invariant.                                                *)

\* TypeOK, without the ranges of the counters.
Shape ==
    /\ n \in 0 .. MaxItems
    /\ valid \subseteq Items
    /\ caller \in {"called", "spawning", "waiting", "tallying", "answered", "rejected"}
    /\ spawned \in 0 .. n
    /\ wg \in Int
    /\ sem \in Int
    /\ pc \in [Items -> {"new", "waiting", "running", "sent", "written", "released", "done"}]
    /\ results \in [Items -> {"none", "ok", "error"}]
    /\ api \in [Items -> {"none", "pending", "applied", "refused"}]
    /\ tally \in Nat \X Nat

\* The goroutines the wait group counts.
Counted == { i \in Items : pc[i] \notin {"new", "done"} }

Counters ==
    /\ sem = Cardinality(InFlight)
    /\ sem <= BatchConcurrency
    /\ wg = Cardinality(Counted)

Spawning ==
    /\ \A i \in Items : pc[i] = "new" <=> i > spawned
    /\ caller \in {"called", "rejected"} => spawned = 0
    /\ caller \in {"waiting", "tallying", "answered"} => spawned = n

Outcomes ==
    \A i \in Items :
        /\ results[i] # "none" <=> pc[i] \in {"written", "released", "done"}
        /\ results[i] = "ok" => api[i] = "applied"
        /\ api[i] # "none" => i \in valid

Finished == caller \in {"tallying", "answered"} => \A i \in Items : pc[i] = "done"

Inv == Shape /\ Counters /\ Spawning /\ Outcomes /\ Finished /\ TotalsMatchResults
-------------------------------------------------------------------------------
LEMMA FiniteParts ==
  ASSUME Shape
  PROVE  /\ \A S \in SUBSET Items : IsFiniteSet(S) /\ Cardinality(S) \in Nat
         /\ InFlight \in SUBSET Items
         /\ Counted \in SUBSET Items
<1>1. IsFiniteSet(Items)
  <2>1. n \in Int BY FanoutAssumption DEF Shape
  <2> QED BY <2>1, FS_Interval DEF Items
<1>2. \A S \in SUBSET Items : IsFiniteSet(S) BY <1>1, FS_Subset
<1>3. \A S \in SUBSET Items : Cardinality(S) \in Nat BY <1>2, FS_CardinalityType
<1> QED BY <1>2, <1>3 DEF InFlight, Counted

\* What a step of one goroutine that leaves the batch alone does to the two sets.
LEMMA SetsAfterMove ==
  ASSUME Shape, NEW i \in Items, NEW step, UNCHANGED n, GoTo(i, step)
  PROVE  /\ InFlight' = IF step \in {"running", "sent", "written"}
                        THEN InFlight \cup {i} ELSE InFlight \ {i}
         /\ Counted' = IF step \notin {"new", "done"}
                       THEN Counted \cup {i} ELSE Counted \ {i}
<1>1. Items' = Items BY DEF Items
<1>2. pc'[i] = step /\ \A j \in Items \ {i} : pc'[j] = pc[j] BY DEF GoTo, Shape
<1> QED BY <1>1, <1>2 DEF InFlight, Counted

\* A step from one state in a set to another, or from none to none.
LEMMA SameCount ==
  ASSUME Shape, NEW i \in Items
  PROVE  /\ i \in InFlight => InFlight \cup {i} = InFlight
         /\ i \notin InFlight => InFlight \ {i} = InFlight
         /\ i \in Counted => Counted \cup {i} = Counted
         /\ i \notin Counted => Counted \ {i} = Counted
  OBVIOUS

LEMMA OneMore ==
  ASSUME Shape, NEW i \in Items
  PROVE  /\ i \notin InFlight => Cardinality(InFlight \cup {i}) = Cardinality(InFlight) + 1
         /\ i \in InFlight => Cardinality(InFlight \ {i}) = Cardinality(InFlight) - 1
         /\ i \notin Counted => Cardinality(Counted \cup {i}) = Cardinality(Counted) + 1
         /\ i \in Counted => Cardinality(Counted \ {i}) = Cardinality(Counted) - 1
  BY FiniteParts, FS_AddElement, FS_RemoveElement
-------------------------------------------------------------------------------
LEMMA InitInv == Init => Inv
<1> SUFFICES ASSUME Init PROVE Inv
  OBVIOUS
<1> USE FanoutAssumption DEF Init
<1>1. Shape BY DEF Shape, Items
<1>2. InFlight = {} /\ Counted = {} BY DEF InFlight, Counted
<1>3. Counters BY <1>2, FS_EmptySet DEF Counters
<1>4. Spawning /\ Outcomes /\ Finished /\ TotalsMatchResults
  BY DEF Spawning, Outcomes, Finished, TotalsMatchResults, Items
<1> QED BY <1>1, <1>3, <1>4 DEF Inv

\* The caller's steps that start no goroutine.
LEMMA CallerMoves ==
  ASSUME Inv, RejectBatch \/ AcceptBatch \/ EndOfSpawning \/ Return
  PROVE  Inv'
<1> USE DEF goroutines
<1>1. UNCHANGED <<n, valid, goroutines, results, api, tally>>
  BY DEF RejectBatch, AcceptBatch, EndOfSpawning, Return
<1>2. Items' = Items /\ InFlight' = InFlight /\ Counted' = Counted
  BY <1>1 DEF Items, InFlight, Counted
<1>3. Shape'
  BY <1>1, <1>2 DEF Inv, Shape, RejectBatch, AcceptBatch, EndOfSpawning, Return
<1>4. Counters' BY <1>1, <1>2 DEF Inv, Counters
<1>5. Spawning'
  BY <1>1, <1>2 DEF Inv, Shape, Spawning, RejectBatch, AcceptBatch, EndOfSpawning, Return
<1>6. Outcomes' BY <1>1, <1>2 DEF Inv, Outcomes
<1>7. Finished'
  <2>1. CASE Return
    <3>1. Counted = {}
      BY <2>1, FiniteParts, FS_EmptySet DEF Inv, Counters, Return, AllDone
    <3>2. \A i \in Items : pc[i] = "done"
      BY <2>1, <3>1 DEF Inv, Shape, Spawning, Counted, Return, Items
    <3> QED BY <1>1, <1>2, <3>2 DEF Finished
  <2>2. CASE RejectBatch \/ AcceptBatch \/ EndOfSpawning
    BY <2>2 DEF Finished, RejectBatch, AcceptBatch, EndOfSpawning
  <2> QED BY <2>1, <2>2
<1>8. TotalsMatchResults'
  BY DEF TotalsMatchResults, RejectBatch, AcceptBatch, EndOfSpawning, Return
<1> QED BY <1>3, <1>4, <1>5, <1>6, <1>7, <1>8 DEF Inv

LEMMA SpawnKeepsInv == ASSUME Inv, Spawn PROVE Inv'
<1> DEFINE i == spawned + 1
<1> USE FanoutAssumption
<1>1. i \in Items /\ pc[i] = "new" /\ GoTo(i, "waiting") /\ UNCHANGED n
  BY DEF Inv, Shape, Spawning, Spawn, Items, GoTo
<1>2. Shape' BY <1>1 DEF Inv, Shape, Spawn, Items, AddedAtSpawn
<1>3. InFlight' = InFlight /\ Counted' = Counted \cup {i} /\ i \notin Counted
  <2>1. i \notin InFlight /\ i \notin Counted BY <1>1 DEF InFlight, Counted
  <2>2. InFlight' = InFlight \ {i} /\ Counted' = Counted \cup {i}
    BY <1>1, SetsAfterMove DEF Inv
  <2> QED BY <2>1, <2>2
<1>4. Counters'
  <2>1. Cardinality(Counted') = Cardinality(Counted) + 1
    BY <1>1, <1>3, OneMore DEF Inv
  <2> QED BY <2>1, <1>3 DEF Inv, Counters, Spawn, AddedAtSpawn
<1>5. Spawning'
  <2>1. \A j \in Items : j > i <=> j > spawned /\ j # i
    BY DEF Items, Inv, Shape
  <2> QED BY <1>1, <2>1 DEF Inv, Shape, Spawning, Spawn, Items, GoTo
<1>6. Outcomes' BY <1>1 DEF Inv, Shape, Outcomes, Spawn, Items, GoTo
<1>7. Finished' /\ TotalsMatchResults' BY DEF Finished, TotalsMatchResults, Spawn
<1> QED BY <1>2, <1>4, <1>5, <1>6, <1>7 DEF Inv

LEMMA AnswerKeepsInv == ASSUME Inv, Answer PROVE Inv'
<1> USE DEF goroutines
<1>1. UNCHANGED <<n, valid, goroutines, results, api>> BY DEF Answer
<1>2. Items' = Items /\ InFlight' = InFlight /\ Counted' = Counted
  BY <1>1 DEF Items, InFlight, Counted
<1>3. Cardinality({ i \in Items : results[i] = "ok" }) \in Nat
      /\ Cardinality({ i \in Items : results[i] # "ok" }) \in Nat
  BY FiniteParts DEF Inv
<1>4. Shape' BY <1>1, <1>2, <1>3 DEF Inv, Shape, Answer
<1>5. Counters' /\ Spawning' /\ Outcomes' /\ Finished'
  BY <1>1, <1>2 DEF Inv, Counters, Spawning, Outcomes, Finished, Answer
<1>6. TotalsMatchResults'
  <2>1. \A i \in Items : results[i] # "none"
    BY DEF Inv, Finished, Outcomes, Answer
  <2>2. { i \in Items : results[i] # "ok" } = { i \in Items : results[i] = "error" }
    BY <2>1 DEF Inv, Shape
  <2> QED BY <1>1, <1>2, <2>2 DEF TotalsMatchResults, Answer
<1> QED BY <1>4, <1>5, <1>6 DEF Inv

\* No goroutine moves any more once the results are being read.
LEMMA NotFinished ==
  ASSUME Inv, NEW i \in Items, pc[i] # "done"
  PROVE  caller \notin {"tallying", "answered"}
  BY DEF Inv, Finished

LEMMA AcquireKeepsInv == ASSUME Inv, NEW i \in Items, Acquire(i) PROVE Inv'
<1> USE FanoutAssumption
<1>1. pc[i] = "waiting" /\ GoTo(i, "running") /\ UNCHANGED n BY DEF Acquire
<1>2. i \notin InFlight /\ i \in Counted BY <1>1 DEF InFlight, Counted
<1>3. InFlight' = InFlight \cup {i} /\ Counted' = Counted
  BY <1>1, <1>2, SetsAfterMove, SameCount DEF Inv
<1>4. Shape' BY <1>1 DEF Inv, Shape, Acquire, Items, GoTo
<1>5. Counters'
  <2>1. Cardinality(InFlight') = Cardinality(InFlight) + 1 BY <1>2, <1>3, OneMore DEF Inv
  <2> QED BY <2>1, <1>3 DEF Inv, Shape, Counters, Acquire, HasRoom
<1>6. Spawning' /\ Outcomes'
  BY <1>1 DEF Inv, Shape, Spawning, Outcomes, Acquire, Items, GoTo
<1>7. Finished' /\ TotalsMatchResults'
  BY <1>1, NotFinished DEF Finished, TotalsMatchResults, Acquire
<1> QED BY <1>4, <1>5, <1>6, <1>7 DEF Inv

\* The steps between the acquisition and the release of the token.
LEMMA WorkKeepsInv ==
  ASSUME Inv, NEW i \in Items, Invalid(i) \/ Send(i) \/ Succeed(i) \/ Fail(i)
  PROVE  Inv'
<1>1. PICK step \in {"sent", "written"} :
          /\ pc[i] \in {"running", "sent"} /\ GoTo(i, step) /\ UNCHANGED <<n, wg, sem, caller>>
  BY DEF Invalid, Send, Succeed, Fail
<1>2. i \in InFlight /\ i \in Counted BY <1>1 DEF InFlight, Counted
<1>3. InFlight' = InFlight /\ Counted' = Counted
  BY <1>1, <1>2, SetsAfterMove, SameCount DEF Inv
<1>4. Shape'
  <2>1. CASE Invalid(i) BY <2>1 DEF Inv, Shape, Invalid, Items, GoTo, WriteResult
  <2>2. CASE Send(i) BY <2>2 DEF Inv, Shape, Send, Items, GoTo
  <2>3. CASE Succeed(i) BY <2>3 DEF Inv, Shape, Succeed, Items, GoTo, WriteResult
  <2>4. CASE Fail(i) BY <2>4 DEF Inv, Shape, Fail, Items, GoTo, WriteResult
  <2> QED BY <2>1, <2>2, <2>3, <2>4
<1>5. Counters' BY <1>1, <1>3 DEF Inv, Counters
<1>6. Spawning'
  BY DEF Inv, Shape, Spawning, Invalid, Send, Succeed, Fail, Items, GoTo
<1>7. Outcomes'
  BY DEF Inv, Shape, Outcomes, Invalid, Send, Succeed, Fail, Items, GoTo, WriteResult
<1>8. Finished' /\ TotalsMatchResults'
  BY <1>1, NotFinished DEF Finished, TotalsMatchResults
<1> QED BY <1>4, <1>5, <1>6, <1>7, <1>8 DEF Inv

LEMMA ReleaseKeepsInv == ASSUME Inv, NEW i \in Items, Release(i) PROVE Inv'
<1>1. pc[i] = "written" /\ GoTo(i, "released") /\ UNCHANGED n BY DEF Release
<1>2. i \in InFlight /\ i \in Counted BY <1>1 DEF InFlight, Counted
<1>3. InFlight' = InFlight \ {i} /\ Counted' = Counted
  BY <1>1, <1>2, SetsAfterMove, SameCount DEF Inv
<1>4. Shape' BY <1>1 DEF Inv, Shape, Release, Items, GoTo
<1>5. Counters'
  <2>1. Cardinality(InFlight') = Cardinality(InFlight) - 1 BY <1>2, <1>3, OneMore DEF Inv
  <2>2. BatchConcurrency \in Int /\ sem \in Int BY FanoutAssumption DEF Inv, Shape
  <2> QED BY <2>1, <2>2, <1>3 DEF Inv, Counters, Release
<1>6. Spawning' /\ Outcomes'
  BY <1>1 DEF Inv, Shape, Spawning, Outcomes, Release, Items, GoTo
<1>7. Finished' /\ TotalsMatchResults'
  BY <1>1, NotFinished DEF Finished, TotalsMatchResults, Release
<1> QED BY <1>4, <1>5, <1>6, <1>7 DEF Inv

LEMMA DoneKeepsInv == ASSUME Inv, NEW i \in Items, Done(i) PROVE Inv'
<1>1. pc[i] = "released" /\ GoTo(i, "done") /\ UNCHANGED n BY DEF Done
<1>2. i \notin InFlight /\ i \in Counted BY <1>1 DEF InFlight, Counted
<1>3. InFlight' = InFlight /\ Counted' = Counted \ {i}
  BY <1>1, <1>2, SetsAfterMove, SameCount DEF Inv
<1>4. Shape' BY <1>1 DEF Inv, Shape, Done, Items, GoTo
<1>5. Counters'
  <2>1. Cardinality(Counted') = Cardinality(Counted) - 1 BY <1>2, <1>3, OneMore DEF Inv
  <2> QED BY <2>1, <1>3 DEF Inv, Counters, Done
<1>6. Spawning' /\ Outcomes'
  BY <1>1 DEF Inv, Shape, Spawning, Outcomes, Done, Items, GoTo
<1>7. Finished' /\ TotalsMatchResults'
  BY <1>1, NotFinished DEF Finished, TotalsMatchResults, Done
<1> QED BY <1>4, <1>5, <1>6, <1>7 DEF Inv

LEMMA DecideKeepsInv == ASSUME Inv, NEW i \in Items, Decide(i) PROVE Inv'
<1> USE DEF goroutines
<1>1. UNCHANGED <<n, valid, caller, goroutines, results, tally>> BY DEF Decide
<1>2. Items' = Items /\ InFlight' = InFlight /\ Counted' = Counted
  BY <1>1 DEF Items, InFlight, Counted
<1>3. Shape' BY <1>1, <1>2 DEF Inv, Shape, Decide
<1>4. Outcomes' BY <1>1, <1>2 DEF Inv, Shape, Outcomes, Decide
<1>5. Counters' /\ Spawning' /\ Finished' /\ TotalsMatchResults'
  BY <1>1, <1>2 DEF Inv, Counters, Spawning, Finished, TotalsMatchResults
<1> QED BY <1>3, <1>4, <1>5 DEF Inv

LEMMA NextInv == Inv /\ [Next]_vars => Inv'
<1> SUFFICES ASSUME Inv, [Next]_vars PROVE Inv'
  OBVIOUS
<1>1. CASE Caller
  BY <1>1, CallerMoves, SpawnKeepsInv, AnswerKeepsInv DEF Caller
<1>2. CASE \E i \in Items : Goroutine(i) \/ Decide(i)
  BY <1>2, AcquireKeepsInv, WorkKeepsInv, ReleaseKeepsInv, DoneKeepsInv, DecideKeepsInv
     DEF Goroutine
<1>3. CASE UNCHANGED vars
  <2>1. Items' = Items /\ InFlight' = InFlight /\ Counted' = Counted
    BY <1>3 DEF vars, goroutines, Items, InFlight, Counted
  <2> QED BY <1>3, <2>1 DEF vars, goroutines, Inv, Shape, Counters, Spawning, Outcomes,
                            Finished, TotalsMatchResults
<1> QED BY <1>1, <1>2, <1>3 DEF Next

LEMMA Invariance == Spec => []Inv
  BY InitInv, NextInv, PTL DEF Spec
-------------------------------------------------------------------------------
(* Every variable keeps its type: the wait group never falls below zero, which *)
(* would panic, and the semaphore holds at most its capacity.                *)
THEOREM TypeCorrect == Spec => []TypeOK
<1>1. Inv => TypeOK
  <2> SUFFICES ASSUME Inv PROVE TypeOK
    OBVIOUS
  <2>1. Cardinality(InFlight) \in Nat /\ Cardinality(Counted) \in Nat
    BY FiniteParts DEF Inv
  <2>2. sem \in 0 .. BatchConcurrency /\ wg \in Nat
    BY <2>1, FanoutAssumption DEF Inv, Counters
  <2> QED BY <2>2 DEF Inv, Shape, TypeOK
<1> QED BY <1>1, Invariance, PTL

(* At most batchConcurrency items are being carried out at any time.       *)
THEOREM ConcurrencyBounded == Spec => []BoundedConcurrency
<1>1. Inv => BoundedConcurrency BY DEF Inv, Counters, BoundedConcurrency
<1> QED BY <1>1, Invariance, PTL

(* The results that the batch functions return are complete and aligned    *)
(* with the items, and success is reported of what was carried out only.   *)
THEOREM ResultsAligned == Spec => []AlignedResults
<1>1. Inv => AlignedResults
  <2> SUFFICES ASSUME Inv, caller \in {"tallying", "answered"}, NEW i \in Items
               PROVE  /\ results[i] # "none"
                      /\ results[i] = "ok" => api[i] = "applied"
                      /\ i \notin valid => results[i] = "error" /\ api[i] = "none"
    BY DEF AlignedResults
  <2>1. results[i] # "none" BY DEF Inv, Finished, Outcomes
  <2> QED BY <2>1 DEF Inv, Shape, Outcomes
<1> QED BY <1>1, Invariance, PTL

(* The totals a batch tool answers with are those of its results.          *)
THEOREM TotalsCorrect == Spec => []TotalsMatchResults
<1>1. Inv => TotalsMatchResults BY DEF Inv
<1> QED BY <1>1, Invariance, PTL
-------------------------------------------------------------------------------
(* The refinement of BestEffortBatch.                                      *)

\* Only the items of an acceptable batch get a goroutine, and only a goroutine that has
\* validated its item has asked Organizze.
Attempted ==
    /\ caller \notin {"called", "rejected"} => Acceptable
    /\ \A i \in Items : api[i] # "none" => pc[i] \notin {"new", "waiting", "running"}

Inv2 == Inv /\ Attempted

\* At first nothing is attempted.
LEMMA InitInv2 == Init => Inv2
<1> SUFFICES ASSUME Init PROVE Attempted
  BY InitInv DEF Inv2
<1> QED BY DEF Init, Attempted, Items

\* The size guard comes before every goroutine, and a request before every answer.
LEMMA NextInv2 == Inv2 /\ [Next]_vars => Inv2'
<1> SUFFICES ASSUME Inv2, [Next]_vars PROVE Attempted'
  BY NextInv DEF Inv2
<1> USE DEF Inv2, Inv
<1>1. UNCHANGED n /\ Items' = Items
  BY DEF Next, Caller, RejectBatch, AcceptBatch, Spawn, EndOfSpawning, Return, Answer, Goroutine,
         Acquire, Invalid, Send, Succeed, Fail, Release, Done, Decide, vars, Items
<1>2. caller' \notin {"called", "rejected"} => Acceptable'
  <2>1. CASE AcceptBatch
    <3>1. n \in Nat /\ MaxBatch \in Nat BY FanoutAssumption DEF Shape
    <3> QED BY <1>1, <2>1, <3>1 DEF AcceptBatch, TooLarge, Acceptable
  <2>2. CASE ~AcceptBatch
    <3>1. caller' \notin {"called", "rejected"} => caller \notin {"called", "rejected"}
      BY <2>2 DEF Next, Caller, RejectBatch, Spawn, EndOfSpawning, Return, Answer, Goroutine,
         Acquire, Invalid, Send, Succeed, Fail, Release, Done, Decide, vars
    <3> QED BY <1>1, <3>1 DEF Attempted, Acceptable
  <2> QED BY <2>1, <2>2
<1>3. \A i \in Items : api'[i] # "none" => pc'[i] \notin {"new", "waiting", "running"}
  <2>1. CASE UNCHANGED <<pc, api>> BY <2>1 DEF Attempted
  <2>2. CASE Spawn
    <3>1. spawned + 1 \in Items /\ pc[spawned + 1] = "new"
      BY <2>2 DEF Shape, Spawning, Spawn, Items
    <3> QED BY <2>2, <3>1 DEF Spawn, Shape, Attempted
  <2>3. ASSUME NEW i \in Items, Goroutine(i) \/ Decide(i)
        PROVE  \A j \in Items : api'[j] # "none" => pc'[j] \notin {"new", "waiting", "running"}
    BY <2>3 DEF Shape, Attempted, Goroutine, Acquire, Invalid, Send, Succeed, Fail, Release, Done,
         Decide, GoTo, goroutines
  <2> QED BY <2>1, <2>2, <2>3 DEF Next, Caller, RejectBatch, AcceptBatch, EndOfSpawning, Return,
         Answer, vars, goroutines
<1> QED BY <1>1, <1>2, <1>3 DEF Attempted

\* A goroutine runs for an item of an acceptable batch only.
LEMMA ItemIsWanted ==
  ASSUME Inv2, NEW i \in Items, pc[i] # "new"
  PROVE  Acceptable /\ i \in 1 .. MaxItems
<1>1. spawned > 0 BY DEF Inv2, Inv, Shape, Spawning, Items
<1>2. caller \notin {"called", "rejected"} BY <1>1 DEF Inv2, Inv, Spawning
<1> QED BY <1>2, FanoutAssumption DEF Inv2, Inv, Attempted, Shape, Items

\* A step of a goroutine that sends, acquires or releases is invisible to the caller's
\* promise; so are those of the calling goroutine but its return.
LEMMA HiddenStep ==
  ASSUME UNCHANGED <<n, valid, results>>,
         \A i \in Items : api'[i] = "applied" <=> api[i] = "applied",
         caller' \in {"tallying", "answered", "rejected"} <=>
         caller \in {"tallying", "answered", "rejected"}
  PROVE  UNCHANGED Batch!vars
<1>1. Items' = Items /\ Acceptable' = Acceptable BY DEF Items, Acceptable
<1> QED BY <1>1 DEF Batch!vars

\* The one write of a result settles its item.
LEMMA SettleStep ==
  ASSUME Inv2, NEW i \in Items, Invalid(i) \/ Succeed(i) \/ Fail(i)
  PROVE  Batch!Settle(i)
<1> USE DEF Inv2, Inv
<1>1. PICK r \in {"ok", "error"} : /\ results' = [results EXCEPT ![i] = r]
                                   /\ r = "ok" => api[i] = "applied"
  BY DEF Invalid, Succeed, Fail, WriteResult
<1>2. results[i] = "none" /\ pc[i] # "new"
  BY DEF Outcomes, Shape, Invalid, Succeed, Fail
<1>3. Acceptable /\ i \in 1 .. MaxItems BY <1>2, ItemIsWanted
<1>4. UNCHANGED <<n, valid, caller, api>> BY DEF Invalid, Succeed, Fail
<1>5. Items' = Items /\ Acceptable' = Acceptable BY <1>4 DEF Items, Acceptable
<1>6. [j \in 1 .. MaxItems |-> IF j \in Items THEN results'[j] ELSE "none"]
      = [[j \in 1 .. MaxItems |-> IF j \in Items THEN results[j] ELSE "none"] EXCEPT ![i] = r]
  BY <1>1, <1>3 DEF Shape
<1> QED BY <1>1, <1>2, <1>3, <1>4, <1>5, <1>6 DEF Batch!Settle

\* Organizze may carry an item out even after its goroutine has given it up.
LEMMA ApplyStep ==
  ASSUME Inv2, NEW i \in Items, Decide(i)
  PROVE  Batch!Next \/ UNCHANGED Batch!vars
<1> USE DEF Inv2, Inv
<1>1. UNCHANGED <<n, valid, caller, results>> /\ api[i] = "pending" BY DEF Decide
<1>2. Items' = Items /\ Acceptable' = Acceptable BY <1>1 DEF Items, Acceptable
<1>3. Acceptable /\ i \in 1 .. MaxItems /\ i \in valid /\ results[i] # "ok"
  BY <1>1, ItemIsWanted DEF Attempted, Outcomes
<1>4. CASE api' = [api EXCEPT ![i] = "refused"]
  <2>1. \A j \in Items : api'[j] = "applied" <=> api[j] = "applied"
    BY <1>1, <1>4 DEF Shape
  <2> QED BY <1>1, <2>1, HiddenStep
<1>5. CASE api' = [api EXCEPT ![i] = "applied"]
  <2>1. { j \in Items' : api'[j] = "applied" } = { j \in Items : api[j] = "applied" } \cup {i}
    BY <1>2, <1>5 DEF Shape
  <2>2. Batch!Apply(i)
    BY <1>1, <1>2, <1>3, <2>1 DEF Batch!Apply
  <2> QED BY <1>3, <2>2 DEF Batch!Next
<1> QED BY <1>4, <1>5 DEF Decide

\* The call returns when it has refused the batch, or every result is there.
LEMMA ReturnStep ==
  ASSUME Inv2, Inv2', RejectBatch \/ Return
  PROVE  Batch!Return
<1> USE DEF Inv2, Inv
<1>1. UNCHANGED <<n, valid, results, api>> BY DEF RejectBatch, Return
<1>2. Items' = Items /\ Acceptable' = Acceptable BY <1>1 DEF Items, Acceptable
<1>3. Acceptable => \A i \in Items : results[i] # "none"
  <2>1. CASE RejectBatch
    BY <2>1, FanoutAssumption DEF RejectBatch, Acceptable, TooLarge, Shape
  <2>2. CASE Return
    <3>1. \A i \in Items : pc'[i] = "done" BY <1>2, <2>2 DEF Finished, Return
    <3> QED BY <1>1, <1>2, <3>1 DEF Outcomes
  <2> QED BY <2>1, <2>2
<1>4. Acceptable => Items \subseteq 1 .. MaxItems BY FanoutAssumption DEF Shape, Items
<1>5. caller \notin {"tallying", "answered", "rejected"} /\ caller' \in {"tallying", "rejected"}
  BY DEF RejectBatch, Return
<1> QED BY <1>1, <1>2, <1>3, <1>4, <1>5 DEF Batch!Return

\* Every step is a step of BestEffortBatch or a stutter.
LEMMA BatchStep ==
  ASSUME Inv2, Inv2', [Next]_vars
  PROVE  Batch!Next \/ UNCHANGED Batch!vars
<1>1. CASE RejectBatch \/ Return
  BY <1>1, ReturnStep DEF Batch!Next
<1>2. ASSUME NEW i \in Items, Invalid(i) \/ Succeed(i) \/ Fail(i) PROVE Batch!Next
  <2>1. i \in 1 .. MaxItems BY FanoutAssumption DEF Inv2, Inv, Shape, Items
  <2> QED BY <1>2, <2>1, SettleStep DEF Batch!Next
<1>3. ASSUME NEW i \in Items, Decide(i) PROVE Batch!Next \/ UNCHANGED Batch!vars
  BY <1>3, ApplyStep
<1>4. ASSUME NEW i \in Items, Acquire(i) \/ Send(i) \/ Release(i) \/ Done(i)
      PROVE  UNCHANGED Batch!vars
  <2>1. UNCHANGED <<n, valid, results, caller>> BY <1>4 DEF Acquire, Send, Release, Done
  <2>2. \A j \in Items : api'[j] = "applied" <=> api[j] = "applied"
    BY <1>4 DEF Inv2, Inv, Shape, Attempted, Acquire, Send, Release, Done
  <2> QED BY <2>1, <2>2, HiddenStep
<1>5. CASE AcceptBatch \/ Spawn \/ EndOfSpawning \/ Answer \/ UNCHANGED vars
  <2>1. UNCHANGED <<n, valid, results, api>>
        /\ (caller' \in {"tallying", "answered", "rejected"} <=>
            caller \in {"tallying", "answered", "rejected"})
    BY <1>5 DEF AcceptBatch, Spawn, EndOfSpawning, Answer, vars
  <2> QED BY <2>1, HiddenStep
<1> QED BY <1>1, <1>2, <1>3, <1>4, <1>5 DEF Next, Caller, Goroutine

\* No item is carried out or settled.
LEMMA BatchInit == Init => Batch!Init
<1> SUFFICES ASSUME Init PROVE Batch!Init
  OBVIOUS
<1>1. Items \subseteq 1 .. MaxItems BY FanoutAssumption DEF Init, Items
<1>2. \A i \in Items : api[i] = "none" /\ results[i] = "none" BY DEF Init
<1>3. valid \subseteq Items /\ (caller \in {"tallying", "answered", "rejected"}) = FALSE
  BY DEF Init
<1>4. (IF Acceptable THEN valid ELSE {}) \in SUBSET (IF Acceptable THEN Items ELSE {})
  BY <1>3
<1>5. { i \in Items : api[i] = "applied" } = {} BY <1>2
<1>6. [i \in 1 .. MaxItems |-> IF i \in Items THEN results[i] ELSE "none"]
      = [i \in 1 .. MaxItems |-> "none"]
  BY <1>2
<1> QED BY <1>1, <1>3, <1>4, <1>5, <1>6 DEF Batch!Init

\* Every behaviour of the fan-out is one of BestEffortBatch, fairness apart: each item of
\* an acceptable batch is carried out at most once and settled once, whatever the others
\* do, no item of another batch is touched, and the call returns after the last result.
THEOREM ItemsSettledOnTheirOwn == Spec => Batch!Spec
<1>1. Inv2 /\ Inv2' /\ [Next]_vars => [Batch!Next]_(Batch!vars)
  BY BatchStep
<1> QED BY <1>1, InitInv2, NextInv2, BatchInit, PTL DEF Spec, Batch!Spec
===============================================================================
