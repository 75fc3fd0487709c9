---------------------------- MODULE BestEffortBatch ---------------------------
(***************************************************************************)
(* What a batch tool promises, without goroutines, semaphore and wait      *)
(* group: each item is carried out on its own and at most once, a result   *)
(* is never changed, success is reported of what was carried out only, and *)
(* the call returns with a result for every item.                          *)
(***************************************************************************)
CONSTANT Items

VARIABLES
    wanted,    \* the items of an acceptable batch, {} for another
    allowed,   \* those that may be sent to Organizze
    applied,   \* those that Organizze has carried out
    outcome,   \* of each item: "none", "ok" or "error"
    returned

vars == <<wanted, allowed, applied, outcome, returned>>

Init ==
    /\ wanted \in SUBSET Items
    /\ allowed \in SUBSET wanted
    /\ applied = {}
    /\ outcome = [i \in Items |-> "none"]
    /\ returned = FALSE

\* Organizze may also carry out an item that was given up.
Apply(i) ==
    /\ i \in allowed \ applied
    /\ outcome[i] # "ok"
    /\ applied' = applied \cup {i}
    /\ UNCHANGED <<wanted, allowed, outcome, returned>>

Settle(i) ==
    /\ i \in wanted
    /\ outcome[i] = "none"
    /\ \/ i \in applied /\ outcome' = [outcome EXCEPT ![i] = "ok"]
       \/ outcome' = [outcome EXCEPT ![i] = "error"]
    /\ UNCHANGED <<wanted, allowed, applied, returned>>

Return ==
    /\ ~returned
    /\ \A i \in wanted : outcome[i] # "none"
    /\ returned' = TRUE
    /\ UNCHANGED <<wanted, allowed, applied, outcome>>

Next == Return \/ \E i \in Items : Apply(i) \/ Settle(i)

Spec == Init /\ [][Next]_vars

\* No item is left behind, however the others end.
Fairness == WF_vars(Return) /\ \A i \in Items : WF_vars(Settle(i))

FairSpec == Spec /\ Fairness
===============================================================================
