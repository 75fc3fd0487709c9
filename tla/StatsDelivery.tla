---------------------------- MODULE StatsDelivery -----------------------------
(***************************************************************************)
(* What the stats consumer promises about one queued message, without      *)
(* batches, receipts, redeliveries and restarts: it gets a row, and is     *)
(* forgotten by the queue only afterwards.                                 *)
(***************************************************************************)
CONSTANTS
    Msgs,
    Unstorable  \* messages the table never accepts

VARIABLE status

Init == status = [m \in Msgs |-> "unsent"]

Becomes(m, from, to) ==
    /\ status[m] = from
    /\ status' = [status EXCEPT ![m] = to]

Accept(m) == Becomes(m, "unsent", "queued")

Store(m) == m \notin Unstorable /\ Becomes(m, "queued", "stored")

Forget(m) == Becomes(m, "stored", "done")

Next == \E m \in Msgs : Accept(m) \/ Store(m) \/ Forget(m)

Spec == Init /\ [][Next]_status

\* Every message the table accepts gets its row, and then leaves the queue.
Fairness == \A m \in Msgs : WF_status(Store(m)) /\ WF_status(Forget(m))

FairSpec == Spec /\ Fairness
===============================================================================
