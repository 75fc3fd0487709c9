----------------------------- MODULE RefreshRight -----------------------------
(***************************************************************************)
(* What the token endpoint promises about one user approval, without its   *)
(* handlers, tables and failures: the approval is a single right, which at *)
(* any time is in exactly one place.  It starts as an authorization code,  *)
(* passes through the request that redeems or rotates it to a new refresh  *)
(* token, and once it is gone it never comes back.                         *)
(***************************************************************************)
CONSTANTS
    Codes,
    TokenIds  \* none of which is a place

Places == {"none", "code", "request", "gone"}

VARIABLES
    right,  \* where the right of each approval is: a place, or its refresh token
    issued  \* the refresh tokens that hold or have held a right

vars == <<right, issued>>

TypeOK ==
    /\ right \in [Codes -> Places \cup TokenIds]
    /\ issued \subseteq TokenIds

Init ==
    /\ right = [c \in Codes |-> "none"]
    /\ issued = {}

Move(c, from, to) ==
    /\ right[c] = from
    /\ right' = [right EXCEPT ![c] = to]

\* The user approves the client's request.
Approve(c) == Move(c, "none", "code") /\ UNCHANGED issued

\* The code is presented: it is spent, whether or not the request is in order.
Redeem(c) == \E to \in {"request", "gone"} : Move(c, "code", to) /\ UNCHANGED issued

\* The request passes the right on to a refresh token never seen before.
Issue(c, t) ==
    /\ t \notin issued
    /\ Move(c, "request", t)
    /\ issued' = issued \cup {t}

\* The request fails.
Abandon(c) == Move(c, "request", "gone") /\ UNCHANGED issued

\* The refresh token is rotated by a request, or revoked.
Leave(c, t) == \E to \in {"request", "gone"} : Move(c, t, to) /\ UNCHANGED issued

Next ==
    \E c \in Codes :
        \/ Approve(c) \/ Redeem(c) \/ Abandon(c)
        \/ \E t \in TokenIds : Issue(c, t) \/ Leave(c, t)

Spec == Init /\ [][Next]_vars
===============================================================================
