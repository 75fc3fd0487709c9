---------------------------- MODULE AuthorizeFlowMC ---------------------------
(* An instance of AuthorizeFlow for TLC: each client has its own redirect URI. *)
EXTENDS AuthorizeFlow, TLC

CONSTANTS tab1, tab2, c1, c2, uri1, uri2, ch1, x, u1, u2, k1, k2, k3, s1, s2, code1, code2

OwnRedirect == c1 :> {uri1} @@ c2 :> {uri2}

FirstMayReplace == u1 :> {k1, k2} @@ u2 :> {k3}

Link(client, uri) == [client |-> client, redirect |-> uri, challenge |-> ch1, state |-> x]

OneGoodOneBad == {Link(c1, uri1), Link(c1, uri2)}

Symmetry == UNION { Permutations(S) : S \in {Tabs, {k1, k2}, Codes, Sessions} }
===============================================================================
