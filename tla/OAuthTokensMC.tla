----------------------------- MODULE OAuthTokensMC ----------------------------
(* Instances of OAuthTokens for TLC.                                       *)
EXTENDS OAuthTokens, TLC

CONSTANTS c1, c2, u1, u2, code1, code2, t1, t2, t3, t4, t5, t6, r1, r2, v1, v2, uri1, uri2

Symmetry ==
    UNION { Permutations(S) : S \in {Requests, Codes, Users, Redirects} }
===============================================================================
