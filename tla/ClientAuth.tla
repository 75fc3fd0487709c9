------------------------------ MODULE ClientAuth ------------------------------
(***************************************************************************)
(* How the token endpoint decides which registered client a request comes  *)
(* from: authenticateClient of internal/oauth/server/clientauth.go.        *)
(*                                                                         *)
(* A client row is written once, by dynamic registration, and never        *)
(* changed or deleted by the program, so the decision is a function of the *)
(* request alone.  The secret of confidential client c is represented by c *)
(* itself: the code compares SHA-256 hashes, and two clients never share a *)
(* random secret.                                                          *)
(***************************************************************************)
CONSTANTS
    Clients,        \* client ids that have a row in oauth_clients
    PublicClients,  \* those registered without a secret (client_secret_hash NULL)
    Stranger,       \* a client id that no row has
    Absent          \* an empty or missing parameter or header

ASSUME ClientsAssumption ==
    /\ PublicClients \subseteq Clients
    /\ Stranger \notin Clients
    /\ Absent \notin Clients \cup {Stranger}

InvalidClient == Absent   \* errInvalidClient

\* What one request presents: the user and password of an HTTP Basic header, and
\* the client_id and client_secret form parameters.
Presentation == [ hasBasic    : BOOLEAN,
                  basicID     : Clients \cup {Stranger, Absent},
                  basicSecret : Clients \cup {Absent},
                  formID      : Clients \cup {Stranger, Absent},
                  formSecret  : Clients \cup {Absent} ]

\* A form client_id may repeat the one of the Basic header, not contradict it.
Contradicts(p) == p.hasBasic /\ p.formID \notin {Absent, p.basicID}

ClaimedID(p) == IF p.hasBasic THEN p.basicID ELSE p.formID

PresentedSecret(p) == IF p.hasBasic THEN p.basicSecret ELSE p.formSecret

\* A public client shows no secret here (PKCE binds its grants); a confidential
\* one must show its own.
SecretAccepted(c, secret) == c \in PublicClients \/ secret = c

AuthenticateClient(p) ==
    IF /\ ~Contradicts(p)
       /\ ClaimedID(p) \in Clients
       /\ SecretAccepted(ClaimedID(p), PresentedSecret(p))
    THEN ClaimedID(p)
    ELSE InvalidClient

\* The clients in whose name some request gets past authenticateClient.
AuthenticatedClients == { AuthenticateClient(p) : p \in Presentation } \ {InvalidClient}
===============================================================================
