----------------------------- MODULE OAuthTokens ------------------------------
(***************************************************************************)
(* The token life cycle of the OAuth authorization server: the token and   *)
(* revocation endpoints (internal/oauth/server/token.go and revoke.go)     *)
(* over the tables oauth_codes and oauth_tokens                            *)
(* (internal/oauth/storage/postgres.go).                                   *)
(*                                                                         *)
(* net/http runs every request in a goroutine of its own, and a handler is *)
(* a sequence of separate SQL statements outside any transaction.  So a    *)
(* request is a process, one SQL statement is one atomic step, and the     *)
(* code between two statements, which touches only the request's own       *)
(* variables, belongs to the step of the statement before it.              *)
(*                                                                         *)
(* A token or code stands for its SHA-256 hash too.  Columns that change   *)
(* after the insert are sets: consumed (oauth_codes.consumed_at) and       *)
(* revoked (oauth_tokens.revoked_at).                                      *)
(***************************************************************************)
EXTENDS ClientAuth, Naturals

CONSTANTS
    Requests,      \* request slots: how many requests may be in progress at once
    Codes,         \* authorization codes
    TokenIds,      \* random tokens that may be drawn (bounds the inserts)
    Users,
    Redirects,     \* redirect URIs
    Verifiers,     \* PKCE verifiers; the S256 challenge of v is represented by v
    BadVerifiers,  \* those whose length is not between 43 and 128
    None,          \* NULL, and the key of a request that matches no row
    CodeTTL, AccessTTL, RefreshTTL,
    MaxNow,        \* bound on the clock
    StoreMayFail   \* whether a SQL statement may return an error

ASSUME TokensAssumption ==
    /\ BadVerifiers \subseteq Verifiers
    /\ None \notin Clients \cup Codes \cup TokenIds \cup Users
    /\ Codes \cap TokenIds = {}
    /\ {"none", "code", "request", "gone"} \cap TokenIds = {}  \* see RefreshRight
    /\ {CodeTTL, AccessTTL, RefreshTTL} \subseteq Nat \ {0}
    /\ MaxNow \in Nat
    /\ StoreMayFail \in BOOLEAN

VARIABLES
    now,        \* the clock, read by time.Now and by SQL NOW()
    codes,      \* oauth_codes
    consumed,   \* codes with a consumed_at
    tokens,     \* oauth_tokens
    revoked,    \* tokens with a revoked_at
    delivered,  \* tokens that a 200 response carried to a client
    pc,         \* the SQL statement each request executes next
    req,        \* what the request presented, after authenticateClient
    mint,       \* the locals of issueTokenPair
    \* History, read by no guard:
    killed,     \* keys on which RevokeRefreshFamily has taken effect
    replayed    \* what RevokeFamilyByCode met, for the codes it ran on

store == <<codes, consumed, tokens, revoked>>
handlers == <<pc, req, mint, delivered>>
history == <<killed, replayed>>
vars == <<now, store, handlers, history>>
-------------------------------------------------------------------------------
NoCodeRow == [ client |-> None, user |-> None, redirect |-> None,
               challenge |-> None, expires |-> 0 ]

NoTokenRow == [ kind |-> "none", client |-> None, user |-> None, refreshFor |-> None,
                code |-> None, expires |-> 0, grant |-> None ]

Idle == [ client |-> None, key |-> None, redirect |-> None, verifier |-> None ]

NoMint == [ client |-> None, user |-> None, code |-> None, refresh |-> None,
            at |-> 0, grant |-> None ]

CodeRow == [ client : Clients \cup {None}, user : Users \cup {None},
             redirect : Redirects \cup {None}, challenge : Verifiers \cup {None},
             expires : Nat ]

\* grant is not a column: it remembers the authorization code whose approval the
\* row descends from, through any number of rotations.
TokenRow == [ kind : {"none", "access", "refresh"}, client : Clients \cup {None},
              user : Users \cup {None}, refreshFor : TokenIds \cup {None},
              code : Codes \cup {None}, expires : Nat, grant : Codes \cup {None} ]

Request == [ client : Clients \cup {None}, key : Codes \cup TokenIds \cup {None},
             redirect : Redirects \cup {None}, verifier : Verifiers \cup {None} ]

Mint == [ client : Clients \cup {None}, user : Users \cup {None},
          code : Codes \cup {None}, refresh : TokenIds \cup {None},
          at : Nat, grant : Codes \cup {None} ]

Steps == { "idle", "consume", "revokeByCode", "preRead", "rotate", "revokeFamily",
           "insertRefresh", "insertAccess", "logoutFamily", "logoutToken" }

HandlersTypeOK ==
    /\ pc \in [Requests -> Steps]
    /\ req \in [Requests -> Request]
    /\ mint \in [Requests -> Mint]
    /\ \A r \in Requests : pc[r] = "insertAccess" => mint[r].refresh # None

TypeOK ==
    /\ now \in Nat
    /\ codes \in [Codes -> CodeRow]
    /\ consumed \subseteq Codes
    /\ tokens \in [TokenIds -> TokenRow]
    /\ revoked \subseteq TokenIds
    /\ delivered \subseteq TokenIds
    /\ HandlersTypeOK
    /\ killed \subseteq TokenIds
    /\ replayed \in [Codes -> {"never", "inFlight", "settled"}]

Init ==
    /\ now = 0
    /\ codes = [c \in Codes |-> NoCodeRow]
    /\ consumed = {}
    /\ tokens = [t \in TokenIds |-> NoTokenRow]
    /\ revoked = {}
    /\ delivered = {}
    /\ pc = [r \in Requests |-> "idle"]
    /\ req = [r \in Requests |-> Idle]
    /\ mint = [r \in Requests |-> NoMint]
    /\ killed = {}
    /\ replayed = [c \in Codes |-> "never"]
-------------------------------------------------------------------------------
IsCode(c) == c \in Codes /\ codes[c].client # None
IsKind(t, kind) == t \in TokenIds /\ tokens[t].kind = kind
Unused == { t \in TokenIds : tokens[t].kind = "none" }

(* Faulty variants of the definitions below, each a bug the code could have *)
(* had; a run with one of them in place must break a property.              *)

\* The WHERE clause forgets consumed_at IS NULL.
ConsumableTwice(c) == IsCode(c) /\ codes[c].expires > now

\* The WHERE clause forgets revoked_at IS NULL.
RotatableTwice(t) == IsKind(t, "refresh") /\ tokens[t].expires > now

\* The client of a rotated token is not compared.
AnyClient(q, row) == TRUE

\* Only the refresh token itself is revoked.
FamilyWithoutAccess(t) == {t} \cap (TokenIds \ Unused)

\* A row is made up for an unknown key.
FamilyOfAnyKey(t) ==
    { u \in TokenIds : t # None /\ tokens[u].refreshFor = t } \cup {t}

\* Only the access row carries the code's hash to the revocation.
AccessRowsOfCode(c) == { t \in TokenIds : IsKind(t, "access") /\ tokens[t].code = c }

\* The access row does not name its refresh token.
AccessRowUnlinked(m) ==
    [ kind |-> "access", client |-> m.client, user |-> m.user, refreshFor |-> None,
      code |-> m.code, expires |-> m.at + AccessTTL, grant |-> m.grant ]
-------------------------------------------------------------------------------
(* The WHERE clauses and Go conditions the handlers rest on.               *)

\* ConsumeAuthCode
Consumable(c) == IsCode(c) /\ c \notin consumed /\ codes[c].expires > now

\* RotateRefreshToken
Rotatable(t) == IsKind(t, "refresh") /\ t \notin revoked /\ tokens[t].expires > now

\* The pre-read of grantRefreshToken: a revoked refresh token is presented again.
SeenRevoked(t) == IsKind(t, "refresh") /\ t \in revoked

\* RevokeRefreshFamily
Family(t) == { u \in TokenIds : t # None /\ tokens[u].refreshFor = t }
             \cup ({t} \cap (TokenIds \ Unused))

\* RevokeFamilyByCode
RowsOfCode(c) == { t \in TokenIds : c # None /\ tokens[t].code = c }

\* verifyPKCE
VerifyPKCE(verifier, challenge) == verifier \notin BadVerifiers /\ verifier = challenge

\* The checks of grantAuthorizationCode on the row it has just consumed.
MatchesRow(q, row) == /\ row.client = q.client /\ row.redirect = q.redirect
                      /\ VerifyPKCE(q.verifier, row.challenge)

\* The check of grantRefreshToken on the row it has just rotated.
SameClient(q, row) == row.client = q.client

RefreshRow(m) ==
    [ kind |-> "refresh", client |-> m.client, user |-> m.user, refreshFor |-> None,
      code |-> m.code, expires |-> now + RefreshTTL, grant |-> m.grant ]

AccessRow(m) ==
    [ kind |-> "access", client |-> m.client, user |-> m.user, refreshFor |-> m.refresh,
      code |-> m.code, expires |-> m.at + AccessTTL, grant |-> m.grant ]

\* The token of a draw: 32 random bytes never repeat, and which name they get is
\* immaterial.
Drawn == CHOOSE t \in TokenIds : t \in Unused
-------------------------------------------------------------------------------
(* Control of one request.                                                 *)

\* The handler writes its response and returns.
Finish(r) ==
    /\ pc' = [pc EXCEPT ![r] = "idle"]
    /\ req' = [req EXCEPT ![r] = Idle]
    /\ mint' = [mint EXCEPT ![r] = NoMint]

Continue(r, step) ==
    /\ pc' = [pc EXCEPT ![r] = step]
    /\ UNCHANGED <<req, mint>>

\* issueTokenPair is entered for a grant that is approved.
StartMint(r, user, code, grant) ==
    /\ pc' = [pc EXCEPT ![r] = "insertRefresh"]
    /\ mint' = [mint EXCEPT ![r] =
           [ client |-> req[r].client, user |-> user, code |-> code,
             refresh |-> None, at |-> 0, grant |-> grant ]]
    /\ UNCHANGED req

Begin(r, step, q) ==
    /\ pc[r] = "idle"
    /\ pc' = [pc EXCEPT ![r] = step]
    /\ req' = [req EXCEPT ![r] = q]
    /\ UNCHANGED <<now, store, mint, delivered, history>>
-------------------------------------------------------------------------------
(* The environment.                                                        *)

Tick ==
    /\ now < MaxNow
    /\ now' = now + 1
    /\ UNCHANGED <<store, handlers, history>>

\* The authorization endpoint approves a request and stores its code.
CreateAuthCode(c) ==
    /\ ~IsCode(c)
    /\ \E client \in Clients, user \in Users, uri \in Redirects, v \in Verifiers :
          codes' = [codes EXCEPT ![c] =
              [ client |-> client, user |-> user, redirect |-> uri,
                challenge |-> v, expires |-> now + CodeTTL ]]
    /\ UNCHANGED <<now, consumed, tokens, revoked, handlers, history>>
-------------------------------------------------------------------------------
(* grant_type=authorization_code                                           *)

BeginCodeGrant(r) ==
    \E client \in AuthenticatedClients, c \in {x \in Codes : IsCode(x)} \cup {None},
       uri \in Redirects, v \in Verifiers :
        Begin(r, "consume", [client |-> client, key |-> c, redirect |-> uri, verifier |-> v])

\* The UPDATE finds the row; what it returns decides in the same step.
ConsumeAuthCode(r) ==
    LET c == req[r].key IN
    /\ pc[r] = "consume"
    /\ Consumable(c)
    /\ consumed' = consumed \cup {c}
    /\ \/ /\ MatchesRow(req[r], codes[c])
          /\ StartMint(r, codes[c].user, c, c)
       \/ /\ ~MatchesRow(req[r], codes[c])
          /\ Finish(r)
    /\ UNCHANGED <<now, codes, tokens, revoked, delivered, history>>

\* ErrNotFound: unknown, consumed and expired codes are not told apart.
ConsumeFindsNothing(r) ==
    /\ pc[r] = "consume"
    /\ ~Consumable(req[r].key)
    /\ Continue(r, "revokeByCode")
    /\ UNCHANGED <<now, store, delivered, history>>

ExchangeInFlight(c) ==
    \E r \in Requests : pc[r] \in {"insertRefresh", "insertAccess"} /\ mint[r].code = c

RevokeFamilyByCode(r) ==
    LET c == req[r].key IN
    /\ pc[r] = "revokeByCode"
    /\ revoked' = revoked \cup RowsOfCode(c)
    /\ replayed' = IF c \in Codes /\ replayed[c] # "settled"
                   THEN [replayed EXCEPT ![c] = IF ExchangeInFlight(c) THEN "inFlight"
                                                ELSE IF c \in consumed THEN "settled"
                                                ELSE @]
                   ELSE replayed
    /\ Finish(r)
    /\ UNCHANGED <<now, codes, consumed, tokens, delivered, killed>>
-------------------------------------------------------------------------------
(* grant_type=refresh_token                                                *)

BeginRefreshGrant(r) ==
    \E client \in AuthenticatedClients, t \in delivered \cup {None} :
        Begin(r, "preRead",
              [client |-> client, key |-> t, redirect |-> None, verifier |-> None])

PreRead(r) ==
    /\ pc[r] = "preRead"
    /\ \/ SeenRevoked(req[r].key) /\ Continue(r, "revokeFamily")
       \/ ~SeenRevoked(req[r].key) /\ Continue(r, "rotate")
    /\ UNCHANGED <<now, store, delivered, history>>

RotateRefreshToken(r) ==
    LET t == req[r].key IN
    /\ pc[r] = "rotate"
    /\ Rotatable(t)
    /\ revoked' = revoked \cup {t}
    /\ \/ /\ SameClient(req[r], tokens[t])
          /\ StartMint(r, tokens[t].user, None, tokens[t].grant)
       \/ /\ ~SameClient(req[r], tokens[t])
          /\ Continue(r, "revokeFamily")
    /\ UNCHANGED <<now, codes, consumed, tokens, delivered, history>>

\* ErrNotFound: a lost race, an unknown token and an expired one look the same.
RotateFindsNothing(r) ==
    /\ pc[r] = "rotate"
    /\ ~Rotatable(req[r].key)
    /\ Finish(r)
    /\ UNCHANGED <<now, store, delivered, history>>

RevokeRefreshFamily(r) ==
    /\ revoked' = revoked \cup Family(req[r].key)
    /\ killed' = killed \cup ({req[r].key} \cap TokenIds)
    /\ UNCHANGED <<now, codes, consumed, tokens, delivered, replayed>>

RevokeFamilyOnReuse(r) ==
    /\ pc[r] = "revokeFamily"
    /\ RevokeRefreshFamily(r)
    /\ Finish(r)
-------------------------------------------------------------------------------
(* issueTokenPair, of both grants: the refresh row, then the access row.   *)

InsertRefresh(r) ==
    /\ pc[r] = "insertRefresh"
    /\ Unused # {}
    /\ tokens' = [tokens EXCEPT ![Drawn] = RefreshRow(mint[r])]
    /\ mint' = [mint EXCEPT ![r] = [@ EXCEPT !.refresh = Drawn, !.at = now]]
    /\ pc' = [pc EXCEPT ![r] = "insertAccess"]
    /\ UNCHANGED <<now, codes, consumed, revoked, req, delivered, history>>

\* The last insert; the response then delivers the pair.
InsertAccess(r) ==
    /\ pc[r] = "insertAccess"
    /\ Unused # {}
    /\ tokens' = [tokens EXCEPT ![Drawn] = AccessRow(mint[r])]
    /\ delivered' = delivered \cup {mint[r].refresh, Drawn}
    /\ Finish(r)
    /\ UNCHANGED <<now, codes, consumed, revoked, history>>
-------------------------------------------------------------------------------
(* handleRevoke: no client authentication, any key, errors ignored.        *)

BeginLogout(r) ==
    \E t \in delivered \cup {None} : Begin(r, "logoutFamily", [Idle EXCEPT !.key = t])

LogoutFamily(r) ==
    /\ pc[r] = "logoutFamily"
    /\ RevokeRefreshFamily(r)
    /\ Continue(r, "logoutToken")

LogoutToken(r) ==
    /\ pc[r] = "logoutToken"
    /\ revoked' = revoked \cup ({req[r].key} \cap (TokenIds \ Unused))
    /\ Finish(r)
    /\ UNCHANGED <<now, codes, consumed, tokens, delivered, history>>
-------------------------------------------------------------------------------
(* A statement fails: the connection breaks, the request's context is      *)
(* cancelled, the server stops.  The caller gets an error that is not      *)
(* ErrNotFound, whether or not the statement took effect.                  *)

\* No effect.  An error of the pre-read or of the first revocation of
\* handleRevoke is ignored; every other one ends the handler.  At the bound on
\* draws an insert fails this way too.
StatementFails(r) ==
    /\ pc[r] # "idle"
    /\ StoreMayFail \/ (Unused = {} /\ pc[r] \in {"insertRefresh", "insertAccess"})
    /\ CASE pc[r] = "preRead" -> Continue(r, "rotate")
         [] pc[r] = "logoutFamily" -> Continue(r, "logoutToken")
         [] OTHER -> Finish(r)
    /\ UNCHANGED <<now, store, delivered, history>>

\* The statement is committed, and its answer lost.
ConsumeUnanswered(r) ==
    /\ StoreMayFail
    /\ pc[r] = "consume"
    /\ Consumable(req[r].key)
    /\ consumed' = consumed \cup {req[r].key}
    /\ Finish(r)
    /\ UNCHANGED <<now, codes, tokens, revoked, delivered, history>>

RotateUnanswered(r) ==
    /\ StoreMayFail
    /\ pc[r] = "rotate"
    /\ Rotatable(req[r].key)
    /\ revoked' = revoked \cup {req[r].key}
    /\ Finish(r)
    /\ UNCHANGED <<now, codes, consumed, tokens, delivered, history>>

InsertUnanswered(r) ==
    /\ StoreMayFail
    /\ Unused # {}
    /\ \/ /\ pc[r] = "insertRefresh"
          /\ tokens' = [tokens EXCEPT ![Drawn] = RefreshRow(mint[r])]
       \/ /\ pc[r] = "insertAccess"
          /\ tokens' = [tokens EXCEPT ![Drawn] = AccessRow(mint[r])]
    /\ Finish(r)
    /\ UNCHANGED <<now, codes, consumed, revoked, delivered, history>>
-------------------------------------------------------------------------------
Handle(r) ==
    \/ BeginCodeGrant(r) \/ ConsumeAuthCode(r) \/ ConsumeFindsNothing(r)
    \/ RevokeFamilyByCode(r)
    \/ BeginRefreshGrant(r) \/ PreRead(r) \/ RotateRefreshToken(r)
    \/ RotateFindsNothing(r) \/ RevokeFamilyOnReuse(r)
    \/ InsertRefresh(r) \/ InsertAccess(r)
    \/ BeginLogout(r) \/ LogoutFamily(r) \/ LogoutToken(r)
    \/ StatementFails(r) \/ ConsumeUnanswered(r) \/ RotateUnanswered(r)
    \/ InsertUnanswered(r)

Next ==
    \/ Tick
    \/ \E c \in Codes : CreateAuthCode(c)
    \/ \E r \in Requests : Handle(r)

Spec == Init /\ [][Next]_vars
-------------------------------------------------------------------------------
(* Properties.                                                             *)

Live(t) == tokens[t].kind # "none" /\ t \notin revoked

LiveRefresh(t) == tokens[t].kind = "refresh" /\ t \notin revoked

\* A user's approval is worth one refresh token at a time: however requests
\* interleave, fail half way or repeat, no two unrevoked refresh tokens descend
\* from the same authorization code (ConsumeAuthCode and RotateRefreshToken are
\* the only things that serialise the handlers of token.go).
OneLiveRefreshPerGrant ==
    \A t, u \in TokenIds :
        LiveRefresh(t) /\ LiveRefresh(u) /\ tokens[t].grant = tokens[u].grant => t = u

\* Tokens never change hands: through every rotation they carry the client and
\* the user of the approval they descend from (grantRefreshToken takes the client
\* from the request and the user from the rotated row).
BoundToGrant ==
    \A t \in TokenIds : tokens[t].kind # "none" =>
        /\ tokens[t].grant \in consumed
        /\ tokens[t].client = codes[tokens[t].grant].client
        /\ tokens[t].user = codes[tokens[t].grant].user

\* A code pays for at most one pair: concurrent and repeated exchanges of it never
\* insert a second refresh or a second access row under its hash.
CodeSpentOnce ==
    \A t, u \in TokenIds :
        /\ tokens[t].code # None
        /\ tokens[t].code = tokens[u].code
        /\ tokens[t].kind = tokens[u].kind
        => t = u

\* The rows RevokeRefreshFamily reaches by refresh_for are the right ones: an
\* access token names an existing refresh token of the same client, user and code,
\* no two name the same one, and a delivered refresh token has its access token.
FamilyShape ==
    /\ \A a \in TokenIds : tokens[a].kind = "access" =>
          LET f == tokens[a].refreshFor IN
          /\ IsKind(f, "refresh")
          /\ tokens[a].client = tokens[f].client
          /\ tokens[a].user = tokens[f].user
          /\ tokens[a].code = tokens[f].code
    /\ \A a, b \in TokenIds :
          /\ tokens[a].kind = "access" /\ tokens[b].kind = "access"
          /\ tokens[a].refreshFor = tokens[b].refreshFor
          => a = b
    /\ \A f \in delivered : tokens[f].kind = "refresh" =>
          \E a \in delivered : IsKind(a, "access") /\ tokens[a].refreshFor = f

\* Revoking a family is final: once RevokeRefreshFamily ran for a token a client
\* holds, neither that token nor an access token issued with it is ever live
\* again, even though the two rows are inserted by separate statements and other
\* requests are still running.
KilledFamilyStaysDead ==
    \A t \in killed, u \in TokenIds :
        u = t \/ tokens[u].refreshFor = t => u \in revoked

\* Presenting a code again, after the request that consumed it is over, leaves no
\* live token that carries the code's hash, then or ever (RevokeFamilyByCode).
ReplayRevokesSettledExchange ==
    \A c \in Codes, t \in TokenIds :
        replayed[c] = "settled" /\ tokens[t].code = c => t \in revoked
-------------------------------------------------------------------------------
(* The abstract specification: one right per approval.                     *)

HoldsRight(r, c) == pc[r] = "insertRefresh" /\ mint[r].grant = c

RightOf(c) ==
    IF ~IsCode(c) THEN "none"
    ELSE IF c \notin consumed THEN "code"
    ELSE IF \E r \in Requests : HoldsRight(r, c) THEN "request"
    ELSE IF \E t \in TokenIds : LiveRefresh(t) /\ tokens[t].grant = c
         THEN CHOOSE t \in TokenIds : LiveRefresh(t) /\ tokens[t].grant = c
    ELSE "gone"

Abstract == INSTANCE RefreshRight WITH
    right <- [c \in Codes |-> RightOf(c)],
    issued <- { t \in TokenIds : tokens[t].kind = "refresh" }

\* The handlers implement the single right: no interleaving, failed statement or
\* repeated request duplicates an approval or brings a spent one back.
ImplementsRefreshRight == Abstract!Spec
-------------------------------------------------------------------------------
(* What comments of the repository say, and the code does not keep.        *)

Quiet == \A r \in Requests : pc[r] = "idle"

\* token.go:58-63: a code presented again is a reuse signal, and "every token
\* issued from it must be revoked" - also when the first exchange is still
\* between its consume and its inserts.
ReplayRevokesEveryToken ==
    Quiet => \A c \in Codes : replayed[c] # "never" =>
                 \A t \in RowsOfCode(c) : t \in revoked

\* Another request has just rotated the token that this one presents.
RotatedByAnother(r) ==
    \E w \in Requests \ {r} :
        req[w].key = req[r].key /\ pc[w] \in {"insertRefresh", "insertAccess"}

\* storage.go:86-88: the loser of two rotations of one refresh token "must treat the
\* second-use as a reuse-attack signal (handler-side)": a request that is still to
\* rotate when another has done so goes on to revoke the family.
LostRotationIsReuse ==
    [][\A r \in Requests : pc[r] = "rotate" /\ RotatedByAnother(r)
                              => pc'[r] \in {"rotate", "revokeFamily"}]_vars

\* revoke.go:24-25: "always revoke the whole refresh family to be safe" - also
\* when the token presented is the access token.
LogoutRevokesWholeFamily ==
    \A t \in killed : tokens[t].kind = "access" => tokens[t].refreshFor \in revoked
===============================================================================
