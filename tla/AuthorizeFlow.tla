---------------------------- MODULE AuthorizeFlow -----------------------------
(***************************************************************************)
(* The authorization endpoint: the signed form, the browser session and    *)
(* the approval that ends in an authorization code                         *)
(* (internal/oauth/server/authorize.go, consent.go, session.go over the    *)
(* tables oauth_users, oauth_sessions and oauth_codes).                    *)
(*                                                                         *)
(* One browser has several tabs, which share its cookie.  A tab has at     *)
(* most one request in progress; a request is a process, and each SQL      *)
(* statement, each call to Organizze and the arrival of the response is a  *)
(* step.  Clients never change once registered, so GetClient belongs to    *)
(* the step that begins the request.  HMAC signatures cannot be forged:    *)
(* a consent token or a cookie is the record that was signed.              *)
(***************************************************************************)
EXTENDS Naturals

CONSTANTS
    Tabs, Clients, Redirects,
    Registered,    \* the redirect URIs of each client
    Challenges, States,
    Links,         \* the authorization requests that clients send the browser to
    Users,         \* e-mail addresses; a row of oauth_users has one as its key
    Keys,          \* Organizze API keys, each with its user agent
    KeysOf,        \* the keys that Organizze may give to each user
    Codes,
    Sessions,      \* random session ids that may be drawn (bounds the inserts)
    None,
    ConsentTTL, SessionTTL, CodeTTL,
    MaxNow,        \* bound on the clock
    StoreMayFail   \* whether a SQL statement may return an error

\* The parameters of an authorization request that the consent token binds.
Params == [ client : Clients, redirect : Redirects, challenge : Challenges, state : States ]

ASSUME AuthorizeAssumption ==
    /\ Registered \in [Clients -> SUBSET Redirects]
    /\ Links \subseteq Params
    /\ KeysOf \in [Users -> SUBSET Keys]
    /\ None \notin Clients \cup Redirects \cup Challenges \cup Users \cup Keys \cup Sessions
    /\ ConsentTTL \in Nat
    /\ {SessionTTL, CodeTTL} \subseteq Nat \ {0}
    /\ MaxNow \in Nat
    /\ StoreMayFail \in BOOLEAN

VARIABLES
    now,
    live,      \* Organizze: the API key in force of each user
    users,     \* oauth_users: the stored key
    sessions,  \* oauth_sessions
    minted,    \* session ids drawn so far
    codes,     \* oauth_codes
    cookie,    \* the session cookie of the browser
    page,      \* the form each tab displays
    pc,        \* what each tab's request does next
    req,       \* what the request presented
    got,       \* the handler's locals: the user, the key and the session of the approval
    reply,     \* the response on its way to the browser
    left       \* history, read by no guard: sessions that a switch of users has deleted

store == <<users, sessions, minted, codes>>
browser == <<cookie, page>>
handlers == <<pc, req, got, reply>>
vars == <<now, live, store, browser, handlers, left>>
-------------------------------------------------------------------------------
\* A form: the parameters and the time signed into its consent token, the user it
\* offers to continue as, and the session it found that user by.
Form == [ params : Params, issued : Nat, shown : Users \cup {None},
          session : Sessions \cup {None} ]

NoForm == [ issued |-> 0, shown |-> None, session |-> None ]
Page == Form \cup {NoForm}

Login == [ user : Users, key : Keys ]
Blank == [ user |-> None, key |-> None ]

Request == [ kind : {"continue", "login"}, params : Params, cookie : Sessions \cup {None},
             login : Login \cup {Blank}, form : Page ]
Idle == [ kind |-> "none" ]

Got == [ user : Users \cup {None}, key : Keys \cup {None}, session : Sessions \cup {None},
         proof : Login \cup {Blank} ]
NoGot == [ user |-> None, key |-> None, session |-> None, proof |-> Blank ]

Reply == [ cookie : Sessions \cup {None}, page : Page ]
NoReply == [ cookie |-> None, page |-> NoForm ]

SessionRow == [ user : Users, expires : Nat ]
NoSession == [ user |-> None, expires |-> 0 ]

CodeRow == [ client : Clients, user : Users, redirect : Redirects,
             challenge : Challenges, expires : Nat ]
NoCode == [ client |-> None, user |-> None, redirect |-> None,
            challenge |-> None, expires |-> 0 ]

Steps == { "idle", "getSession", "getUser", "validateSaved", "validateLogin",
           "upsert", "createCode", "createSession", "respond" }

TypeOK ==
    /\ now \in Nat
    /\ live \in [Users -> Keys]
    /\ users \in [Users -> Keys \cup {None}]
    /\ sessions \in [Sessions -> SessionRow \cup {NoSession}]
    /\ minted \subseteq Sessions
    /\ codes \in [Codes -> CodeRow \cup {NoCode}]
    /\ cookie \in Sessions \cup {None}
    /\ page \in [Tabs -> Page]
    /\ pc \in [Tabs -> Steps]
    /\ req \in [Tabs -> Request \cup {Idle}]
    /\ got \in [Tabs -> Got]
    /\ reply \in [Tabs -> Reply]
    /\ \A t \in Tabs : pc[t] \notin {"idle", "respond"} => req[t] \in Request
    /\ left \subseteq Sessions

\* The server starts on a store that has seen a visit of this browser, or none.
Visited(s, u, k) ==
    /\ users = [v \in Users |-> IF v = u THEN k ELSE None]
    /\ sessions = [x \in Sessions |-> IF x = s THEN [user |-> u, expires |-> SessionTTL] ELSE NoSession]
    /\ minted = {s}
    /\ cookie = s

NeverVisited ==
    /\ users = [u \in Users |-> None]
    /\ sessions = [s \in Sessions |-> NoSession]
    /\ minted = {}
    /\ cookie = None

Init ==
    /\ now = 0
    /\ live \in [Users -> Keys] /\ \A u \in Users : live[u] \in KeysOf[u]
    /\ NeverVisited \/ \E s \in Sessions, u \in Users : \E k \in KeysOf[u] : Visited(s, u, k)
    /\ codes = [c \in Codes |-> NoCode]
    /\ page = [t \in Tabs |-> NoForm]
    /\ pc = [t \in Tabs |-> "idle"]
    /\ req = [t \in Tabs |-> Idle]
    /\ got = [t \in Tabs |-> NoGot]
    /\ reply = [t \in Tabs |-> NoReply]
    /\ left = {}
-------------------------------------------------------------------------------
(* Conditions of the handlers.                                             *)

\* parseAuthorizeParams: a known client and one of its own redirect URIs.
ParamsOK(p) == p.redirect \in Registered[p.client]

\* Faulty: the posted fields are not compared with those signed.
ConsentInForce(form, p) == form # NoForm /\ now - form.issued <= ConsentTTL

\* verifyConsent and the comparison with the posted fields.
ConsentOK(form, p) == /\ form # NoForm
                      /\ now - form.issued <= ConsentTTL
                      /\ p = form.params

\* GetSession
Found(s) == s # None /\ sessions[s].user # None /\ sessions[s].expires > now

\* The form that is rendered next, with a new consent token.
Rendered(p, shown, session) ==
    [ params |-> p, issued |-> now, shown |-> shown, session |-> session ]

Bare(t) == Rendered(req[t].params, None, None)
-------------------------------------------------------------------------------
(* Control of one request.                                                 *)

Begin(t, step, r) ==
    /\ pc[t] = "idle"
    /\ pc' = [pc EXCEPT ![t] = step]
    /\ req' = [req EXCEPT ![t] = r]
    /\ UNCHANGED <<now, live, store, browser, got, reply, left>>

Continue(t, step) == pc' = [pc EXCEPT ![t] = step] /\ UNCHANGED <<req, reply, browser>>

EndHandler(t, step) ==
    /\ pc' = [pc EXCEPT ![t] = step]
    /\ req' = [req EXCEPT ![t] = Idle]
    /\ got' = [got EXCEPT ![t] = NoGot]

\* A response that leaves the cookie alone reaches its own tab only, or is lost.
Respond(t, form) ==
    /\ EndHandler(t, "idle")
    /\ \/ page' = [page EXCEPT ![t] = form]
       \/ UNCHANGED page
    /\ UNCHANGED <<cookie, reply>>

ServerError(t) == Respond(t, NoForm)

\* One that sets the cookie, which the tabs share, is on its way for a while.
RespondWithCookie(t, c, form) ==
    /\ EndHandler(t, "respond")
    /\ reply' = [reply EXCEPT ![t] = [cookie |-> c, page |-> form]]
    /\ UNCHANGED browser

\* It arrives, or the connection is gone.
Arrive(t) ==
    /\ pc[t] = "respond"
    /\ \/ UNCHANGED browser
       \/ /\ cookie' = reply[t].cookie
          /\ page' = [page EXCEPT ![t] = reply[t].page]
    /\ pc' = [pc EXCEPT ![t] = "idle"]
    /\ reply' = [reply EXCEPT ![t] = NoReply]
    /\ UNCHANGED <<now, live, store, req, got, left>>
-------------------------------------------------------------------------------
(* The environment.                                                        *)

Tick ==
    /\ now < MaxNow
    /\ now' = now + 1
    /\ UNCHANGED <<live, store, browser, handlers, left>>

\* A user replaces the API key at Organizze; the old one no longer works.
ReplaceKey(u, k) ==
    /\ k \in KeysOf[u]
    /\ live' = [live EXCEPT ![u] = k]
    /\ UNCHANGED <<now, store, browser, handlers, left>>
-------------------------------------------------------------------------------
(* GET /oauth/authorize                                                    *)

\* Its look-ups (GetClient, GetSession, GetUser) change nothing and are taken as one
\* step with the response; SwitchUser executes one DELETE.

\* lookupBrowserSession finds a user to continue as, or not.
AuthorizeGET(t, p) ==
    /\ pc[t] = "idle"
    /\ p \in Links /\ ParamsOK(p)
    /\ \/ /\ Found(cookie)
          /\ Respond(t, Rendered(p, sessions[cookie].user, cookie))
       \/ /\ ~Found(cookie) \/ StoreMayFail
          /\ Respond(t, Rendered(p, None, None))
    /\ UNCHANGED <<now, live, store, left>>

\* Faulty: the cookie is cleared and the row stays.
SwitchKeepsRow(t, p) ==
    /\ pc[t] = "idle"
    /\ p \in Links /\ ParamsOK(p)
    /\ left' = left \cup ({cookie} \ {None})
    /\ RespondWithCookie(t, None, Rendered(p, None, None))
    /\ UNCHANGED <<now, live, store>>

\* reset=1, clearBrowserSession: an error of the DELETE is ignored.
SwitchUser(t, p) ==
    /\ pc[t] = "idle"
    /\ p \in Links /\ ParamsOK(p)
    /\ \/ /\ cookie # None
          /\ sessions' = [sessions EXCEPT ![cookie] = NoSession]
          /\ left' = left \cup {cookie}
       \/ /\ cookie = None \/ StoreMayFail
          /\ UNCHANGED <<sessions, left>>
    /\ RespondWithCookie(t, None, Rendered(p, None, None))
    /\ UNCHANGED <<now, live, users, minted, codes>>
-------------------------------------------------------------------------------
(* POST /oauth/authorize.  The page has the button of the user it shows,   *)
(* or else the fields of a login.                                          *)

AuthorizePOST(t, p, login) ==
    LET form == page[t]
        continue == form.shown # None IN
    /\ ConsentOK(form, p)
    /\ ParamsOK(p)
    /\ continue => login = Blank
    /\ Begin(t, IF continue THEN "getSession" ELSE "validateLogin",
             [ kind |-> IF continue THEN "continue" ELSE "login", params |-> p, cookie |-> cookie,
               login |-> login, form |-> form ])

\* lookupBrowserSession found no user: the fields of the login are empty, and the
\* bare form is rendered.
NoUserFound(t) == Respond(t, Bare(t))

GetSession(t) ==
    LET s == req[t].cookie IN
    /\ pc[t] = "getSession"
    /\ \/ /\ Found(s)
          /\ got' = [got EXCEPT ![t] =
                  [ user |-> sessions[s].user, key |-> None, session |-> s, proof |-> Blank ]]
          /\ Continue(t, "getUser")
       \/ /\ ~Found(s) \/ StoreMayFail
          /\ NoUserFound(t)
    /\ UNCHANGED <<now, live, store, left>>

\* The session row was copied: another request may have deleted it since.
GetUser(t) ==
    /\ pc[t] = "getUser"
    /\ \/ /\ got' = [got EXCEPT ![t] = [@ EXCEPT !.key = users[got[t].user]]]
          /\ Continue(t, "validateSaved")
       \/ StoreMayFail /\ NoUserFound(t)
    /\ UNCHANGED <<now, live, store, left>>
-------------------------------------------------------------------------------
(* ValidateOrganizze: a call to Organizze with the key, which answers       *)
(* whether it is the one in force.  A failed call counts as a refusal.      *)

\* The key works: the approval goes on.
Accept(t, login, step) ==
    /\ login.key = live[login.user]
    /\ got' = [got EXCEPT ![t] = [ user |-> login.user, key |-> login.key,
                                   session |-> got[t].session, proof |-> login ]]
    /\ Continue(t, step)

\* The form is rendered again, for a login with all fields.
Refuse(t) == Respond(t, Bare(t))

\* Faulty: the key of a login is not tried at Organizze.
TrustLogin(t) ==
    /\ pc[t] = "validateLogin"
    /\ \/ /\ req[t].login # Blank
          /\ got' = [got EXCEPT ![t] = [ user |-> req[t].login.user, key |-> req[t].login.key,
                                         session |-> None, proof |-> Blank ]]
          /\ Continue(t, "upsert")
       \/ Refuse(t)
    /\ UNCHANGED <<now, live, store, left>>

\* Before the call, the stored key may fail to decrypt (Cipher.Open).
ValidateSaved(t) ==
    /\ pc[t] = "validateSaved"
    /\ \/ ServerError(t)
       \/ Accept(t, [user |-> got[t].user, key |-> got[t].key], "createCode")
       \/ Refuse(t)
    /\ UNCHANGED <<now, live, store, left>>

ValidateLogin(t) ==
    /\ pc[t] = "validateLogin"
    /\ \/ req[t].login # Blank /\ Accept(t, req[t].login, "upsert")
       \/ Refuse(t)
    /\ UNCHANGED <<now, live, store, left>>
-------------------------------------------------------------------------------
(* The statements that store an approval.  One that returns an error may    *)
(* have been executed.  At the bound on rows an insert fails.               *)

Outcome(t, step) == \/ Continue(t, step) /\ UNCHANGED got
                    \/ StoreMayFail /\ ServerError(t)

\* UpsertUserByEmail: the last writer's key stays.
UpsertUser(t) ==
    /\ pc[t] = "upsert"
    /\ \/ /\ users' = [users EXCEPT ![got[t].user] = got[t].key]
          /\ Outcome(t, "createCode")
       \/ /\ StoreMayFail
          /\ ServerError(t)
          /\ UNCHANGED users
    /\ UNCHANGED <<now, live, sessions, minted, codes, left>>

IsCode(c) == codes[c].client # None

\* Faulty: the code lives as long as a session; its user is taken from the form.
RowWithSessionTTL(t) ==
    [ client |-> req[t].params.client, user |-> got[t].user, redirect |-> req[t].params.redirect,
      challenge |-> req[t].params.challenge, expires |-> now + SessionTTL ]

RowOfFormUser(t) ==
    [ client |-> req[t].params.client, user |-> req[t].login.user,
      redirect |-> req[t].params.redirect, challenge |-> req[t].params.challenge,
      expires |-> now + CodeTTL ]

\* The row of completeAuthorize.
ApprovedRow(t) ==
    [ client |-> req[t].params.client, user |-> got[t].user, redirect |-> req[t].params.redirect,
      challenge |-> req[t].params.challenge, expires |-> now + CodeTTL ]

CreateAuthCode(t) ==
    /\ pc[t] = "createCode"
    /\ \/ \E c \in Codes :
             /\ ~IsCode(c)
             /\ codes' = [codes EXCEPT ![c] = ApprovedRow(t)]
             /\ Outcome(t, "createSession")
       \/ /\ StoreMayFail \/ \A c \in Codes : IsCode(c)
          /\ ServerError(t)
          /\ UNCHANGED codes
    /\ UNCHANGED <<now, live, users, sessions, minted, left>>

\* The session row for the user of the approval.
NewSession(t) == [ user |-> got[t].user, expires |-> now + SessionTTL ]

\* Faulty: the row of the browser's cookie is reused for the new user.
ReuseSession(t) ==
    LET s == req[t].cookie IN
    /\ pc[t] = "createSession"
    /\ \/ /\ s # None
          /\ sessions' = [sessions EXCEPT ![s] = NewSession(t)]
          /\ RespondWithCookie(t, s, NoForm)
       \/ /\ s = None
          /\ Respond(t, NoForm)
          /\ UNCHANGED sessions
    /\ UNCHANGED <<now, live, users, codes, minted, left>>

\* writeBrowserSession: the redirect to the client goes out even if the row cannot
\* be written, then without a cookie.
CreateSession(t) ==
    /\ pc[t] = "createSession"
    /\ \/ \E s \in Sessions \ minted :
             /\ minted' = minted \cup {s}
             /\ sessions' = [sessions EXCEPT ![s] = NewSession(t)]
             /\ \/ RespondWithCookie(t, s, NoForm)
                \/ StoreMayFail /\ Respond(t, NoForm)
       \/ /\ StoreMayFail \/ minted = Sessions
          /\ Respond(t, NoForm)
          /\ UNCHANGED <<sessions, minted>>
    /\ UNCHANGED <<now, live, users, codes, left>>
-------------------------------------------------------------------------------
Step(t) ==
    \/ \E p \in Params : AuthorizeGET(t, p) \/ SwitchUser(t, p)
    \/ \E p \in Params, login \in Login \cup {Blank} : AuthorizePOST(t, p, login)
    \/ GetSession(t) \/ GetUser(t)
    \/ ValidateSaved(t) \/ ValidateLogin(t)
    \/ UpsertUser(t) \/ CreateAuthCode(t) \/ CreateSession(t)
    \/ Arrive(t)

Next ==
    \/ Tick
    \/ \E u \in Users, k \in Keys : ReplaceKey(u, k)
    \/ \E t \in Tabs : Step(t)

Spec == Init /\ [][Next]_vars
-------------------------------------------------------------------------------
(* Properties.                                                             *)

\* The step in which the request of tab t stores code c.
Approves(t, c) == /\ pc[t] = "createCode" /\ pc'[t] # "createCode"
                  /\ codes'[c] # codes[c]

\* A code is that of a form, and a request begins with a form that is in force.
OnlyAsShown ==
    /\ \A c \in Codes : codes'[c] # codes[c] =>
         \E t \in Tabs :
            /\ Approves(t, c)
            /\ req[t].form # NoForm
            /\ LET p == req[t].form.params IN
               /\ codes'[c].client = p.client
               /\ codes'[c].redirect = p.redirect
               /\ codes'[c].challenge = p.challenge
               /\ p.redirect \in Registered[p.client]
    /\ \A t \in Tabs :
         pc[t] = "idle" /\ pc'[t] \in {"validateLogin", "getSession"} =>
            page[t] # NoForm /\ now <= page[t].issued + ConsentTTL

\* What a user approves is what a form displayed: a code is stored only by a
\* request that posted a form, whose consent token was in force at that moment,
\* and its client, redirect URI and challenge are those the form displayed.
ApprovedAsShown == [][OnlyAsShown]_vars

\* A code and a stored key come with a key that the same request has proved.
OnlyOnAcceptedKeys ==
    /\ \A t \in Tabs, c \in Codes : Approves(t, c) =>
         /\ got[t].proof # Blank
         /\ got[t].proof.user = codes'[c].user
         /\ req[t].kind = "login" => got[t].proof = req[t].login
    /\ \A u \in Users : users'[u] # users[u] =>
         \E t \in Tabs : /\ pc[t] = "upsert" /\ pc'[t] # "upsert"
                         /\ got[t].proof = [user |-> u, key |-> users'[u]]

\* Whatever order concurrent requests take, nothing rests on a key that nobody tried.
\* A code is stored only after Organizze accepted, in the same request, a key for the
\* very user the code stands for: the key of the login, or, when a session is
\* continued, the key it had read from that user's row.  And a stored key changes only
\* to one that Organizze accepted for that very user, in the request that stores it.
RestsOnAcceptedKeys == [][OnlyOnAcceptedKeys]_vars

\* No request finds a session that was left.
FindsNoneThatWasLeft ==
    \A t \in Tabs : got'[t].session # None /\ got[t].session = None => got'[t].session \notin left

\* Switching users is final on the server: once the switch has deleted a session,
\* no request finds it again, even if the response that cleared the cookie was
\* lost and the browser still sends it.
SwitchIsFinal == [][FindsNoneThatWasLeft]_vars

\* The user a form offers to continue as is the user the approval is for, unless
\* another tab has given the browser another session in between: a session id
\* never changes its user (writeBrowserSession draws a new one, it reuses none).
ContinuesAsShown ==
    \A t \in Tabs :
        /\ pc[t] \in {"validateSaved", "createCode"} /\ req[t].kind = "continue"
        /\ got[t].session = req[t].form.session
        => got[t].user = req[t].form.shown

\* The tables of the token endpoint while nobody uses it.
Nothing == [ x \in {} |-> None ]

Grants == INSTANCE OAuthTokens WITH
    PublicClients <- {}, Stranger <- "stranger", Absent <- "absent",
    Requests <- {}, TokenIds <- {}, Verifiers <- Challenges, BadVerifiers <- {},
    AccessTTL <- 1, RefreshTTL <- 1,
    consumed <- {}, tokens <- Nothing, revoked <- {}, delivered <- {},
    pc <- Nothing, req <- Nothing, mint <- Nothing, killed <- {},
    replayed <- [c \in Codes |-> "never"]

\* The codes this endpoint creates are those OAuthTokens assumes of its
\* environment: one insert at a time, unconsumed, with CodeTTL left.
FeedsTokenEndpoint == Grants!Spec
===============================================================================
