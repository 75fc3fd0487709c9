------------------------------- MODULE ToolCalls ------------------------------
(***************************************************************************)
(* A tool call from the HTTP request to its answer and its event: the      *)
(* bearer middleware (internal/oauth/server/middleware.go), the            *)
(* credentials (internal/oauth/credprovider), the checks of ToolRules, the *)
(* request to Organizze (internal/adapter/organizze), the classification   *)
(* of its error (internal/adapter/mcp/instrument.go) and the reporter of   *)
(* StatsReporter, up to the shutdown of the process.                       *)
(*                                                                         *)
(* Each call is a goroutine; a SQL statement and the request to Organizze  *)
(* are steps.  What Organizze decides about a request may come after the   *)
(* client has given up on it.  The MCP SDK is taken to run a tool with the *)
(* context of the HTTP request that carries the call.                      *)
(***************************************************************************)
EXTENDS StatsReporter, ToolRules

CONSTANTS
    Users,
    Owner,       \* whose credentials the single-tenant binary has
    Tokens,
    TokenRow,    \* oauth_tokens: the user, kind and expiry of each token
    Requests,    \* the tool calls that are tried: a tool and its arguments
    MaxNow

ASSUME CallsAssumption ==
    /\ Owner \in Users
    /\ TokenRow \in [Tokens -> [user : Users, kind : {"access", "refresh"}, expires : Nat]]
    /\ \A r \in Requests : r.tool \in Tools /\ r.args \in [Fields(r.tool) -> Values]
    /\ None \notin Users \cup Tokens
    /\ MaxNow \in Nat

VARIABLES
    binary,    \* single-tenant (over stdio or HTTP) or with OAuth
    proc,      \* the life of the process
    now,
    revoked,   \* oauth_tokens: the rows with a revoked_at
    pc,        \* what each call does next
    token,     \* the bearer token it came with
    creds,     \* the user whose credentials are in its context
    request,   \* what each call asks of Organizze, until it ends
    api,       \* what becomes of its request at Organizze
    answer,    \* what the caller gets: "ok", an error class, or an HTTP error
    late       \* history, read by no guard: calls that came with a dead token

callVars == <<binary, proc, now, revoked, pc, token, creds, request, api, answer, late>>
vars == <<callVars, reporterVars>>

\* A request for a tool call, and the arguments it was made from.
Sent(r) == [ tool |-> r.tool, args |-> r.args, body |-> Says(r.tool, r.args) ]
Messages == { Sent(r) : r \in Requests }

\* Every class but the two that are told apart is "unknown".
Classes == {"validation", "rate_limited", "unknown"}
Decisions == {"performed", "rejected"}

TypeOK ==
    /\ ReporterTypeOK
    /\ binary \in {"single", "oauth"}
    /\ proc \in {"up", "stopping", "gone"}
    /\ now \in 0 .. MaxNow
    /\ revoked \subseteq Tokens
    /\ pc \in [Calls -> {"new", "getToken", "getUser", "tool", "sent", "record", "done"}]
    /\ token \in [Calls -> Tokens \cup {None}]
    /\ creds \in [Calls -> Users \cup {None}]
    /\ request \in [Calls -> {None} \cup Messages]
    /\ api \in [Calls -> Decisions \cup {"none", "pending"}]
    /\ answer \in [Calls -> Classes \cup {"none", "ok", "unauthorized", "storeError"}]
    /\ late \subseteq Calls
    /\ \A c \in Calls : /\ pc[c] \in {"tool", "sent", "record"} => creds[c] # None
                        /\ c \in recorded => pc[c] = "done" /\ answer[c] \in Classes \cup {"ok"}

Init ==
    /\ ReporterInit
    /\ binary \in {"single", "oauth"}
    /\ proc = "up"
    /\ now = 0
    /\ revoked = {}
    /\ pc = [c \in Calls |-> "new"]
    /\ token = [c \in Calls |-> None]
    /\ creds = [c \in Calls |-> None]
    /\ request = [c \in Calls |-> None]
    /\ api = [c \in Calls |-> "none"]
    /\ answer = [c \in Calls |-> "none"]
    /\ late = {}
-------------------------------------------------------------------------------
(* The environment: the clock, the endpoints that revoke a token, and the  *)
(* end of the process.  Only the middleware reads the clock and the rows,  *)
(* and never whether a refresh token is revoked.                           *)

Served == binary = "oauth" /\ proc # "gone"

Tick ==
    /\ Served
    /\ now < MaxNow
    /\ now' = now + 1
    /\ UNCHANGED <<binary, proc, revoked, pc, token, creds, request, api, answer, late, reporterVars>>

Revoke(t) ==
    /\ Served
    /\ TokenRow[t].kind = "access" /\ t \notin revoked
    /\ revoked' = revoked \cup {t}
    /\ UNCHANGED <<binary, proc, now, pc, token, creds, request, api, answer, late, reporterVars>>

\* SIGTERM cancels the context of the reporter and closes the listener.
Signal ==
    /\ proc = "up"
    /\ proc' = "stopping"
    /\ stopped' = TRUE
    /\ UNCHANGED <<binary, now, revoked, pc, token, creds, request, api, answer, late,
                   config, reporter, draining, ingest>>

\* Shutdown returns when no call is in progress, or after ten seconds; over stdio the
\* server ends at once.  The buffer goes with the process.
Exit ==
    /\ proc = "stopping"
    /\ proc' = "gone"
    /\ UNCHANGED <<binary, now, revoked, pc, token, creds, request, api, answer, late, reporterVars>>
-------------------------------------------------------------------------------
(* The middleware.                                                         *)

\* Faulty: at the instant of its expiry a token is over.
InForceBefore(t) == TokenRow[t].kind = "access" /\ t \notin revoked /\ now < TokenRow[t].expires

\* The row is an access token, not revoked, and its expiry is not before now.
InForce(t) ==
    /\ TokenRow[t].kind = "access"
    /\ t \notin revoked
    /\ ~(TokenRow[t].expires < now)

\* Dead for the properties: by its kind, revoked, or past its expiry.
Dead(t) == TokenRow[t].kind # "access" \/ t \in revoked \/ now > TokenRow[t].expires

Goto(c, step) == proc # "gone" /\ pc' = [pc EXCEPT ![c] = step]

\* A call arrives; without OAuth it has the credentials of the environment.
Arrive(c) ==
    /\ proc = "up"
    /\ pc[c] = "new"
    /\ \/ \E t \in Tokens :
             /\ binary = "oauth"
             /\ token' = [token EXCEPT ![c] = t]
             /\ Goto(c, "getToken")
             /\ late' = IF Dead(t) THEN late \cup {c} ELSE late
             /\ UNCHANGED creds
       \/ /\ binary = "single"
          /\ Goto(c, "tool")
          /\ creds' = [creds EXCEPT ![c] = Owner]
          /\ UNCHANGED <<token, late>>
    /\ UNCHANGED <<binary, proc, now, revoked, request, api, answer, reporterVars>>

\* The request is answered, and its context goes.
End(c) ==
    /\ Goto(c, "done")
    /\ token' = [token EXCEPT ![c] = None]
    /\ creds' = [creds EXCEPT ![c] = None]
    /\ request' = [request EXCEPT ![c] = None]
    /\ late' = late \ {c}

\* The answer is an HTTP error of the middleware, and no tool runs.
Refuse(c, error) ==
    /\ End(c)
    /\ answer' = [answer EXCEPT ![c] = error]

\* A failing statement is answered like an unknown token.
GetToken(c) ==
    /\ pc[c] = "getToken"
    /\ \/ InForce(token[c]) /\ Goto(c, "getUser") /\ UNCHANGED <<token, creds, request, answer, late>>
       \/ ~InForce(token[c]) /\ Refuse(c, "unauthorized")
       \/ Refuse(c, "storeError")
    /\ UNCHANGED <<binary, proc, now, revoked, api, reporterVars>>

\* Faulty: the credentials of whoever came last, in one variable.
GetUserShared(c) ==
    /\ pc[c] = "getUser"
    /\ \E t \in Tokens : creds' = [creds EXCEPT ![c] = TokenRow[t].user]
    /\ Goto(c, "tool")
    /\ UNCHANGED <<binary, proc, now, revoked, token, request, api, answer, late, reporterVars>>

\* The user of the token, whose decrypted key goes into the context.
GetUser(c) ==
    /\ pc[c] = "getUser"
    /\ \/ /\ creds' = [creds EXCEPT ![c] = TokenRow[token[c]].user]
          /\ Goto(c, "tool")
          /\ UNCHANGED <<token, request, answer, late>>
       \/ Refuse(c, "storeError")
    /\ UNCHANGED <<binary, proc, now, revoked, api, reporterVars>>
-------------------------------------------------------------------------------
(* The tool and its request to Organizze.                                  *)

Finish(c, result) ==
    /\ Goto(c, "record")
    /\ answer' = [answer EXCEPT ![c] = result]

\* The requests that pass the checks of their use case.
Acceptable == { r \in Requests : Accepted(r.tool, r.args) }

\* The checks of the use case, then one request without retry.
RunTool(c) ==
    /\ pc[c] = "tool"
    /\ \E r \in Requests :
          \/ /\ r \in Acceptable
             /\ Goto(c, "sent")
             /\ request' = [request EXCEPT ![c] = Sent(r)]
             /\ api' = [api EXCEPT ![c] = "pending"]
             /\ UNCHANGED answer
          \/ /\ r \notin Acceptable
             /\ Finish(c, "validation")
             /\ UNCHANGED <<request, api>>
    /\ UNCHANGED <<binary, proc, now, revoked, token, creds, late, reporterVars>>

\* Organizze decides, whether or not somebody still waits for it.
Decide(c, d) ==
    /\ api[c] = "pending"
    /\ api' = [api EXCEPT ![c] = d]
    /\ UNCHANGED <<binary, proc, now, revoked, pc, token, creds, request, answer, late, reporterVars>>

\* Faulty: a status of 400 counts as success.
ResultsAbove400(d) == IF d = "performed" THEN {"ok", "unknown"} ELSE {"ok", "rate_limited"}

\* do, APIError.Is and classifyError: 400 and 422 are "validation", 429 is
\* "rate_limited"; other statuses, and an answer that does not decode, are neither.
Results(d) ==
    IF d = "performed" THEN {"ok", "unknown"} ELSE {"validation", "rate_limited", "unknown"}

Answered(c) ==
    /\ pc[c] = "sent"
    /\ api[c] \in Decisions
    /\ \E result \in Results(api[c]) : Finish(c, result)
    /\ UNCHANGED <<binary, proc, now, revoked, token, creds, request, api, late, reporterVars>>

\* The timeout of the client, the end of the caller's request, or a broken connection.
GiveUp(c) ==
    /\ pc[c] = "sent"
    /\ Finish(c, "unknown")
    /\ UNCHANGED <<binary, proc, now, revoked, token, creds, request, api, late, reporterVars>>

\* instrument records the event, and then the caller gets the answer.
Record(c) ==
    /\ pc[c] = "record"
    /\ RecordToolCall(c)
    /\ End(c)
    /\ UNCHANGED <<binary, proc, now, revoked, api, answer, config, stopped, draining, ingest>>
-------------------------------------------------------------------------------
CallStep(c) == GetToken(c) \/ GetUser(c) \/ RunTool(c) \/ Answered(c) \/ GiveUp(c) \/ Record(c)

\* Organizze and the Lambda go on after the process, but Exit may come as late as
\* it likes and touches nothing of theirs: what they do after it, they do before.
Next ==
    \/ Tick \/ Signal \/ Exit
    \/ \E t \in Tokens : Revoke(t)
    \/ \E c \in Calls : Arrive(c) \/ CallStep(c)
    \/ \E c \in Calls, d \in Decisions : proc # "gone" /\ Decide(c, d)
    \/ proc # "gone" /\ (Drain \/ Ingest) /\ UNCHANGED callVars

Spec == Init /\ [][Next]_vars

\* The Go scheduler runs every call, and a request ends by its timeout.  Neither the
\* drain goroutine nor Organizze nor the Lambda is fair.
Fairness == \A c \in Calls : WF_vars(CallStep(c))

FairSpec == Spec /\ Fairness
-------------------------------------------------------------------------------
(* Properties.                                                             *)

\* Whatever is revoked or expires in between, a request reaches Organizze only with
\* the credentials of the user its token was issued to, and never for a call that
\* came with a refresh token, a revoked or an expired one (middleware.go:35-85).
ActsForItsToken ==
    [][\A c \in Calls : api'[c] # api[c] /\ api[c] = "none" =>
         creds[c] = (IF binary = "oauth" THEN TokenRow[token[c]].user ELSE Owner) /\ c \notin late]_vars

\* An access token is good up to and including the instant of its expiry, as in the
\* statements of the token endpoint: who is refused has a token that is dead by now.
RefusedOnlyIfDead ==
    [][\A c \in Calls : answer'[c] = "unauthorized" /\ answer[c] = "none" => Dead(token[c])]_vars

\* The class of an error says whether it is safe to call again: success is told only
\* of what Organizze did, and "validation" or "rate_limited" only of what it did not
\* and never will; after any other class it may have, or may yet (executor.go:138-186).
AnswerIsTruthful ==
    \A c \in Calls : /\ answer[c] = "ok" => api[c] = "performed"
                     /\ answer[c] \in {"validation", "rate_limited"} =>
                            api[c] \notin {"performed", "pending"}

\* Whatever combination of fields the callers chose, no request that a call has sent
\* leaves it to Organizze which part to drop (usecase/transaction.go:192-202, 242-257):
\* a bank account and a card, an invoice without its card, two schedules, two scopes of
\* a delete; a new transaction has a destination; a schedule, a day or a month is one
\* that exists, and a month has its year.  Updates of cards may name any day.
AcceptedIsUnambiguous ==
    \A c \in Calls : request[c] # None => Unambiguous(request[c].tool, request[c].body)

\* An update that a call has sent says what its caller gave, a zero value too, and
\* nothing else, since Organizze leaves alone what is absent (domain/transaction.go:
\* 157-166).  It says nothing of an empty list.
UpdatesArePartial ==
    \A c \in Calls :
        request[c] # None /\ Methods[request[c].tool] = "PUT" =>
            SaysWhatIsGiven(request[c].tool, request[c].args, request[c].body)

\* Telemetry never holds a tool call up, though its endpoint may hang for ever
\* (http_reporter.go:31-34): every call ends, or the process does.
CallsEnd == \A c \in Calls : pc[c] # "new" ~> pc[c] = "done" \/ proc = "gone"
===============================================================================
