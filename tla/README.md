# Formal models of organizze-mcp

organizze-mcp puts the Organizze personal-finance API behind the Model Context
Protocol. Around the thin translation of tools to HTTP requests it has parts whose
correctness depends on order, concurrency and failure, and these are what this
directory models in TLA+, with the rules of the translation beside them:

* an OAuth 2.1 authorization server (`internal/oauth`, binary
  `cmd/organizze-mcp-oauth`), several instances of which may share one Postgres;
* a telemetry pipeline: reporter (`internal/stats`) → ingest Lambda (`cmd/ingest`) →
  SQS → consumer (`cmd/consumer`) → Postgres;
* the batch tools, which fan a list of transactions out over goroutines
  (`internal/usecase/transaction.go`);
* a tool call as a whole, from its bearer token to its answer and its telemetry event;
* the deployment: replicas that migrate the database they share, serve and shut down.

`PROJECT.json` lists the components, the runs, the faulty variants that each property
was shown to catch, the source lines behind each definition, the hazards and the
theorems. To check: `tlc -config X.cfg M` for each run, `tlapm M.tla` for each
`*Proofs` module.

## 1. The system

| component | state it keeps | operations | interacts with |
|---|---|---|---|
| token, revocation endpoints (`token.go`, `revoke.go`) | none of their own: `oauth_codes`, `oauth_tokens` | exchange a code, rotate a refresh token, revoke | each handler is a goroutine that executes one SQL statement after another, outside any transaction |
| client authentication (`clientauth.go`) | reads `oauth_clients` | decide which client speaks | called first by both grants |
| authorization endpoint (`authorize.go`, `consent.go`, `session.go`) | `oauth_sessions`, `oauth_users`, browser cookie, signed form | render form, log in, continue as known user, switch user | creates the codes that the token endpoint consumes; calls Organizze to validate a key |
| Bearer middleware (`middleware.go`), credentials (`credprovider`) | request context | admit a tool call | reads `oauth_tokens`, `oauth_users` |
| dynamic registration, rate limiter (`register.go`, `ratelimit.go`) | `oauth_clients`, buckets per IP under a mutex | register a client | its clients are those of all endpoints |
| migration runner (`migrate.go`) | `schema_migrations` | apply what is missing, at start-up | every instance runs it before it serves |
| stats reporter (`http_reporter.go`, `instrument.go`) | bounded channel, drop counter | record a tool call, drain, stop | posts to the ingest endpoint |
| ingest (`cmd/ingest`) | none | authenticate, validate, enqueue | SQS |
| stats consumer (`cmd/consumer`) | `stats_events`; queue state at SQS | poll, insert, delete, back off, stop | SQS, Postgres; several containers at once |
| batch tools (`transaction.go`, `tools_transactions.go`) | results slice, semaphore, wait group, per call | create, update, delete up to 100 transactions | one goroutine per item, one HTTP request each |
| single tools, use cases, Organizze adapter | none | validate, send, decode | Organizze |

What is hard in it, in short (`PROJECT.json` has the list with lines): two requests
presenting the same code or refresh token; a replay overtaking the exchange it
replays; a handler that dies between two inserts; an UPDATE that is committed and not
answered; messages delivered twice, late, out of turn or after their delete; a
container that is stopped between insert and delete; a poison message; goroutines that
end in any order around a shared slice and a counter; tabs that share a cookie while
keys are replaced and responses are lost; a token that dies while its call runs; a
bounded buffer between a tool call and an endpoint that hangs; replicas that start at
once, or are killed between a migration and its ledger row.

## 2. What is modelled

### 2.1 The token life cycle: `OAuthTokens`, `ClientAuth`, `RefreshRight`

*Correspondence.* A request is a process (`Requests` are slots, reused when a handler
returns); one SQL statement is one atomic step. The Go code between two statements
touches only the request's own variables, so it belongs to the step of the statement
before it: `ConsumeAuthCode` is the UPDATE plus the checks on the row it returns.
`pc[r]` names the statement the request executes next. `codes` and `tokens` are the
tables; the two columns that change later are the sets `consumed` (`consumed_at`) and
`revoked` (`revoked_at`). A token stands for its hash. Three things are not in the
code and are read by no guard: the column `grant`, which remembers the approval a row
descends from, and the history variables `killed` and `replayed`.

*Environment.* The clock; the authorization endpoint, which stores a code for any
client, user, redirect URI and challenge (`CreateAuthCode`); clients, which present any
code that exists, any token that was delivered to somebody, or something that matches
no row, in the name of any client they can authenticate as (`ClientAuth`). A token that
was never delivered is never presented.

*Failure.* Every statement may fail without effect (`StatementFails`) or take effect
and lose its answer (`*Unanswered`). Which handler goes on regardless is the code's:
the pre-read of the refresh grant and the first revocation of `handleRevoke` ignore
their errors. A failed revocation whose effect was lost or kept needs no action of its
own: the handler answers the same either way. A crash of the server is every request in
flight failing, one step after the other.

*Abstract specification.* `RefreshRight`: an approval is one right, which at any time
is in one place: the code, the request that redeems or rotates it, a refresh token, or
gone. `OAuthTokens!ImplementsRefreshRight` maps the tables and program counters to it.

### 2.2 The stats consumer: `StatsConsumer`, `StatsDelivery`

*Correspondence.* `pc[c]` is where container `c` is in `pollLoop`: `receive`,
`backoff`, `process` (the loop of `Handler.Process`), `ack` (the loop of deletes) or
`down`. `batch`, `at` and `failed` are `out.Messages`, the loop position and
`FailedMessageIDs`; `rows` is the set of message ids that have a row in `stats_events`
(the column is `UNIQUE` and the insert does nothing on a conflict).
One call to SQS or Postgres is one step. `stopping[c]` is the cancelled context; it
stops the receive, the sleep and the inserts, and not the deletes, which run under
`context.WithoutCancel`. An insert that the signal interrupts may be committed and
still count as failed (`PersistInterrupted`).

*The queue* is modelled from what SQS standard queues do: a received message is hidden
until its visibility timeout, which may end at any time; with `Redeliveries` it may be
delivered while hidden, twice in one batch, and after its delete; a failed or cancelled
receive may have hidden messages; a delete may fail, come too late (`ackTimeout`) or
carry an old receipt. `Unstorable` are the messages that the ingest endpoint accepts
(`json.Valid`) and the `JSONB` column does not.

*Abstract specification.* `StatsDelivery`: a message goes from unsent to queued, stored
and done, in that order (`Spec`), and every storable one is stored in the end (`FairSpec`).

### 2.3 The batch tools: `BatchFanout`, `BestEffortBatch`

*Correspondence.* `CreateBatch`, `UpdateBatch` and `DeleteBatch` are the same text
around `Create`, `Update` and `Delete`, and their three tool handlers count the same
way, so one module stands for all three. `caller` is the calling goroutine (size guard,
`go` statements, `wg.Wait`, tallies), `pc[i]` the goroutine of item `i`, `wg` and `sem`
the counter of the wait group and the length of the channel, `results[i]` the error of
the item's entry. The deferred calls run in reverse: the token goes back before
`wg.Done`. `api[i]` is what became of the request at Organizze, which may be decided
after the client gave up.

*Abstract specification.* `BestEffortBatch`: each item is carried out on its own and at
most once, a result never changes, success is reported only of what was carried out
(`Spec`), and the call returns (`FairSpec`).

### 2.4 The authorization endpoint: `AuthorizeFlow`

*Correspondence.* One browser, whose tabs share its cookie; a tab displays a form
(`page`) and has at most one request in progress. `pc[t]` names the statement or the
call to Organizze that comes next, `req[t]` is what was posted, `got[t]` the locals of
the handler. The tables are `users`, `sessions` and `codes`. A consent token is the
record that was signed, with its time of issue. A response that sets the cookie is on
its way for a while (`reply`), because the cookie is what other tabs send meanwhile; one
that does not is taken to arrive with the handler's last step. `left` (sessions a switch
of users has deleted) is a history variable that no guard reads.

*Environment.* Users replace their API key at Organizze at any time; responses get lost;
every statement may fail with or without effect. The state in which the server starts
has a previous visit of the browser, or none.

*Composition.* `FeedsTokenEndpoint` instantiates `OAuthTokens` on the variables of this
module: every step is a `CreateAuthCode` of its environment, a tick, or nothing. So the
codes that 2.1 takes from anywhere are the ones this endpoint creates.

*What the model shows besides its properties.* A key that was replaced between its
validation and its upsert may be stored over a newer one; the next *continue* then asks
for a login. A form that shows one user may approve for another, if another tab has
logged in and thereby changed the cookie: `ContinuesAsShown` excepts exactly that.

### 2.5 Tool calls and telemetry: `ToolCalls`, `ToolRules`, `StatsReporter`

*Correspondence.* `ToolCalls` extends the other two. A call passes the middleware (two
statements), the checks of its use case, one request to Organizze without retry, the
classification of the error, and `RecordToolCall`. `request[c]` is the request the call
has sent, with the arguments it was made from, until the call ends; `api[c]` is what
becomes of it at Organizze, which may be decided after the client gave up. `binary` chooses
between the two programs: with the single-tenant one there is no middleware and the
credentials are those of the environment (`Owner`). `proc` is the process with its
signal and its end.

`StatsReporter` is the bounded channel, the counter of drops, the one drain goroutine
and its `select`, the POST, and the ingest Lambda with `SendMessage` and the retries of
the SDK. Its last variable, `queued`, is what `StatsConsumer` starts from: one message,
with an id of its own, for each count. That is how one event can be stored twice,
although the table has one row for each message id.

`ToolRules` is data only: the fields of each tool with how they are decoded (required
value, optional pointer, list), the checks of every use case as a predicate of the
decoded arguments, and `Says`, what the request then tells Organizze (`omitempty` drops
a nil pointer and an empty list, not a pointer to zero). A field's value is one of
"absent", "zero", "some" and, where a range is checked, "other".

*Taken from the environment.* The MCP SDK runs a tool with the context of the HTTP
request that carries its call. Organizze answers below 400 only what it did, and 400,
422 or 429 only what it did not do. One clock for the database and the middleware. An
error of the store in the middleware is answered like an unknown token.

### 2.6 The deployment: `Deployment`, `RateLimiter`

*Correspondence.* `phase[r]` is a replica's place in `run`, and within it in
`ApplyMigrations`: bootstrap, check a file, execute it, record it, serve, drain. `ledger`
is `schema_migrations`; `schema` says which files' objects exist. Releases differ in how
many files they embed. `rows`, `pc` and `told` are the registrations: `handleRegister`
with its INSERT and its answer. `MigrateUp` and `MigrateDown` are the Makefile's targets,
which execute 001 or drop its tables and do not know the ledger.

*Failure.* Each statement of the startup may fail with or without effect; a serving
replica may crash or be told to stop; both count as `interruptions`.

`RateLimiter` is `ipLimiter` as a function of the sequence of its events: `Runs[s]` is the
set of its possible outcomes, because the bucket evicted at the cap is any (Go's map
order). The mutex makes `allow` atomic, so interleavings are sequences. `Deployment`
extends it: a replica that serves has one.

## 3. The runs

| run | question | instance |
|---|---|---|
| `token_races` | Can any interleaving and failure of two requests spend a code twice, break a family or undo a revocation? | 2 requests, 2 clients (one public), 1 code, 4 tokens, clock 0..1, all failures |
| `token_chain` | Is there ever more than one right per approval, can a token change client or user, and do the handlers implement `RefreshRight`? | 2 requests, 2 clients (one public), 2 users, 2 verifiers (one too short), 1 code, 5 tokens |
| `authorize` | Is every approval for what a form showed, does it rest on a key that works, and is a switch of users final? | 2 tabs, 2 links (one with another client's redirect), 2 users, 3 keys, 2 sessions, 1 code, all failures |
| `stats_races` | Can a message be deleted from the queue before it is stored? | 2 containers, 3 messages (1 rejected), batches of 2, redeliveries, failures, 2 signals or crashes |
| `stats_delivery` | Is every storable message stored, and does a container stop when told to? | 2 containers, 2 messages (1 rejected), failures, 1 signal or crash, fairness |
| `batch` | Does every batch end with bounded concurrency and aligned, truthful results? | batches of 0 to 4 items, cap 3, 2 semaphore tokens, every set of invalid items, fairness |
| `tool_calls` | Does a call act for the user of its token only, is its answer truthful, and does telemetry account for it without holding it up? Does what is sent say what was given, and nothing ambiguous? | 2 calls, 2 requests that the checks accept and 6 they refuse, an access and a refresh token of 2 users, buffer of 1, 1 lost answer of SQS, telemetry on, wrongly configured and off |
| `deployment` | Does a replica serve only on the schema of its release, whatever starts, crashes and migrates beside it, and do all serve in the end? Does the limiter limit, and only those it should? | 3 replicas of 2 releases, 2 registrations, 2 interruptions, fairness; all sequences of 6 limiter events |

Four runs end in a counterexample on purpose. Each shows a sentence of the repository
that the code does not keep:

| run | the sentence | what happens |
|---|---|---|
| `finding_replay` | `token.go:58-63`, every token of a replayed code is revoked | a replay between the first request's consume and its inserts revokes nothing |
| `finding_rotation` | `storage.go:86-88`, the loser of a rotation treats it as reuse | the loser answers `invalid_grant` and revokes nothing, as `token.go:118-120` says |
| `finding_logout` | `revoke.go:24-25`, always revoke the whole family | given the access token, only that row is revoked |
| `finding_sigterm` | `cmd/consumer/README.md:110-111`, the batch in flight completes | the inserts that have not run yet fail under the cancelled context |

Smaller disagreements that the properties had to except, or that modelling turned up:

* After `make oauth-migrate-down` the ledger still lists both files, so every later
  startup skips them and serves without tables; `make oauth-migrate-up` brings back 001
  only, without the column `code_hash` of 002. `ServesOnlyWhenReady` and its neighbours
  hold while `~rolledBack`.
* `cmd/organizze-mcp-oauth/README.md:67-69` and `CHANGELOG.md:72` say that the ledger makes
  re-runs harmless for statements that are not idempotent. A crash between a file and its
  ledger row (`migrate.go:54-64`), or a second replica, executes the file again; what
  makes that harmless is IF NOT EXISTS in both files. The variant `ExecutableOnce` is
  caught by `EventuallyServes`.
* Of two replicas that migrate at once, the one whose ledger INSERT comes second exits
  with an error and needs its supervisor.
* `domain/transaction.go:168-170` says that an explicit empty list of tags is sent; Go's
  `omitempty` leaves it out. `UpdatesArePartial` holds of either.
* `update_transaction` accepts `update_future` and `update_all` together, which
  `delete_transaction` refuses; `update_credit_card` does not check the range of its days.
  `AcceptedIsUnambiguous` excepts both.
* `cmd/organizze-mcp-oauth/README.md:59` says that every authorization asks for the
  credentials again; `authorize.go` continues a session.

### Bounds

* *Token runs.* Races in this code are between two requests about one row, so two
  requests at a time are the interesting number, and slots are reused without end
  within the bound on tokens. Four tokens are one exchange and one rotation, five leave a
  third insert to fail between its two rows; an insert with no token left fails, which is
  a behaviour of the code anyway. `MaxNow = 1` with lifetimes of 1 lets codes and tokens
  expire between any two steps; `token_chain` trades the clock and the failures, which
  `token_races` has, for data. Permutations of
  interchangeable values are symmetric; token names are drawn by `CHOOSE`
  from the unused ones, which loses nothing because a token's name is random.
* *Consumer runs.* Two containers, because they share only the queue and the table;
  three messages with batches of two give full and partial batches and a message that
  waits. `MaxInterruptions` counts signals and crashes over a whole behaviour. The
  liveness run uses no symmetry.
* *Batch run.* Four items with a cap of three and two semaphore tokens reach: the empty
  batch, the exact cap, one over the cap, goroutines that wait for a token, and every
  order of completion.
* *Authorization run.* Two tabs, since what they share is the cookie and the tables; a
  consent token that is good for the tick it was issued in, sessions for one more. The
  one code bounds approvals: what follows a second one is a new behaviour from the same
  kind of state, except that a second session can still be drawn. `RowOfFormUser`,
  `SwitchKeepsRow` and the other variants show that each case is reached.
* *Tool calls run.* One place in the buffer makes the second event meet a full one; the
  access token expires at 0 with the clock going to 1, so calls fall on and after the
  instant. Of the arguments tried, two pass the checks, a new transaction and an update that
  sets fields to their zero values and empties the tags; the others are one for each rule:
  two destinations on a create and on an update, an invoice without its card, two
  schedules, two scopes, a month without its year. All other tools and arguments are
  covered by the proofs only.
* *Deployment run.* Two releases are an upgrade; two replicas of the new one race for the
  same row; one of the old one serves meanwhile. Two interruptions put a crash or failure
  on either side of a race. Limiter: a burst of 2, room for 2 of 3 addresses and 6 events
  reach eviction, refill and the cap, with windows that start anywhere.

### Fairness

* `OAuthTokens` is checked for safety only: nothing obliges a client to come back, and
  a handler ends by itself.
* `StatsConsumer!Fairness`. Weak fairness on the steps of a container (the Go loop goes
  on, the orchestrator restarts it, calls end by their own timeouts). Strong fairness,
  per message, on being received, on an insert and on a delete that work: SQS keeps
  offering a visible message, and neither Postgres nor SQS fails for ever on the same
  message. `interruptions` is finite: a container killed before each insert stores
  nothing. The retention time of the queue is taken to be longer than any outage.
  `stats_delivery` keeps `Redeliveries` off: with it, the fairness above would count an
  insert of a message as working while a second copy in the same batch keeps being
  marked as failed.
* `BatchFanout!Fairness`. Weak fairness of the caller and of each goroutine: the Go
  scheduler runs what can run, and a request ends by the timeout of the HTTP client at
  the latest. Organizze's decision is not fair.
* `ToolCalls!Fairness`. Weak fairness on the steps of each call, for the same reasons. The
  drain goroutine, the Lambda and Organizze are not fair: `CallsEnd` says that no call
  depends on them.
* `Deployment!FairSpec`. A supervisor restarts what is down, with a configuration that
  works; a startup and a handler run to their end; `Shutdown` has its ten seconds (it
  takes them all when a client holds an SSE stream open). Interruptions are finite.
* `AuthorizeFlow` is checked for safety only: a user may always leave.

## 4. What is proved

`tlapm` checks these for every value of the constants that satisfies the named
assumptions of the modules (any number of requests, codes, tokens, containers,
messages, items, replicas and limiter events, any lifetimes and bounds):

* `OAuthTokensProofs`: `TypeCorrect`, `OneRefreshRight`, `TokensBoundToGrant`,
  `OnePairPerCode`, `FamiliesWellFormed`, `RevocationIsFinal`, `SettledReplayKills`. The
  inductive invariant adds to the properties what ties them to requests in flight:
  `GrantInv` (a request that mints holds the only right of its approval, and a row that
  exists excludes a second one), `CodeInv` (a consumed code has at most the request that
  consumed it between consume and inserts), `FamilyInv` (a request between its two
  inserts owns a refresh row without an access row), `KeysInv` (what is presented for
  refresh or revocation was delivered, so its pair is complete) and `ReplayInv`. None of
  the properties is inductive alone: a state with a live refresh row and a second
  request about to insert one for the same approval satisfies `OneLiveRefreshPerGrant`.
* `StatsConsumerProofs`: `TypeCorrect`, `NothingIsLost`. The inductive
  invariant adds `PassedIsStored`: every record of a batch that the loop of inserts has
  passed has a row or is in `failed`. Without it a delete could follow from no insert.
* `BatchFanoutProofs`: `TypeCorrect`, `ConcurrencyBounded`, `ResultsAligned`,
  `TotalsCorrect`. The inductive invariant says that the wait group counts the goroutines
  spawned and not done, that the semaphore counts those in flight, and what each program
  counter implies about the item's result; so `wg = 0` after the last `go` statement
  means that every result is written.
* `DeploymentProofs`: `TypeCorrect`, `LedgerNeverAhead`, `ServingIsReady`,
  `RegistrationsLast`. The inductive invariant adds `PassedIsRecorded` (the files a startup
  has passed are in the ledger, whoever recorded them) and, as long as nobody has rolled
  back, `ExecutedFirst` (a file about to be recorded was executed, by this replica) and
  `StoredFirst`. A replica that skips a file because another one recorded it needs both.
* `AuthorizeFlowProofs`: `TypeCorrect`, `ApprovalsAsShown`, `ApprovalsRestOnKeys`,
  `SwitchesAreFinal`, `ContinuedAsShown`, and the refinement `CodesForTokenEndpoint`. The
  inductive invariant follows a request (`ConsentHeld`, `KindHeld`, `ProofHeld`,
  `SessionHeld`, `UserHeld`: what it posted, and what the key that Organizze accepted, the
  session and the user it has read so far allow) and the sessions (`SessionsOK`,
  `FormOK`). The fact all of it needs is that a session id never passes from one user to
  another, and is not used again after its deletion; `Stable` states it of a step.
* `ToolCallsProofs`: `TypeCorrect`, `ActingForTheToken`, `RefusingOnlyTheDead`,
  `AnswersAreTruthful`, `SentIsUnambiguous`, `SentUpdatesArePartial`, and of the reporter
  `EventsAreAccounted` and `DuplicatesAreUnanswered`. The inductive invariant has a part for
  the calls (`NotYet`, `Admitted`, `Truthful`: a call that came with a dead token is still
  at the look-up of the token, where the token is still dead), one for the events
  (`OnePlace`, `NoneTwice`, `QueueOK`: an event is in one place, and what is in the queue
  was posted) and one for the requests (`RequestInv`: what a call has sent was made from
  arguments that the checks accept). The first gives the second what it needs: a call
  records once.
* `ToolRulesProofs`: `AnyAcceptedCall` and `AnyUpdate`, for all arguments in all fields of
  all tools, from which `ToolCallsProofs` concludes what is true of the requests sent.
* `RateLimiterProofs`: `WindowsLimited` and `PatienceRewarded`, for sequences of any
  length. A recursive function is first shown to exist and to satisfy its equation
  (`RunsDefined`), then `RunInv` is shown of the runs of n events for all n, by the least n
  at which it would not hold (`NatInductive`). `RunInv` speaks of open windows: what an
  address has had in a window and what it may have at once, the tokens of its bucket, are
  together at most the burst and the ticks of the window. The properties alone say nothing
  of the tokens that are left, so no event would keep them. `EmptiedLately` is the other
  half: an empty bucket was emptied since the last tick. Windows with a restart, or
  with more addresses than the map has room for, so that an evicted one may return, are not
  limited (`Quiet`). The run `deployment` checks the
  same two statements as `RegistrationsAreLimited` and `PatientIsServed`; they are about
  the limiter that a replica has, as a function of its events, and which event a
  registration of `Deployment` is, is left open.

The detailed modules implement the abstract ones, step by step:

* `OAuthTokensProofs!OneRightPerApproval`: every step of `OAuthTokens` is a step of
  `RefreshRight` or leaves the right of each approval where it is. To the invariant it adds
  `RevokedRowsExist`: a row is not revoked before it is created, or else a right could
  appear as gone.
* `StatsConsumerProofs!StoredThenForgotten`: `StatsConsumer` implements `Delivery!Spec`. It
  needs `NothingIsLost`, since a message that is deleted must have been stored, and
  `SentFirst`: what is in a batch or in the table has been sent.
* `BatchFanoutProofs!ItemsSettledOnTheirOwn`: `BatchFanout` implements `Batch!Spec`. It adds
  `Attempted`, which ties what became of an item's request to the program counter of its
  goroutine.
* `AuthorizeFlowProofs!CodesForTokenEndpoint`, as above.

Only model-checked are the liveness properties, which are out of the prover's reach:
`StopsAfterSignal`, `CallsEnd`, `EventuallyServes`, and the fairness halves of
`ImplementsDelivery` and `ImplementsBatch`, whose `FairSpec` the theorems above have
without its fairness. The decision of `AuthenticateClient` enters the proofs only through
the fact that it yields a registered client.

## 5. What is not modelled, and the plan

Left out for good:

* text: HTML, URLs, JSON and log output, and the documents and routes of `discovery.go`
  and `server.go`;
* AES-GCM, HMAC and SHA-256 as such: a hash or a signature is unforgeable and injective, an
  encryption gives back what went in, or fails (`ServerError` in `ValidateSaved`,
  `storeError` in `GetUser`). The keys and the cookie secret are taken to be the same in
  all replicas;
* reading the configuration and checking it (`config.Load`), and wiring the programs
  together, except for the order of startup and shutdown;
* the MCP SDK: its sessions and transports. A tool is taken to run once, with the context
  of the request that carries the call;
* retries inside the SQS client of the consumer, and what they do to a receive;
* two items of one batch about the same transaction: Organizze is taken to carry out each
  item on its own;
* an ingest secret that is replaced while a Lambda is warm.

Planned: what the invariants of section 4 say together, since the codes of
`AuthorizeFlow` are those of `OAuthTokens` and the messages of `StatsReporter` those of
`StatsConsumer`.
