------------------------------ MODULE Deployment ------------------------------
(***************************************************************************)
(* The replicas of the multi-tenant binary around one database: startup    *)
(* with its migrations (cmd/organizze-mcp-oauth/main.go,                   *)
(* internal/config/oauth_config.go, internal/oauth/storage/migrate.go),    *)
(* the registration of clients (internal/oauth/server/register.go) and     *)
(* the graceful shutdown.                                                  *)
(*                                                                         *)
(* Replicas start and stop in any order, with releases that embed          *)
(* different numbers of migration files; each SQL statement is a step, and *)
(* one that returns an error may have been executed.  The operator may     *)
(* roll back with the Makefile, which executes 001 or its _down file and   *)
(* knows nothing of the ledger.                                            *)
(***************************************************************************)
EXTENDS Naturals, RateLimiter

CONSTANTS
    Replicas,
    Release,         \* how many migration files the binary of each replica embeds
    Environments,    \* what a replica may be started with
    Requests,        \* registrations: each has an outcome of the limiter and its metadata
    None,
    MaxInterruptions \* bound on failures, signals and crashes

ASSUME DeploymentAssumption ==
    /\ Release \in [Replicas -> 1 .. 2]
    /\ MaxInterruptions \in Nat
    /\ None \notin Replicas

\* 001 creates the tables; 002 alters one of them.
Files == 1 .. 2

VARIABLES
    phase,        \* where each replica is in run
    file,         \* the migration it looks at
    ledger,       \* schema_migrations
    schema,       \* the files whose objects exist
    rows,         \* oauth_clients
    pc, at,       \* each registration: its next step, and its replica
    told,         \* the registrations whose 201 reached the client
    interruptions,
    rolledBack    \* whether the operator has executed a _down file

replicaVars == <<phase, file>>
database == <<ledger, schema, rows>>
requestVars == <<pc, at, told>>
vars == <<replicaVars, database, requestVars, interruptions, rolledBack>>

TypeOK ==
    /\ phase \in [Replicas -> {"down", "bootstrap", "check", "exec", "record", "serving", "draining"}]
    /\ file \in [Replicas -> 1 .. 3]
    /\ ledger \subseteq Files
    /\ schema \subseteq Files
    /\ rows \subseteq Requests
    /\ pc \in [Requests -> {"new", "register", "insert", "answer", "done"}]
    /\ at \in [Requests -> Replicas \cup {None}]
    /\ told \subseteq Requests
    /\ interruptions \in 0 .. MaxInterruptions
    /\ rolledBack \in BOOLEAN
    /\ \A r \in Replicas : /\ phase[r] \in {"exec", "record"} => file[r] <= Release[r]
                           /\ phase[r] \in {"serving", "draining"} => file[r] = Release[r] + 1
    /\ \A q \in Requests : at[q] # None <=> pc[q] \in {"register", "insert", "answer"}
    /\ \A q \in Requests : at[q] # None => phase[at[q]] \in {"serving", "draining"}

Init ==
    /\ phase = [r \in Replicas |-> "down"]
    /\ file = [r \in Replicas |-> 1]
    /\ ledger = {} /\ schema = {} /\ rows = {}
    /\ pc = [q \in Requests |-> "new"]
    /\ at = [q \in Requests |-> None]
    /\ told = {}
    /\ interruptions = 0
    /\ rolledBack = FALSE
-------------------------------------------------------------------------------
(* Startup.                                                                *)

Goto(r, step) == phase' = [phase EXCEPT ![r] = step]

\* LoadOAuth: all variables are there, the key and the secret are long enough, and
\* there is no API key of a single tenant.
ConfigOK(env) ==
    /\ ~env.organizzeKey
    /\ env.databaseURL /\ env.publicURL
    /\ env.encryptionKey = 32
    /\ env.cookieSecret >= 32

\* The process starts; with a bad configuration it ends before anything else.
Start(r, env) ==
    /\ phase[r] = "down"
    /\ ConfigOK(env)
    /\ Goto(r, "bootstrap")
    /\ file' = [file EXCEPT ![r] = 1]
    /\ UNCHANGED <<database, requestVars, interruptions, rolledBack>>

\* CREATE TABLE IF NOT EXISTS schema_migrations
Bootstrap(r) ==
    /\ phase[r] = "bootstrap"
    /\ Goto(r, "check")
    /\ UNCHANGED <<file, database, requestVars, interruptions, rolledBack>>

\* Faulty: the rest of the files is skipped with the first one that is in the ledger.
CheckOnce(r) ==
    /\ phase[r] = "check"
    /\ file[r] <= Release[r]
    /\ \/ /\ file[r] \in ledger
          /\ file' = [file EXCEPT ![r] = Release[r] + 1]
          /\ UNCHANGED phase
       \/ /\ file[r] \notin ledger
          /\ Goto(r, "exec")
          /\ UNCHANGED file
    /\ UNCHANGED <<database, requestVars, interruptions, rolledBack>>

\* The next file of the release is in the ledger or not.
Check(r) ==
    /\ phase[r] = "check"
    /\ file[r] <= Release[r]
    /\ \/ /\ file[r] \in ledger
          /\ file' = [file EXCEPT ![r] = @ + 1]
          /\ UNCHANGED phase
       \/ /\ file[r] \notin ledger
          /\ Goto(r, "exec")
          /\ UNCHANGED file
    /\ UNCHANGED <<database, requestVars, interruptions, rolledBack>>

\* After the last file the replica builds its server and listens.
Serve(r) ==
    /\ phase[r] = "check"
    /\ file[r] > Release[r]
    /\ Goto(r, "serving")
    /\ UNCHANGED <<file, database, requestVars, interruptions, rolledBack>>

\* Faulty: without IF NOT EXISTS, a second execution fails.
ExecutableOnce(f) == f \notin schema /\ (f = 2 => 1 \in schema)

\* Every object is created IF NOT EXISTS; 002 needs the tables of 001.
Executable(f) == f = 2 => 1 \in schema

\* Faulty: the version is recorded before its file is executed.
RecordFirst(r) ==
    /\ phase[r] = "exec"
    /\ ledger' = ledger \cup {file[r]}
    /\ Goto(r, "record")
    /\ UNCHANGED <<file, schema, rows, requestVars, interruptions, rolledBack>>

Exec(r) ==
    /\ phase[r] = "exec"
    /\ Executable(file[r])
    /\ schema' = schema \cup {file[r]}
    /\ Goto(r, "record")
    /\ UNCHANGED <<file, ledger, rows, requestVars, interruptions, rolledBack>>

\* The INSERT of the version.
Record(r) ==
    /\ phase[r] = "record"
    /\ file[r] \notin ledger
    /\ ledger' = ledger \cup {file[r]}
    /\ file' = [file EXCEPT ![r] = @ + 1]
    /\ Goto(r, "check")
    /\ UNCHANGED <<schema, rows, requestVars, interruptions, rolledBack>>

\* A statement that the database refuses ends the startup: the file cannot be
\* executed, or another replica has recorded it since the check.
Refused(r) ==
    /\ \/ phase[r] = "exec" /\ ~Executable(file[r])
       \/ phase[r] = "record" /\ file[r] \in ledger
    /\ Goto(r, "down")
    /\ UNCHANGED <<file, database, requestVars, interruptions, rolledBack>>

\* A statement fails, with or without effect: an error of the connection, or a signal,
\* which cancels the context of the startup.
StatementFails(r) ==
    /\ interruptions < MaxInterruptions
    /\ interruptions' = interruptions + 1
    /\ phase[r] \in {"bootstrap", "check", "exec", "record"}
    /\ Goto(r, "down")
    /\ \/ UNCHANGED <<schema, ledger>>
       \/ /\ phase[r] = "exec" /\ Executable(file[r])
          /\ schema' = schema \cup {file[r]}
          /\ UNCHANGED ledger
       \/ /\ phase[r] = "record"
          /\ ledger' = ledger \cup {file[r]}
          /\ UNCHANGED schema
    /\ UNCHANGED <<file, rows, requestVars, rolledBack>>
-------------------------------------------------------------------------------
(* Shutdown.                                                               *)

InFlight(r) == { q \in Requests : at[q] = r }

\* Faulty: the handlers go on without their process.
GoneAlone(r) ==
    /\ Goto(r, "down")
    /\ UNCHANGED <<file, database, requestVars, rolledBack>>

\* The process ends, and its requests with it.
Gone(r) ==
    /\ Goto(r, "down")
    /\ pc' = [q \in Requests |-> IF q \in InFlight(r) THEN "done" ELSE pc[q]]
    /\ at' = [q \in Requests |-> IF q \in InFlight(r) THEN None ELSE at[q]]
    /\ UNCHANGED <<file, database, told, rolledBack>>

Crash(r) ==
    /\ interruptions < MaxInterruptions
    /\ interruptions' = interruptions + 1
    /\ phase[r] \in {"serving", "draining"}
    /\ Gone(r)

\* SIGTERM closes the listener.
Signal(r) ==
    /\ interruptions < MaxInterruptions
    /\ interruptions' = interruptions + 1
    /\ phase[r] = "serving"
    /\ Goto(r, "draining")
    /\ UNCHANGED <<file, database, requestVars, rolledBack>>

\* Shutdown returns: no request is left, or ten seconds are over.
Drained(r) ==
    /\ phase[r] = "draining"
    /\ Gone(r)
    /\ UNCHANGED interruptions
-------------------------------------------------------------------------------
(* handleRegister.                                                         *)

Arrive(q, r) ==
    /\ phase[r] = "serving"
    /\ pc[q] = "new"
    /\ pc' = [pc EXCEPT ![q] = "register"]
    /\ at' = [at EXCEPT ![q] = r]
    /\ UNCHANGED <<replicaVars, database, told, interruptions, rolledBack>>

\* The handler returns, with a 201 or an error.
Answered(q) ==
    /\ pc' = [pc EXCEPT ![q] = "done"]
    /\ at' = [at EXCEPT ![q] = None]

\* A POST that the limiter lets pass, with a JSON body and redirect URIs, all https.
Acceptable(q) == q.post /\ q.passes /\ q.json /\ q.redirects # {} /\ q.redirects \subseteq {"https"}

Register(q) ==
    /\ pc[q] = "register"
    /\ \/ Acceptable(q) /\ pc' = [pc EXCEPT ![q] = "insert"] /\ UNCHANGED at
       \/ ~Acceptable(q) /\ Answered(q)
    /\ UNCHANGED <<replicaVars, database, told, interruptions, rolledBack>>

\* Faulty: an error of the INSERT is not looked at.
CreateClientBlindly(q) ==
    /\ pc[q] = "insert"
    /\ rows' \in {rows, rows \cup {q}}
    /\ pc' = [pc EXCEPT ![q] = "answer"]
    /\ UNCHANGED <<at, replicaVars, ledger, schema, told, interruptions, rolledBack>>

\* CreateClient, which needs the table: an error is a 500, the row stored or not.
CreateClient(q) ==
    /\ pc[q] = "insert"
    /\ \/ 1 \in schema /\ rows' = rows \cup {q} /\ pc' = [pc EXCEPT ![q] = "answer"] /\ UNCHANGED at
       \/ 1 \in schema /\ rows' = rows \cup {q} /\ Answered(q)
       \/ UNCHANGED rows /\ Answered(q)
    /\ UNCHANGED <<replicaVars, ledger, schema, told, interruptions, rolledBack>>

\* The response arrives, or the connection is gone.
Answer(q) ==
    /\ pc[q] = "answer"
    /\ Answered(q)
    /\ told' \in {told, told \cup {q}}
    /\ UNCHANGED <<replicaVars, database, interruptions, rolledBack>>
-------------------------------------------------------------------------------
(* The operator.                                                           *)

\* make oauth-migrate-up
MigrateUp ==
    /\ schema' = schema \cup {1}
    /\ UNCHANGED <<replicaVars, ledger, rows, requestVars, interruptions, rolledBack>>

\* make oauth-migrate-down, once: it drops the tables and leaves the ledger alone.
MigrateDown ==
    /\ ~rolledBack
    /\ rolledBack' = TRUE
    /\ schema' = {}
    /\ rows' = {}
    /\ UNCHANGED <<replicaVars, ledger, requestVars, interruptions>>
-------------------------------------------------------------------------------
ReplicaStep(r) ==
    \/ \E env \in Environments : Start(r, env)
    \/ Bootstrap(r) \/ Check(r) \/ Serve(r) \/ Exec(r) \/ Record(r) \/ Refused(r)
    \/ Drained(r)

Handler(q) == Register(q) \/ CreateClient(q) \/ Answer(q)

Next ==
    \/ \E r \in Replicas : ReplicaStep(r) \/ StatementFails(r) \/ Crash(r) \/ Signal(r)
    \/ \E q \in Requests, r \in Replicas : Arrive(q, r)
    \/ \E q \in Requests : Handler(q)
    \/ MigrateUp \/ MigrateDown

Spec == Init /\ [][Next]_vars

\* A supervisor starts what is down, with a configuration that works; a startup and a
\* handler run to their end; Shutdown has its timeout.
FairSpec ==
    /\ Spec
    /\ \A r \in Replicas : WF_vars(ReplicaStep(r))
    /\ \A q \in Requests : WF_vars(Handler(q))
-------------------------------------------------------------------------------
(* Properties.                                                             *)

\* Whatever else starts, crashes or migrates at the same time, a replica serves only
\* when the schema has what the files of its own release create, for as long as it
\* serves.  A rollback is the exception: it leaves the ledger, and then every later
\* startup believes it and serves without tables.
ServesOnlyWhenReady ==
    ~rolledBack => \A r \in Replicas :
        phase[r] \in {"serving", "draining"} => 1 .. Release[r] \subseteq schema

\* The ledger never runs ahead of the schema, and has no gap (migrate.go:21-25).
LedgerIsTruthful ==
    /\ ~rolledBack => ledger \subseteq schema
    /\ \A f \in ledger : 1 .. f \subseteq ledger

\* An id that a client was told is in the table, for every replica to find.
RegistrationIsDurable == ~rolledBack => told \subseteq rows

\* The limiter of a replica that serves: in any window of time without a restart an
\* address registers at most the burst and one for each tick, if the addresses up to
\* then all find room in the map (ratelimit.go:10-16, server.go:86-89); and the map
\* never outgrows its cap.
RegistrationsAreLimited ==
    (\E r \in Replicas : phase[r] = "serving") => WindowsAreLimited

\* Whatever the other addresses do, and whichever buckets are evicted for them, an
\* address that comes to a replica no oftener than once a tick is never refused.
PatientIsServed ==
    (\E r \in Replicas : phase[r] = "serving") => PatienceIsRewarded

\* However replicas fail, and lose the race for a row of the ledger to one another,
\* once the failures end all of them serve for good, if nothing was rolled back.
EventuallyServes ==
    <>[](rolledBack \/ \A r \in Replicas : phase[r] = "serving")
===============================================================================
