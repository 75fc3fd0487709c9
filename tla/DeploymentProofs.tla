--------------------------- MODULE DeploymentProofs ---------------------------
(***************************************************************************)
(* Theorems about Deployment for any number of replicas, of registrations  *)
(* and of interruptions, and any mixture of releases.                      *)
(***************************************************************************)
EXTENDS Deployment, TLAPS

(* The inductive invariant.                                                *)

\* A startup looks at the files in turn.
InTurn ==
    \A r \in Replicas : /\ phase[r] = "bootstrap" => file[r] = 1
                        /\ phase[r] = "check" => file[r] <= Release[r] + 1

\* The files that a startup has passed are in the ledger.
PassedIsRecorded ==
    \A r \in Replicas : phase[r] \notin {"down", "bootstrap"} =>
        \A f \in Files : f < file[r] => f \in ledger

\* A file whose version is about to be recorded has been executed.
ExecutedFirst ==
    ~rolledBack => \A r \in Replicas : phase[r] = "record" => file[r] \in schema

\* A registration about to be answered with a 201 has its row.
StoredFirst ==
    ~rolledBack => \A q \in Requests : pc[q] = "answer" => q \in rows

Inv == /\ TypeOK /\ InTurn
       /\ PassedIsRecorded /\ ExecutedFirst /\ LedgerIsTruthful
       /\ StoredFirst /\ RegistrationIsDurable
-------------------------------------------------------------------------------
LEMMA InitInv == Init => Inv
<1> SUFFICES ASSUME Init PROVE Inv
  OBVIOUS
<1>1. TypeOK
  <2>1. 0 \in 0 .. MaxInterruptions /\ 1 \in 1 .. 3 BY DeploymentAssumption
  <2>2. /\ phase \in [Replicas -> {"down", "bootstrap", "check", "exec", "record", "serving", "draining"}]
        /\ file \in [Replicas -> 1 .. 3]
    BY <2>1 DEF Init
  <2>3. /\ pc \in [Requests -> {"new", "register", "insert", "answer", "done"}]
        /\ at \in [Requests -> Replicas \cup {None}]
    BY DEF Init
  <2>4. \A r \in Replicas : phase[r] = "down" BY DEF Init
  <2>5. \A q \in Requests : at[q] = None /\ pc[q] = "new" BY DEF Init
  <2> QED BY <2>1, <2>2, <2>3, <2>4, <2>5 DEF Init, TypeOK
<1>2. InTurn /\ PassedIsRecorded /\ ExecutedFirst BY DEF Init, InTurn, PassedIsRecorded, ExecutedFirst
<1>3. LedgerIsTruthful /\ StoredFirst /\ RegistrationIsDurable
  BY DEF Init, LedgerIsTruthful, StoredFirst, RegistrationIsDurable
<1> QED BY <1>1, <1>2, <1>3 DEF Inv

\* What a replica may do when its type and its place in the startup are right.
LEMMA ReplicaTypes ==
  ASSUME TypeOK, NEW r \in Replicas
  PROVE  Release[r] \in 1 .. 2 /\ file[r] \in 1 .. 3
  BY DeploymentAssumption DEF TypeOK

\* Steps of the startup: they move one replica, which serves no registration.
LEMMA StartupTypes ==
  ASSUME Inv, NEW r \in Replicas, phase[r] \notin {"serving", "draining"},
         NEW p \in {"down", "bootstrap", "check", "exec", "record", "serving"}, Goto(r, p),
         NEW f \in 1 .. 3, file' = [file EXCEPT ![r] = f],
         p = "bootstrap" => f = 1,
         p = "check" => f <= Release[r] + 1,
         p \in {"exec", "record"} => f <= Release[r],
         p = "serving" => f = Release[r] + 1,
         ledger' \subseteq Files, schema' \subseteq Files,
         UNCHANGED <<rows, requestVars, rolledBack>>,
         interruptions' \in 0 .. MaxInterruptions
  PROVE  TypeOK' /\ InTurn'
<1> USE DEF Inv, TypeOK, requestVars, Goto
<1>1. phase' \in [Replicas -> {"down", "bootstrap", "check", "exec", "record", "serving", "draining"}]
      /\ phase'[r] = p /\ \A s \in Replicas \ {r} : phase'[s] = phase[s]
  OBVIOUS
<1>2. file' \in [Replicas -> 1 .. 3] /\ file'[r] = f /\ \A s \in Replicas \ {r} : file'[s] = file[s]
  OBVIOUS
<1>3. \A q \in Requests : at[q] # None => at[q] # r
  OBVIOUS
<1>4. \A s \in Replicas : /\ phase'[s] \in {"exec", "record"} => file'[s] <= Release[s]
                          /\ phase'[s] \in {"serving", "draining"} => file'[s] = Release[s] + 1
  BY <1>1, <1>2
<1>5. \A q \in Requests : at'[q] # None => phase'[at'[q]] \in {"serving", "draining"}
  BY <1>1, <1>3
<1>6. TypeOK' BY <1>1, <1>2, <1>4, <1>5
<1>7. InTurn' BY <1>1, <1>2 DEF InTurn
<1> QED BY <1>6, <1>7

\* Growth of the ledger and of the schema during a startup keeps both truthful.
LEMMA StartupInv ==
  ASSUME Inv, TypeOK', InTurn', NEW r \in Replicas,
         \A s \in Replicas \ {r} : phase'[s] = phase[s] /\ file'[s] = file[s],
         phase'[r] \notin {"down", "bootstrap"} => \A f \in Files : f < file'[r] => f \in ledger',
         phase'[r] = "record" => file'[r] \in schema',
         ledger \subseteq ledger', schema \subseteq schema',
         LedgerIsTruthful',
         UNCHANGED <<rows, requestVars, rolledBack>>
  PROVE  Inv'
<1> USE DEF Inv, requestVars
<1>1. PassedIsRecorded' BY DEF PassedIsRecorded
<1>2. ExecutedFirst' BY DEF ExecutedFirst
<1>3. StoredFirst' BY DEF StoredFirst
<1>4. RegistrationIsDurable' BY DEF RegistrationIsDurable
<1> QED BY <1>1, <1>2, <1>3, <1>4

\* The version that a replica records extends the ledger by the next file, or by none.
LEMMA LedgerExtended ==
  ASSUME Inv, NEW r \in Replicas, phase[r] = "record",
         ledger' = ledger \cup {file[r]}, UNCHANGED <<schema, rolledBack>>
  PROVE  LedgerIsTruthful' /\ ledger' \subseteq Files
<1>1. file[r] \in Files /\ Release[r] \in 1 .. 2 BY ReplicaTypes DEF Inv, TypeOK, Files
<1>2. \A f \in Files : f < file[r] => f \in ledger BY DEF Inv, PassedIsRecorded
<1>3. 1 .. file[r] \subseteq ledger' BY <1>1, <1>2 DEF Files
<1>4. \A f \in ledger' : 1 .. f \subseteq ledger' BY <1>3 DEF Inv, LedgerIsTruthful
<1>5. ~rolledBack => file[r] \in schema BY DEF Inv, ExecutedFirst
<1>6. ~rolledBack' => ledger' \subseteq schema' BY <1>5 DEF Inv, LedgerIsTruthful
<1> QED BY <1>1, <1>4, <1>6 DEF LedgerIsTruthful, Inv, TypeOK
-------------------------------------------------------------------------------
(* The steps of a startup.                                                 *)

LEMMA StartInv ==
  ASSUME Inv, NEW r \in Replicas, NEW env, Start(r, env)
  PROVE  Inv'
<1> USE DEF Start, database
<1>1. TypeOK' /\ InTurn'
  <2>1. Release[r] \in 1 .. 2 BY ReplicaTypes DEF Inv
  <2>2. ledger' \subseteq Files /\ schema' \subseteq Files /\ interruptions' \in 0 .. MaxInterruptions
    BY DEF Inv, TypeOK
  <2> PICK f \in 1 .. 3 : f = 1 OBVIOUS
  <2>3. Goto(r, "bootstrap") /\ phase[r] = "down" /\ file' = [file EXCEPT ![r] = f]
        /\ UNCHANGED <<rows, requestVars, rolledBack>>
    OBVIOUS
  <2> HIDE DEF Start
  <2> QED BY <2>1, <2>2, <2>3, StartupTypes
<1>2. LedgerIsTruthful' BY DEF Inv, LedgerIsTruthful
<1>3. phase'[r] = "bootstrap" /\ \A s \in Replicas \ {r} : phase'[s] = phase[s] /\ file'[s] = file[s]
  BY DEF Inv, TypeOK, Goto
<1> QED BY <1>1, <1>2, <1>3, StartupInv

\* Steps that move on in the startup and leave the database alone.
LEMMA MoveInv ==
  ASSUME Inv, NEW r \in Replicas, phase[r] \notin {"serving", "draining"},
         NEW p \in {"down", "check", "exec", "serving"}, Goto(r, p),
         NEW f \in 1 .. 3, file' = [file EXCEPT ![r] = f],
         p = "check" => f <= Release[r] + 1,
         p = "exec" => f <= Release[r],
         p = "serving" => f = Release[r] + 1,
         p # "down" => \A g \in Files : g < f => g \in ledger,
         UNCHANGED <<database, requestVars, rolledBack>>,
         interruptions' \in 0 .. MaxInterruptions
  PROVE  Inv'
<1> USE DEF database, requestVars
<1>1. ledger' \subseteq Files /\ schema' \subseteq Files BY DEF Inv, TypeOK
<1>2. TypeOK' /\ InTurn' BY <1>1, StartupTypes
<1>3. LedgerIsTruthful' BY DEF Inv, LedgerIsTruthful
<1>4. phase'[r] = p /\ file'[r] = f
      /\ \A s \in Replicas \ {r} : phase'[s] = phase[s] /\ file'[s] = file[s]
  BY DEF Inv, TypeOK, Goto
<1> QED BY <1>2, <1>3, <1>4, StartupInv

LEMMA SameFile ==
  ASSUME TypeOK, NEW r \in Replicas
  PROVE  file = [file EXCEPT ![r] = file[r]]
  BY DEF TypeOK

LEMMA BootstrapInv ==
  ASSUME Inv, NEW r \in Replicas, Bootstrap(r)
  PROVE  Inv'
<1> USE DEF Bootstrap
<1>1. file[r] \in 1 .. 3 /\ file[r] = 1 /\ Release[r] \in 1 .. 2 BY ReplicaTypes DEF Inv, InTurn
<1>2. file' = [file EXCEPT ![r] = file[r]] BY SameFile DEF Inv
<1>3. \A g \in Files : g < file[r] => g \in ledger BY <1>1 DEF Files
<1>4. interruptions' \in 0 .. MaxInterruptions BY DEF Inv, TypeOK
<1>5. Goto(r, "check") /\ phase[r] = "bootstrap" /\ UNCHANGED <<database, requestVars, rolledBack>>
  OBVIOUS
<1>6. file[r] <= Release[r] + 1 BY <1>1
<1> HIDE DEF Bootstrap
<1> QED BY <1>1, <1>2, <1>3, <1>4, <1>5, <1>6, MoveInv

LEMMA CheckInv ==
  ASSUME Inv, NEW r \in Replicas, Check(r)
  PROVE  Inv'
<1> USE DEF Check
<1>1. file[r] \in 1 .. 3 /\ Release[r] \in 1 .. 2 BY ReplicaTypes DEF Inv
<1>2. \A g \in Files : g < file[r] => g \in ledger BY DEF Inv, PassedIsRecorded
<1>3. interruptions' \in 0 .. MaxInterruptions BY DEF Inv, TypeOK
<1>4. CASE file[r] \in ledger /\ file' = [file EXCEPT ![r] = @ + 1] /\ UNCHANGED phase
  <2>1. Goto(r, "check") BY <1>4 DEF Goto, Inv, TypeOK
  <2>2. file[r] + 1 \in 1 .. 3 /\ file[r] + 1 <= Release[r] + 1 BY <1>1
  <2>3. \A g \in Files : g < file[r] + 1 => g \in ledger BY <1>1, <1>2, <1>4 DEF Files
  <2> QED BY <1>3, <1>4, <2>1, <2>2, <2>3, MoveInv
<1>5. CASE file[r] \notin ledger /\ Goto(r, "exec") /\ UNCHANGED file
  <2>1. file' = [file EXCEPT ![r] = file[r]] BY <1>5, SameFile DEF Inv
  <2> QED BY <1>1, <1>2, <1>3, <1>5, <2>1, MoveInv
<1> QED BY <1>4, <1>5

LEMMA ServeInv ==
  ASSUME Inv, NEW r \in Replicas, Serve(r)
  PROVE  Inv'
<1> USE DEF Serve
<1>1. file[r] = Release[r] + 1 /\ file[r] \in 1 .. 3 BY ReplicaTypes DEF Inv, InTurn
<1>2. \A g \in Files : g < file[r] => g \in ledger BY DEF Inv, PassedIsRecorded
<1>3. file' = [file EXCEPT ![r] = file[r]] BY SameFile DEF Inv
<1>4. interruptions' \in 0 .. MaxInterruptions BY DEF Inv, TypeOK
<1> QED BY <1>1, <1>2, <1>3, <1>4, MoveInv

LEMMA RefusedInv ==
  ASSUME Inv, NEW r \in Replicas, Refused(r)
  PROVE  Inv'
<1> USE DEF Refused
<1>1. file[r] \in 1 .. 3 BY ReplicaTypes DEF Inv
<1>2. file' = [file EXCEPT ![r] = file[r]] BY SameFile DEF Inv
<1>3. interruptions' \in 0 .. MaxInterruptions BY DEF Inv, TypeOK
<1>4. phase[r] \notin {"serving", "draining"} /\ Goto(r, "down") OBVIOUS
<1> QED BY <1>1, <1>2, <1>3, <1>4, MoveInv

\* The execution of a file, of which the replica then knows, or does not.
LEMMA ExecutedInv ==
  ASSUME Inv, NEW r \in Replicas, phase[r] = "exec",
         NEW p \in {"record", "down"}, Goto(r, p),
         schema' = schema \cup {file[r]},
         UNCHANGED <<file, ledger, rows, requestVars, rolledBack>>,
         interruptions' \in 0 .. MaxInterruptions
  PROVE  Inv'
<1>1. /\ file[r] \in 1 .. 3 /\ Release[r] \in 1 .. 2 /\ file[r] <= Release[r]
      /\ file[r] \in Files
  BY ReplicaTypes DEF Inv, TypeOK, Files
<1>2. file' = [file EXCEPT ![r] = file[r]] BY SameFile DEF Inv
<1>3. ledger' \subseteq Files /\ schema' \subseteq Files BY <1>1 DEF Inv, TypeOK
<1>4. TypeOK' /\ InTurn' BY <1>1, <1>2, <1>3, StartupTypes
<1>5. phase'[r] = p /\ \A s \in Replicas \ {r} : phase'[s] = phase[s] /\ file'[s] = file[s]
  BY DEF Inv, TypeOK, Goto
<1>6. \A f \in Files : f < file'[r] => f \in ledger' BY DEF Inv, PassedIsRecorded
<1>7. LedgerIsTruthful' BY DEF Inv, LedgerIsTruthful
<1> QED BY <1>4, <1>5, <1>6, <1>7, StartupInv

LEMMA ExecInv ==
  ASSUME Inv, NEW r \in Replicas, Exec(r)
  PROVE  Inv'
<1>1. interruptions' \in 0 .. MaxInterruptions BY DEF Exec, Inv, TypeOK
<1>2. /\ phase[r] = "exec" /\ Goto(r, "record") /\ schema' = schema \cup {file[r]}
      /\ UNCHANGED <<file, ledger, rows, requestVars, rolledBack>>
  BY DEF Exec
<1> QED BY <1>1, <1>2, ExecutedInv

\* The INSERT of the version, after which the replica goes on, or fails.
LEMMA RecordedInv ==
  ASSUME Inv, NEW r \in Replicas, phase[r] = "record",
         NEW p \in {"check", "down"}, Goto(r, p),
         ledger' = ledger \cup {file[r]},
         NEW f \in {file[r], file[r] + 1}, file' = [file EXCEPT ![r] = f],
         UNCHANGED <<schema, rows, requestVars, rolledBack>>,
         interruptions' \in 0 .. MaxInterruptions
  PROVE  Inv'
<1>1. file[r] \in Files /\ Release[r] \in 1 .. 2 /\ file[r] <= Release[r]
  BY ReplicaTypes DEF Inv, TypeOK, Files
<1>2. f \in 1 .. 3 /\ f <= Release[r] + 1 BY <1>1 DEF Files
<1>3. LedgerIsTruthful' /\ ledger' \subseteq Files BY LedgerExtended
<1>4. schema' \subseteq Files BY DEF Inv, TypeOK
<1>5. TypeOK' /\ InTurn' BY <1>2, <1>3, <1>4, StartupTypes
<1>6. phase'[r] = p /\ file'[r] = f
      /\ \A s \in Replicas \ {r} : phase'[s] = phase[s] /\ file'[s] = file[s]
  BY DEF Inv, TypeOK, Goto
<1>7. \A g \in Files : g < file[r] => g \in ledger BY DEF Inv, PassedIsRecorded
<1>8. \A g \in Files : g < file'[r] => g \in ledger' BY <1>1, <1>6, <1>7 DEF Files
<1> QED BY <1>3, <1>5, <1>6, <1>8, StartupInv

LEMMA RecordInv ==
  ASSUME Inv, NEW r \in Replicas, Record(r)
  PROVE  Inv'
<1>1. interruptions' \in 0 .. MaxInterruptions BY DEF Record, Inv, TypeOK
<1>2. /\ phase[r] = "record" /\ Goto(r, "check") /\ ledger' = ledger \cup {file[r]}
      /\ file' = [file EXCEPT ![r] = file[r] + 1]
      /\ UNCHANGED <<schema, rows, requestVars, rolledBack>>
  BY DEF Record
<1> QED BY <1>1, <1>2, RecordedInv

LEMMA StatementFailsInv ==
  ASSUME Inv, NEW r \in Replicas, StatementFails(r)
  PROVE  Inv'
<1> USE DEF StatementFails
<1>1. interruptions' \in 0 .. MaxInterruptions BY DeploymentAssumption DEF Inv, TypeOK
<1>2. file[r] \in 1 .. 3 /\ file' = [file EXCEPT ![r] = file[r]] BY ReplicaTypes, SameFile DEF Inv
<1>3. /\ phase[r] \notin {"serving", "draining"} /\ Goto(r, "down")
      /\ UNCHANGED <<file, rows, requestVars, rolledBack>>
  OBVIOUS
<1>4. CASE UNCHANGED <<schema, ledger>>
  <2> UNCHANGED database BY <1>3, <1>4 DEF database
  <2> HIDE DEF StatementFails
  <2> QED BY <1>1, <1>2, <1>3, MoveInv
<1>5. CASE phase[r] = "exec" /\ schema' = schema \cup {file[r]} /\ UNCHANGED ledger
  <2> HIDE DEF StatementFails
  <2> QED BY <1>1, <1>3, <1>5, ExecutedInv
<1>6. CASE phase[r] = "record" /\ ledger' = ledger \cup {file[r]} /\ UNCHANGED schema
  <2> HIDE DEF StatementFails
  <2> QED BY <1>1, <1>2, <1>3, <1>6, RecordedInv
<1> QED BY <1>4, <1>5, <1>6
-------------------------------------------------------------------------------
(* The end of a replica, the handlers, and the operator.                   *)

\* Steps outside of a startup: what a replica has passed and recorded stays.
LEMMA OutsideOfStartup ==
  ASSUME Inv, TypeOK', UNCHANGED <<file, ledger, schema, rolledBack>>,
         \A r \in Replicas : \/ phase'[r] = phase[r]
                             \/ phase'[r] = "down"
                             \/ phase[r] = "serving" /\ phase'[r] = "draining",
         StoredFirst', RegistrationIsDurable'
  PROVE  Inv'
<1> USE DEF Inv
<1>1. InTurn' BY DEF InTurn
<1>2. PassedIsRecorded' BY DEF PassedIsRecorded
<1>3. ExecutedFirst' BY DEF ExecutedFirst
<1>4. LedgerIsTruthful' BY DEF LedgerIsTruthful
<1> QED BY <1>1, <1>2, <1>3, <1>4

LEMMA GoneInv ==
  ASSUME Inv, NEW r \in Replicas, phase[r] \in {"serving", "draining"}, Gone(r),
         interruptions' \in 0 .. MaxInterruptions
  PROVE  Inv'
<1> USE DEF Gone, Goto, database, InFlight
<1>1. phase' \in [Replicas -> {"down", "bootstrap", "check", "exec", "record", "serving", "draining"}]
      /\ phase'[r] = "down" /\ \A s \in Replicas \ {r} : phase'[s] = phase[s]
  BY DEF Inv, TypeOK
<1>2. \A q \in Requests : at[q] = r => at'[q] = None /\ pc'[q] = "done"
  BY DEF Inv, TypeOK
<1>3. \A q \in Requests : at[q] # r => at'[q] = at[q] /\ pc'[q] = pc[q]
  BY DEF Inv, TypeOK
<1>4. /\ at' \in [Requests -> Replicas \cup {None}]
      /\ pc' \in [Requests -> {"new", "register", "insert", "answer", "done"}]
  BY DEF Inv, TypeOK
<1>5. \A q \in Requests : /\ at'[q] # None <=> pc'[q] \in {"register", "insert", "answer"}
                          /\ at'[q] # None => phase'[at'[q]] \in {"serving", "draining"}
  BY <1>1, <1>2, <1>3 DEF Inv, TypeOK
<1>6. TypeOK' BY <1>1, <1>4, <1>5 DEF Inv, TypeOK
<1>7. StoredFirst' /\ RegistrationIsDurable'
  BY <1>2, <1>3 DEF Inv, StoredFirst, RegistrationIsDurable
<1>8. \A s \in Replicas : phase'[s] = phase[s] \/ phase'[s] = "down" BY <1>1
<1>9. UNCHANGED <<file, ledger, schema, rolledBack>> OBVIOUS
<1> HIDE DEF Gone
<1> QED BY <1>6, <1>7, <1>8, <1>9, OutsideOfStartup

LEMMA SignalInv ==
  ASSUME Inv, NEW r \in Replicas, Signal(r)
  PROVE  Inv'
<1> USE DEF Signal, Goto, database, requestVars
<1>1. interruptions' \in 0 .. MaxInterruptions BY DeploymentAssumption DEF Inv, TypeOK
<1>2. phase' \in [Replicas -> {"down", "bootstrap", "check", "exec", "record", "serving", "draining"}]
      /\ phase'[r] = "draining" /\ \A s \in Replicas \ {r} : phase'[s] = phase[s]
  BY DEF Inv, TypeOK
<1>3. \A q \in Requests : at'[q] # None => phase'[at'[q]] \in {"serving", "draining"}
  BY <1>2 DEF Inv, TypeOK
<1>4. TypeOK' BY <1>1, <1>2, <1>3 DEF Inv, TypeOK
<1>5. StoredFirst' /\ RegistrationIsDurable' BY DEF Inv, StoredFirst, RegistrationIsDurable
<1>6. \A s \in Replicas : phase'[s] = phase[s] \/ (phase[s] = "serving" /\ phase'[s] = "draining")
  BY <1>2
<1>7. UNCHANGED <<file, ledger, schema, rolledBack>> OBVIOUS
<1> HIDE DEF Signal
<1> QED BY <1>4, <1>5, <1>6, <1>7, OutsideOfStartup

\* A step of one registration: it is at a replica that serves, or at none.
LEMMA RequestInv ==
  ASSUME Inv, NEW q \in Requests,
         NEW p \in {"register", "insert", "answer", "done"}, pc' = [pc EXCEPT ![q] = p],
         NEW a \in Replicas \cup {None}, at' = [at EXCEPT ![q] = a],
         a # None <=> p # "done",
         a # None => phase[a] \in {"serving", "draining"},
         rows \subseteq rows', rows' \subseteq Requests, told' \subseteq Requests,
         ~rolledBack => /\ p = "answer" => q \in rows'
                        /\ told' \subseteq rows',
         UNCHANGED <<replicaVars, ledger, schema, interruptions, rolledBack>>
  PROVE  Inv'
<1> USE DEF replicaVars
<1>1. /\ pc' \in [Requests -> {"new", "register", "insert", "answer", "done"}]
      /\ at' \in [Requests -> Replicas \cup {None}]
      /\ pc'[q] = p /\ at'[q] = a
      /\ \A o \in Requests \ {q} : pc'[o] = pc[o] /\ at'[o] = at[o]
  BY DEF Inv, TypeOK
<1>2. \A o \in Requests : /\ at'[o] # None <=> pc'[o] \in {"register", "insert", "answer"}
                          /\ at'[o] # None => phase'[at'[o]] \in {"serving", "draining"}
  BY <1>1 DEF Inv, TypeOK
<1>3. TypeOK' BY <1>1, <1>2 DEF Inv, TypeOK
<1>4. StoredFirst' BY <1>1 DEF Inv, StoredFirst
<1>5. RegistrationIsDurable' BY DEF RegistrationIsDurable
<1> QED BY <1>3, <1>4, <1>5, OutsideOfStartup

LEMMA ArriveInv ==
  ASSUME Inv, NEW q \in Requests, NEW r \in Replicas, Arrive(q, r)
  PROVE  Inv'
<1>1. /\ phase[r] \in {"serving", "draining"}
      /\ pc' = [pc EXCEPT ![q] = "register"] /\ at' = [at EXCEPT ![q] = r]
      /\ UNCHANGED <<replicaVars, rows, told, ledger, schema, interruptions, rolledBack>>
  BY DEF Arrive, database
<1>2. r # None BY DeploymentAssumption
<1>3. rows' \subseteq Requests /\ told' \subseteq Requests /\ (~rolledBack => told' \subseteq rows')
  BY <1>1 DEF Inv, TypeOK, RegistrationIsDurable
<1> QED BY <1>1, <1>2, <1>3, RequestInv

\* Where a registration in progress is, and that its place stays when its step leaves it.
LEMMA InProgress ==
  ASSUME Inv, NEW q \in Requests, pc[q] \in {"register", "insert", "answer"}
  PROVE  /\ at[q] \in Replicas /\ at[q] # None /\ phase[at[q]] \in {"serving", "draining"}
         /\ at = [at EXCEPT ![q] = at[q]]
  BY DEF Inv, TypeOK

LEMMA RegisterInv ==
  ASSUME Inv, NEW q \in Requests, Register(q)
  PROVE  Inv'
<1>1. /\ pc[q] = "register"
      /\ UNCHANGED <<replicaVars, rows, told, ledger, schema, interruptions, rolledBack>>
  BY DEF Register, database
<1>2. rows' \subseteq Requests /\ told' \subseteq Requests /\ (~rolledBack => told' \subseteq rows')
  BY <1>1 DEF Inv, TypeOK, RegistrationIsDurable
<1>3. CASE pc' = [pc EXCEPT ![q] = "insert"] /\ UNCHANGED at
  <2>1. at' = [at EXCEPT ![q] = at[q]] BY <1>1, <1>3, InProgress
  <2> QED BY <1>1, <1>2, <1>3, <2>1, InProgress, RequestInv
<1>4. CASE Answered(q)
  <2>1. pc' = [pc EXCEPT ![q] = "done"] /\ at' = [at EXCEPT ![q] = None] BY <1>4 DEF Answered
  <2> QED BY <1>1, <1>2, <2>1, RequestInv
<1> QED BY <1>3, <1>4 DEF Register

LEMMA CreateClientInv ==
  ASSUME Inv, NEW q \in Requests, CreateClient(q)
  PROVE  Inv'
<1>1. /\ pc[q] = "insert"
      /\ UNCHANGED <<replicaVars, told, ledger, schema, interruptions, rolledBack>>
      /\ rows' \in {rows, rows \cup {q}}
  BY DEF CreateClient
<1>2. /\ rows \subseteq rows' /\ rows' \subseteq Requests /\ told' \subseteq Requests
      /\ (~rolledBack => told' \subseteq rows')
  BY <1>1 DEF Inv, TypeOK, RegistrationIsDurable
<1>3. CASE rows' = rows \cup {q} /\ pc' = [pc EXCEPT ![q] = "answer"] /\ UNCHANGED at
  <2>1. at' = [at EXCEPT ![q] = at[q]] BY <1>1, <1>3, InProgress
  <2>2. q \in rows' BY <1>3
  <2> QED BY <1>1, <1>2, <1>3, <2>1, <2>2, InProgress, RequestInv
<1>4. CASE Answered(q)
  <2>1. pc' = [pc EXCEPT ![q] = "done"] /\ at' = [at EXCEPT ![q] = None] BY <1>4 DEF Answered
  <2> QED BY <1>1, <1>2, <2>1, RequestInv
<1> QED BY <1>3, <1>4 DEF CreateClient

LEMMA AnswerInv ==
  ASSUME Inv, NEW q \in Requests, Answer(q)
  PROVE  Inv'
<1>1. /\ pc[q] = "answer" /\ told' \in {told, told \cup {q}}
      /\ UNCHANGED <<replicaVars, rows, ledger, schema, interruptions, rolledBack>>
      /\ pc' = [pc EXCEPT ![q] = "done"] /\ at' = [at EXCEPT ![q] = None]
  BY DEF Answer, Answered, database
<1>2. ~rolledBack => q \in rows BY <1>1 DEF Inv, StoredFirst
<1>3. rows' \subseteq Requests /\ told' \subseteq Requests /\ (~rolledBack => told' \subseteq rows')
  BY <1>1, <1>2 DEF Inv, TypeOK, RegistrationIsDurable
<1> QED BY <1>1, <1>3, RequestInv

LEMMA MigrateUpInv ==
  ASSUME Inv, MigrateUp
  PROVE  Inv'
<1> USE DEF Inv, MigrateUp, replicaVars, requestVars
<1>1. TypeOK' BY DEF TypeOK, Files
<1>2. InTurn' /\ PassedIsRecorded' BY DEF InTurn, PassedIsRecorded
<1>3. ExecutedFirst' /\ LedgerIsTruthful' BY DEF ExecutedFirst, LedgerIsTruthful
<1>4. StoredFirst' /\ RegistrationIsDurable' BY DEF StoredFirst, RegistrationIsDurable
<1> QED BY <1>1, <1>2, <1>3, <1>4

LEMMA MigrateDownInv ==
  ASSUME Inv, MigrateDown
  PROVE  Inv'
<1> USE DEF Inv, MigrateDown, replicaVars, requestVars
<1>1. TypeOK' BY DEF TypeOK
<1>2. InTurn' /\ PassedIsRecorded' BY DEF InTurn, PassedIsRecorded
<1>3. ExecutedFirst' /\ LedgerIsTruthful' BY DEF ExecutedFirst, LedgerIsTruthful
<1>4. StoredFirst' /\ RegistrationIsDurable' BY DEF StoredFirst, RegistrationIsDurable
<1> QED BY <1>1, <1>2, <1>3, <1>4

LEMMA StutterInv ==
  ASSUME Inv, UNCHANGED vars
  PROVE  Inv'
<1> USE DEF Inv, vars, replicaVars, database, requestVars
<1>1. TypeOK' BY DEF TypeOK
<1>2. InTurn' /\ PassedIsRecorded' BY DEF InTurn, PassedIsRecorded
<1>3. ExecutedFirst' /\ LedgerIsTruthful' BY DEF ExecutedFirst, LedgerIsTruthful
<1>4. StoredFirst' /\ RegistrationIsDurable' BY DEF StoredFirst, RegistrationIsDurable
<1> QED BY <1>1, <1>2, <1>3, <1>4
-------------------------------------------------------------------------------
LEMMA NextInv == Inv /\ [Next]_vars => Inv'
<1> SUFFICES ASSUME Inv, [Next]_vars PROVE Inv'
  OBVIOUS
<1>1. ASSUME NEW r \in Replicas, ReplicaStep(r) PROVE Inv'
  <2>1. CASE Drained(r)
    <3>1. interruptions' \in 0 .. MaxInterruptions BY <2>1 DEF Drained, Inv, TypeOK
    <3> QED BY <2>1, <3>1, GoneInv DEF Drained
  <2> QED BY <1>1, <2>1, StartInv, BootstrapInv, CheckInv, ServeInv, ExecInv, RecordInv, RefusedInv
          DEF ReplicaStep
<1>2. ASSUME NEW r \in Replicas, Crash(r) PROVE Inv'
  <2>1. interruptions' \in 0 .. MaxInterruptions
    BY <1>2, DeploymentAssumption DEF Crash, Inv, TypeOK
  <2> QED BY <1>2, <2>1, GoneInv DEF Crash
<1>3. ASSUME NEW r \in Replicas, StatementFails(r) \/ Signal(r) PROVE Inv'
  BY <1>3, StatementFailsInv, SignalInv
<1>4. ASSUME NEW q \in Requests, NEW r \in Replicas, Arrive(q, r) PROVE Inv'
  BY <1>4, ArriveInv
<1>5. ASSUME NEW q \in Requests, Handler(q) PROVE Inv'
  BY <1>5, RegisterInv, CreateClientInv, AnswerInv DEF Handler
<1>6. CASE MigrateUp \/ MigrateDown BY <1>6, MigrateUpInv, MigrateDownInv
<1>7. CASE UNCHANGED vars BY <1>7, StutterInv
<1> QED BY <1>1, <1>2, <1>3, <1>4, <1>5, <1>6, <1>7 DEF Next

LEMMA SpecInv == Spec => []Inv
  BY InitInv, NextInv, PTL DEF Spec

LEMMA ServesWhenReady ==
  ASSUME Inv
  PROVE  ServesOnlyWhenReady
<1> SUFFICES ASSUME ~rolledBack, NEW r \in Replicas, phase[r] \in {"serving", "draining"},
                    NEW f \in 1 .. Release[r]
             PROVE  f \in schema
  BY DEF ServesOnlyWhenReady
<1>1. file[r] = Release[r] + 1 /\ Release[r] \in 1 .. 2 BY ReplicaTypes DEF Inv, TypeOK
<1>2. f \in Files /\ f < file[r] BY <1>1 DEF Files
<1>3. f \in ledger BY <1>2 DEF Inv, PassedIsRecorded
<1> QED BY <1>3 DEF Inv, LedgerIsTruthful
-------------------------------------------------------------------------------
(* The theorems.                                                           *)

\* Type correctness: a replica stays within the files of its release, and a
\* registration in progress is at a replica that serves or drains.
THEOREM TypeCorrect == Spec => []TypeOK
  BY SpecInv, PTL DEF Inv

\* migrate.go: whatever crashes between a file and its ledger row, and however many
\* replicas race for the row, the ledger lists nothing that is not there.
THEOREM LedgerNeverAhead == Spec => []LedgerIsTruthful
  BY SpecInv, PTL DEF Inv

\* main.go: a replica serves only on a schema with all that its release needs.
THEOREM ServingIsReady == Spec => []ServesOnlyWhenReady
  BY SpecInv, ServesWhenReady, PTL

\* register.go: a client id that was told is in the table.
THEOREM RegistrationsLast == Spec => []RegistrationIsDurable
  BY SpecInv, PTL DEF Inv
===============================================================================
