---------------------------- MODULE SchemaInstall ----------------------------
(***************************************************************************)
(* How processes start on one database: each takes the advisory lock,      *)
(* creates the embedded schema when the users table is missing, validates  *)
(* the table list, releases the lock, and then opens what it needs and     *)
(* loads the installation secrets.  A process may die, or a statement may  *)
(* fail, between any two statements.                                       *)
(*                                                                         *)
(* CREATE TABLE commits by itself in both dialects (the schema files start *)
(* a transaction only for the seed rows), so a process that stops halfway  *)
(* leaves tables behind; the seed rows and the secrets are all or nothing. *)
(***************************************************************************)
EXTENDS Naturals

CONSTANTS
    Instances,   \* processes: servers and create-admin commands
    Commands,    \* the ones that run create-admin
    TableCount,  \* tables of the embedded schema, created in file order
    UsersTable,  \* position of the users table in that order
    MaxStarts,   \* bound: how often a process is started
    Nobody       \* the advisory lock is free

ASSUME InstallAssumption ==
    /\ Commands \subseteq Instances
    /\ Nobody \notin Instances

ASSUME TableAssumption ==
    /\ TableCount \in Nat
    /\ UsersTable \in 1..TableCount
    /\ MaxStarts \in Nat

VARIABLES
    tables,     \* how many tables exist
    secrets,    \* the row of application_secrets: 0, or which secrets it holds
    generated,  \* how many times secrets have been drawn
    schemaLock, \* the process that holds the advisory lock
    stage,      \* where each process is
    created,    \* tables a process has created in this start
    drawn,      \* secrets inserted in its uncommitted seed transaction
    loaded,     \* secrets it serves with
    starts      \* how often it has been started

installVars ==
    <<tables, secrets, generated, schemaLock, stage, created, drawn, loaded, starts>>

NoSecrets == 0

Stages ==
    {"down", "lock", "inspect", "create", "seed", "commit", "validate", "unlock",
     "undo", "open", "object", "secrets", "ready", "failed"}

Locked == {"inspect", "create", "seed", "commit", "validate", "unlock", "undo"}

InstallTypeOK ==
    /\ tables \in 0..TableCount
    /\ generated \in Nat
    /\ secrets \in 0..generated
    /\ schemaLock \in Instances \cup {Nobody}
    /\ stage \in [Instances -> Stages]
    /\ created \in [Instances -> 0..TableCount]
    /\ drawn \in [Instances -> 0..generated]
    /\ loaded \in [Instances -> 0..generated]
    /\ starts \in [Instances -> 0..MaxStarts]

InstallInit ==
    /\ tables = 0
    /\ secrets = NoSecrets
    /\ generated = 0
    /\ schemaLock = Nobody
    /\ stage = [i \in Instances |-> "down"]
    /\ created = [i \in Instances |-> 0]
    /\ drawn = [i \in Instances |-> NoSecrets]
    /\ loaded = [i \in Instances |-> NoSecrets]
    /\ starts = [i \in Instances |-> 0]

GoStage(i, label) == stage' = [stage EXCEPT ![i] = label]

-----------------------------------------------------------------------------
\* The process begins; OpenEngine starts with the schema (create-admin as well).
Start(i) ==
    /\ stage[i] \in {"down", "failed"}
    /\ starts[i] < MaxStarts
    /\ starts' = [starts EXCEPT ![i] = @ + 1]
    /\ created' = [created EXCEPT ![i] = 0]
    /\ GoStage(i, "lock")
    /\ UNCHANGED <<tables, secrets, generated, schemaLock, drawn, loaded>>

AcquireSchemaLock(i) ==
    /\ stage[i] = "lock"
    /\ schemaLock = Nobody
    /\ schemaLock' = i
    /\ GoStage(i, "inspect")
    /\ UNCHANGED <<tables, secrets, generated, created, drawn, loaded, starts>>

\* GET_LOCK gives up after a minute, a context ends: the connection is discarded.
LockNotAcquired(i) ==
    /\ stage[i] = "lock"
    /\ GoStage(i, "failed")
    /\ UNCHANGED <<tables, secrets, generated, schemaLock, created, drawn, loaded, starts>>

\* A database whose users table exists is validated, any other one is created.
Inspect(i) ==
    /\ stage[i] = "inspect"
    /\ GoStage(i, IF tables >= UsersTable THEN "validate" ELSE "create")
    /\ UNCHANGED <<tables, secrets, generated, schemaLock, created, drawn, loaded, starts>>

\* CREATE TABLE without IF NOT EXISTS: an existing table fails the statement.
CreateTable(i) ==
    LET next == created[i] + 1
    IN /\ stage[i] = "create"
       /\ \/ /\ created[i] < TableCount
             /\ next > tables
             /\ tables' = next
             /\ created' = [created EXCEPT ![i] = next]
             /\ UNCHANGED stage
          \/ /\ created[i] < TableCount
             /\ next <= tables
             /\ GoStage(i, "undo")
             /\ UNCHANGED <<tables, created>>
          \/ /\ created[i] = TableCount
             /\ GoStage(i, "seed")
             /\ UNCHANGED <<tables, created>>
       /\ UNCHANGED <<secrets, generated, schemaLock, drawn, loaded, starts>>

\* START TRANSACTION, the catalogue rows, and before COMMIT fresh secrets.
SeedApplicationSecrets(i) ==
    /\ stage[i] = "seed"
    /\ generated' = generated + 1
    /\ drawn' = [drawn EXCEPT ![i] = generated + 1]
    /\ GoStage(i, "commit")
    /\ UNCHANGED <<tables, secrets, schemaLock, created, loaded, starts>>

\* The row has primary key 1: a second seed is a duplicate.
CommitSeed(i) ==
    /\ stage[i] = "commit"
    /\ \/ /\ secrets = NoSecrets
          /\ secrets' = drawn[i]
          /\ GoStage(i, "validate")
       \/ /\ secrets # NoSecrets
          /\ GoStage(i, "undo")
          /\ UNCHANGED secrets
    /\ drawn' = [drawn EXCEPT ![i] = NoSecrets]
    /\ UNCHANGED <<tables, generated, schemaLock, created, loaded, starts>>

\* Every required table must exist; their rows are not looked at.
ValidateSchema(i) ==
    /\ stage[i] = "validate"
    /\ GoStage(i, IF tables = TableCount THEN "unlock" ELSE "undo")
    /\ UNCHANGED <<tables, secrets, generated, schemaLock, created, drawn, loaded, starts>>

\* A statement fails: the deferred rollback and unlock follow.
StatementFails(i) ==
    /\ stage[i] \in {"inspect", "create", "seed", "commit", "validate"}
    /\ GoStage(i, "undo")
    /\ UNCHANGED <<tables, secrets, generated, schemaLock, created, drawn, loaded, starts>>

Bug_FailureKeepsLock(i) ==
    /\ stage[i] \in {"unlock", "undo"}
    /\ schemaLock' = IF stage[i] = "unlock" THEN Nobody ELSE schemaLock
    /\ drawn' = [drawn EXCEPT ![i] = NoSecrets]
    /\ GoStage(i, IF stage[i] = "unlock" THEN "open" ELSE "failed")
    /\ UNCHANGED <<tables, secrets, generated, created, loaded, starts>>

\* ROLLBACK, then the unlock; a connection that cannot do it is discarded, and
\* the database releases the lock with it.
ReleaseSchemaLock(i) ==
    /\ stage[i] \in {"unlock", "undo"}
    /\ schemaLock' = Nobody
    /\ drawn' = [drawn EXCEPT ![i] = NoSecrets]
    /\ GoStage(i, IF stage[i] = "unlock" THEN "open" ELSE "failed")
    /\ UNCHANGED <<tables, secrets, generated, created, loaded, starts>>

\* The pool of the process; a command needs nothing else, a server goes on.
ConnectEngine(i) ==
    /\ stage[i] = "open"
    /\ GoStage(i, IF i \in Commands THEN "ready" ELSE "object")
    /\ UNCHANGED <<tables, secrets, generated, schemaLock, created, drawn, loaded, starts>>

OpenObjectStorage(i) ==
    /\ stage[i] = "object"
    /\ GoStage(i, "secrets")
    /\ UNCHANGED <<tables, secrets, generated, schemaLock, created, drawn, loaded, starts>>

Bug_ServeWithoutSecrets(i) ==
    /\ stage[i] = "secrets"
    /\ loaded' = [loaded EXCEPT ![i] = secrets]
    /\ GoStage(i, "ready")
    /\ UNCHANGED <<tables, secrets, generated, schemaLock, created, drawn, starts>>

ProvideApplicationSecrets(i) ==
    /\ stage[i] = "secrets"
    /\ loaded' = [loaded EXCEPT ![i] = secrets]
    /\ GoStage(i, IF secrets # NoSecrets THEN "ready" ELSE "failed")
    /\ UNCHANGED <<tables, secrets, generated, schemaLock, created, drawn, starts>>

\* A provider fails, missing secrets among others: the cleanups run backwards.
ProviderFails(i) ==
    /\ stage[i] \in {"open", "object", "secrets"}
    /\ GoStage(i, "failed")
    /\ UNCHANGED <<tables, secrets, generated, schemaLock, created, drawn, loaded, starts>>

\* The process ends or dies; the database drops its session, lock and transaction.
Crash(i) ==
    /\ stage[i] \notin {"down", "failed"}
    /\ stage' = [stage EXCEPT ![i] = "down"]
    /\ schemaLock' = IF schemaLock = i THEN Nobody ELSE schemaLock
    /\ drawn' = [drawn EXCEPT ![i] = NoSecrets]
    /\ loaded' = [loaded EXCEPT ![i] = NoSecrets]
    /\ UNCHANGED <<tables, secrets, generated, created, starts>>

Progress(i) ==
    \/ AcquireSchemaLock(i) \/ Inspect(i) \/ CreateTable(i)
    \/ SeedApplicationSecrets(i) \/ CommitSeed(i) \/ ValidateSchema(i)
    \/ ReleaseSchemaLock(i) \/ ConnectEngine(i) \/ OpenObjectStorage(i)
    \/ ProvideApplicationSecrets(i)

Fault(i) ==
    LockNotAcquired(i) \/ StatementFails(i) \/ ProviderFails(i) \/ Crash(i)

InstallNext == \E i \in Instances : Start(i) \/ Progress(i) \/ Fault(i)

InstallSpec == InstallInit /\ [][InstallNext]_installVars

\* A process that runs takes its next step; starts are finitely many, so one that
\* waits for the lock finds it free in the end.
FairSpec == InstallSpec /\ \A i \in Instances : WF_installVars(Progress(i))

-----------------------------------------------------------------------------
\* A server that is ready has the complete schema under it and works with the
\* secrets the database holds, however often installations were interrupted:
\* tokens and key digests of one server are accepted by every other one.
ReadyIsInstalled ==
    \A i \in Instances \ Commands :
        stage[i] = "ready" =>
            /\ tables = TableCount
            /\ secrets # NoSecrets
            /\ loaded[i] = secrets

\* Every process that starts gets an answer: it comes up, fails or dies.  No start
\* waits for ever for a lock an earlier start has left behind.
EveryStartEnds ==
    \A i \in Instances : (stage[i] = "lock") ~> (stage[i] \in {"ready", "failed", "down"})

=============================================================================
