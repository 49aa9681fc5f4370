------------------------------ MODULE Accounts ------------------------------
(***************************************************************************)
(* The accounts of an installation: the first administrator from the web   *)
(* setup or from the create-admin command, the edits one administrator     *)
(* makes of another, and the upgrade of a password hash at login.          *)
(*                                                                         *)
(* Each transaction locks rows one at a time and writes when it commits;   *)
(* what it wrote before that only it can see.  A transaction that waits    *)
(* for a row may be chosen as the victim of a deadlock or time out.        *)
(***************************************************************************)
EXTENDS Naturals, FiniteSets

CONSTANTS
    Users,       \* ids of users, one per username, in the order of creation
    Txns,        \* calls in progress
    Passwords,
    MaxVersion,  \* bound on users.version
    MaxCalls,    \* bound on the calls begun
    MaxPolicy,   \* bound: how often the password-hash parameters change
    Free         \* a row nobody has locked

ASSUME AccountsAssumption ==
    /\ Free \notin Txns
    /\ Users # {}
    /\ Passwords # {}

ASSUME AccountBounds ==
    /\ Users \subseteq Nat
    /\ MaxVersion \in Nat \ {0}
    /\ MaxCalls \in Nat
    /\ MaxPolicy \in Nat

VARIABLES
    account,      \* users, by id
    initialized,  \* application_secrets.admin_initialized
    stateLock,    \* the transaction that holds the row of application_secrets
    rowLock,      \* the transaction that holds a row of users
    step, call,   \* the calls: control and arguments
    scanned,      \* rows the search for administrators has locked
    calls,        \* calls begun
    policy,       \* parameters of the password hasher
    lastSet,      \* history: the password last chosen for an account
    setups        \* history: administrators the web setup has created

vars ==
    <<account, initialized, stateLock, rowLock, step, call, scanned, calls, policy, lastSet, setups>>

Hashes == [password : Passwords, cost : 0..MaxPolicy]

Rows == [exists : BOOLEAN, enabled : BOOLEAN, admin : BOOLEAN,
         version : 0..MaxVersion, hash : Hashes]

Edits == {"status", "profile", "password"}

Operations == Edits \cup {"create", "setup", "command", "login"}

Steps == {"idle", "state", "lock", "scan", "write", "rehash"}

Calls == [op : Operations, user : Users, flag : BOOLEAN, hash : Hashes, row : Rows]

TypeOK ==
    /\ account \in [Users -> Rows]
    /\ \A u \in Users : account[u].exists <=> account[u].version # 0
    /\ initialized \in BOOLEAN
    /\ stateLock \in Txns \cup {Free}
    /\ rowLock \in [Users -> Txns \cup {Free}]
    /\ step \in [Txns -> Steps]
    /\ call \in [Txns -> Calls]
    /\ scanned \in [Txns -> SUBSET Users]
    /\ calls \in 0..MaxCalls
    /\ policy \in 0..MaxPolicy
    /\ lastSet \in [Users -> Passwords]
    /\ setups \subseteq Users

Administrators == {u \in Users : account[u].exists /\ account[u].enabled /\ account[u].admin}

SomeHash == [password |-> CHOOSE p \in Passwords : TRUE, cost |-> 0]

NoRow == [exists |-> FALSE, enabled |-> FALSE, admin |-> FALSE, version |-> 0, hash |-> SomeHash]

\* What a call leaves behind when it is over; a finished call is forgotten.
Idle == [op |-> "login", user |-> CHOOSE u \in Users : TRUE, flag |-> FALSE,
         hash |-> SomeHash, row |-> NoRow]

Init ==
    /\ account = [u \in Users |-> NoRow]
    /\ initialized = FALSE
    /\ stateLock = Free
    /\ rowLock = [u \in Users |-> Free]
    /\ step = [t \in Txns |-> "idle"]
    /\ call = [t \in Txns |-> Idle]
    /\ scanned = [t \in Txns |-> {}]
    /\ calls = 0
    /\ policy = 0
    /\ lastSet = [u \in Users |-> SomeHash.password]
    /\ setups = {}

-----------------------------------------------------------------------------
\* The hasher this version of the program uses.
HashPassword(p) == [password |-> p, cost |-> policy]

Begin(t, op, u, flag, hash, row, first) ==
    /\ step[t] = "idle"
    /\ calls < MaxCalls
    /\ calls' = calls + 1
    /\ call' = [call EXCEPT ![t] =
                   [op |-> op, user |-> u, flag |-> flag, hash |-> hash, row |-> row]]
    /\ step' = [step EXCEPT ![t] = first]
    /\ UNCHANGED <<account, initialized, stateLock, rowLock, scanned, policy, lastSet, setups>>

\* The locks of a transaction go with it, whatever its outcome.
EndTransaction(t) ==
    /\ step' = [step EXCEPT ![t] = "idle"]
    /\ call' = [call EXCEPT ![t] = Idle]
    /\ scanned' = [scanned EXCEPT ![t] = {}]
    /\ stateLock' = IF stateLock = t THEN Free ELSE stateLock
    /\ rowLock' = [u \in Users |-> IF rowLock[u] = t THEN Free ELSE rowLock[u]]

RollBack(t) ==
    /\ EndTransaction(t)
    /\ UNCHANGED <<account, initialized, calls, policy, lastSet, setups>>

\* RequireSystem, once, before the transaction begins.
RequireSystem(actor) == actor \in Administrators

\* UserLogic.Create: the account is inserted in the next step.
BeginCreate(t) ==
    \E actor, u \in Users, p \in Passwords, admin \in BOOLEAN :
        /\ RequireSystem(actor)
        /\ Begin(t, "create", u, admin, HashPassword(p), NoRow, "write")

\* UserLogic.Update and UpdateStatus: the caller sends the version it has seen.
BeginEdit(t) ==
    \E actor, u \in Users, op \in {"status", "profile"}, flag \in BOOLEAN :
        /\ RequireSystem(actor)
        /\ account[u].exists
        /\ Begin(t, op, u, flag, SomeHash, account[u], "lock")

\* UserLogic.UpdatePassword: everybody may change their own.
BeginPassword(t) ==
    \E actor, u \in Users, p \in Passwords :
        /\ account[actor].enabled
        /\ actor = u \/ RequireSystem(actor)
        /\ account[u].exists
        /\ Begin(t, "password", u, TRUE, HashPassword(p), NoRow, "lock")

\* The setup form is open to everybody until the installation is marked.
BeginSetup(t) ==
    \E u \in Users, p \in Passwords : Begin(t, "setup", u, TRUE, HashPassword(p), NoRow, "state")

BeginCommand(t) ==
    \E u \in Users, p \in Passwords : Begin(t, "command", u, TRUE, HashPassword(p), NoRow, "state")

\* verifyLogin with the right password: only a hash with other parameters is written.
BeginLogin(t) ==
    \E u \in Users :
        /\ account[u].exists
        /\ account[u].enabled
        /\ account[u].hash.cost # policy
        /\ Begin(t, "login", u, TRUE, HashPassword(account[u].hash.password), account[u], "rehash")

Bug_StateNotLocked(t) ==
    LET c == call[t]
    IN /\ step[t] = "state"
       /\ \/ /\ c.op = "setup" /\ initialized
             /\ RollBack(t)
          \/ /\ ~(c.op = "setup" /\ initialized)
             /\ step' = [step EXCEPT ![t] = IF c.op = "setup" THEN "write" ELSE "lock"]
             /\ UNCHANGED <<account, initialized, stateLock, rowLock, call, scanned, calls, policy,
                            lastSet, setups>>

\* The installation row: setup stops when it is marked, create-admin marks it.
LockState(t) ==
    LET c == call[t]
    IN /\ step[t] = "state"
       /\ stateLock = Free
       /\ \/ /\ c.op = "setup" /\ initialized
             /\ RollBack(t)
          \/ /\ ~(c.op = "setup" /\ initialized)
             /\ stateLock' = t
             /\ step' = [step EXCEPT ![t] = IF c.op = "setup" THEN "write" ELSE "lock"]
             /\ UNCHANGED <<account, initialized, rowLock, call, scanned, calls, policy, lastSet, setups>>

Removes(c) ==
    \/ c.op = "status" /\ ~c.flag
    \/ c.op = "profile" /\ ~c.flag

\* lockManagedUser, or the row create-admin finds by username, if there is one.
LockUser(t) ==
    LET c == call[t]
        row == account[c.user]
        stale == c.op \in {"status", "profile"} /\ row.version # c.row.version
        last == Removes(c) /\ row.enabled /\ row.admin
    IN /\ step[t] = "lock"
       /\ rowLock[c.user] = Free
       /\ \/ /\ stale
             /\ RollBack(t)
          \/ /\ ~stale
             /\ rowLock' = IF row.exists THEN [rowLock EXCEPT ![c.user] = t] ELSE rowLock
             /\ step' = [step EXCEPT ![t] = IF last THEN "scan" ELSE "write"]
             /\ UNCHANGED <<account, initialized, stateLock, call, scanned, calls, policy, lastSet, setups>>

\* The next administrator of the ordered search that has not been locked yet.
NextScanned(t) ==
    {u \in Administrators \ scanned[t] :
        /\ \A v \in scanned[t] : v < u
        /\ \A v \in Administrators \ scanned[t] : (\A w \in scanned[t] : w < v) => u <= v}

Bug_ScanWithoutLock(t) ==
    /\ step[t] = "scan"
    /\ \/ /\ Cardinality(scanned[t]) < 2
          /\ \E u \in NextScanned(t) : scanned' = [scanned EXCEPT ![t] = @ \cup {u}]
          /\ UNCHANGED <<account, initialized, stateLock, rowLock, step, call, calls, policy, lastSet, setups>>
       \/ /\ Cardinality(scanned[t]) = 2 \/ NextScanned(t) = {}
          /\ scanned[t] \ {call[t].user} # {}
          /\ step' = [step EXCEPT ![t] = "write"]
          /\ UNCHANGED <<account, initialized, stateLock, rowLock, call, scanned, calls, policy, lastSet, setups>>
       \/ /\ Cardinality(scanned[t]) = 2 \/ NextScanned(t) = {}
          /\ scanned[t] \ {call[t].user} = {}
          /\ RollBack(t)

\* ensureLastSystemAdmin: two enabled administrators by id, locked one by one; one
\* of them must be somebody else.
ScanAdministrators(t) ==
    LET done == Cardinality(scanned[t]) = 2 \/ NextScanned(t) = {}
        others == scanned[t] \ {call[t].user}
    IN /\ step[t] = "scan"
       /\ \/ /\ ~done
             /\ \E u \in NextScanned(t) :
                    /\ rowLock[u] \in {Free, t}
                    /\ rowLock' = [rowLock EXCEPT ![u] = t]
                    /\ scanned' = [scanned EXCEPT ![t] = @ \cup {u}]
             /\ UNCHANGED <<account, initialized, stateLock, step, call, calls, policy, lastSet, setups>>
          \/ /\ done
             /\ others # {}
             /\ step' = [step EXCEPT ![t] = "write"]
             /\ UNCHANGED <<account, initialized, stateLock, rowLock, call, scanned, calls, policy, lastSet, setups>>
          \/ /\ done
             /\ others = {}
             /\ RollBack(t)

\* PrepareInsert gives a new row its first version.
NewAccount(c) ==
    [exists |-> TRUE, enabled |-> TRUE, admin |-> c.op # "create" \/ c.flag, version |-> 1, hash |-> c.hash]

Bug_PasswordKeepsVersion(c, row) ==
    CASE c.op = "status" -> [row EXCEPT !.enabled = c.flag, !.version = @ + 1]
      [] c.op = "profile" -> [row EXCEPT !.admin = c.flag, !.version = @ + 1]
      [] c.op = "password" -> [row EXCEPT !.hash = c.hash]
      [] OTHER -> [row EXCEPT !.enabled = TRUE, !.admin = TRUE, !.hash = c.hash, !.version = @ + 1]

\* The row an edit, or a promotion by create-admin, writes.
Written(c, row) ==
    CASE c.op = "status" -> [row EXCEPT !.enabled = c.flag, !.version = @ + 1]
      [] c.op = "profile" -> [row EXCEPT !.admin = c.flag, !.version = @ + 1]
      [] c.op = "password" -> [row EXCEPT !.hash = c.hash, !.version = @ + 1]
      [] OTHER -> [row EXCEPT !.enabled = TRUE, !.admin = TRUE, !.hash = c.hash, !.version = @ + 1]

\* The write and the commit.  An insert of a username that exists is a duplicate:
\* the transaction rolls back, the mark of the installation row with it.
Commit(t) ==
    LET c == call[t]
        row == account[c.user]
        inserts == c.op \in {"create", "setup"} \/ (c.op = "command" /\ rowLock[c.user] # t)
        duplicate == inserts /\ row.exists
    IN /\ step[t] = "write"
       /\ rowLock[c.user] \in {Free, t}
       /\ \/ /\ duplicate
             /\ RollBack(t)
          \/ /\ ~duplicate
             /\ inserts \/ row.version < MaxVersion
             /\ account' = [account EXCEPT ![c.user] =
                               IF inserts THEN NewAccount(c) ELSE Written(c, row)]
             /\ initialized' = (initialized \/ c.op \in {"setup", "command"})
             /\ lastSet' = IF inserts \/ c.op \in {"password", "command"}
                           THEN [lastSet EXCEPT ![c.user] = c.hash.password] ELSE lastSet
             /\ setups' = IF c.op = "setup" THEN setups \cup {c.user} ELSE setups
             /\ EndTransaction(t)
             /\ UNCHANGED <<calls, policy>>

Bug_RehashUnconditional(t) ==
    LET c == call[t]
        row == account[c.user]
    IN /\ step[t] = "rehash"
       /\ rowLock[c.user] = Free
       /\ row.version < MaxVersion
       /\ account' = [account EXCEPT ![c.user].hash = c.hash, ![c.user].version = @ + 1]
       /\ EndTransaction(t)
       /\ UNCHANGED <<initialized, calls, policy, lastSet, setups>>

\* UpdatePasswordHash: one UPDATE that applies only to the hash that was verified.
Rehash(t) ==
    LET c == call[t]
        row == account[c.user]
        applies == row.hash = c.row.hash /\ row.enabled
    IN /\ step[t] = "rehash"
       /\ rowLock[c.user] = Free
       /\ \/ /\ applies
             /\ row.version < MaxVersion
             /\ account' = [account EXCEPT ![c.user].hash = c.hash, ![c.user].version = @ + 1]
             /\ EndTransaction(t)
             /\ UNCHANGED <<initialized, calls, policy, lastSet, setups>>
          \/ /\ ~applies
             /\ RollBack(t)

\* Victim of a deadlock, lock wait timeout, or an error of the database.
Fail(t) ==
    /\ step[t] # "idle"
    /\ RollBack(t)

\* A new version of the program is deployed with other hash parameters.
ChangePolicy ==
    /\ policy < MaxPolicy
    /\ policy' = policy + 1
    /\ UNCHANGED <<account, initialized, stateLock, rowLock, step, call, scanned, calls, lastSet, setups>>

Next ==
    \/ ChangePolicy
    \/ \E t \in Txns :
          \/ BeginCreate(t) \/ BeginEdit(t) \/ BeginPassword(t)
          \/ BeginSetup(t) \/ BeginCommand(t) \/ BeginLogin(t)
          \/ LockState(t) \/ LockUser(t) \/ ScanAdministrators(t)
          \/ Commit(t) \/ Rehash(t) \/ Fail(t)

Spec == Init /\ [][Next]_vars

-----------------------------------------------------------------------------
\* Once the installation has been set up there is always an enabled system
\* administrator, however administrators disable or demote each other.
AdministratorRemains == initialized => Administrators # {}

\* The web setup creates one account at most, and none beside an administrator
\* the create-admin command has made before: two first-run requests, or one and a
\* command, never both pass the check of the installation row.
SetupOnce ==
    [][setups' # setups => ~initialized /\ setups = {}]_vars

\* The password of an account is the one chosen last: the upgrade of a hash by a
\* login that verified the former one never brings the former one back.
PasswordKept == \A u \in Users : account[u].exists => account[u].hash.password = lastSet[u]

\* An edit is applied to the row its administrator has seen: every other write in
\* between, a changed password or an upgraded hash too, makes it a conflict.
NoLostUpdate ==
    [][\A t \in Txns :
          (step[t] = "write" /\ call[t].op \in {"status", "profile"}) =>
              LET u == call[t].user
              IN account'[u] = account[u] \/ account[u] = call[t].row]_vars

=============================================================================
