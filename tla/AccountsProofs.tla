--------------------------- MODULE AccountsProofs ---------------------------
(***************************************************************************)
(* Proofs about Accounts, for any number of accounts and of concurrent     *)
(* setups, commands, edits and logins.                                     *)
(*                                                                         *)
(* A transaction reads some rows before it has locked them and decides by  *)
(* others that it has.  The invariant says, call by call, which locks it   *)
(* holds where it stands, what it still knows of the rows it read, and     *)
(* what its decision to write rests on.                                    *)
(***************************************************************************)
EXTENDS Accounts, TLAPS

-----------------------------------------------------------------------------
(* Rows and calls *)

\* The steps of one call.
Act(t) ==
    \/ BeginCreate(t) \/ BeginEdit(t) \/ BeginPassword(t)
    \/ BeginSetup(t) \/ BeginCommand(t) \/ BeginLogin(t)
    \/ LockState(t) \/ LockUser(t) \/ ScanAdministrators(t)
    \/ Commit(t) \/ Rehash(t) \/ Fail(t)

\* Every step is one call's, the deployment of new hash parameters, or none.
LEMMA Steps1 == [Next]_vars <=> \/ UNCHANGED vars \/ ChangePolicy \/ \E t \in Txns : Act(t)
BY DEF Next, Act

\* The placeholders are values of their types.
LEMMA Placeholders ==
    /\ SomeHash \in Hashes
    /\ NoRow \in Rows /\ ~NoRow.exists /\ ~NoRow.enabled /\ NoRow.version = 0
    /\ Idle \in Calls
<1>1. SomeHash \in Hashes
  BY AccountsAssumption, AccountBounds DEF SomeHash, Hashes
<1>2. 0 \in 0..MaxVersion
  BY AccountBounds
<1>3. NoRow \in Rows /\ ~NoRow.exists /\ ~NoRow.enabled /\ NoRow.version = 0
  BY <1>1, <1>2 DEF NoRow, Rows
<1>4. (CHOOSE u \in Users : TRUE) \in Users
  BY AccountsAssumption
<1>5. Idle \in Calls
  BY <1>1, <1>3, <1>4 DEF Idle, Calls, Operations
<1> QED
  BY <1>1, <1>3, <1>5

\* The hasher makes hashes.
LEMMA HashTyped ==
    ASSUME TypeOK, NEW p \in Passwords
    PROVE  HashPassword(p) \in Hashes /\ HashPassword(p).password = p
BY DEF TypeOK, HashPassword, Hashes

\* A new account is enabled, in its first version, and an administrator unless
\* it was created without the role.
LEMMA NewAccountRow ==
    ASSUME NEW c \in Calls
    PROVE  LET r == NewAccount(c)
           IN /\ r \in Rows
              /\ r.exists /\ r.enabled /\ r.version = 1 /\ r.hash = c.hash
              /\ c.op # "create" => r.admin
<1>1. 1 \in 0..MaxVersion
  BY AccountBounds
<1>2. (c.op # "create" \/ c.flag) \in BOOLEAN
  OBVIOUS
<1> QED
  BY <1>1, <1>2 DEF NewAccount, Rows, Calls

\* What a write changes in a row, and that it moves the version on by one.
LEMMA WrittenRow ==
    ASSUME NEW c \in Calls, NEW row \in Rows, row.version < MaxVersion
    PROVE  LET r == Written(c, row)
           IN /\ r \in Rows
              /\ r.exists = row.exists /\ r.version = row.version + 1
              /\ c.op = "status" => r.enabled = c.flag /\ r.admin = row.admin /\ r.hash = row.hash
              /\ c.op = "profile" => r.enabled = row.enabled /\ r.admin = c.flag /\ r.hash = row.hash
              /\ c.op = "password" => r.enabled = row.enabled /\ r.admin = row.admin /\ r.hash = c.hash
              /\ c.op \notin Edits => r.enabled /\ r.admin /\ r.hash = c.hash
<1>1. row.version + 1 \in 0..MaxVersion
  BY AccountBounds DEF Rows
<1>2. CASE c.op = "status"
  BY <1>1, <1>2 DEF Written, Rows, Calls, Edits
<1>3. CASE c.op = "profile"
  BY <1>1, <1>3 DEF Written, Rows, Calls, Edits
<1>4. CASE c.op = "password"
  BY <1>1, <1>4 DEF Written, Rows, Calls, Edits
<1>5. CASE c.op \notin Edits
  BY <1>1, <1>5 DEF Written, Rows, Calls, Edits
<1> QED
  BY <1>2, <1>3, <1>4, <1>5 DEF Edits

-----------------------------------------------------------------------------
(* The inductive invariant *)

\* Which calls take which steps.
RightStep(t) ==
    /\ step[t] = "state" => call[t].op \in {"setup", "command"}
    /\ step[t] = "lock" => call[t].op \in Edits \cup {"command"}
    /\ step[t] = "scan" => call[t].op \in {"status", "profile"}
    /\ step[t] = "write" => call[t].op # "login"
    /\ step[t] = "rehash" => call[t].op = "login"

\* The installation row is held from its check to the commit, the edited row from
\* its check to the commit, and a row the search has found stays an administrator.
HoldsLocks(t) ==
    /\ step[t] = "write" /\ call[t].op = "setup" => stateLock = t
    /\ step[t] \in {"lock", "write"} /\ call[t].op = "command" => stateLock = t
    /\ step[t] \in {"scan", "write"} /\ call[t].op \in Edits => rowLock[call[t].user] = t
    /\ \A u \in scanned[t] : rowLock[u] = t /\ u \in Administrators

\* What was read before the lock is never newer than the row, and of the same
\* version only if it is the row; under the lock it is the row.
KnowsRow(t) ==
    LET row == account[call[t].user]
    IN /\ step[t] = "rehash" => row.exists /\ call[t].hash.password = call[t].row.hash.password
       /\ step[t] \in {"lock", "scan", "write"} /\ call[t].op \in Edits => row.exists
       /\ step[t] # "idle" /\ call[t].op \in {"status", "profile"} =>
              /\ call[t].row.version <= row.version
              /\ call[t].row.version = row.version => call[t].row = row
       /\ step[t] \in {"scan", "write"} /\ call[t].op \in {"status", "profile"} => call[t].row = row

\* The decision to write: setup has seen the installation unmarked, and who takes
\* an administrator away has found another one.
MayWrite(t) ==
    step[t] = "write" =>
        /\ call[t].op = "setup" => ~initialized
        /\ Removes(call[t]) /\ call[t].user \in Administrators => scanned[t] \ {call[t].user} # {}

CallSound(t) == RightStep(t) /\ HoldsLocks(t) /\ KnowsRow(t) /\ MayWrite(t)

\* Only rows that exist can be locked.
LockedExist == \A u \in Users : rowLock[u] # Free => account[u].exists

\* An account from the web setup marks the installation.
SetupMarks == setups # {} => initialized

\* The inductive invariant behind the four properties.
Sound ==
    /\ \A t \in Txns : CallSound(t)
    /\ LockedExist
    /\ SetupMarks
    /\ AdministratorRemains
    /\ PasswordKept

-----------------------------------------------------------------------------
(* What a step does to rows and to the other calls *)

\* One row is written, by a call that holds its lock or found it free, and its
\* version goes up.
WritesRow(t, u) ==
    /\ step[t] \in {"write", "rehash"}
    /\ u = call[t].user
    /\ rowLock[u] \in {Free, t}
    /\ \E r \in Rows :
          /\ account' = [account EXCEPT ![u] = r]
          /\ r.exists
          /\ r.version = account[u].version + 1

\* A commit writes the row of its call: a new one, or the one it has locked.
LEMMA CommitWrites ==
    ASSUME TypeOK, Sound, NEW t \in Txns, Commit(t)
    PROVE  UNCHANGED account \/ WritesRow(t, call[t].user)
<1> DEFINE c == call[t]
           row == account[c.user]
           inserts == c.op \in {"create", "setup"} \/ (c.op = "command" /\ rowLock[c.user] # t)
<1>1. c \in Calls /\ c.user \in Users /\ row \in Rows /\ step[t] = "write"
  BY DEF TypeOK, Calls, Commit
<1>2. CASE UNCHANGED account
  BY <1>2
<1>3. CASE /\ inserts
           /\ ~row.exists
           /\ account' = [account EXCEPT ![c.user] = NewAccount(c)]
  <2>1. row.version = 0
    BY <1>1, <1>3 DEF TypeOK
  <2>2. NewAccount(c).version = row.version + 1
    BY <1>1, <2>1, NewAccountRow
  <2> QED BY <1>1, <1>3, <2>2, NewAccountRow DEF WritesRow, Commit
<1>4. CASE /\ ~inserts
           /\ row.version < MaxVersion
           /\ account' = [account EXCEPT ![c.user] = Written(c, row)]
  <2>1. c.op \in Edits \/ (c.op = "command" /\ rowLock[c.user] = t)
    BY <1>1, <1>4 DEF Sound, CallSound, RightStep, Calls, Operations
  <2>2. row.exists
    BY <1>1, <2>1, AccountsAssumption DEF Sound, CallSound, KnowsRow, LockedExist
  <2> QED BY <1>1, <1>4, <2>2, WrittenRow DEF WritesRow, Commit
<1> QED
  BY <1>2, <1>3, <1>4 DEF Commit, RollBack

\* The upgrade of a hash writes the row of its login.
LEMMA RehashWrites ==
    ASSUME TypeOK, Sound, NEW t \in Txns, Rehash(t)
    PROVE  \/ UNCHANGED <<account, lastSet>>
           \/ /\ WritesRow(t, call[t].user)
              /\ UNCHANGED lastSet
              /\ account'[call[t].user].hash.password = account[call[t].user].hash.password
              /\ account'[call[t].user].enabled = account[call[t].user].enabled
              /\ account'[call[t].user].admin = account[call[t].user].admin
<1> DEFINE c == call[t]
           row == account[c.user]
           new == [row EXCEPT !.hash = c.hash, !.version = @ + 1]
<1>1. c \in Calls /\ c.user \in Users /\ row \in Rows /\ step[t] = "rehash"
  BY DEF TypeOK, Calls, Rehash
<1>2. row.exists /\ c.hash.password = c.row.hash.password
  BY <1>1 DEF Sound, CallSound, KnowsRow
<1>3. CASE UNCHANGED <<account, lastSet>>
  BY <1>3
<1>4. CASE /\ row.hash = c.row.hash
           /\ row.version < MaxVersion
           /\ account' = [account EXCEPT ![c.user].hash = c.hash, ![c.user].version = @ + 1]
           /\ UNCHANGED lastSet
  <2>1. account' = [account EXCEPT ![c.user] = new]
    BY <1>1, <1>4 DEF TypeOK, Rows
  <2>2. row.version + 1 \in 0..MaxVersion
    BY <1>1, <1>4, AccountBounds DEF Rows
  <2>3. /\ new \in Rows /\ new.exists /\ new.version = row.version + 1 /\ new.hash = c.hash
        /\ new.enabled = row.enabled /\ new.admin = row.admin
    BY <1>1, <1>2, <2>2 DEF Rows, Calls
  <2>4. WritesRow(t, c.user)
    BY <1>1, <2>1, <2>3 DEF WritesRow, Rehash
  <2> QED BY <1>1, <1>2, <1>4, <2>1, <2>3, <2>4 DEF TypeOK
<1> QED
  BY <1>3, <1>4 DEF Rehash, RollBack

\* No other step writes a row.
LEMMA StepWrites ==
    ASSUME TypeOK, Sound, NEW t \in Txns, Act(t)
    PROVE  UNCHANGED account \/ WritesRow(t, call[t].user)
BY CommitWrites, RehashWrites
   DEF Act, BeginCreate, BeginEdit, BeginPassword, BeginSetup, BeginCommand, BeginLogin, Begin,
       LockState, LockUser, ScanAdministrators, Fail, RollBack

\* Accounts are never removed, their versions only grow, and a row that another
\* call has locked stays as it is.
LEMMA RowsGrow ==
    ASSUME TypeOK, Sound, NEW t \in Txns, Act(t), NEW u \in Users
    PROVE  /\ account'[u] \in Rows
           /\ account'[u].exists <=> account'[u].version # 0
           /\ account[u].exists => account'[u].exists
           /\ account'[u] = account[u] \/ account'[u].version > account[u].version
           /\ rowLock[u] \notin {Free, t} => account'[u] = account[u]
<1>1. account[u] \in Rows /\ (account[u].exists <=> account[u].version # 0) /\ account[u].version \in Nat
  BY AccountBounds DEF TypeOK, Rows
<1>2. CASE UNCHANGED account
  BY <1>1, <1>2
<1>3. CASE WritesRow(t, call[t].user)
  <2>1. PICK r \in Rows : /\ account' = [account EXCEPT ![call[t].user] = r]
                          /\ r.exists
                          /\ r.version = account[call[t].user].version + 1
    BY <1>3 DEF WritesRow
  <2>2. CASE u # call[t].user
    BY <1>1, <2>1, <2>2 DEF TypeOK
  <2>3. CASE u = call[t].user
    <3>1. account'[u] = r
      BY <2>1, <2>3 DEF TypeOK
    <3>2. account'[u].version # 0 /\ account'[u].version > account[u].version
      BY <1>1, <2>1, <2>3, <3>1
    <3> QED BY <1>3, <2>1, <2>3, <3>1, <3>2 DEF WritesRow
  <2> QED BY <2>2, <2>3
<1> QED
  BY <1>2, <1>3, StepWrites

\* A step of one call leaves the others where they are, with the locks they hold.
LEMMA OthersStay ==
    ASSUME TypeOK, NEW t \in Txns, Act(t), NEW s \in Txns, s # t
    PROVE  /\ step'[s] = step[s] /\ call'[s] = call[s] /\ scanned'[s] = scanned[s]
           /\ stateLock = s => stateLock' = s
           /\ \A u \in Users : rowLock[u] = s => rowLock'[u] = s
<1> USE AccountsAssumption DEF TypeOK, EndTransaction, RollBack, Begin
<1>1. CASE BeginCreate(t) \/ BeginEdit(t) \/ BeginPassword(t)
  BY <1>1 DEF BeginCreate, BeginEdit, BeginPassword
<1>2. CASE BeginSetup(t) \/ BeginCommand(t) \/ BeginLogin(t)
  BY <1>2 DEF BeginSetup, BeginCommand, BeginLogin
<1>3. CASE LockState(t)
  BY <1>3 DEF LockState
<1>4. CASE LockUser(t)
  BY <1>4 DEF LockUser, Calls
<1>5. CASE ScanAdministrators(t)
  BY <1>5 DEF ScanAdministrators
<1>6. CASE Commit(t) \/ Rehash(t) \/ Fail(t)
  BY <1>6 DEF Commit, Rehash, Fail
<1> QED
  BY <1>1, <1>2, <1>3, <1>4, <1>5, <1>6 DEF Act

-----------------------------------------------------------------------------
(* Types *)

\* A call begins with arguments of their types.
LEMMA BeginTyped ==
    ASSUME TypeOK, NEW t \in Txns,
           NEW op \in Operations, NEW u \in Users, NEW flag \in BOOLEAN, NEW hash \in Hashes,
           NEW row \in Rows, NEW first \in Steps, Begin(t, op, u, flag, hash, row, first)
    PROVE  TypeOK'
<1>1. calls' \in 0..MaxCalls
  BY AccountBounds DEF Begin, TypeOK
<1>2. [op |-> op, user |-> u, flag |-> flag, hash |-> hash, row |-> row] \in Calls
  BY DEF Calls
<1>3. call' \in [Txns -> Calls] /\ step' \in [Txns -> Steps]
  BY <1>2 DEF Begin, TypeOK
<1> QED
  BY <1>1, <1>3 DEF Begin, TypeOK

\* The end of a transaction keeps the shapes of what it releases.
LEMMA EndTyped ==
    ASSUME TypeOK, NEW t \in Txns, EndTransaction(t)
    PROVE  /\ step' \in [Txns -> Steps]
           /\ call' \in [Txns -> Calls]
           /\ scanned' \in [Txns -> SUBSET Users]
           /\ stateLock' \in Txns \cup {Free}
           /\ rowLock' \in [Users -> Txns \cup {Free}]
BY Placeholders DEF EndTransaction, TypeOK, Steps

\* A transaction that is rolled back leaves the tables as they were.
LEMMA RollBackTyped ==
    ASSUME TypeOK, NEW t \in Txns, RollBack(t)
    PROVE  TypeOK'
BY EndTyped DEF RollBack, TypeOK

\* Every step of a call keeps the shapes of rows, locks and calls.
LEMMA ActTyped ==
    ASSUME TypeOK, Sound, NEW t \in Txns, Act(t)
    PROVE  TypeOK'
<1>1. call[t] \in Calls /\ call[t].user \in Users /\ call[t].hash.password \in Passwords
  BY DEF TypeOK, Calls, Hashes
<1>2. \A u \in Users : account[u] \in Rows /\ account[u].hash.password \in Passwords
  BY DEF TypeOK, Rows, Hashes
<1>3. account' \in [Users -> Rows] /\ \A u \in Users : account'[u].exists <=> account'[u].version # 0
  <2>1. \A u \in Users : account'[u] \in Rows /\ (account'[u].exists <=> account'[u].version # 0)
    BY RowsGrow
  <2>2. CASE UNCHANGED account
    BY <2>1, <2>2 DEF TypeOK
  <2>3. CASE WritesRow(t, call[t].user)
    BY <2>1, <2>3, <1>1 DEF WritesRow, TypeOK
  <2> QED BY <2>2, <2>3, StepWrites
<1>4. CASE BeginCreate(t)
  BY <1>4, BeginTyped, HashTyped, Placeholders DEF BeginCreate, Operations, Steps
<1>5. CASE BeginEdit(t)
  BY <1>2, <1>5, BeginTyped, Placeholders DEF BeginEdit, Operations, Edits, Steps
<1>6. CASE BeginPassword(t)
  BY <1>6, BeginTyped, HashTyped, Placeholders DEF BeginPassword, Operations, Edits, Steps
<1>7. CASE BeginSetup(t) \/ BeginCommand(t)
  BY <1>7, BeginTyped, HashTyped, Placeholders DEF BeginSetup, BeginCommand, Operations, Steps
<1>8. CASE BeginLogin(t)
  <2>1. PICK u \in Users :
            Begin(t, "login", u, TRUE, HashPassword(account[u].hash.password), account[u], "rehash")
    BY <1>8 DEF BeginLogin
  <2> QED BY <1>2, <2>1, BeginTyped, HashTyped DEF Operations, Steps
<1>9. CASE LockState(t)
  <2>1. CASE RollBack(t)
    BY <2>1, RollBackTyped
  <2>2. CASE ~RollBack(t)
    BY <1>9, <2>2 DEF LockState, TypeOK, Steps
  <2> QED BY <2>1, <2>2
<1>10. CASE LockUser(t)
  <2>1. CASE RollBack(t)
    BY <2>1, RollBackTyped
  <2>2. CASE ~RollBack(t)
    BY <1>1, <1>10, <2>2 DEF LockUser, TypeOK, Steps
  <2> QED BY <2>1, <2>2
<1>11. CASE ScanAdministrators(t)
  <2>1. CASE RollBack(t)
    BY <2>1, RollBackTyped
  <2>2. NextScanned(t) \subseteq Users
    BY DEF NextScanned, Administrators
  <2>3. CASE ~RollBack(t)
    BY <1>11, <2>2, <2>3 DEF ScanAdministrators, TypeOK, Steps
  <2> QED BY <2>1, <2>3
<1>12. CASE Commit(t)
  <2>1. CASE RollBack(t)
    BY <2>1, RollBackTyped
  <2>2. CASE ~RollBack(t)
    <3>1. EndTransaction(t) /\ UNCHANGED <<calls, policy>> /\ initialized' \in BOOLEAN
      BY <1>12, <2>2 DEF Commit
    <3>2. lastSet' \in [Users -> Passwords] /\ setups' \subseteq Users
      BY <1>1, <1>12, <2>2 DEF Commit, TypeOK
    <3> QED BY <1>3, <3>1, <3>2, EndTyped DEF TypeOK
  <2> QED BY <2>1, <2>2
<1>13. CASE Rehash(t)
  <2>1. CASE RollBack(t)
    BY <2>1, RollBackTyped
  <2>2. CASE ~RollBack(t)
    BY <1>3, <1>13, <2>2, EndTyped DEF Rehash, TypeOK
  <2> QED BY <2>1, <2>2
<1>14. CASE Fail(t)
  BY <1>14, RollBackTyped DEF Fail
<1> QED
  BY <1>4, <1>5, <1>6, <1>7, <1>8, <1>9, <1>10, <1>11, <1>12, <1>13, <1>14 DEF Act

\* The types, with the deployment of new hash parameters.
LEMMA NextTyped == TypeOK /\ Sound /\ [Next]_vars => TypeOK'
<1> SUFFICES ASSUME TypeOK, Sound, [Next]_vars
             PROVE  TypeOK'
  OBVIOUS
<1>1. CASE ChangePolicy
  <2>1. policy' \in 0..MaxPolicy
    BY <1>1, AccountBounds DEF ChangePolicy, TypeOK
  <2> QED BY <1>1, <2>1 DEF ChangePolicy, TypeOK
<1>2. CASE UNCHANGED vars
  BY <1>2 DEF vars, TypeOK
<1> QED
  BY <1>1, <1>2, ActTyped, Steps1

\* An installation starts without accounts.
LEMMA InitTyped == Init => TypeOK
<1> SUFFICES ASSUME Init
             PROVE  TypeOK
  OBVIOUS
<1>1. calls \in 0..MaxCalls /\ policy \in 0..MaxPolicy
  BY AccountBounds DEF Init
<1>2. initialized \in BOOLEAN
  BY DEF Init
<1>3. SomeHash.password \in Passwords
  BY Placeholders DEF Hashes
<1> QED
  BY <1>1, <1>2, <1>3, Placeholders DEF Init, TypeOK, Steps

-----------------------------------------------------------------------------
(* The calls *)

\* The mark of the installation is set under the lock of its row, by setup or by
\* create-admin, and never removed.
LEMMA MarkedUnderLock ==
    ASSUME TypeOK, Sound, NEW t \in Txns, Act(t)
    PROVE  /\ initialized => initialized'
           /\ initialized' => initialized \/ stateLock = t
<1>1. CASE Commit(t)
  <2>1. call[t].op \in {"setup", "command"} => stateLock = t
    BY <1>1 DEF Commit, Sound, CallSound, HoldsLocks
  <2>2. UNCHANGED initialized \/ initialized' = (initialized \/ call[t].op \in {"setup", "command"})
    BY <1>1 DEF Commit, RollBack
  <2>3. initialized \in BOOLEAN
    BY DEF TypeOK
  <2>4. CASE UNCHANGED initialized
    BY <2>3, <2>4
  <2>5. CASE initialized' = (initialized \/ call[t].op \in {"setup", "command"})
    BY <2>1, <2>3, <2>5
  <2> QED BY <2>2, <2>4, <2>5
<1> QED
  BY <1>1 DEF Act, BeginCreate, BeginEdit, BeginPassword, BeginSetup, BeginCommand, BeginLogin, Begin,
              LockState, LockUser, ScanAdministrators, Rehash, Fail, RollBack

\* What a call knows and holds survives the steps of the others.
LEMMA OthersSound ==
    ASSUME TypeOK, Sound, NEW t \in Txns, Act(t), NEW s \in Txns, s # t
    PROVE  CallSound(s)'
<1>1. /\ step'[s] = step[s] /\ call'[s] = call[s] /\ scanned'[s] = scanned[s]
      /\ stateLock = s => stateLock' = s
      /\ \A u \in Users : rowLock[u] = s => rowLock'[u] = s
  BY OthersStay
<1>2. CallSound(s)
  BY DEF Sound
<1>3. \A u \in Users : rowLock[u] = s => account'[u] = account[u]
  BY AccountsAssumption, RowsGrow
<1>4. call[s].user \in Users /\ scanned[s] \subseteq Users
  BY DEF TypeOK, Calls
<1>5. RightStep(s)'
  BY <1>1, <1>2 DEF CallSound, RightStep
<1>6. HoldsLocks(s)'
  BY <1>1, <1>2, <1>3, <1>4 DEF CallSound, HoldsLocks, Administrators
<1>7. KnowsRow(s)'
  <2> DEFINE c == call[s]
             old == account[c.user]
             new == account'[c.user]
  <2>1. /\ old.exists => new.exists
        /\ new = old \/ new.version > old.version
    BY <1>4, RowsGrow
  <2>2. old.version \in Nat /\ new.version \in Nat /\ c.row.version \in Nat
    <3>1. old \in Rows /\ new \in Rows /\ c.row \in Rows
      BY <1>4, RowsGrow DEF TypeOK, Calls
    <3> QED BY <3>1, AccountBounds DEF Rows
  <2>3. step[s] # "idle" /\ c.op \in {"status", "profile"} =>
            c.row.version <= new.version /\ (c.row.version = new.version => c.row = new)
    BY <1>2, <2>1, <2>2 DEF CallSound, KnowsRow
  <2>4. step[s] \in {"scan", "write"} /\ c.op \in {"status", "profile"} => c.row = new
    BY <1>2, <1>3, <1>4 DEF CallSound, KnowsRow, HoldsLocks, Edits
  <2> QED BY <1>1, <1>2, <2>1, <2>3, <2>4 DEF CallSound, KnowsRow
<1>8. MayWrite(s)'
  <2>1. step[s] = "write" /\ call[s].op = "setup" => ~initialized'
    BY <1>2, MarkedUnderLock DEF CallSound, MayWrite, HoldsLocks
  <2>2. step[s] = "write" /\ Removes(call[s]) => account'[call[s].user] = account[call[s].user]
    BY <1>2, <1>3, <1>4 DEF CallSound, HoldsLocks, Removes, Edits
  <2> QED BY <1>1, <1>2, <1>4, <2>1, <2>2 DEF CallSound, MayWrite, Administrators, Removes
<1> QED
  BY <1>5, <1>6, <1>7, <1>8 DEF CallSound

\* A call that is over holds and knows nothing.
LEMMA EndedSound ==
    ASSUME TypeOK, NEW t \in Txns, EndTransaction(t)
    PROVE  CallSound(t)'
<1>1. step'[t] = "idle" /\ scanned'[t] = {}
  BY DEF EndTransaction, TypeOK
<1> QED
  BY <1>1 DEF CallSound, RightStep, HoldsLocks, KnowsRow, MayWrite

\* A call that begins has the row as it is, and no lock yet.
LEMMA BegunSound ==
    ASSUME TypeOK, Sound, NEW t \in Txns,
           NEW op, NEW u \in Users, NEW flag, NEW hash, NEW row, NEW first,
           Begin(t, op, u, flag, hash, row, first),
           \/ op = "create" /\ first = "write"
           \/ op \in {"status", "profile"} /\ first = "lock" /\ row = account[u] /\ row.exists
           \/ op = "password" /\ first = "lock" /\ account[u].exists
           \/ op \in {"setup", "command"} /\ first = "state"
           \/ /\ op = "login" /\ first = "rehash" /\ row = account[u] /\ row.exists
              /\ hash.password = row.hash.password
    PROVE  CallSound(t)'
<1>1. /\ step'[t] = first /\ scanned'[t] = scanned[t]
      /\ call'[t].op = op /\ call'[t].user = u /\ call'[t].hash = hash /\ call'[t].row = row
      /\ UNCHANGED <<account, rowLock, stateLock, initialized>>
  BY DEF Begin, TypeOK
<1>2. CallSound(t)
  BY DEF Sound
<1>3. RightStep(t)' /\ MayWrite(t)'
  BY <1>1 DEF RightStep, MayWrite, Removes, Edits
<1>4. HoldsLocks(t)'
  BY <1>1, <1>2 DEF CallSound, HoldsLocks, Administrators, Edits
<1>5. account[u].version <= account[u].version
  BY AccountBounds DEF TypeOK, Rows
<1>6. KnowsRow(t)'
  BY <1>1, <1>5 DEF KnowsRow, Edits
<1> QED
  BY <1>3, <1>4, <1>6 DEF CallSound

\* The installation row is locked, and setup has found it unmarked.
LEMMA StateLockedSound ==
    ASSUME TypeOK, Sound, NEW t \in Txns, LockState(t)
    PROVE  CallSound(t)'
<1>1. CASE RollBack(t)
  BY <1>1, EndedSound DEF RollBack
<1>2. CASE ~RollBack(t)
  <2>1. /\ call' = call /\ scanned' = scanned /\ stateLock' = t
        /\ UNCHANGED <<account, rowLock, initialized>>
        /\ step'[t] = IF call[t].op = "setup" THEN "write" ELSE "lock"
        /\ ~(call[t].op = "setup" /\ initialized)
        /\ step[t] = "state"
    BY <1>2 DEF LockState, TypeOK
  <2>2. CallSound(t) /\ call[t].op \in {"setup", "command"}
    BY <2>1 DEF Sound, CallSound, RightStep
  <2> QED
    BY <2>1, <2>2 DEF CallSound, RightStep, HoldsLocks, KnowsRow, MayWrite, Administrators, Removes, Edits
<1> QED
  BY <1>1, <1>2

\* The row is locked: an edit finds it as its caller has seen it, and writes at
\* once only if the row is no administrator it would take away.
LEMMA UserLockedSound ==
    ASSUME TypeOK, Sound, NEW t \in Txns, LockUser(t)
    PROVE  CallSound(t)'
<1>1. CASE RollBack(t)
  BY <1>1, EndedSound DEF RollBack
<1>2. CASE ~RollBack(t)
  <2> DEFINE c == call[t]
             row == account[c.user]
             last == Removes(c) /\ row.enabled /\ row.admin
  <2>1. /\ call' = call /\ scanned' = scanned
        /\ UNCHANGED <<account, stateLock, initialized>>
        /\ step[t] = "lock"
        /\ step'[t] = IF last THEN "scan" ELSE "write"
        /\ c.op \in {"status", "profile"} => row.version = c.row.version
        /\ rowLock' = IF row.exists THEN [rowLock EXCEPT ![c.user] = t] ELSE rowLock
    BY <1>2 DEF LockUser, TypeOK
  <2>2. CallSound(t) /\ c.op \in Edits \cup {"command"} /\ c.user \in Users
    BY <2>1 DEF Sound, CallSound, RightStep, TypeOK, Calls
  <2>3. c.op \in {"status", "profile"} => c.row = row
    BY <2>1, <2>2 DEF CallSound, KnowsRow
  <2>4. c.op \in Edits => row.exists /\ rowLock'[c.user] = t
    BY <2>1, <2>2 DEF CallSound, KnowsRow, TypeOK
  <2>5. \A u \in Users : rowLock[u] = t => rowLock'[u] = t
    BY <2>1 DEF TypeOK
  <2>6. RightStep(t)'
    BY <2>1, <2>2 DEF RightStep, Removes, Edits
  <2>7. HoldsLocks(t)'
    BY <2>1, <2>2, <2>4, <2>5 DEF CallSound, HoldsLocks, Administrators, TypeOK, Edits
  <2>8. KnowsRow(t)'
    BY <2>1, <2>2, <2>3, <2>4 DEF CallSound, KnowsRow
  <2>9. MayWrite(t)'
    BY <2>1, <2>2 DEF MayWrite, Administrators, Removes, Edits
  <2> QED BY <2>6, <2>7, <2>8, <2>9 DEF CallSound
<1> QED
  BY <1>1, <1>2

\* The search locks what it finds, and lets the write go on only beside another
\* administrator.
LEMMA ScannedSound ==
    ASSUME TypeOK, Sound, NEW t \in Txns, ScanAdministrators(t)
    PROVE  CallSound(t)'
<1> DEFINE c == call[t]
<1>1. CASE RollBack(t)
  BY <1>1, EndedSound DEF RollBack
<1>2. CallSound(t) /\ step[t] = "scan" /\ c.user \in Users
  BY DEF ScanAdministrators, Sound, TypeOK, Calls
<1>3. ASSUME NEW u \in NextScanned(t),
             rowLock' = [rowLock EXCEPT ![u] = t],
             scanned' = [scanned EXCEPT ![t] = @ \cup {u}],
             UNCHANGED <<account, initialized, stateLock, step, call>>
      PROVE  CallSound(t)'
  <2>1. u \in Administrators /\ u \in Users
    BY DEF NextScanned, Administrators
  <2>2. scanned'[t] = scanned[t] \cup {u} /\ rowLock'[u] = t
    BY <1>3, <2>1 DEF TypeOK
  <2>3. \A v \in Users : rowLock[v] = t => rowLock'[v] = t
    BY <1>3 DEF TypeOK
  <2>4. HoldsLocks(t)'
    <3>1. \A v \in scanned'[t] : rowLock'[v] = t /\ v \in Administrators'
      BY <1>2, <1>3, <2>1, <2>2, <2>3 DEF CallSound, HoldsLocks, Administrators, TypeOK
    <3>2. c.op \in Edits => rowLock'[c.user] = t
      BY <1>2, <2>3 DEF CallSound, HoldsLocks
    <3> QED BY <1>2, <1>3, <3>1, <3>2 DEF HoldsLocks
  <2> QED BY <1>2, <1>3, <2>4 DEF CallSound, RightStep, KnowsRow, MayWrite
<1>4. CASE /\ scanned[t] \ {c.user} # {}
           /\ step' = [step EXCEPT ![t] = "write"]
           /\ UNCHANGED <<account, initialized, stateLock, rowLock, call, scanned>>
  <2>1. step'[t] = "write" /\ c.op \in {"status", "profile"}
    BY <1>2, <1>4 DEF TypeOK, CallSound, RightStep
  <2> QED
    BY <1>2, <1>4, <2>1 DEF CallSound, RightStep, HoldsLocks, KnowsRow, MayWrite, Administrators, Edits
<1> QED
  BY <1>1, <1>3, <1>4 DEF ScanAdministrators

\* After every step of a call its locks, knowledge and decision fit together.
LEMMA ActorSound ==
    ASSUME TypeOK, Sound, NEW t \in Txns, Act(t)
    PROVE  CallSound(t)'
<1>1. CASE BeginCreate(t)
  BY <1>1, BegunSound DEF BeginCreate
<1>2. CASE BeginEdit(t)
  BY <1>2, BegunSound DEF BeginEdit
<1>3. CASE BeginPassword(t)
  BY <1>3, BegunSound DEF BeginPassword
<1>4. CASE BeginSetup(t) \/ BeginCommand(t)
  BY <1>4, BegunSound DEF BeginSetup, BeginCommand
<1>5. CASE BeginLogin(t)
  <2>1. PICK u \in Users :
            /\ account[u].exists
            /\ Begin(t, "login", u, TRUE, HashPassword(account[u].hash.password), account[u], "rehash")
    BY <1>5 DEF BeginLogin
  <2>2. HashPassword(account[u].hash.password).password = account[u].hash.password
    BY DEF HashPassword
  <2> QED BY <2>1, <2>2, BegunSound
<1>6. CASE Commit(t) \/ Rehash(t) \/ Fail(t)
  BY <1>6, EndedSound DEF Commit, Rehash, Fail, RollBack
<1> QED
  BY <1>1, <1>2, <1>3, <1>4, <1>5, <1>6, StateLockedSound, UserLockedSound, ScannedSound DEF Act

-----------------------------------------------------------------------------
(* Passwords, administrators and the mark of the installation *)

\* Only rows that exist are locked, and they stay.
LEMMA LocksOnRows ==
    ASSUME TypeOK, Sound, NEW t \in Txns, Act(t)
    PROVE  LockedExist'
<1> SUFFICES ASSUME NEW u \in Users, rowLock'[u] # Free
             PROVE  account'[u].exists
  BY DEF LockedExist
<1>1. rowLock[u] # Free \/ account[u].exists
  <2>1. call[t].user \in Users
    BY DEF TypeOK, Calls
  <2>2. CASE LockUser(t)
    BY <2>1, <2>2 DEF LockUser, RollBack, EndTransaction, TypeOK
  <2>3. CASE ScanAdministrators(t)
    BY <2>3 DEF ScanAdministrators, NextScanned, Administrators, RollBack, EndTransaction, TypeOK
  <2>4. CASE EndTransaction(t)
    BY <2>4 DEF EndTransaction, TypeOK
  <2>5. CASE UNCHANGED rowLock
    BY <2>5
  <2> QED
    BY <2>2, <2>3, <2>4, <2>5
       DEF Act, BeginCreate, BeginEdit, BeginPassword, BeginSetup, BeginCommand, BeginLogin, Begin,
           LockState, Commit, Rehash, Fail, RollBack
<1>2. account[u].exists
  BY <1>1 DEF Sound, LockedExist
<1> QED
  BY <1>2, RowsGrow

\* What a commit that is not rolled back writes, by operation.
LEMMA CommitEffect ==
    ASSUME TypeOK, Sound, NEW t \in Txns, Commit(t), ~RollBack(t)
    PROVE  LET c == call[t]
               old == account[c.user]
               new == account'[c.user]
           IN /\ c.user \in Users
              /\ \A v \in Users \ {c.user} : account'[v] = account[v] /\ lastSet'[v] = lastSet[v]
              /\ new.exists
              /\ c.op \in {"setup", "command"} => new.enabled /\ new.admin
              /\ c.op = "create" => ~old.exists
              /\ c.op \in Edits /\ ~Removes(c) =>
                     (old.enabled => new.enabled) /\ (old.admin => new.admin)
              /\ \/ new.hash.password = lastSet'[c.user]
                 \/ old.exists /\ new.hash = old.hash /\ lastSet'[c.user] = lastSet[c.user]
<1> DEFINE c == call[t]
           old == account[c.user]
           inserts == c.op \in {"create", "setup"} \/ (c.op = "command" /\ rowLock[c.user] # t)
<1>1. /\ c \in Calls /\ c.user \in Users /\ c.op \in Operations /\ old \in Rows
      /\ step[t] = "write" /\ c.op # "login"
  <2>1. step[t] = "write"
    BY DEF Commit
  <2> QED BY <2>1 DEF TypeOK, Calls, Sound, CallSound, RightStep
<1>2. CASE inserts
  <2>1. account' = [account EXCEPT ![c.user] = NewAccount(c)] /\ ~old.exists
    BY <1>2 DEF Commit
  <2>2. lastSet' = [lastSet EXCEPT ![c.user] = c.hash.password]
    BY <1>2 DEF Commit
  <2>3. account'[c.user] = NewAccount(c)
    BY <1>1, <2>1 DEF TypeOK
  <2>4. /\ \A v \in Users \ {c.user} : account'[v] = account[v] /\ lastSet'[v] = lastSet[v]
        /\ lastSet'[c.user] = c.hash.password
    BY <1>1, <2>1, <2>2 DEF TypeOK
  <2>5. c.op \notin Edits
    BY <1>2 DEF Edits
  <2> QED BY <1>1, <2>1, <2>3, <2>4, <2>5, NewAccountRow
<1>3. CASE ~inserts
  <2>1. account' = [account EXCEPT ![c.user] = Written(c, old)] /\ old.version < MaxVersion
    BY <1>3 DEF Commit
  <2>2. lastSet' = IF c.op \in {"password", "command"}
                   THEN [lastSet EXCEPT ![c.user] = c.hash.password] ELSE lastSet
    BY <1>3 DEF Commit
  <2>3. account'[c.user] = Written(c, old)
    BY <1>1, <2>1 DEF TypeOK
  <2>4. \A v \in Users \ {c.user} : account'[v] = account[v] /\ lastSet'[v] = lastSet[v]
    BY <1>1, <2>1, <2>2 DEF TypeOK
  <2>5. c.op \in Edits \/ (c.op = "command" /\ rowLock[c.user] = t)
    BY <1>1, <1>3 DEF Operations
  <2>6. old.exists
    BY <1>1, <2>5, AccountsAssumption DEF Sound, CallSound, KnowsRow, LockedExist
  <2>7. c.op \in {"password", "command"} => lastSet'[c.user] = c.hash.password
    BY <1>1, <2>2 DEF TypeOK
  <2>8. c.op \in {"status", "profile"} => lastSet' = lastSet
    BY <2>2
  <2> HIDE DEF c, old
  <2>9. CASE c.op = "status"
    BY <1>1, <2>1, <2>3, <2>4, <2>6, <2>8, <2>9, WrittenRow DEF Removes, Edits, c, old
  <2>10. CASE c.op = "profile"
    BY <1>1, <2>1, <2>3, <2>4, <2>6, <2>8, <2>10, WrittenRow DEF Removes, Edits, c, old
  <2>11. CASE c.op = "password"
    BY <1>1, <2>1, <2>3, <2>4, <2>6, <2>7, <2>11, WrittenRow DEF Removes, Edits, c, old
  <2>12. CASE c.op = "command"
    BY <1>1, <2>1, <2>3, <2>4, <2>6, <2>7, <2>12, WrittenRow DEF Removes, Edits, c, old
  <2> QED BY <2>5, <2>9, <2>10, <2>11, <2>12 DEF Edits
<1> QED
  BY <1>2, <1>3

\* The upgrade of a hash is for the password that was verified, and only while
\* the row still has the hash it was verified against.
LEMMA PasswordsKept ==
    ASSUME TypeOK, Sound, NEW t \in Txns, Act(t)
    PROVE  PasswordKept'
<1>1. PasswordKept
  BY DEF Sound
<1>2. CASE UNCHANGED <<account, lastSet>>
  BY <1>1, <1>2 DEF PasswordKept
<1>3. CASE Commit(t) /\ ~RollBack(t)
  <2> SUFFICES ASSUME NEW u \in Users, account'[u].exists
               PROVE  account'[u].hash.password = lastSet'[u]
    BY DEF PasswordKept
  <2>1. CASE u # call[t].user
    BY <1>1, <1>3, <2>1, CommitEffect DEF PasswordKept
  <2>2. CASE u = call[t].user
    BY <1>1, <1>3, <2>2, CommitEffect DEF PasswordKept
  <2> QED BY <2>1, <2>2
<1>4. CASE Rehash(t)
  <2>1. CASE WritesRow(t, call[t].user) /\ ~UNCHANGED <<account, lastSet>>
    <3> SUFFICES ASSUME NEW u \in Users, account'[u].exists
                 PROVE  account'[u].hash.password = lastSet'[u]
      BY DEF PasswordKept
    <3>1. call[t].user \in Users /\ account[call[t].user].exists
      BY <1>4 DEF TypeOK, Calls, Rehash, Sound, CallSound, KnowsRow
    <3>2. UNCHANGED lastSet /\ account'[call[t].user].hash.password = account[call[t].user].hash.password
      BY <1>4, <2>1, RehashWrites
    <3>3. CASE u # call[t].user
      BY <1>1, <2>1, <3>2, <3>3 DEF WritesRow, TypeOK, PasswordKept
    <3>4. CASE u = call[t].user
      BY <1>1, <3>1, <3>2, <3>4 DEF PasswordKept
    <3> QED BY <3>3, <3>4
  <2> QED BY <1>2, <1>4, <2>1, RehashWrites
<1> QED
  BY <1>2, <1>3, <1>4
     DEF Act, BeginCreate, BeginEdit, BeginPassword, BeginSetup, BeginCommand, BeginLogin, Begin,
         LockState, LockUser, ScanAdministrators, Commit, Fail, RollBack

\* Whoever takes an administrator away has locked another one, who is still one.
LEMMA AdministratorsRemain ==
    ASSUME TypeOK, Sound, NEW t \in Txns, Act(t)
    PROVE  AdministratorRemains'
<1> DEFINE c == call[t]
           row == account[c.user]
<1> HIDE DEF c, row
<1>0. AdministratorRemains /\ c.user \in Users
  BY DEF Sound, TypeOK, Calls, c
<1>1. CASE UNCHANGED <<account, initialized>>
  BY <1>0, <1>1 DEF AdministratorRemains, Administrators
<1>2. CASE Commit(t) /\ ~RollBack(t)
  <2>1. /\ \A v \in Users \ {c.user} : account'[v] = account[v]
        /\ account'[c.user].exists
        /\ c.op \in {"setup", "command"} => account'[c.user].enabled /\ account'[c.user].admin
        /\ c.op = "create" => ~row.exists
        /\ c.op \in Edits /\ ~Removes(c) =>
               (row.enabled => account'[c.user].enabled) /\ (row.admin => account'[c.user].admin)
    BY <1>2, CommitEffect DEF c, row
  <2>2. c.op \in Edits \cup {"create", "setup", "command"} /\ step[t] = "write"
    BY <1>2 DEF Commit, Sound, CallSound, RightStep, TypeOK, Calls, Operations, c
  <2>3. c.op \notin {"setup", "command"} => (initialized' => initialized)
    <3>1. initialized' = (initialized \/ c.op \in {"setup", "command"}) /\ initialized \in BOOLEAN
      BY <1>2 DEF Commit, TypeOK, c
    <3> QED BY <3>1
  <2>4. CASE c.op \in {"setup", "command"}
    BY <1>0, <2>1, <2>4 DEF AdministratorRemains, Administrators
  <2>5. CASE c.op = "create" \/ (c.op \in Edits /\ (~Removes(c) \/ c.user \notin Administrators))
    <3>1. Administrators \subseteq Administrators'
      BY <1>0, <2>1, <2>5 DEF Administrators, row
    <3>2. c.op \notin {"setup", "command"}
      BY <2>5 DEF Edits
    <3> QED BY <1>0, <2>3, <3>1, <3>2 DEF AdministratorRemains
  <2>6. CASE c.op \in Edits /\ Removes(c) /\ c.user \in Administrators
    <3>1. PICK v \in scanned[t] : v # c.user
      BY <2>2, <2>6 DEF Sound, CallSound, MayWrite, c
    <3>2. v \in Administrators
      BY <3>1 DEF Sound, CallSound, HoldsLocks
    <3>3. v \in Administrators'
      BY <2>1, <3>1, <3>2 DEF Administrators
    <3> QED BY <3>3 DEF AdministratorRemains
  <2> QED BY <2>2, <2>4, <2>5, <2>6
<1>3. CASE Rehash(t)
  <2>1. initialized' = initialized
    BY <1>3 DEF Rehash, RollBack
  <2>2. CASE UNCHANGED account
    BY <1>0, <2>1, <2>2 DEF AdministratorRemains, Administrators
  <2>3. CASE ~UNCHANGED account
    <3>1. /\ WritesRow(t, c.user)
          /\ account'[c.user].enabled = row.enabled /\ account'[c.user].admin = row.admin
      BY <1>3, <2>3, RehashWrites DEF c, row
    <3>2. \A v \in Users \ {c.user} : account'[v] = account[v]
      BY <3>1 DEF WritesRow, TypeOK
    <3>3. row.exists => account'[c.user].exists
      BY <1>0, RowsGrow DEF row
    <3>4. Administrators \subseteq Administrators'
      BY <1>0, <3>1, <3>2, <3>3 DEF Administrators, row
    <3> QED BY <1>0, <2>1, <3>4 DEF AdministratorRemains
  <2> QED BY <2>2, <2>3
<1> QED
  BY <1>1, <1>2, <1>3
     DEF Act, BeginCreate, BeginEdit, BeginPassword, BeginSetup, BeginCommand, BeginLogin, Begin,
         LockState, LockUser, ScanAdministrators, Commit, Fail, RollBack

\* Setup adds an account only to an installation without a mark, and marks it.
LEMMA SetupAlone ==
    ASSUME TypeOK, Sound, NEW t \in Txns, Act(t), setups' # setups
    PROVE  ~initialized /\ initialized' /\ setups = {}
<1>1. Commit(t) /\ call[t].op = "setup" /\ ~RollBack(t)
  BY DEF Act, BeginCreate, BeginEdit, BeginPassword, BeginSetup, BeginCommand, BeginLogin, Begin,
         LockState, LockUser, ScanAdministrators, Commit, Rehash, Fail, RollBack
<1>2. ~initialized
  BY <1>1 DEF Commit, Sound, CallSound, MayWrite
<1>3. initialized'
  <2>1. initialized' = (initialized \/ call[t].op \in {"setup", "command"})
    BY <1>1 DEF Commit
  <2> QED BY <1>1, <2>1
<1> QED
  BY <1>2, <1>3 DEF Sound, SetupMarks

-----------------------------------------------------------------------------
(* The theorems *)

\* Every step keeps the invariant.
LEMMA NextSound == TypeOK /\ Sound /\ [Next]_vars => Sound'
<1> SUFFICES ASSUME TypeOK, Sound, [Next]_vars
             PROVE  Sound'
  OBVIOUS
<1>1. ASSUME NEW t \in Txns, Act(t)
      PROVE  Sound'
  <2>1. \A s \in Txns : CallSound(s)'
    BY <1>1, ActorSound, OthersSound
  <2>2. SetupMarks'
    BY <1>1, SetupAlone, MarkedUnderLock DEF Sound, SetupMarks
  <2> QED BY <1>1, <2>1, <2>2, LocksOnRows, AdministratorsRemain, PasswordsKept DEF Sound
<1>2. CASE ChangePolicy \/ UNCHANGED vars
  BY <1>2 DEF ChangePolicy, vars, Sound, CallSound, RightStep, HoldsLocks, KnowsRow, MayWrite,
              LockedExist, SetupMarks, AdministratorRemains, PasswordKept, Administrators
<1> QED
  BY <1>1, <1>2, Steps1

\* Before the first call nothing is locked, set up or marked.
LEMMA InitSound == Init => Sound
<1> SUFFICES ASSUME Init
             PROVE  Sound
  OBVIOUS
<1>1. \A t \in Txns : CallSound(t)
  BY DEF Init, CallSound, RightStep, HoldsLocks, KnowsRow, MayWrite
<1>2. LockedExist /\ SetupMarks /\ AdministratorRemains
  BY DEF Init, LockedExist, SetupMarks, AdministratorRemains
<1>3. PasswordKept
  BY Placeholders DEF Init, PasswordKept
<1> QED
  BY <1>1, <1>2, <1>3 DEF Sound

\* Rows, locks and calls have their shapes, and what each call knows, holds and
\* has decided fits the tables, in every state.
THEOREM AccountsSound == Spec => [](TypeOK /\ Sound)
<1>1. Init => TypeOK /\ Sound
  BY InitTyped, InitSound
<1>2. TypeOK /\ Sound /\ [Next]_vars => (TypeOK /\ Sound)'
  BY NextTyped, NextSound
<1> QED BY <1>1, <1>2, PTL DEF Spec

\* Once the installation is set up there is an enabled system administrator,
\* however many of them disable or demote each other at once.
THEOREM AdministratorAlwaysRemains == Spec => []AdministratorRemains
<1>1. Sound => AdministratorRemains
  BY DEF Sound
<1> QED BY <1>1, AccountsSound, PTL

\* No login brings a replaced password back when it upgrades a hash.
THEOREM PasswordAlwaysKept == Spec => []PasswordKept
<1>1. Sound => PasswordKept
  BY DEF Sound
<1> QED BY <1>1, AccountsSound, PTL

\* The web setup succeeds at most once, and never after create-admin.
THEOREM SetupAtMostOnce == Spec => SetupOnce
<1>1. TypeOK /\ Sound /\ [Next]_vars => (setups' # setups => ~initialized /\ setups = {})
  <2> SUFFICES ASSUME TypeOK, Sound, [Next]_vars, setups' # setups
               PROVE  ~initialized /\ setups = {}
    OBVIOUS
  <2>1. ~UNCHANGED vars /\ ~ChangePolicy
    BY DEF vars, ChangePolicy
  <2> QED BY <2>1, SetupAlone, Steps1
<1>2. TypeOK /\ Sound /\ [Next]_vars => [setups' # setups => ~initialized /\ setups = {}]_vars
  BY <1>1
<1> QED BY <1>2, AccountsSound, PTL DEF Spec, SetupOnce

\* An edit is written only over the row its administrator has seen, whatever else
\* was written between the reading and the lock.
THEOREM EditsNeverLost == Spec => NoLostUpdate
<1> DEFINE Kept ==
        \A t \in Txns :
            (step[t] = "write" /\ call[t].op \in {"status", "profile"}) =>
                LET u == call[t].user
                IN account'[u] = account[u] \/ account[u] = call[t].row
<1>1. TypeOK /\ Sound => Kept
  BY DEF Sound, CallSound, KnowsRow
<1>2. TypeOK /\ Sound /\ [Next]_vars => [Kept]_vars
  BY <1>1
<1> QED BY <1>2, AccountsSound, PTL DEF Spec, NoLostUpdate
=============================================================================
