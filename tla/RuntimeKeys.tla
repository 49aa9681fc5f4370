----------------------------- MODULE RuntimeKeys -----------------------------
(***************************************************************************)
(* The credential of a project and the runtime reads that present it: the  *)
(* authentication in the transaction that reads, the usage time recorded   *)
(* after the commit, and the changes an administrator makes meanwhile      *)
(* (create, rotate, revoke, disable the environment).  What a read returns *)
(* is the subject of Publication, the rate limit before it of Gateway.     *)
(*                                                                         *)
(* Two rows are locked: the row of the key, and the project's row with its *)
(* environment's, which every statement here locks together.  Nothing of a *)
(* transaction is visible before its commit, so its writes are in the      *)
(* committing action.                                                      *)
(***************************************************************************)
EXTENDS Naturals, FiniteSets

CONSTANTS
    Managers,    \* management requests on the key
    Readers,     \* runtime requests
    None,        \* no holder
    MaxClock,    \* bound on the time
    MaxPublic    \* bound on the credentials generated

ASSUME KeyBounds ==
    /\ MaxClock \in Nat
    /\ MaxPublic \in Nat

ASSUME HolderAssumption ==
    /\ None \notin Managers \cup Readers
    /\ Managers \cap Readers = {}

VARIABLES
    clock,
    public, revoked, lastUsed,     \* project_api_keys: the key's row; public ids
                                   \* are numbered as generated, 0 is no row
    enabled,                       \* the environment
    generated,                     \* credentials generated so far
    keyRow, scopeRow,              \* the transactions that locked the rows
    mstep, change, seen, fresh,    \* management requests
    rstep, cred, now,              \* runtime requests
    read                           \* history: credentials of committed reads

row == <<public, revoked, lastUsed, enabled, generated>>

locks == <<keyRow, scopeRow>>

managers == <<mstep, change, seen, fresh>>

readers == <<rstep, cred, now>>

vars == <<clock, row, locks, managers, readers, read>>

Times == 0..MaxClock

\* last_used_at: 0 is null, t + 1 is time t.
Never == 0

\* A credential is named by its public id, and verifies against the row that has
\* it.  0 is any other: malformed, or with a wrong secret.
NoCredential == 0

Actors == Managers \cup Readers

TypeOK ==
    /\ clock \in Times
    /\ public \in 0..generated
    /\ revoked \in BOOLEAN
    /\ lastUsed \in 0..(clock + 1)
    /\ enabled \in BOOLEAN
    /\ generated \in 0..MaxPublic
    /\ keyRow \in Actors \cup {None}
    /\ scopeRow \in Actors \cup {None}
    /\ mstep \in [Managers -> {"idle", "lock"}]
    /\ change \in [Managers -> {"none", "create", "rotate", "revoke"}]
    /\ seen \in [Managers -> 0..generated]
    /\ fresh \in [Managers -> 0..generated]
    /\ rstep \in [Readers -> {"idle", "credential", "project", "read", "mark"}]
    /\ cred \in [Readers -> 0..generated]
    /\ now \in [Readers -> 0..clock]
    /\ read \subseteq 0..generated

Init ==
    /\ clock = 0
    /\ public = 0 /\ revoked = FALSE /\ lastUsed = Never
    /\ enabled \in BOOLEAN
    /\ generated = 0
    /\ keyRow = None /\ scopeRow = None
    /\ mstep = [m \in Managers |-> "idle"]
    /\ change = [m \in Managers |-> "none"]
    /\ seen = [m \in Managers |-> 0]
    /\ fresh = [m \in Managers |-> 0]
    /\ rstep = [r \in Readers |-> "idle"]
    /\ cred = [r \in Readers |-> NoCredential]
    /\ now = [r \in Readers |-> 0]
    /\ read = {}

Tick ==
    /\ clock < MaxClock
    /\ clock' = clock + 1
    /\ UNCHANGED <<row, locks, managers, readers, read>>

-----------------------------------------------------------------------------
(* The ends of requests.                                                   *)

\* A commit or a rollback leaves both rows.
Bug_ReadersKeepScope(a) ==
    /\ keyRow' = IF keyRow = a THEN None ELSE keyRow
    /\ scopeRow' = IF scopeRow = a /\ a \notin Readers THEN None ELSE scopeRow

EndTransaction(a) ==
    /\ keyRow' = IF keyRow = a THEN None ELSE keyRow
    /\ scopeRow' = IF scopeRow = a THEN None ELSE scopeRow

\* The answer is sent, and what the request held is gone.
Done(m) ==
    /\ mstep' = [mstep EXCEPT ![m] = "idle"]
    /\ change' = [change EXCEPT ![m] = "none"]
    /\ seen' = [seen EXCEPT ![m] = 0]
    /\ fresh' = [fresh EXCEPT ![m] = 0]

Answered(r) ==
    /\ rstep' = [rstep EXCEPT ![r] = "idle"]
    /\ cred' = [cred EXCEPT ![r] = NoCredential]
    /\ now' = [now EXCEPT ![r] = 0]

-----------------------------------------------------------------------------
(* The management requests.                                                *)

\* CreateProjectApiKey: a new credential is generated before the transaction.
Create(m) ==
    /\ mstep[m] = "idle"
    /\ public = 0
    /\ generated < MaxPublic
    /\ generated' = generated + 1
    /\ fresh' = [fresh EXCEPT ![m] = generated']
    /\ change' = [change EXCEPT ![m] = "create"]
    /\ mstep' = [mstep EXCEPT ![m] = "lock"]
    /\ UNCHANGED <<clock, public, revoked, lastUsed, enabled, locks, seen, readers, read>>

\* FindByID outside of the transaction; a revoked key is refused at once.
FindByID(m) ==
    /\ mstep[m] = "idle"
    /\ public # 0
    /\ ~revoked
    /\ seen' = [seen EXCEPT ![m] = public]
    /\ mstep' = [mstep EXCEPT ![m] = "lock"]

Rotate(m) ==
    /\ FindByID(m)
    /\ generated < MaxPublic
    /\ generated' = generated + 1
    /\ fresh' = [fresh EXCEPT ![m] = generated']
    /\ change' = [change EXCEPT ![m] = "rotate"]
    /\ UNCHANGED <<clock, public, revoked, lastUsed, enabled, locks, readers, read>>

Revoke(m) ==
    /\ FindByID(m)
    /\ change' = [change EXCEPT ![m] = "revoke"]
    /\ UNCHANGED <<clock, row, locks, fresh, readers, read>>

\* LockByID joins the key with its project and environment FOR UPDATE; the
\* database locks the rows in the order its plan reads them.  Create locks the
\* project and its environment only (lockScopedProject).
LockRow(m) ==
    /\ mstep[m] = "lock"
    /\ \/ /\ scopeRow = None
          /\ scopeRow' = m
          /\ UNCHANGED keyRow
       \/ /\ change[m] # "create"
          /\ keyRow = None
          /\ keyRow' = m
          /\ UNCHANGED scopeRow
    /\ UNCHANGED <<clock, row, managers, readers, read>>

RowsLocked(m) ==
    /\ mstep[m] = "lock"
    /\ scopeRow = m
    /\ change[m] = "create" \/ keyRow = m

\* The checks on the locked row: still unrevoked, still the key FindByID read.
Unchanged(m) == ~revoked /\ public = seen[m]

\* Write and audit in one transaction; the secret is answered after the commit.
CommitChange(m) ==
    /\ RowsLocked(m)
    /\ Done(m)
    /\ EndTransaction(m)
    /\ \/ /\ change[m] = "create"
          /\ public' = IF public = 0 THEN fresh[m] ELSE public  \* else a row of its own
          /\ UNCHANGED <<revoked, lastUsed>>
       \/ /\ change[m] = "rotate"
          /\ Unchanged(m)
          /\ public' = fresh[m]
          /\ lastUsed' = Never
          /\ UNCHANGED revoked
       \/ /\ change[m] = "revoke"
          /\ Unchanged(m)
          /\ revoked' = TRUE
          /\ UNCHANGED <<public, lastUsed>>
       \/ /\ change[m] # "create"
          /\ ~Unchanged(m)
          /\ UNCHANGED <<public, revoked, lastUsed>>
    /\ UNCHANGED <<clock, enabled, generated, readers, read>>

\* A statement, the audit or the commit fails, or the database picks the
\* transaction to end a deadlock.
RollBackChange(m) ==
    /\ mstep[m] = "lock"
    /\ Done(m)
    /\ EndTransaction(m)
    /\ UNCHANGED <<clock, row, readers, read>>

\* UpdateEnvironment turns the environment on or off under the lock of its row.
UpdateEnvironment ==
    /\ scopeRow = None
    /\ enabled' = ~enabled
    /\ UNCHANGED <<clock, public, revoked, lastUsed, generated, locks, managers, readers, read>>

-----------------------------------------------------------------------------
(* The read.                                                               *)

\* A request presents a credential, old or new.
Arrive(r, p) ==
    /\ rstep[r] = "idle"
    /\ cred' = [cred EXCEPT ![r] = p]
    /\ rstep' = [rstep EXCEPT ![r] = "credential"]
    /\ UNCHANGED <<clock, row, locks, managers, now, read>>

Verify(r) == cred[r] # NoCredential /\ cred[r] = public

\* Suffix("FOR UPDATE").
LockCredential(r) == keyRow' = r

\* LockRuntimeCredential waits for the row; the secret and the revocation are
\* checked on what it finds then.
LockRuntimeCredential(r) ==
    /\ rstep[r] = "credential"
    /\ Verify(r) => keyRow = None
    /\ \/ /\ Verify(r)
          /\ ~revoked
          /\ LockCredential(r)
          /\ rstep' = [rstep EXCEPT ![r] = "project"]
          /\ UNCHANGED <<cred, now>>
       \/ /\ ~Verify(r) \/ revoked
          /\ Answered(r)
          /\ UNCHANGED keyRow
    /\ UNCHANGED <<clock, row, scopeRow, managers, read>>

Bug_ProjectUnlocked(r) == UNCHANGED scopeRow

\* Suffix("FOR UPDATE").
LockScope(r) == scopeRow' = r

\* FindRuntimeProject: a project with an enabled environment.  One environment stands
\* for all of the project: enabled is whether some environment is.
FindRuntimeProject(r) ==
    /\ rstep[r] = "project"
    /\ scopeRow = None
    /\ enabled
    /\ LockScope(r)
    /\ rstep' = [rstep EXCEPT ![r] = "read"]
    /\ UNCHANGED <<clock, row, keyRow, managers, cred, now, read>>

\* The content is read and the transaction commits; then the clock is read.
CommitRead(r) ==
    /\ rstep[r] = "read"
    /\ EndTransaction(r)
    /\ rstep' = [rstep EXCEPT ![r] = "mark"]
    /\ now' = [now EXCEPT ![r] = clock]
    /\ read' = read \cup {cred[r]}
    /\ UNCHANGED <<clock, row, managers, cred>>

Bug_MarkRevoked(r) == cred[r] = public /\ lastUsed < now[r] + 1

Bug_MarkByKey(r) == ~revoked /\ lastUsed < now[r] + 1

\* The condition of the UPDATE.
Markable(r) == cred[r] = public /\ ~revoked /\ lastUsed < now[r] + 1

\* MarkUsed, a statement of its own; it waits for the row it changes.
MarkUsed(r) ==
    /\ rstep[r] = "mark"
    /\ Markable(r) => keyRow = None
    /\ lastUsed' = IF Markable(r) THEN now[r] + 1 ELSE lastUsed
    /\ Answered(r)
    /\ UNCHANGED <<clock, public, revoked, enabled, generated, locks, managers, read>>

\* The environment is disabled, the project is another one, the configuration
\* or its release is missing, the cache or the database fails, or a deadlock
\* is ended: the read answers with an error.
FailRead(r) ==
    /\ rstep[r] # "idle"
    /\ Answered(r)
    /\ EndTransaction(r)
    /\ UNCHANGED <<clock, row, managers, read>>

-----------------------------------------------------------------------------
Next ==
    \/ Tick
    \/ UpdateEnvironment
    \/ \E m \in Managers :
          \/ Create(m) \/ Rotate(m) \/ Revoke(m)
          \/ LockRow(m) \/ CommitChange(m) \/ RollBackChange(m)
    \/ \E r \in Readers :
          \/ \E p \in 0..generated : Arrive(r, p)
          \/ LockRuntimeCredential(r) \/ FindRuntimeProject(r)
          \/ CommitRead(r) \/ MarkUsed(r) \/ FailRead(r)

Spec == Init /\ [][Next]_vars

\* One transaction holds the key and waits for the project, another one holds
\* the project and waits for the key.
Deadlocked ==
    /\ keyRow # None /\ scopeRow # None /\ keyRow # scopeRow
    /\ \E m \in Managers : scopeRow = m /\ change[m] # "create"
    /\ \A r \in Readers : keyRow = r => rstep[r] = "project"

\* The database ends it at the cost of one of the two.
EndDeadlock ==
    /\ Deadlocked
    /\ \/ \E r \in Readers : keyRow = r /\ FailRead(r)
       \/ \E m \in Managers : m \in {keyRow, scopeRow} /\ RollBackChange(m)

\* Requests run on; the database grants a lock to those who wait for it in turn
\* and ends deadlocks; a read that finds its environment disabled is refused.
Fairness ==
    /\ \A m \in Managers : SF_vars(LockRow(m)) /\ WF_vars(CommitChange(m))
    /\ \A r \in Readers :
          /\ WF_vars(CommitRead(r))
          /\ SF_vars(LockRuntimeCredential(r) \/ FindRuntimeProject(r) \/ MarkUsed(r))
          /\ WF_vars(rstep[r] = "project" /\ ~enabled /\ FailRead(r))
    /\ WF_vars(EndDeadlock)

FairSpec == Spec /\ Fairness

-----------------------------------------------------------------------------
(* Properties.                                                             *)

\* A read commits only while its credential is the project's, with the right
\* secret, unrevoked, and the environment is enabled: a rotation, a revocation
\* or a disabling waits for it or is seen by it (LockRuntimeCredential).
ReadsAuthorised ==
    [][\A r \in Readers : rstep[r] = "read" /\ rstep'[r] = "mark" =>
          Verify(r) /\ ~revoked /\ enabled]_vars

\* A revoked key stays as it was: no late rotation revives it, no late read
\* records a use of it (apiKeyWriteScope, MarkUsed).
RevokedForGood ==
    [][revoked => revoked' /\ public' = public /\ lastUsed' = lastUsed]_vars

\* The usage time shown for a key is a use of its present credential, never of
\* the one a rotation replaced (MarkUsed selects by public id).
UsageIsOwn == lastUsed # Never => public \in read

\* Every request ends, however reads and changes wait for each other.
EveryCallEnds ==
    /\ \A m \in Managers : (mstep[m] # "idle") ~> (mstep[m] = "idle")
    /\ \A r \in Readers : (rstep[r] # "idle") ~> (rstep[r] = "idle")
=============================================================================
