------------------------- MODULE RuntimeKeysProofs -------------------------
(***************************************************************************)
(* Proofs about RuntimeKeys, for any number of management and runtime      *)
(* requests, credentials and times.                                        *)
(***************************************************************************)
EXTENDS RuntimeKeys, TLAPS

-----------------------------------------------------------------------------
(* Types *)

\* The empty table has the shapes of TypeOK.
LEMMA InitTyped == Init => TypeOK
<1>1. Init => enabled \in BOOLEAN /\ revoked \in BOOLEAN
  BY DEF Init
<1> QED
  BY <1>1, KeyBounds DEF Init, TypeOK, Times, Never, NoCredential

\* A transaction that ends leaves the locks to nobody or to whom they belong.
LEMMA EndTyped ==
    ASSUME TypeOK, NEW a \in Actors, EndTransaction(a)
    PROVE  keyRow' \in Actors \cup {None} /\ scopeRow' \in Actors \cup {None}
BY DEF EndTransaction, TypeOK

\* A management request that is answered is as if it had never come.
LEMMA DoneTyped ==
    ASSUME TypeOK, NEW m \in Managers, Done(m)
    PROVE  /\ mstep' \in [Managers -> {"idle", "lock"}]
           /\ change' \in [Managers -> {"none", "create", "rotate", "revoke"}]
           /\ seen' \in [Managers -> 0..generated]
           /\ fresh' \in [Managers -> 0..generated]
BY DEF Done, TypeOK

\* So is a runtime request.
LEMMA AnsweredTyped ==
    ASSUME TypeOK, NEW r \in Readers, Answered(r)
    PROVE  /\ rstep' \in [Readers -> {"idle", "credential", "project", "read", "mark"}]
           /\ cred' \in [Readers -> 0..generated]
           /\ now' \in [Readers -> 0..clock]
BY DEF Answered, TypeOK, NoCredential, Times

\* Every step of a request keeps the shapes of the rows, locks and requests.
LEMMA NextTyped == TypeOK /\ [Next]_vars => TypeOK'
<1> SUFFICES ASSUME TypeOK, [Next]_vars
             PROVE  TypeOK'
  OBVIOUS
<1> USE DEF row, locks, managers, readers
<1>0. generated \in Nat /\ clock \in Nat /\ lastUsed \in Nat
  BY KeyBounds DEF TypeOK, Times
<1>1. CASE Tick
  <2>1. clock' \in Times /\ 0..clock \subseteq 0..clock' /\ 0..(clock + 1) \subseteq 0..(clock' + 1)
    BY <1>0, <1>1, KeyBounds DEF Tick, Times
  <2> QED BY <1>1, <2>1 DEF Tick, TypeOK
<1>2. ASSUME NEW m \in Managers, Create(m) \/ Rotate(m)
      PROVE  TypeOK'
  <2>1. generated' = generated + 1 /\ generated' \in 0..MaxPublic
    BY <1>0, <1>2, KeyBounds DEF Create, Rotate, TypeOK
  <2>2. generated' \in 0..generated' /\ 0..generated \subseteq 0..generated'
    BY <1>0, <2>1
  <2>3. /\ fresh' \in [Managers -> 0..generated']
        /\ seen' \in [Managers -> 0..generated']
        /\ cred' \in [Readers -> 0..generated']
    BY <1>2, <2>2 DEF Create, Rotate, FindByID, TypeOK
  <2>4. public' \in 0..generated' /\ read' \subseteq 0..generated'
    BY <1>2, <2>2 DEF Create, Rotate, TypeOK
  <2> QED BY <1>2, <2>1, <2>3, <2>4 DEF Create, Rotate, FindByID, TypeOK
<1>3. ASSUME NEW m \in Managers, Revoke(m) \/ LockRow(m)
      PROVE  TypeOK'
  BY <1>3 DEF Revoke, FindByID, LockRow, TypeOK, Actors
<1>4. ASSUME NEW m \in Managers, CommitChange(m) \/ RollBackChange(m)
      PROVE  TypeOK'
  <2>1. Done(m) /\ EndTransaction(m) /\ m \in Actors
    BY <1>4 DEF CommitChange, RollBackChange, Actors
  <2>2. public' \in {public, fresh[m]} /\ lastUsed' \in {lastUsed, 0} /\ revoked' \in {revoked, TRUE}
    BY <1>4 DEF CommitChange, RollBackChange, Never
  <2>4. public' \in 0..generated /\ lastUsed' \in 0..(clock + 1)
    BY <1>0, <2>2 DEF TypeOK
  <2>5. revoked' \in BOOLEAN
    BY <2>2 DEF TypeOK
  <2>3. UNCHANGED <<clock, enabled, generated, readers, read>>
    BY <1>4 DEF CommitChange, RollBackChange
  <2> QED BY <2>1, <2>3, <2>4, <2>5, DoneTyped, EndTyped DEF TypeOK
<1>5. ASSUME NEW r \in Readers, NEW p \in 0..generated, Arrive(r, p)
      PROVE  TypeOK'
  BY <1>5 DEF Arrive, TypeOK
<1>6. ASSUME NEW r \in Readers, LockRuntimeCredential(r) \/ FindRuntimeProject(r)
      PROVE  TypeOK'
  <2>1. CASE Answered(r) /\ UNCHANGED <<keyRow, scopeRow, clock, row, managers, read>>
    BY <2>1, AnsweredTyped DEF TypeOK
  <2>2. CASE ~Answered(r)
    BY <1>6, <2>2 DEF LockRuntimeCredential, FindRuntimeProject, LockCredential, LockScope,
                      TypeOK, Actors
  <2> QED BY <1>6, <2>1, <2>2 DEF LockRuntimeCredential, FindRuntimeProject, LockCredential, LockScope,
                      TypeOK, Actors
<1>7. ASSUME NEW r \in Readers, CommitRead(r)
      PROVE  TypeOK'
  <2>1. clock \in 0..clock
    BY <1>0
  <2>2. now' \in [Readers -> 0..clock] /\ read' \subseteq 0..generated
    BY <1>7, <2>1 DEF CommitRead, TypeOK
  <2> QED BY <1>7, <2>2, EndTyped DEF CommitRead, TypeOK, Actors
<1>8. ASSUME NEW r \in Readers, MarkUsed(r)
      PROVE  TypeOK'
  <2>1. lastUsed' \in 0..(clock + 1)
    BY <1>0, <1>8 DEF MarkUsed, TypeOK
  <2> QED BY <1>8, <2>1, AnsweredTyped DEF MarkUsed, TypeOK
<1>9. ASSUME NEW r \in Readers, FailRead(r)
      PROVE  TypeOK'
  BY <1>9, AnsweredTyped, EndTyped DEF FailRead, TypeOK, Actors
<1>10. CASE UpdateEnvironment
  BY <1>10 DEF UpdateEnvironment, TypeOK
<1>11. CASE UNCHANGED vars
  BY <1>11 DEF vars, TypeOK
<1> QED
  BY <1>1, <1>2, <1>3, <1>4, <1>5, <1>6, <1>7, <1>8, <1>9, <1>10, <1>11 DEF Next

\* Rows, locks and requests keep their shapes, for any number of requests,
\* credentials and times.
THEOREM KeysTypeCorrect == Spec => []TypeOK
BY InitTyped, NextTyped, PTL DEF Spec

-----------------------------------------------------------------------------
(* The inductive invariant *)

\* A runtime read holds the key's row from the check of its credential to its
\* commit and the project's row while it reads; a management request holds rows
\* only inside its transaction, and the key's only to change it.
LocksHeld ==
    /\ \A r \in Readers : /\ keyRow = r <=> rstep[r] \in {"project", "read"}
                          /\ scopeRow = r <=> rstep[r] = "read"
    /\ \A m \in Managers : /\ keyRow = m => mstep[m] = "lock" /\ change[m] # "create"
                           /\ scopeRow = m => mstep[m] = "lock"

\* What a read has checked under its locks still holds, and a read that waits to
\* be recorded is one that was committed.
ChecksHold ==
    \A r \in Readers :
        /\ rstep[r] \in {"project", "read"} => Verify(r) /\ ~revoked
        /\ rstep[r] = "read" => enabled
        /\ rstep[r] = "mark" => cred[r] \in read /\ cred[r] # NoCredential

\* A credential under way was generated after the one its request has seen, and
\* revocations and uses belong to a key that exists.
RowsMakeSense ==
    /\ public = 0 => ~revoked /\ lastUsed = Never
    /\ \A m \in Managers :
          /\ change[m] \in {"create", "rotate"} => seen[m] < fresh[m]
          /\ change[m] \in {"rotate", "revoke"} => seen[m] # 0

\* The inductive invariant behind the theorems of this module.
Authorised == LocksHeld /\ ChecksHold /\ RowsMakeSense /\ UsageIsOwn

\* Nothing is locked, presented or recorded at the beginning.
LEMMA InitAuthorised == Init => Authorised
BY HolderAssumption DEF Init, Authorised, LocksHeld, ChecksHold, RowsMakeSense, UsageIsOwn, Never

\* The steps before a management request's transaction, and its locks: whoever
\* else holds a row keeps it.
LEMMA ManagersWait ==
    ASSUME TypeOK, Authorised,
           NEW m \in Managers, Create(m) \/ Rotate(m) \/ Revoke(m) \/ LockRow(m)
    PROVE  Authorised'
<1> USE DEF row, locks, managers, readers
<1>1. LocksHeld'
  <2>1. CASE Create(m) \/ Rotate(m) \/ Revoke(m)
    BY <2>1 DEF Create, Rotate, Revoke, FindByID, Authorised, LocksHeld, TypeOK
  <2>2. CASE LockRow(m)
    BY <2>2, HolderAssumption DEF LockRow, Authorised, LocksHeld, TypeOK
  <2> QED BY <2>1, <2>2
<1>2. ChecksHold'
  BY DEF Create, Rotate, Revoke, LockRow, Authorised, ChecksHold, Verify
<1>3. RowsMakeSense'
  <2>1. generated \in Nat /\ public \in 0..generated /\ seen[m] \in Nat
    BY KeyBounds DEF TypeOK
  <2>2. CASE Create(m)
    BY <2>2, <2>1 DEF Create, Authorised, RowsMakeSense, TypeOK
  <2>3. CASE Rotate(m)
    BY <2>3, <2>1 DEF Rotate, FindByID, Authorised, RowsMakeSense, TypeOK
  <2>4. CASE Revoke(m)
    BY <2>4, <2>1 DEF Revoke, FindByID, Authorised, RowsMakeSense, TypeOK
  <2>5. CASE LockRow(m)
    BY <2>5 DEF LockRow, Authorised, RowsMakeSense
  <2> QED BY <2>2, <2>3, <2>4, <2>5
<1>4. UsageIsOwn'
  BY DEF Create, Rotate, Revoke, LockRow, Authorised, UsageIsOwn
<1> QED BY <1>1, <1>2, <1>3, <1>4 DEF Authorised

\* The end of a management request: the rows it releases are its own.
LEMMA ManagerEnds ==
    ASSUME TypeOK, Authorised, NEW m \in Managers, Done(m), EndTransaction(m), UNCHANGED readers
    PROVE  LocksHeld'
<1>1. \A r \in Readers : /\ keyRow' = r <=> keyRow = r
                         /\ scopeRow' = r <=> scopeRow = r
  BY HolderAssumption DEF EndTransaction
<1>2. \A n \in Managers : /\ keyRow' = n => n # m /\ keyRow = n
                          /\ scopeRow' = n => n # m /\ scopeRow = n
  BY HolderAssumption DEF EndTransaction
<1>3. \A n \in Managers : n # m => mstep'[n] = mstep[n] /\ change'[n] = change[n]
  BY DEF Done, TypeOK
<1> QED BY <1>1, <1>2, <1>3 DEF Authorised, LocksHeld, readers

\* A change is committed with the rows locked: no read that has checked its
\* credential is between that check and its commit.
LEMMA ChangesExclude ==
    ASSUME TypeOK, Authorised, NEW m \in Managers, CommitChange(m)
    PROVE  Authorised'
<1> USE DEF row, locks, managers, readers
<1>1. LocksHeld'
  BY ManagerEnds DEF CommitChange
<1>2. ASSUME NEW r \in Readers, rstep[r] \in {"project", "read"}
      PROVE  public' = public /\ revoked' = revoked
  <2>1. keyRow # m /\ public # 0
    BY <1>2, HolderAssumption DEF Authorised, LocksHeld, ChecksHold, Verify, NoCredential
  <2>2. change[m] = "create"
    BY <2>1 DEF CommitChange, RowsLocked
  <2> QED BY <2>1, <2>2 DEF CommitChange
<1>3. ChecksHold'
  BY <1>2 DEF CommitChange, Authorised, ChecksHold, Verify
<1>4. RowsMakeSense'
  <2>1. \A n \in Managers : n # m =>
            change'[n] = change[n] /\ seen'[n] = seen[n] /\ fresh'[n] = fresh[n]
    BY DEF CommitChange, Done, TypeOK
  <2>2. change'[m] = "none"
    BY DEF CommitChange, Done, TypeOK
  <2>3. public' = 0 => ~revoked' /\ lastUsed' = Never
    BY DEF CommitChange, Unchanged, Authorised, RowsMakeSense
  <2> QED BY <2>1, <2>2, <2>3 DEF Authorised, RowsMakeSense
<1>5. UsageIsOwn'
  BY DEF CommitChange, Authorised, RowsMakeSense, UsageIsOwn
<1> QED BY <1>1, <1>3, <1>4, <1>5 DEF Authorised

\* A change that is rolled back leaves nothing.
LEMMA ChangesRollBack ==
    ASSUME TypeOK, Authorised, NEW m \in Managers, RollBackChange(m)
    PROVE  Authorised'
<1> USE DEF row, locks, managers, readers
<1>1. LocksHeld'
  BY ManagerEnds DEF RollBackChange
<1>2. ChecksHold' /\ UsageIsOwn'
  BY DEF RollBackChange, Authorised, ChecksHold, Verify, UsageIsOwn
<1>3. RowsMakeSense'
  BY DEF RollBackChange, Done, Authorised, RowsMakeSense, TypeOK
<1> QED BY <1>1, <1>2, <1>3 DEF Authorised

\* The end of a runtime request's transaction.
LEMMA ReaderEnds ==
    ASSUME TypeOK, Authorised, NEW r \in Readers, EndTransaction(r), UNCHANGED managers,
           NEW label \in {"idle", "mark"}, rstep' = [rstep EXCEPT ![r] = label]
    PROVE  LocksHeld'
<1>1. keyRow' # r /\ scopeRow' # r
  BY HolderAssumption DEF EndTransaction
<1>2. \A a \in Actors : a # r => /\ keyRow' = a <=> keyRow = a
                                 /\ scopeRow' = a <=> scopeRow = a
  BY HolderAssumption DEF EndTransaction, Actors
<1>3. \A q \in Readers : q # r => rstep'[q] = rstep[q]
  BY DEF TypeOK
<1>4. rstep'[r] \in {"idle", "mark"}
  BY DEF TypeOK
<1>5. \A m \in Managers : m # r
  BY HolderAssumption
<1> QED BY <1>1, <1>2, <1>3, <1>4, <1>5 DEF Authorised, LocksHeld, managers, Actors

\* The steps of a read: it checks under the key's lock, looks at the environment
\* under the project's, and is recorded only after its commit.
LEMMA ReadersCheck ==
    ASSUME TypeOK, Authorised, NEW r \in Readers,
           \/ \E p \in 0..generated : Arrive(r, p)
           \/ LockRuntimeCredential(r) \/ FindRuntimeProject(r)
    PROVE  Authorised'
<1> USE DEF row, locks, managers, readers
<1>1. LocksHeld'
  <2>1. CASE \E p \in 0..generated : Arrive(r, p)
    BY <2>1 DEF Arrive, Authorised, LocksHeld, TypeOK
  <2>2. CASE LockRuntimeCredential(r) /\ Verify(r) /\ ~revoked
    BY <2>2, HolderAssumption
       DEF LockRuntimeCredential, LockCredential, Authorised, LocksHeld, TypeOK
  <2>3. CASE LockRuntimeCredential(r) /\ (~Verify(r) \/ revoked)
    BY <2>3 DEF LockRuntimeCredential, Answered, Authorised, LocksHeld, TypeOK
  <2>4. CASE FindRuntimeProject(r)
    BY <2>4, HolderAssumption DEF FindRuntimeProject, LockScope, Authorised, LocksHeld, TypeOK
  <2> QED BY <2>1, <2>2, <2>3, <2>4
<1>2. ChecksHold'
  BY DEF Arrive, LockRuntimeCredential, FindRuntimeProject, Answered, Authorised, ChecksHold,
         Verify, TypeOK
<1>3. RowsMakeSense' /\ UsageIsOwn'
  BY DEF Arrive, LockRuntimeCredential, FindRuntimeProject, Authorised, RowsMakeSense, UsageIsOwn
<1> QED BY <1>1, <1>2, <1>3 DEF Authorised

\* The commit of a read, the record of its use, and its failures.
LEMMA ReadersEnd ==
    ASSUME TypeOK, Authorised, NEW r \in Readers, CommitRead(r) \/ MarkUsed(r) \/ FailRead(r)
    PROVE  Authorised'
<1> USE DEF row, locks, managers, readers
<1>1. LocksHeld'
  <2>1. CASE CommitRead(r) \/ FailRead(r)
    BY <2>1, ReaderEnds DEF CommitRead, FailRead, Answered
  <2>2. CASE MarkUsed(r)
    BY <2>2 DEF MarkUsed, Answered, Authorised, LocksHeld, TypeOK
  <2> QED BY <2>1, <2>2
<1>2. ChecksHold'
  BY DEF CommitRead, MarkUsed, FailRead, Answered, Authorised, ChecksHold, Verify, TypeOK
<1>3. RowsMakeSense'
  BY DEF CommitRead, MarkUsed, Markable, FailRead, Authorised, ChecksHold, RowsMakeSense,
         NoCredential
<1>4. UsageIsOwn'
  BY DEF CommitRead, MarkUsed, Markable, FailRead, Authorised, ChecksHold, UsageIsOwn
<1> QED BY <1>1, <1>2, <1>3, <1>4 DEF Authorised

\* The invariant is inductive.
LEMMA NextAuthorised == TypeOK /\ Authorised /\ [Next]_vars => Authorised'
<1> SUFFICES ASSUME TypeOK, Authorised, [Next]_vars
             PROVE  Authorised'
  OBVIOUS
<1> USE DEF row, locks, managers, readers
<1>1. CASE Tick \/ UNCHANGED vars
  BY <1>1 DEF Tick, vars, Authorised, LocksHeld, ChecksHold, RowsMakeSense, UsageIsOwn, Verify
<1>2. CASE UpdateEnvironment
  <2>1. \A r \in Readers : rstep[r] # "read"
    BY <1>2, HolderAssumption DEF UpdateEnvironment, Authorised, LocksHeld
  <2> QED BY <1>2, <2>1 DEF UpdateEnvironment, Authorised, LocksHeld, ChecksHold,
                            RowsMakeSense, UsageIsOwn, Verify
<1> QED
  BY <1>1, <1>2, ManagersWait, ChangesExclude, ChangesRollBack, ReadersCheck, ReadersEnd DEF Next

\* The inductive invariant holds in every reachable state: row locks belong to
\* open transactions, and what a read has checked holds until it commits.
THEOREM AlwaysAuthorised == Spec => [](TypeOK /\ Authorised)
BY InitTyped, NextTyped, InitAuthorised, NextAuthorised, PTL DEF Spec

-----------------------------------------------------------------------------
(* What follows from it *)

\* The recorded use of a key is always one of its present credential, however
\* late a read is recorded and however often the key is rotated meanwhile.
THEOREM UsageAlwaysOwn == Spec => []UsageIsOwn
<1>1. TypeOK /\ Authorised => UsageIsOwn
  BY DEF Authorised
<1> QED
  BY <1>1, AlwaysAuthorised, PTL

\* No read commits with a credential that was rotated away or revoked, or in an
\* environment that was disabled, since it was checked.
THEOREM ReadsAlwaysAuthorised == Spec => ReadsAuthorised
<1>1. Authorised => \A r \in Readers : rstep[r] = "read" => Verify(r) /\ ~revoked /\ enabled
  BY DEF Authorised, ChecksHold
<1>2. Authorised /\ [Next]_vars =>
        [\A r \in Readers : rstep[r] = "read" /\ rstep'[r] = "mark" =>
            Verify(r) /\ ~revoked /\ enabled]_vars
  BY <1>1
<1> QED
  BY <1>2, AlwaysAuthorised, PTL DEF Spec, ReadsAuthorised

\* The steps that write the key's row.
LEMMA RowWriters ==
    ASSUME [Next]_vars
    PROVE  \/ UNCHANGED <<public, revoked, lastUsed>>
           \/ \E m \in Managers : CommitChange(m)
           \/ \E r \in Readers : MarkUsed(r)
BY DEF Next, vars, row, locks, managers, readers, Tick, UpdateEnvironment, Create, Rotate,
       Revoke, LockRow, RollBackChange, Arrive, LockRuntimeCredential, FindRuntimeProject,
       CommitRead, FailRead

\* A revocation is final: no change begun before it and no use recorded after it
\* touches the row.
THEOREM RevocationIsFinal == Spec => RevokedForGood
<1>1. ASSUME Authorised, revoked, NEW m \in Managers, CommitChange(m)
      PROVE  revoked' /\ public' = public /\ lastUsed' = lastUsed
  BY <1>1 DEF CommitChange, Unchanged, Authorised, RowsMakeSense
<1>2. ASSUME revoked, NEW r \in Readers, MarkUsed(r)
      PROVE  revoked' /\ public' = public /\ lastUsed' = lastUsed
  BY <1>2 DEF MarkUsed, Markable
<1>3. Authorised /\ [Next]_vars =>
        [revoked => revoked' /\ public' = public /\ lastUsed' = lastUsed]_vars
  BY <1>1, <1>2, RowWriters
<1> QED
  BY <1>3, AlwaysAuthorised, PTL DEF Spec, RevokedForGood

\* A credential that was replaced is never the project's again: public ids only
\* grow, also when rotations overlap and the later one commits first.
NeverReinstated == [][public' # public => public' > public]_vars

\* Of two overlapping rotations the one that began from a replaced key changes
\* nothing (Unchanged), so the row only goes forward.
THEOREM CredentialsNeverReturn == Spec => NeverReinstated
<1>1. ASSUME TypeOK, Authorised, NEW m \in Managers, CommitChange(m), public' # public
      PROVE  public' > public
  <2>1. public \in Nat /\ fresh[m] \in Nat /\ seen[m] \in Nat
    BY <1>1, KeyBounds DEF TypeOK
  <2>2. change[m] \in {"create", "rotate"} /\ public' = fresh[m]
    BY <1>1 DEF CommitChange
  <2>3. public = 0 \/ public = seen[m]
    BY <1>1 DEF CommitChange, Unchanged
  <2>4. seen[m] < fresh[m]
    BY <1>1, <2>2 DEF Authorised, RowsMakeSense
  <2> QED BY <2>1, <2>2, <2>3, <2>4
<1>2. ASSUME NEW r \in Readers, MarkUsed(r)
      PROVE  public' = public
  BY <1>2 DEF MarkUsed
<1>3. TypeOK /\ Authorised /\ [Next]_vars => [public' # public => public' > public]_vars
  BY <1>1, <1>2, RowWriters
<1> QED
  BY <1>3, AlwaysAuthorised, PTL DEF Spec, NeverReinstated
=============================================================================
