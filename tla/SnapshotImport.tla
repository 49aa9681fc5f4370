--------------------------- MODULE SnapshotImport ---------------------------
(***************************************************************************)
(* Import of a snapshot from one project into another under an idempotency *)
(* key.  One request is one transaction: it claims the key by inserting an *)
(* import record, locks the source and then the target rows, writes, and   *)
(* completes the record; after the commit it reads the snapshot it         *)
(* answers with.  Nothing of a transaction is visible before its commit,   *)
(* so all writes are in the committing action and the steps before it are  *)
(* the locks it takes one after the other.                                 *)
(***************************************************************************)
EXTENDS Integers, FiniteSets

CONSTANTS
    Projects,   \* each with its environment, one configuration and its rows
    ImportKeys, \* idempotency keys of one user
    Requests,   \* concurrent calls of Import
    Payloads,   \* what validateAndHash hashes: source, target, strategy, ...
    SnapIds,    \* ids of the snapshots imports create
    None        \* no row, no holder, no answer

ASSUME ImportAssumption ==
    /\ Payloads \subseteq [src : Projects, dst : Projects, replace : BOOLEAN]
    /\ None \notin Requests
    /\ None \notin SnapIds
    /\ None \notin [claim : Projects \X ImportKeys, payload : Payloads]
    /\ None \notin [payload : Payloads, snap : SnapIds]

VARIABLES
    exists,             \* projects whose configuration is live
    live, current,      \* imported snapshots that are live; the current ones
    origin,             \* history: the claim and the payload that made a snapshot
    record,             \* committed import_records by claim
    claimHolder,        \* the transaction that inserted a claim
    owner,              \* the transaction that locked a project's rows
    pc, payload, importKey,  \* the requests
    answer              \* the snapshot a request found

importRows == <<exists, live, current, origin, record>>

locks == <<claimHolder, owner>>

requests == <<pc, payload, importKey, answer>>

importVars == <<importRows, locks, requests>>

\* The unique key (user, target environment, idempotency key).
Claims == Projects \X ImportKeys

Claim(r) == <<payload[r].dst, importKey[r]>>

FreeIds == {s \in SnapIds : origin[s] = None}

ImportOf(r) == [claim |-> Claim(r), payload |-> payload[r]]

ImportInit ==
    /\ exists \in SUBSET Projects
    /\ live = {} /\ current = {}
    /\ origin = [s \in SnapIds |-> None]
    /\ record = [ck \in Claims |-> None]
    /\ claimHolder = [ck \in Claims |-> None]
    /\ owner = [p \in Projects |-> None]
    /\ pc = [r \in Requests |-> "failed"]
    /\ payload \in [Requests -> Payloads]
    /\ importKey \in [Requests -> ImportKeys]
    /\ answer = [r \in Requests |-> None]

-----------------------------------------------------------------------------
InTransaction == {"source", "target", "write"}

Ended == {"served", "missing", "conflict", "failed"}

Goto(r, label) == pc' = [pc EXCEPT ![r] = label]

\* A request arrives, new or repeated by a client that got no answer.
Import(r, pl, k) ==
    /\ pc[r] \in Ended
    /\ Goto(r, "claim")
    /\ payload' = [payload EXCEPT ![r] = pl]
    /\ importKey' = [importKey EXCEPT ![r] = k]
    /\ answer' = [answer EXCEPT ![r] = None]
    /\ UNCHANGED <<importRows, locks>>

Bug_ClaimTaken(r) == FALSE

\* A committed record makes the insert fail on the unique key.
ClaimTaken(r) == record[Claim(r)] # None

\* insertClaim: it waits for a transaction that has inserted the same claim.
InsertClaim(r) ==
    /\ pc[r] = "claim"
    /\ claimHolder[Claim(r)] = None
    /\ ~ClaimTaken(r)
    /\ claimHolder' = [claimHolder EXCEPT ![Claim(r)] = r]
    /\ Goto(r, "source")
    /\ UNCHANGED <<importRows, owner, payload, importKey, answer>>

Bug_AnyRequestMatches(r) == TRUE

\* The request hash of claimImport.
SameRequest(r) == record[Claim(r)].payload = payload[r]

\* lockExistingClaim: replay, or refuse a key used for something else.
LockExistingClaim(r) ==
    /\ pc[r] = "claim"
    /\ claimHolder[Claim(r)] = None
    /\ ClaimTaken(r)
    /\ \/ /\ SameRequest(r)
          /\ Goto(r, "find")
          /\ answer' = [answer EXCEPT ![r] = record[Claim(r)].snap]
       \/ /\ ~SameRequest(r)
          /\ Goto(r, "conflict")
          /\ UNCHANGED answer
    /\ UNCHANGED <<importRows, locks, payload, importKey>>

\* snapshots.LockByID on the source: a join that locks down to the project.
LockSource(r) ==
    /\ pc[r] = "source"
    /\ payload[r].src \in exists
    /\ owner[payload[r].src] = None
    /\ owner' = [owner EXCEPT ![payload[r].src] = r]
    /\ Goto(r, "target")
    /\ UNCHANGED <<importRows, claimHolder, payload, importKey, answer>>

\* projects.LockByID on the target.
LockTarget(r) ==
    /\ pc[r] = "target"
    /\ owner[payload[r].dst] \in {None, r}
    /\ owner' = [owner EXCEPT ![payload[r].dst] = r]
    /\ Goto(r, "write")
    /\ UNCHANGED <<importRows, claimHolder, payload, importKey, answer>>

Bug_ClaimKept(r) ==
    /\ owner' = [p \in Projects |-> IF owner[p] = r THEN None ELSE owner[p]]
    /\ UNCHANGED claimHolder

\* The end of the transaction frees the claim and the rows.
Release(r) ==
    /\ claimHolder' = [ck \in Claims |-> IF claimHolder[ck] = r THEN None ELSE claimHolder[ck]]
    /\ owner' = [p \in Projects |-> IF owner[p] = r THEN None ELSE owner[p]]

\* writeConfig: FAIL creates the configuration, REPLACE needs it.
Writable(r) == payload[r].dst \in exists <=> payload[r].replace

\* The rest of prepareImport, completeImport and the commit.
Commit(r, s) ==
    LET p == payload[r].dst IN
    /\ pc[r] = "write"
    /\ Writable(r)
    /\ s \in FreeIds
    /\ exists' = exists \cup {p}
    /\ live' = live \cup {s}
    /\ current' = {t \in current : origin[t].payload.dst # p} \cup {s}
    /\ origin' = [origin EXCEPT ![s] = ImportOf(r)]
    /\ record' = [record EXCEPT ![Claim(r)] = [payload |-> payload[r], snap |-> s]]
    /\ Release(r)
    /\ answer' = [answer EXCEPT ![r] = s]
    /\ Goto(r, "find")
    /\ UNCHANGED <<payload, importKey>>

\* The transaction fails and leaves nothing: the source is missing or invalid,
\* the strategy does not fit the target, the database reports an error or picks
\* it as a deadlock victim, the context ends, or the process dies.
Rollback(r) ==
    /\ pc[r] \in InTransaction
    /\ Release(r)
    /\ Goto(r, "failed")
    /\ UNCHANGED <<importRows, payload, importKey, answer>>

\* A request that waits for its claim is cancelled, or the answer of a finished
\* one is lost.
Lose(r) ==
    /\ pc[r] \in {"claim", "find"}
    /\ Goto(r, "failed")
    /\ UNCHANGED <<importRows, locks, payload, importKey, answer>>

\* FindByID after the commit, in no transaction.
FindSnapshot(r) ==
    /\ pc[r] = "find"
    /\ Goto(r, IF answer[r] \in live THEN "served" ELSE "missing")
    /\ UNCHANGED <<importRows, locks, payload, importKey, answer>>

\* SnapshotLogic.Delete; no imported snapshot is released here.
Deletable(s) == s \in live /\ s \notin current

SnapshotDelete(s) ==
    /\ Deletable(s)
    /\ owner[origin[s].payload.dst] = None
    /\ live' = live \ {s}
    /\ UNCHANGED <<exists, current, origin, record, locks, requests>>

\* Transactions that hold their source and wait for each other's target.  The
\* database finds such a circle and rolls one of them back.
Circle(S) ==
    /\ S # {}
    /\ \A r \in S : pc[r] = "target" /\ owner[payload[r].dst] \in S \ {r}

DeadlockVictim(r) ==
    /\ \E S \in SUBSET Requests : r \in S /\ Circle(S)
    /\ Rollback(r)

\* What the database or the code refuses on its own: no configuration to import
\* from, or a target that does not fit the strategy.
Refuse(r) ==
    /\ \/ pc[r] = "source" /\ payload[r].src \notin exists
       \/ pc[r] = "write" /\ ~(Writable(r) /\ FreeIds # {})
    /\ Rollback(r)

-----------------------------------------------------------------------------
ImportNext ==
    \/ \E r \in Requests :
          \/ \E pl \in Payloads, k \in ImportKeys : Import(r, pl, k)
          \/ InsertClaim(r)
          \/ LockExistingClaim(r)
          \/ LockSource(r)
          \/ LockTarget(r)
          \/ \E s \in SnapIds : Commit(r, s)
          \/ Rollback(r)
          \/ FindSnapshot(r)
          \/ Lose(r)
    \/ \E s \in SnapIds : SnapshotDelete(s)

ImportSpec == ImportInit /\ [][ImportNext]_importVars

\* The step a request takes next.
Progress(r) ==
    \/ InsertClaim(r)
    \/ LockExistingClaim(r)
    \/ LockSource(r)
    \/ LockTarget(r)
    \/ \E s \in SnapIds : Commit(r, s)
    \/ Refuse(r)
    \/ DeadlockVictim(r)
    \/ FindSnapshot(r)

\* The goroutine of a request goes on when it can, a lock is granted to its
\* waiters in turn, and the database breaks circles of waiting transactions.
Fairness == \A r \in Requests : SF_importVars(Progress(r))

FairSpec == ImportSpec /\ Fairness

-----------------------------------------------------------------------------
(* Properties *)

Labels == {"claim", "find"} \cup InTransaction \cup Ended

\* The rows, the locks and the requests have the shapes the code gives them; a
\* current snapshot is live.
ImportTypeOK ==
    /\ exists \subseteq Projects
    /\ live \subseteq SnapIds
    /\ current \subseteq live
    /\ origin \in [SnapIds -> [claim : Claims, payload : Payloads] \cup {None}]
    /\ record \in [Claims -> [payload : Payloads, snap : SnapIds] \cup {None}]
    /\ claimHolder \in [Claims -> Requests \cup {None}]
    /\ owner \in [Projects -> Requests \cup {None}]
    /\ pc \in [Requests -> Labels]
    /\ payload \in [Requests -> Payloads]
    /\ importKey \in [Requests -> ImportKeys]
    /\ answer \in [Requests -> SnapIds \cup {None}]

\* A key imports once, whatever is repeated, raced, rolled back, or answered to
\* nobody: no two snapshots were ever made under the same claim.
ImportedOnce ==
    \A s, t \in SnapIds :
        origin[s] # None /\ origin[t] # None /\ origin[s].claim = origin[t].claim => s = t

\* A request is answered only with the snapshot its own key and its own payload
\* made: no answer of another request comes back under a reused key.
AnswersAreOwn ==
    \A r \in Requests :
        pc[r] \in {"find", "served"} => answer[r] # None /\ origin[answer[r]] = ImportOf(r)

\* Every request ends, also when imports in opposite directions wait for each
\* other's project.
EveryImportEnds == \A r \in Requests : pc[r] = "claim" ~> pc[r] \in Ended
=============================================================================
