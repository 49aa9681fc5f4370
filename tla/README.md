# Kirby in TLA+

Kirby is a configuration service. Administrators edit typed configurations in a
project, take snapshots of them, and publish one snapshot per configuration;
programs read the published content over a runtime endpoint with an API key.
This directory models the parts of the server (`server/internal`) whose
correctness depends on the order of steps: transactions, row locks, caches that
are written outside transactions, retries and repeated requests.

Conventions: a database transaction that locks the rows it decides on is one
action; what happens outside a transaction (cache traffic, cleanups after a
commit, the answer) is an action of its own. `Bug_X` operators are deliberate
defects that stand next to the definition they would replace; no specification
uses them. `PROJECT.json` maps every definition to its source lines.

## Inventory

| Component | State | Operations | Hard behaviour | Correct when |
|---|---|---|---|---|
| Configuration drafts (`logic/config.go`, `repository/config.go`) | row: type, value, edit version, runtime version, deleted mark | Create (restores a soft-deleted row), Update, UpdateValue, Delete | stale editors; restore resets the runtime version | a version identifies one content of the row |
| Snapshots (`logic/snapshot.go`, `repository/snapshot.go`) | rows: content, version, current mark, status | Create, Preview, Load (saves the draft first), Delete, SetCurrent | the automatic save may be skipped; SetCurrent touches a second row | one current snapshot, no draft lost, every snapshot loadable |
| Publication (`logic/publish.go`, `repository/snapshot_publish.go`) | status of the rows, runtime version | Publish, Unpublish, cleanup after the commit | crash before the cleanup, limit of the counter | one released snapshot, generation only grows |
| Runtime reads (`logic/runtime.go`) | content cache keyed by configuration and runtime version | Read | the cache is written inside the row lock but outside the transaction; a cancelled read's write may arrive late | a read is atomic |
| API keys (`logic/api_key.go`, `repository/project_api_key.go`) | key rows, time of last use | Create, Rotate, Revoke, use | changes during a read, uses recorded late, opposite lock orders | a read commits with a valid key; a revoked key stays as it was |
| Structures and enums (`logic/structure.go`, `logic/enum.go`, `entity/schema.go`) | definitions of a configuration | create, update, delete, reconcile at a load | two sound edits that are unsound together; restored rows | the definitions resolve, without cycles |
| Permission resolution (`permission/permission.go`, `repository/permission.go`) | permission cache keyed by account, environment and environment version | Resolve, Require, Invalidate | up to eight reads in no transaction | an answer was true at one instant; no stale entry is usable |
| Roles, memberships, environments (`logic/role.go`, `logic/environment.go`, their repositories) | role, grant, membership and environment rows | create, update, delete, assign | the version of every affected environment must advance | as above |
| Snapshot import (`logic/import.go`, `repository/import_record.go`) | import record per user, environment and idempotency key | Import | repeated and concurrent requests, lost answers, opposite lock orders | a key imports once; an answer belongs to its request |
| Accounts and setup (`logic/user.go`, `logic/setup.go`, `cmd/kirby/create_admin.go`) | account rows, mark of the installation | create, update, password, status, setup, create-admin, hash upgrade | two administrators remove each other; two first administrators | one enabled administrator remains; the setup runs once |
| Sessions (`logic/auth.go`, `repository/refresh_token.go`) | refresh tokens in chains, login counters | Login, Refresh, Logout | concurrent rotation, revocation in a second transaction | a session has one usable token; revoked stays revoked |
| Assets (`logic/asset.go`, `infra/object`) | temporary and public objects, sidecars | Presign, upload, Complete | a ticket used again during a completion, files in two steps | what is public is what was declared, and does not change |
| Schema installation, secrets (`model/schema.go`, `model/schema_lock.go`, `infra`) | tables, seed rows, advisory lock | install, validate, load secrets | several instances, death between two statements | nobody serves on half a schema |
| Cache store, rate limits (`infra/cache`, `middleware/rate_limit.go`) | entries with expiry, counters | Get, Set, Delete, Increment | window borders, times read before a wait | what passes in any stretch as long as a window is bounded |
| Transport (`server`, `middleware`, `api`) | none but the counters | filters, routes, validation, authentication | an operation missing in a selector; limits that differ | every handler is protected, inputs fit where they go |

The components meet in the database rows and in the cache. Every request passes
the transport; every administrative call then asks permission resolution and
runs its transaction; publication and import clean the content cache after their
commit; role and membership changes invalidate the permission cache after theirs.
Audit rows are written in the transaction of the change and are read by nobody.

## Modules

### `PublishedRegister` - what a published configuration promises

An atomic register: `gen`, `value`, and the requests in `reads`. `Write` is a
publication or a withdrawal and advances `gen` by one; `Serve` answers with the
present pair.

### `Publication` - drafts, snapshots, publication, runtime reads

One configuration. `state, draft, version, rv` are its row; `live, gone,
released, current, snapVersion, content` its snapshot rows; `cache` the content
cache by runtime version (the key also holds the configuration id); `cleanups`
the cache deletions that committed changes still owe; `pc, readGen, readValue`
the runtime requests; `lock` the request that holds the row. `draftSeen` and
`snapSeen` are what the pages of administrators show: an optimistic write carries
the version from there. `published` is history.

Data is abstracted to what decides anything: a `shape` stands for type,
structures and enums together, and `Valid` for `schema.ValidateConfig`. Every
editing operation is one transaction under the row lock and is one action;
`SnapshotLoad` contains the automatic save, both row updates and SetCurrent.
A read is the sequence `ReadBegin`, `FindRuntimeConfig` (takes the lock),
`CacheGet`, `FindReleasedSnapshot`, `CacheSet`, `ReadCommit`; `ReadCancel` ends
it anywhere and `LateSet` is a cache write that arrives after its request ended.
`Cleanup` may fail, `Expire` may happen at any time.

### `PermissionResolver` - roles, memberships and `Resolver.Resolve`

Role, grant, membership, environment and account rows, the permission `cache`,
the invalidations still owed (`stale`), and the calls of Resolve with one action
for each single read: account, environment, membership, cache or grants, and the
three reads again. `witness` is history: what the account was entitled to at the
instant its row was last read. `since` is the environment version at the start.

### `SnapshotImport` - the idempotent import

The claim under the unique key of `import_records` (`claimHolder` while the inserting
transaction is open, `record` when committed), the locks on source and target
(`owner`), the imported snapshots and which claim made them (`origin`). The
database makes an insert with a taken key wait for the end of the inserting
transaction, and rolls back one of a circle of waiting transactions
(`DeadlockVictim`); both are behaviours of the database, not of `server/`.
What an import does to a configuration that is edited, published and read at the
same time is `ImportReplace` and `ImportCreate` of `Publication`.

### `RefreshSession` - login, refresh, reuse, logout

The sessions of one account. `status` and `session` are the token rows (a
consumed token is `replaced`, one that a revocation ended is `revoked`),
`rowLock` and `userLock` the row locks, `pc, goal, token, scan` the calls, and
`ended` is history: the sessions a revocation was to end. A login is the password
check in no transaction, the transaction of `CreateSession`, and the deletion of
the login counter, whose failure takes the session back. A refresh locks its
token's row, inserts the successor and consumes the token, then looks at the
account again. The reuse of a consumed token revokes the session in a
transaction that is rolled back (`RejectReplay`) and then again in one of its
own. A revocation is one UPDATE, with its start (`Scan`) and its end
(`RevokeCommit`, which waits for rows others hold). `Fail` ends a call anywhere.

`StatementSnapshot` tells the two supported databases apart: whether an UPDATE
that waited for a transaction goes on to see the rows that transaction inserted.
InnoDB's locking scan does; PostgreSQL at READ COMMITTED, which is what
`infra/db.go` leaves in force, rechecks only the rows it had found at its start.
Passwords, digests, the access token and the counting of attempts are left out.

### `Accounts` - setup, create-admin, accounts, hash upgrades

`account` are the rows of users, `initialized` and `stateLock` the installation
row, `rowLock` the locks on accounts. A call begins with what it checks outside
its transaction (`RequireSystem`, the version the page shows, the verified hash)
and then locks row by row: `LockState`, `LockUser`, `ScanAdministrators` (two
enabled administrators by id, one at a time), and writes in `Commit`. `Rehash` is
the conditional update of a login. `Fail` ends a call anywhere, the victim of a
deadlock included: two administrators who demote each other can wait in a circle.

### `SchemaRules` and `ConfigSchema` - structures, enums, type and value

`SchemaRules` has the operators of `entity/schema.go`: the depth-first search for
cycles, the default document of a type, the validation of a document, the
structures an editor offers. They are recursive functions over sets; a document
is the set of its paths. Of the base types `BaseTypes` has one of each kind that
`defaultValue` and `validateBaseValue` treat alike: text, number, boolean, a date
(which stands for times too) and a range; a scalar is empty or filled in, and an
empty date or range is refused. `ConfigSchema` has the rows with their deleted ones, the
type and value of the configuration, a loadable snapshot, and editors that begin
from a page, take the lock of the configuration, read everything again and write
or roll back.

### `AssetUpload` - the upload of one object

For S3 the temporary and the public object, for local storage the linked file and
its sidecar, which exists before it is written (`partly`). A content is the number
of its upload, which is what an ETag tells apart; `good` are the ones as declared.
A completion is the sequence of its requests to the provider. A local upload whose
sidecar fails undoes itself in two steps, the sidecar and then the object
(`RemoveObject`), and either may fail. `Restart` ends all calls and, with local
storage, invalidates the tickets. `validatePublication`, which looks at the policy
again after a completion, is left out: the policy is fixed while a process runs and
has accepted the same declaration at `Presign`.

### `SchemaInstall` - processes that start on one database

Tables in file order, the row of secrets, the advisory lock, and for each process
its `stage`. CREATE TABLE takes effect at once, the seed rows and the secrets with
their COMMIT. A statement, a provider or the process may fail at any stage.

### `RuntimeKeys` - one key of a project, and reads with it

The key's row with its last use, the environment's switch, and the two locks: the
key's row, and the project's with its environment's. `LockByID` joins the three
tables, so that the order of its locks is the plan's; a read takes the key first.
`EndDeadlock` is the database's. `MarkUsed` runs after the commit of the read.
`enabled` is whether some environment of the project is enabled, which is what
`FindRuntimeProject` asks for. The content that is read is the subject of
`Publication`.

### `RequestRules`, `Services`, `Gateway` - the way to a handler

`RequestRules` has one operator for each request message: a record from its fields
to what `Validate` asks of them. `Services` has the routes in the order they are
registered, and which columns a handler stores a field in. `Gateway` sends every
operation over HTTP with and without `/api` and over gRPC, with one field at the
bounds of its rule, with and without blanks around it where the rule is only about
length, through filters, router, validation, rate limits and authentication to
`Handle`, and has the clock and the counters of the cache store. An entry of the map
for a message covers the generated code of that message, the error that a refused
field becomes included; the model has of it whether the field is refused.
The memory store reads the time before it takes its lock: `MaxWait` is how long a
request may wait in between, at most a window; with the Redis store, which counts
with its own time, it is 0.
A client address or credential is one identity: counters of different identities
never meet.

## Runs

| Run | Instance | Shows |
|---|---|---|
| `publication_read` | 2 readers, 2 snapshots, 2 values, 2 generations | `TypeOK`, `OneReleased`, `CacheFaithful`, `ReadsAreAtomic` |
| `publication_edit` | 3 snapshots, 2 shapes, 2 values, 1 page, edit versions to 3 | `OneCurrent`, `SnapshotsUsable`, `FreshViews`, `LoadKeepsDraft`, `GenerationMonotone` |
| `permission_resolution` | 1 account, 1 environment, 2 roles, 3 attempts, versions to 4 | `TypeOK`, `AnswersWereTrue`, `BusyMeansChanged`, `CacheCoherent` |
| `import_claims` | 2 requests, 2 keys, 2 projects, both directions, 3 snapshots, under fairness | `ImportedOnce`, `AnswersAreOwn`, `EveryImportEnds` |
| `refresh_sessions` | 2 calls, 3 tokens, late rows seen, under fairness | `OneActive`, `SessionsEnd`, `DisabledHasNoSession`, `EveryCallEnds` |
| `refresh_reuse` | the finding: 2 calls, 3 tokens, late rows not seen | `ReuseEndsSession` is violated |
| `accounts` | 2 accounts, 2 calls at a time, 4 in all, 2 passwords, 1 change of hash parameters | `AdministratorRemains`, `PasswordKept`, `SetupOnce`, `NoLostUpdate` |
| `config_schema` | 2 editors, 3 edits, 2 structures, an enum, texts and dates from 3 beginnings | `SchemaSound`, `ChoicesExact`, `NoLostEdit`, `LoadRestores` |
| `assets` | both drivers, 3 uploads of one ticket, 2 completions at a time, 3 in all | `PublishedAsDeclared`, `UploadKept`, `PublishedImmutable` |
| `schema_install` | 2 servers and a command, 2 starts each, 3 tables, users the second, under fairness | `ReadyIsInstalled`, `EveryStartEnds` |
| `runtime_keys` | 2 changes and 2 reads at a time, 2 credentials, 2 times, under fairness | `UsageIsOwn`, `ReadsAuthorised`, `RevokedForGood`, `EveryCallEnds` |
| `gateway` | all 60 operations, 3 requests of 2 clients, limit 1, a window of 2, waits up to 1, 3 times | `QuotaHolds`, `Protected`, `InputsFit` |

`TypeOK` of each module states the shapes of its variables; it is a run's property
where it also says that the generation keeps its limit (`Publication`) and that no
deleted role is assigned (`PermissionResolver`), and a theorem for every component.

What they show, beyond the names: two administrators who remove each other cannot
both succeed, because the search for another administrator locks the rows it
counts. A hash upgrade cannot bring a former password back, because it applies only
to the hash that was verified. A page of a definition that was deleted and created
again cannot overwrite it, because a restored row goes on counting. A public S3
object never changes and is never made of another content than the validated one,
because of If-Match and If-None-Match. A completion that found its upload sound never
loses it, because the temporary object goes last; but a completion that found its
upload unsound deletes by key, and takes a sound upload with it that replaced the
unsound one in between (`UploadKept` says that this is the only way). An installation that died
halfway leaves a database on which every later start fails, and none serves. A
fixed window lets up to 2 Limit - 1 requests pass in a stretch as long as the
window; where attempts count with a time they read before they waited for the
store, up to 3 Limit - 1, because such an attempt can start a window that lies in
the past, and no more (the run reaches the bound for a limit of one, the proof has it
for every limit). Every limit on text is at most that of its column, and a key, a
password and the first administrator's name that were accepted once are accepted where
they are used.

Bounds. `MaxRuntime` stands for `math.MaxInt64`: the code refuses to pass it, and
the runs reach it. `MaxVersion` is a bound of the models; the largest histories the
properties need are create, delete, restore (3 edit versions) and create, assign,
and one change per attempt (4 environment versions with 3 attempts reach `busy`).
The numbers of calls, edits, uploads, starts and requests are bounds too: a hazard
here is one call against another, and the third or fourth one meets what they left.
`MaxWait` is no more than a window, which a wait behind other increments of a map
does not approach. Two snapshots are enough to retire one by the other, the third
of `publication_edit` is an automatic save. One call of Resolve at a time is enough
to fill the cache and to meet its own late entries; the proofs cover any number, and
a role that two environments share. Three edits from a chain of definitions are
enough for a cycle, for a dangling reference, and for a deletion with a restoration
under a page. `TableCount` is 3: one table before users, users, and one after it,
which the inspection tells apart. `FieldTypes` bounds the types the edits of
`config_schema` give a field; the definitions it starts from have a date.
`Unbounded` is larger than every length in a rule.
Symmetry is used only where no temporal property with fairness is checked.

Fairness. A goroutine whose next step can run takes it (weak fairness). A row lock
or a unique key is granted to its waiters in turn (strong fairness on the steps that
acquire one), which both supported databases do. The database ends circles of
waiting transactions. Nothing is assumed about clients, expiry, cleanups or
failures. In `SchemaInstall` weak fairness is enough: starts are finitely many, so
the lock is free in the end. In `RuntimeKeys` a lock is strong, the rest weak, and a
read that finds its environment disabled is refused. In `SnapshotImport` and
`RefreshSession` this is one strong condition per call on its next step, whatever
that is (`Progress`): a call that waits for a row is granted it in the end, and
every other step stays enabled until it is taken. A circle in `import_claims` is two
imports in opposite directions. In `RefreshSession` logins, whose only wait is for
the account row, are left out, and a call that finds no free token id, which only
the bound on `Tokens` causes, fails. Three tokens are a chain with a consumed, a
present and a next token; two calls are one that rotates and one that revokes.

## Findings

`refresh_reuse`: `docs/security.md` says "Reuse revokes the session." On PostgreSQL
the revoking UPDATE does not see the token that a concurrent refresh has inserted
but not committed when the UPDATE starts. It waits for the row of the old token,
finds it consumed, and commits; the new token stays usable although the reuse was
answered as one that ended the session. On a database that sees late rows
`SessionsEnd` holds and is proved.

Two differences to `docs/import-export.md` are in the actions of `SnapshotImport`
and have no run of their own. Line 43 says that repeating a request "returns the
original successful snapshot"; `Import` looks the recorded snapshot up among the
live ones after its transaction (`FindSnapshot`), so once the snapshot was deleted
the repetition is answered with "not found", for good. Line 45 says that a
concurrent request with the same key "also fails"; the second insert waits for the
first transaction and then replays its result (`LockExistingClaim`).

Four observations are not contradicted by a document of the repository, or only by a
comment, and have no run either:

- `CreateUser` stores the username as it is given (`logic/user.go:86`), `Login` looks
  for it without the blanks around it (`service/auth.go:72`, `logic/auth.go:103`). An
  account whose name begins or ends with a blank can never log in. The setup refuses
  such a name (`validateInitialAdmin`), and `InputsFit` is about its account only.
- The default of a date or time is `""` and that of a range is `[]`
  (`entity/schema.go:395`), and `validateBaseValue` refuses both: a document that is
  all defaults cannot be saved if a date or a range is reachable from its type.
  `ConfigLogic.Update` (`logic/config.go:135`) only asks whether a default exists.
- `DeleteIncomplete` and the cleanup of a completion delete the temporary S3 object by
  its key (`infra/object/s3.go:250`, `s3.go:319`), whatever was uploaded since.
- The comment of `HTTPAPIKey` (`middleware/runtime_auth.go:28`) says that ambiguous
  credentials are refused; over HTTP the first of several keys is taken, only gRPC
  refuses them.

## Proofs

TLAPS proves these for every value of the constants, from named assumptions that
TLC evaluates in the runs: `ConstantsAssumption`, `ResolverAssumption`,
`ImportAssumption`, `SessionAssumption`, `InstallAssumption`, `HolderAssumption`,
`AccountsAssumption`, `OwnerAssumption` and `EditorsAssumption` (the "nothing" values are no members of
the sets they stand beside; there is a username and a password, and the owner is a
scope), `TableAssumption`,
`IdsAssumption`, `KeyBounds`, `UploadBounds`, `AccountBounds`, `EditBounds`, `UnboundedAssumption` and
`GatewayAssumption` (ranges of the bounds), `BaseTypesAssumption` (which base types
there are), `SchemaNames` (structures, enums and base types are told apart by their
keys, and the structure keys are finitely many) and
`SeedsAssumption` (the definitions a run starts from have the shape and the unique
keys the tables enforce). The invariants were model-checked on the instances of the
runs before they were proved.

`PublicationProofs`. `TypeCorrect` is inductive on its own. `CacheFaithful` is
not: a late write is harmless only because the value in flight is what its
generation published, a restored row's generation zero is harmless only because
a configuration that was ever published keeps a live current snapshot and can
therefore not be deleted. `Consistent` says all of that (`ReadersConsistent`,
`HistoryMatches`, `NeverUndone`, `OneCurrent`, `OneReleased`), and
`AlwaysConsistent` proves it invariant. From it follow `CacheAlwaysFaithful`,
`GenerationNeverFalls`, and `ReadsImplementRegister`: with `published[rv]` as the
register's value, `Publish` and `Unpublish` are its writes, `ReadCommit` its
`Serve`, and every other step a stutter or a begin or end of a request.
`NeverTwoReleased` and `AlwaysOneCurrent` are parts of `Consistent`.
`SnapshotsAlwaysUsable` is inductive with the types: each of the four ways to make
a snapshot validates what it stores. `LoadNeverLosesDraft` follows the two cases of
the automatic save. `ViewsAlwaysFresh` needs more than it says: `DraftPages` and
`SnapshotPages` add that no page is ahead of its row, and that the id of a row that
was seen is never given to another one, so that equal versions mean equal rows also
after a deletion and a restoration.

`PermissionResolverProofs`. `Coherent` adds to `CacheCoherent` that no call knows
a version the environment has not had, that what a call has loaded is right if
its version is still the present one (`EvidenceHolds`), and that the witness
agrees once the versions are confirmed (`WitnessHolds`). The lemma
`GrantsAdvance` is the heart: no step changes what a member is granted without
advancing the version of the environment. From `AlwaysCoherent` follow
`CacheAlwaysCoherent`, `EveryAnswerWasTrue` and `BusyIsNeverSpurious`.

`ConfigurationProofs`, about `SchemaRules` and `ConfigSchema`. The operators are
recursive functions, and what they compute is proved for every finite set of
structure keys. No induction rule takes part: a counterexample would have a least
rank (the number of keys left to walk, or the place of a key in an order in which
every structure comes after those it contains), and `LeastNumber` refutes it. The
same ranks show that each recursion has a solution (`WalkDefined`,
`RejectedDefined`, `ComposedDefined`, `ValueDefined`), without which its CHOOSE would
say nothing. `CyclesFound`: the depth-first search succeeds exactly on acyclic
references, where acyclic means that every non-empty set of structures has one that
refers to none of the set. `SchemasAccepted`: `NewSchema` is unique keys, resolved
references and no cycle. `ComposedAccepted`: a document put together from one scalar
for each base type, as `defaultValue` does, is accepted by `ValidateConfig` exactly if
the scalars it uses are. `DefaultsAccepted` follows: the default document of a type is
accepted exactly if no date and no range is reachable from it. On these rests `Kept`: the live rows make a
schema in which the configuration's type resolves (`TableKept`, `SchemaKept`), the
snapshot was one when it was taken (`SavedKept`), a page shows its row if the
versions agree (`CallsKept`), and who has the lock has read what is still there
(`LockKept`). From it follow `SchemaAlwaysSound`, `NoEditLost`, `LoadAlwaysRestores`
and `SchemaTypeCorrect`. `ChoicesAlwaysExact` needs the fixpoint of
`FilterStructureChoices` too: a structure is rejected exactly if it reaches the
edited one, and adding a reference to it makes a cycle exactly then.

The same module has the proofs about `SnapshotImport`, whose specification is
`ImportSpec`. The invariant of `AlwaysExact` relates claims in flight to the
requests that hold them, committed records to the snapshots they name, and snapshots
to the claims that made them. From it follow `KeyImportsOnce` and
`AnswersAlwaysOwn`.

`RefreshSessionProofs`. `OneActive` needs that a rotation between its lock and
its commit still has its token's row, usable (`RotationsHold`), and that a new
session's name is fresh (`SessionsNamed`); with `ScopesKnown`, what a revocation
is about to end, this is `Chained`, which `AlwaysChained` proves for both kinds of
database and from which `SessionsNeverBranch` follows. `RevocationsEndSessions`
and `DisabledAccountsLocked` assume `~StatementSnapshot`. They go by what may
make a row usable: a login, whose session is in no scope yet and whose account is
enabled, and a rotation, whose session has a usable token already and is
therefore in no finished scope.

`ServerProofs`, about `Gateway`. `RoutesKnown` goes through the table of routes, for
where each one is and which message it takes, and `HandlersTable` through what the
handlers store; nothing is assumed of the tables. `HandlersProtected` rests on
`Armed`: the layers a request has passed and those still ahead of it are together
all that its operation needs, for the route the router took, whatever was asked for.
`InputsAlwaysFit` compares every rule with its column (`ColumnsFit`) and with the
rule under which the value is given again (`ComesBackFits`), and a request keeps the
field it was delivered with (`Carried`). `RateLimitHolds` is the theorem with the
least obvious invariant. `Paced` says that no time in flight is older than `MaxWait`
(`TimesFresh`), how many of the requests that passed belong to the counter's present
window (`Counted`), and that of the windows before it each lies a window back
(`Spread`); a first attempt shifts them, a later one lengthens the last, and the
attempt that would exceed the quota belongs to a window that ended in time. The proof
corrected the model: with an unbounded wait no quota holds, and with any wait twice
the limit is not the bound.

The same module has the proofs about `SchemaInstall`, whose specification is
`InstallSpec`. `InstallersExclude` rests on `LockHeld`: a process has the
advisory lock exactly in the stages between taking and releasing it, deaths
included. `ReadyIsInstalled` is about the last stage only; `Installed` says of every
stage after `ValidateSchema` that the tables it counted are still there, and
`DatabaseGrows` that no step takes a table or committed secrets away, from which
`SecretsNeverReplaced` follows too.

`RuntimeKeysProofs`. `Authorised` says which rows each change and each read holds
where it stands (`LocksHeld`), that what a read has checked under a lock holds while
it has the lock (`ChecksHold`), and that credentials are generated upwards
(`RowsMakeSense`). `ReadsAlwaysAuthorised` is its case of the commit;
`UsageAlwaysOwn` holds because `MarkUsed` names the credential it was read with;
`RevocationIsFinal` and `CredentialsNeverReturn` go through the steps that write the
row.

`AssetUploadProofs`. `Sound` follows a completion: what it opens and puts it has
validated, what it discards it has found wrong, and it cleans up only after an object
is public (`CompletersSound`); and the temporary object is the newest upload
(`TemporaryNewest`), so that what a completion has found wrong is it or an earlier one.
`ObjectStays` (nothing replaces a public object, and with S3
nothing removes it) is `PublishedNeverChanges`; `TemporaryStays` lists the reasons
for which the temporary object goes, and `SoundUploadLostOnlyToEarlier` leaves one of
them for a sound upload: a completion that discards an earlier one.

`AccountsProofs`. `CallSound` says of each call which locks it holds where it stands
(`HoldsLocks`), how what it read before its lock relates to the row now
(`KnowsRow`: never newer, and the same if of the same version), and what its decision
to write rests on (`MayWrite`). `RowsGrow` is what the others rely on: versions only
grow and a row that another call has locked does not change. Then a removal is
committed only beside another administrator whose row the call still holds
(`AdministratorAlwaysRemains`), the mark of the installation is set only by who holds
its row (`SetupAtMostOnce`), an edit under its lock still has the row its page showed
(`EditsNeverLost`), and an upgraded hash is for the password of the row
(`PasswordAlwaysKept`). The types need the invariant as well: that a written row
exists is part of what a call knows.

Only model-checked: the liveness properties (`EveryImportEnds`, `EveryCallEnds`,
`EveryStartEnds`), because fairness and ENABLED are out of the prover's reach, and the
violation of `refresh_reuse`, which is a counterexample. Every other property of a run
is a theorem.

## Not modelled

- The audit log: an insert in the transaction of each change, read by nobody.
- Export, the conversion of rows to messages, row mapping and message types: no
  state and no decision of their own.
- Cryptography of tokens, passwords and keys: library functions; the models have
  what depends on their outcome.
- Client addresses behind proxies, request ids, logs, health probes, the file
  handlers of the web application and of local objects, start and stop of the
  servers: each is a function of one request or one flag.
- Configuration loading, and the web application, a client of the services.
- The lock order of role and membership changes (`repository/role.go:211`), which
  are single steps here: the database ends a deadlock as in `RuntimeKeys`.

## What is left

All state-changing components are modelled and all safety and action properties of
the runs are proved. Two questions remain open. Whether a login with a former
password may create its session after the password was changed
(`logic/auth.go:174`) is a decision of the maintainers; `RefreshSession` has the
interleaving. And the absence of states in which every call waits, the safety part of
the liveness properties, is shown by the runs for two or three calls only.
