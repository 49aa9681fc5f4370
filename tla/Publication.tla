---------------------------- MODULE Publication ----------------------------
(***************************************************************************)
(* The life of one configuration: its draft row, its snapshots, the        *)
(* publication of a snapshot, and the runtime reads served through the     *)
(* generation-keyed content cache.                                         *)
(*                                                                         *)
(* Every administrative operation is one database transaction that locks   *)
(* the configuration row first (LockByID, or the project row for Create)   *)
(* and keeps it until the commit, so it is one action that needs the row   *)
(* lock to be free.  A runtime read holds the same lock over several       *)
(* steps, because between them it talks to the cache, which is outside the *)
(* transaction.  What happens after a commit is a step of its own.         *)
(***************************************************************************)
EXTENDS Integers, FiniteSets

CONSTANTS
    Values,      \* what configs.value can hold
    Shapes,      \* field type, structures and enums taken together
    Valid,       \* the <<shape, value>> pairs schema.ValidateConfig accepts
    InitShape,   \* the type a new configuration starts with (string)
    InitValue,   \* the value it starts with (the empty string)
    SnapIds,     \* auto-increment row ids of the snapshots table
    Clients,     \* administrators working from what their page showed
    Readers,     \* concurrent runtime requests
    None,        \* no entry, no view, no value
    MaxRuntime,  \* math.MaxInt64 of the code: publishing refuses to pass it
    MaxVersion   \* bound of the model on the edit version

ASSUME ConstantsAssumption ==
    /\ Valid \subseteq Shapes \X Values
    /\ <<InitShape, InitValue>> \in Valid
    /\ None \notin Values
    /\ None \notin Readers
    /\ MaxRuntime \in Nat
    /\ MaxVersion \in Nat

VARIABLES
    state, draft, version, rv,        \* the row of the configs table
    live, gone,                       \* ids of live and soft-deleted snapshots
    released, current,                \* live snapshots with that status or mark
    snapVersion, content,             \* their edit versions and contents
    cache,                            \* published content by runtime version
    cleanups,                         \* runtime versions still to be cleaned
    pc, readGen, readValue,           \* the runtime requests
    lock,                             \* the request that holds the configuration row
    draftSeen, snapSeen,              \* what the clients' pages show
    published                         \* history: what each runtime version published

configRow == <<state, draft, version, rv>>

snapRows == <<live, gone, released, current, snapVersion, content>>

cacheVars == <<cache, cleanups>>

requests == <<pc, readGen, readValue, lock>>

pages == <<draftSeen, snapSeen>>

vars == <<configRow, snapRows, cacheVars, requests, pages, published>>

Gens == 0..MaxRuntime

Drafts == [shape : Shapes, value : Values]

Contents == [shape : Shapes, value : Values, version : Nat, rv : Nat]

Draft(shape, value) == [shape |-> shape, value |-> value]

\* schema.ValidateConfig on a draft or on a content.
Fits(d) == <<d.shape, d.value>> \in Valid

IsLive == state = "live"

FreeIds == SnapIds \ (live \cup gone)

NothingPublished == [g \in Gens |-> None]

Init ==
    /\ state = "absent"
    /\ draft = Draft(InitShape, InitValue)
    /\ version = 0
    /\ rv = 0
    /\ live = {} /\ gone = {} /\ released = {} /\ current = {}
    /\ snapVersion = [s \in SnapIds |-> 0]
    /\ content = [s \in SnapIds |->
                     [shape |-> InitShape, value |-> InitValue, version |-> 0, rv |-> 0]]
    /\ cache = [g \in Gens |-> None]
    /\ cleanups = {}
    /\ pc = [r \in Readers |-> "failed"]
    /\ readGen = [r \in Readers |-> 0]
    /\ readValue = [r \in Readers |-> None]
    /\ lock = None
    /\ draftSeen = [c \in Clients |-> None]
    /\ snapSeen = [c \in Clients |-> None]
    /\ published = NothingPublished

-----------------------------------------------------------------------------
(* The configuration row *)

Bug_RestoredVersion == 1

\* The edit version a restored row gets: it continues after the deleted one.
RestoredVersion == version + 1

\* repository Create: insert, or restore the soft-deleted row of the same key.
\* Both leave runtime_version at zero; its history restarts with it.
CreateRow(d) ==
    /\ ~IsLive
    /\ version < MaxVersion
    /\ state' = "live"
    /\ draft' = d
    /\ version' = IF state = "absent" THEN 1 ELSE RestoredVersion
    /\ rv' = 0
    /\ published' = NothingPublished

ConfigCreate ==
    /\ lock = None
    /\ CreateRow(Draft(InitShape, InitValue))
    /\ UNCHANGED <<snapRows, cacheVars, requests, pages>>

\* Detail: the draft is loaded into an editor, with its version.  A client is
\* one open page: it shows the draft or a snapshot.
ConfigDetail(c) ==
    /\ IsLive
    /\ snapSeen[c] = None
    /\ draftSeen' = [draftSeen EXCEPT ![c] = [version |-> version, value |-> draft.value]]
    /\ UNCHANGED <<configRow, snapRows, cacheVars, requests, snapSeen, published>>

\* The common part of the two draft writes: the version the client saw must
\* still be the row's version.
WriteDraft(c, d) ==
    /\ lock = None
    /\ IsLive
    /\ draftSeen[c] # None
    /\ draftSeen[c].version = version
    /\ version < MaxVersion
    /\ draft' = d
    /\ version' = version + 1
    /\ draftSeen' = [draftSeen EXCEPT ![c] = None]
    /\ UNCHANGED <<state, rv, snapRows, cacheVars, requests, snapSeen, published>>

\* Update changes the type; the draft value may no longer fit it.
ConfigUpdate(c, shape) == WriteDraft(c, Draft(shape, draft.value))

ConfigUpdateValue(c, value) ==
    /\ Fits(Draft(draft.shape, value))
    /\ WriteDraft(c, Draft(draft.shape, value))

\* Structure and enum writes lock the configuration but keep its version.
SchemaEdit(shape) ==
    /\ lock = None
    /\ IsLive
    /\ draft' = Draft(shape, draft.value)
    /\ UNCHANGED <<state, version, rv, snapRows, cacheVars, requests, pages, published>>

Bug_DeletableWhenNotReleased == released = {}

\* FindAnyForConfig: a configuration with a live snapshot is kept.
ConfigDeletable == live = {}

ConfigDelete ==
    /\ lock = None
    /\ IsLive
    /\ ConfigDeletable
    /\ version < MaxVersion
    /\ state' = "deleted"
    /\ version' = version + 1
    /\ UNCHANGED <<draft, rv, snapRows, cacheVars, requests, pages, published>>

-----------------------------------------------------------------------------
(* Snapshots *)

\* The content a snapshot of the draft has: ConfigToProto keeps both versions.
Preview == [shape |-> draft.shape, value |-> draft.value, version |-> version, rv |-> rv]

Bug_PreviewAnyDraft == TRUE

\* buildPreview validates the draft against the locked schema.
PreviewValid == Fits(draft)

\* The rows whose version SetCurrent advances: the target and the row it replaces.
Reselected(s) == {s} \cup current

\* repository Create of the rows new (unreleased, not current, version one) with
\* content c, then SetCurrent on s, which is live or new.
InsertAndSelect(new, c, s) ==
    /\ live' = live \cup new
    /\ content' = [t \in SnapIds |-> IF t \in new THEN c ELSE content[t]]
    /\ current' = {s}
    /\ snapVersion' = [t \in SnapIds |->
                          (IF t \in new THEN 1 ELSE snapVersion[t])
                          + (IF t \in Reselected(s) THEN 1 ELSE 0)]
    /\ UNCHANGED <<gone, released>>

SnapshotCreate(s) ==
    /\ lock = None
    /\ IsLive
    /\ PreviewValid
    /\ s \in FreeIds
    /\ InsertAndSelect({s}, Preview, s)
    /\ UNCHANGED <<configRow, cacheVars, requests, pages, published>>

Bug_DeletableCurrent(s) == s \notin released

SnapshotDeletable(s) == s \notin current /\ s \notin released

SnapshotDelete(s) ==
    /\ lock = None
    /\ IsLive
    /\ s \in live
    /\ SnapshotDeletable(s)
    /\ live' = live \ {s}
    /\ gone' = gone \cup {s}
    /\ current' = current \ {s}
    /\ snapVersion' = [snapVersion EXCEPT ![s] = @ + 1]
    /\ UNCHANGED <<configRow, released, content, cacheVars, requests, pages, published>>

Bug_SavedByAnyCurrent == current # {}

\* autoSave makes no copy when the current snapshot already has this content.
DraftSaved == \E s \in current : content[s] = Preview

\* The rows autoSave inserts.
AutoSave == IF DraftSaved THEN {{}} ELSE {{a} : a \in FreeIds}

\* Load: save the draft, write the snapshot's content over it (Update and
\* UpdateValue, one version each), make the snapshot current.
SnapshotLoad(s) ==
    /\ lock = None
    /\ IsLive
    /\ PreviewValid
    /\ s \in live
    /\ Fits(content[s])
    /\ version + 1 < MaxVersion
    /\ \E new \in AutoSave : InsertAndSelect(new, Preview, s)
    /\ draft' = Draft(content[s].shape, content[s].value)
    /\ version' = version + 2
    /\ UNCHANGED <<state, rv, cacheVars, requests, pages, published>>

\* canonicalTargetContent: the source's content with its edit version cleared.
Imported(d, gen) == [shape |-> d.shape, value |-> d.value, version |-> 0, rv |-> gen]

\* Import with strategy REPLACE into this configuration: Update and UpdateValue,
\* then a current snapshot of what was imported.
ImportReplace(s, d) ==
    /\ lock = None
    /\ IsLive
    /\ Fits(d)
    /\ s \in FreeIds
    /\ version + 1 < MaxVersion
    /\ draft' = d
    /\ version' = version + 2
    /\ InsertAndSelect({s}, Imported(d, rv), s)
    /\ cleanups' = cleanups \cup {rv}
    /\ UNCHANGED <<state, rv, cache, requests, pages, published>>

\* Import with strategy FAIL: the key must not be live; the row is created.
ImportCreate(s, d) ==
    /\ lock = None
    /\ Fits(d)
    /\ s \in FreeIds
    /\ CreateRow(d)
    /\ InsertAndSelect({s}, Imported(d, 0), s)
    /\ cleanups' = cleanups \cup {0}
    /\ UNCHANGED <<cache, requests, pages>>

-----------------------------------------------------------------------------
(* Publication *)

\* A client looks at a snapshot row before it publishes or unpublishes it.
SnapshotGet(c, s) ==
    /\ IsLive
    /\ s \in live
    /\ draftSeen[c] = None
    /\ snapSeen' = [snapSeen EXCEPT
                      ![c] = [id |-> s, version |-> snapVersion[s],
                              released |-> s \in released, current |-> s \in current]]
    /\ UNCHANGED <<configRow, snapRows, cacheVars, requests, draftSeen, published>>

Bug_RuntimeVersionLeft == rv <= MaxRuntime

\* validateRuntimeVersion and the guard of IncrementRuntimeVersion.
RuntimeVersionLeft == rv < MaxRuntime

\* The target is one of the configuration's rows, and at most one is released.
publicationState(s) == s \in live /\ \A t, u \in released : t = u

\* preparePublication for the row client c saw: nobody changed it since.
Prepared(c, s) ==
    /\ lock = None
    /\ IsLive
    /\ snapSeen[c] # None
    /\ s = snapSeen[c].id
    /\ publicationState(s)
    /\ snapVersion[s] = snapSeen[c].version
    /\ RuntimeVersionLeft

Bug_SameGeneration == rv

NextGeneration == rv + 1

\* Commit of a publication: the rows in touched change version, the generation
\* advances and remembers what it publishes, and the entry of the previous
\* generation is to be cleaned.
Advance(c, touched, value) ==
    /\ snapVersion' = [t \in SnapIds |->
                          IF t \in touched THEN snapVersion[t] + 1 ELSE snapVersion[t]]
    /\ rv' = NextGeneration
    /\ published' = [published EXCEPT ![NextGeneration] = value]
    /\ cleanups' = cleanups \cup {rv}
    /\ snapSeen' = [snapSeen EXCEPT ![c] = None]
    /\ UNCHANGED <<state, draft, version, live, gone, current, content, cache, requests, draftSeen>>

Bug_NothingRetired == {}

\* The row publishing retires before it releases its target.
Retired == released

\* The content is validated again, against its own definitions.
validateSnapshot(s) == Fits(content[s])

Publish(c, s) ==
    /\ Prepared(c, s)
    /\ s \notin released
    /\ validateSnapshot(s)
    /\ released' = (released \ Retired) \cup {s}
    /\ Advance(c, {s} \cup Retired, content[s].value)

Unpublish(c, s) ==
    /\ Prepared(c, s)
    /\ s \in released
    /\ released' = released \ {s}
    /\ Advance(c, {s}, None)

\* A refused request, or a page the client closes: nothing is written.
Forget(c) ==
    /\ draftSeen' = [draftSeen EXCEPT ![c] = None]
    /\ snapSeen' = [snapSeen EXCEPT ![c] = None]
    /\ UNCHANGED <<configRow, snapRows, cacheVars, requests, published>>

\* DeletePublishedConfigVersion after the commit; an error is only logged.  A
\* second delete of the same version is indistinguishable from an expiry.
Cleanup(g) ==
    /\ g \in cleanups
    /\ cache' \in {cache, [cache EXCEPT ![g] = None]}
    /\ cleanups' = cleanups \ {g}
    /\ UNCHANGED <<configRow, snapRows, requests, pages, published>>

\* The 24 hours of an entry pass, or the cache loses it.
Expire(g) ==
    /\ cache[g] # None
    /\ cache' = [cache EXCEPT ![g] = None]
    /\ UNCHANGED <<configRow, snapRows, cleanups, requests, pages, published>>

-----------------------------------------------------------------------------
(* A runtime read: one transaction from FindRuntimeConfig to the commit *)

Holding == {"locked", "missed", "loaded", "hit"}

Goto(r, label) == pc' = [pc EXCEPT ![r] = label]

ReadBegin(r) ==
    /\ pc[r] \in {"served", "failed"}
    /\ Goto(r, "waiting")
    /\ readGen' = [readGen EXCEPT ![r] = 0]
    /\ readValue' = [readValue EXCEPT ![r] = None]
    /\ UNCHANGED <<configRow, snapRows, cacheVars, lock, pages, published>>

Bug_PlainSelect(r) == lock

\* SELECT ... FOR UPDATE: the row belongs to the request until its commit.
RowLockedBy(r) == r

FindRuntimeConfig(r) ==
    /\ pc[r] = "waiting"
    /\ lock = None
    /\ \/ /\ IsLive
          /\ Goto(r, "locked")
          /\ readGen' = [readGen EXCEPT ![r] = rv]
          /\ lock' = RowLockedBy(r)
       \/ /\ ~IsLive
          /\ Goto(r, "failed")
          /\ UNCHANGED <<readGen, lock>>
    /\ UNCHANGED <<configRow, snapRows, cacheVars, readValue, pages, published>>

CacheGet(r) ==
    /\ pc[r] = "locked"
    /\ \/ /\ cache[readGen[r]] = None
          /\ Goto(r, "missed")
          /\ UNCHANGED readValue
       \/ /\ cache[readGen[r]] # None
          /\ Goto(r, "hit")
          /\ readValue' = [readValue EXCEPT ![r] = cache[readGen[r]]]
    /\ UNCHANGED <<configRow, snapRows, cacheVars, readGen, lock, pages, published>>

FindReleasedSnapshot(r) ==
    /\ pc[r] = "missed"
    /\ \/ \E s \in released :
            /\ Goto(r, "loaded")
            /\ readValue' = [readValue EXCEPT ![r] = content[s].value]
            /\ UNCHANGED lock
       \/ /\ released = {}
          /\ Goto(r, "failed")
          /\ lock' = None
          /\ UNCHANGED readValue
    /\ UNCHANGED <<configRow, snapRows, cacheVars, readGen, pages, published>>

CacheSet(r) ==
    /\ pc[r] = "loaded"
    /\ cache' = [cache EXCEPT ![readGen[r]] = readValue[r]]
    /\ Goto(r, "hit")
    /\ UNCHANGED <<configRow, snapRows, cleanups, readGen, readValue, lock, pages, published>>

\* The end of the transaction frees the row.
Unlocked == None

\* The commit.  MarkUsed follows in no transaction; a request it fails is one
\* that ReadCancel ended here.
ReadCommit(r) ==
    /\ pc[r] = "hit"
    /\ Goto(r, "served")
    /\ lock' = Unlocked
    /\ UNCHANGED <<configRow, snapRows, cacheVars, readGen, readValue, pages, published>>

\* The request fails: its context ends, the cache or the database returns an
\* error, or the process dies.  The transaction rolls back and frees the row; a
\* Set already sent to the cache may still arrive.
ReadCancel(r) ==
    /\ \/ pc[r] = "waiting" /\ Goto(r, "failed") /\ UNCHANGED lock
       \/ pc[r] \in Holding /\ Goto(r, "failed") /\ lock' = None
       \/ pc[r] = "loaded" /\ Goto(r, "late") /\ lock' = None
    /\ UNCHANGED <<configRow, snapRows, cacheVars, readGen, readValue, pages, published>>

LateSet(r) ==
    /\ pc[r] = "late"
    /\ cache' = [cache EXCEPT ![readGen[r]] = readValue[r]]
    /\ Goto(r, "failed")
    /\ UNCHANGED <<configRow, snapRows, cleanups, readGen, readValue, lock, pages, published>>

-----------------------------------------------------------------------------
ConfigStep ==
    \/ ConfigCreate
    \/ ConfigDelete
    \/ \E shape \in Shapes : SchemaEdit(shape)

SnapshotStep ==
    \E s \in SnapIds :
        \/ SnapshotCreate(s)
        \/ SnapshotDelete(s)
        \/ SnapshotLoad(s)
        \/ \E d \in Drafts : ImportReplace(s, d) \/ ImportCreate(s, d)

ClientStep ==
    \E c \in Clients :
        \/ ConfigDetail(c)
        \/ \E shape \in Shapes : ConfigUpdate(c, shape)
        \/ \E value \in Values : ConfigUpdateValue(c, value)
        \/ \E s \in SnapIds : SnapshotGet(c, s) \/ Publish(c, s) \/ Unpublish(c, s)
        \/ Forget(c)

CacheStep == \E g \in Gens : Cleanup(g) \/ Expire(g)

ReadStep ==
    \E r \in Readers :
        \/ ReadBegin(r)
        \/ FindRuntimeConfig(r)
        \/ CacheGet(r)
        \/ FindReleasedSnapshot(r)
        \/ CacheSet(r)
        \/ ReadCommit(r)
        \/ ReadCancel(r)
        \/ LateSet(r)

Next == ConfigStep \/ SnapshotStep \/ ClientStep \/ CacheStep \/ ReadStep

Spec == Init /\ [][Next]_vars

-----------------------------------------------------------------------------
(* Properties *)

\* The rows, the cache and the requests have the shapes the code gives them; no
\* publication carries runtime_version past its limit.
TypeOK ==
    /\ state \in {"absent", "live", "deleted"}
    /\ draft \in Drafts
    /\ version \in Nat
    /\ rv \in Gens
    /\ live \subseteq SnapIds
    /\ gone \subseteq SnapIds
    /\ released \subseteq live
    /\ current \subseteq live
    /\ snapVersion \in [SnapIds -> Nat]
    /\ content \in [SnapIds -> Contents]
    /\ cache \in [Gens -> Values \cup {None}]
    /\ cleanups \subseteq Gens
    /\ pc \in [Readers -> Holding \cup {"waiting", "served", "failed", "late"}]
    /\ readGen \in [Readers -> Gens]
    /\ readValue \in [Readers -> Values \cup {None}]
    /\ lock \in Readers \cup {None}
    /\ draftSeen \in [Clients -> [version : Nat, value : Values] \cup {None}]
    /\ snapSeen \in [Clients -> [id : SnapIds, version : Nat, released : BOOLEAN,
                                 current : BOOLEAN] \cup {None}]
    /\ published \in [Gens -> Values \cup {None}]

\* A configuration never has two released snapshots, which publicationState
\* would answer with a conflict on every later publish and unpublish.
OneReleased == \A s, t \in released : s = t

\* Once a configuration has a snapshot, exactly one live snapshot is current.
\* SnapshotLogic.Delete keeps it, so the configuration cannot be deleted again.
OneCurrent == live # {} => \E s \in live : current = {s}

\* Whatever the order of publications, cleanups, late cache writes, deletions
\* and re-creations: a cached entry is exactly what its runtime version
\* published (RuntimeLogic.readConfig trusts the key alone).
CacheFaithful == \A g \in Gens : cache[g] # None => g <= rv /\ cache[g] = published[g]

\* Every live snapshot passes the validation Publish and Load repeat on it, so
\* no stored snapshot is a dead end.
SnapshotsUsable == \A s \in live : Fits(content[s])

\* A version identifies its row: a client whose version passes the optimistic
\* check has in front of it the very draft, or the very snapshot row, that its
\* write replaces, also when the row was deleted and restored in between.
FreshViews ==
    \A c \in Clients :
        /\ draftSeen[c] # None /\ IsLive /\ draftSeen[c].version = version
              => draftSeen[c].value = draft.value
        /\ snapSeen[c] # None =>
              LET s == snapSeen[c].id IN
              s \in live /\ snapVersion[s] = snapSeen[c].version
                 => /\ snapSeen[c].released <=> s \in released
                    /\ snapSeen[c].current <=> s \in current

\* A request holds the row exactly while its transaction is open, and then the
\* generation it read is the row's; a value it has taken from the cache or from
\* the released snapshot is what its generation published.
ReadersConsistent ==
    \A r \in Readers :
        /\ pc[r] \in Holding <=> lock = r
        /\ pc[r] \in Holding => IsLive /\ readGen[r] = rv
        /\ pc[r] \in {"loaded", "hit", "late"} =>
              /\ readGen[r] <= rv
              /\ readValue[r] # None
              /\ readValue[r] = published[readGen[r]]

\* The released row is what the row's generation published, nothing is released
\* while that generation is a withdrawal, and later generations are unused.
HistoryMatches ==
    /\ published[0] = None
    /\ \A g \in Gens : g > rv => published[g] = None
    /\ released = {} => published[rv] = None
    /\ \A s \in released : published[rv] = content[s].value

\* A configuration that was ever published is never deleted again, so its
\* generation is never reset: a deleted row has no live snapshots and rv zero.
NeverUndone ==
    /\ rv > 0 => live # {}
    /\ live # {} => IsLive

\* The inductive invariant behind CacheFaithful and the register refinement.
Consistent ==
    /\ OneReleased
    /\ OneCurrent
    /\ NeverUndone
    /\ HistoryMatches
    /\ ReadersConsistent
    /\ CacheFaithful

\* The generation a runtime client compares never goes back, not even when the
\* configuration is deleted and its row restored with runtime_version zero.
GenerationMonotone == [][rv' >= rv]_vars

\* Loading a snapshot never loses the draft it replaces: some live snapshot has
\* its value and shape afterwards.
LoadKeepsDraft ==
    [][(\E s \in SnapIds : SnapshotLoad(s)) =>
          \E t \in live' : /\ content'[t].value = draft.value
                           /\ content'[t].shape = draft.shape]_vars

\* What a runtime request has told its client so far.
Outcome(r) ==
    CASE pc[r] \in {"failed", "late"} -> [st |-> "failed", gen |-> 0, value |-> None]
      [] pc[r] = "served" -> [st |-> "served", gen |-> readGen[r], value |-> readValue[r]]
      [] OTHER -> [st |-> "pending", gen |-> 0, value |-> None]

Register == INSTANCE PublishedRegister WITH
    gen <- rv,
    value <- published[rv],
    reads <- [r \in Readers |-> Outcome(r)]

\* Every runtime read implements the register: what it serves is what was
\* published, at the generation it reports, at one instant of the request.
ReadsAreAtomic == Register!RegSpec
=============================================================================
