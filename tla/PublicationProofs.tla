------------------------- MODULE PublicationProofs -------------------------
(***************************************************************************)
(* Publication is correct for every set of values, shapes, snapshots,      *)
(* clients and readers and for every bound: the type invariant, the        *)
(* inductive invariant Consistent, and what follows from it.               *)
(***************************************************************************)
EXTENDS Publication, TLAPS

-----------------------------------------------------------------------------
(* Type correctness *)

\* The initial state is typed.
LEMMA InitTyped == Init => TypeOK
BY ConstantsAssumption DEF Init, TypeOK, Gens, Drafts, Draft, Contents, Holding, NothingPublished

\* A draft of the right type makes a content of the right type.
LEMMA PreviewTyped == TypeOK => Preview \in Contents
BY DEF TypeOK, Preview, Contents, Drafts, Gens

\* Inserting rows and moving the current mark keeps the snapshots table typed.
LEMMA InsertTyped ==
    ASSUME TypeOK, NEW new \in SUBSET SnapIds, NEW c \in Contents, NEW s \in SnapIds,
           s \in live \cup new,
           InsertAndSelect(new, c, s)
    PROVE  /\ live' \subseteq SnapIds /\ gone' \subseteq SnapIds
           /\ released' \subseteq live' /\ current' \subseteq live'
           /\ snapVersion' \in [SnapIds -> Nat]
           /\ content' \in [SnapIds -> Contents]
<1>1. snapVersion' \in [SnapIds -> Nat]
  BY DEF InsertAndSelect, TypeOK
<1>2. content' \in [SnapIds -> Contents]
  BY DEF InsertAndSelect, TypeOK
<1> QED
  BY <1>1, <1>2 DEF InsertAndSelect, TypeOK

\* Creating or restoring the row keeps it typed.
LEMMA CreateTyped ==
    ASSUME TypeOK, NEW d \in Drafts, CreateRow(d)
    PROVE  /\ state' \in {"absent", "live", "deleted"} /\ draft' \in Drafts
           /\ version' \in Nat /\ rv' \in Gens
           /\ published' \in [Gens -> Values \cup {None}]
BY ConstantsAssumption DEF CreateRow, RestoredVersion, NothingPublished, TypeOK, Gens

\* Every step keeps the type invariant.
LEMMA NextTyped == TypeOK /\ [Next]_vars => TypeOK'
<1> SUFFICES ASSUME TypeOK, [Next]_vars
             PROVE  TypeOK'
  OBVIOUS
<1> USE ConstantsAssumption
<1>1. CASE ConfigStep
  <2>2. CASE ConfigCreate
    <3>1. Draft(InitShape, InitValue) \in Drafts
      BY DEF Draft, Drafts
    <3> QED
      BY <2>2, <3>1, CreateTyped DEF ConfigCreate, TypeOK, snapRows, cacheVars, requests, pages
  <2>3. CASE ConfigDelete
    BY <2>3 DEF ConfigDelete, TypeOK, snapRows, cacheVars, requests, pages
  <2>4. ASSUME NEW shape \in Shapes, SchemaEdit(shape)
        PROVE  TypeOK'
    BY <2>4 DEF SchemaEdit, Draft, Drafts, TypeOK, snapRows, cacheVars, requests, pages
  <2> QED
    BY <1>1, <2>2, <2>3, <2>4 DEF ConfigStep
<1>2. CASE SnapshotStep
  <2>1. ASSUME NEW s \in SnapIds, SnapshotCreate(s)
        PROVE  TypeOK'
    <3>1. InsertAndSelect({s}, Preview, s)
      BY <2>1 DEF SnapshotCreate
    <3> QED
      BY <2>1, <3>1, PreviewTyped, InsertTyped
         DEF SnapshotCreate, TypeOK, configRow, cacheVars, requests, pages
  <2>2. ASSUME NEW s \in SnapIds, SnapshotDelete(s)
        PROVE  TypeOK'
    BY <2>2 DEF SnapshotDelete, SnapshotDeletable, TypeOK, configRow, cacheVars, requests, pages
  <2>3. ASSUME NEW s \in SnapIds, SnapshotLoad(s)
        PROVE  TypeOK'
    <3>1. PICK new \in AutoSave : InsertAndSelect(new, Preview, s)
      BY <2>3 DEF SnapshotLoad
    <3>2. new \in SUBSET SnapIds
      BY <3>1 DEF AutoSave, FreeIds
    <3>3. Draft(content[s].shape, content[s].value) \in Drafts
      BY DEF TypeOK, Contents, Draft, Drafts
    <3>4. s \in live
      BY <2>3 DEF SnapshotLoad
    <3>5. /\ live' \subseteq SnapIds /\ gone' \subseteq SnapIds
          /\ released' \subseteq live' /\ current' \subseteq live'
          /\ snapVersion' \in [SnapIds -> Nat]
          /\ content' \in [SnapIds -> Contents]
      BY <3>1, <3>2, <3>4, PreviewTyped, InsertTyped
    <3> QED
      BY <2>3, <3>3, <3>5 DEF SnapshotLoad, TypeOK, cacheVars, requests, pages
  <2>4. ASSUME NEW s \in SnapIds, NEW d \in Drafts, ImportReplace(s, d)
        PROVE  TypeOK'
    <3>1. Imported(d, rv) \in Contents
      BY DEF Imported, Contents, Drafts, TypeOK, Gens
    <3>2. /\ live' \subseteq SnapIds /\ gone' \subseteq SnapIds
          /\ released' \subseteq live' /\ current' \subseteq live'
          /\ snapVersion' \in [SnapIds -> Nat]
          /\ content' \in [SnapIds -> Contents]
      BY <2>4, <3>1, InsertTyped DEF ImportReplace
    <3> QED
      BY <2>4, <3>2 DEF ImportReplace, TypeOK, requests, pages
  <2>5. ASSUME NEW s \in SnapIds, NEW d \in Drafts, ImportCreate(s, d)
        PROVE  TypeOK'
    <3>1. Imported(d, 0) \in Contents
      BY DEF Imported, Contents, Drafts
    <3>2. /\ live' \subseteq SnapIds /\ gone' \subseteq SnapIds
          /\ released' \subseteq live' /\ current' \subseteq live'
          /\ snapVersion' \in [SnapIds -> Nat]
          /\ content' \in [SnapIds -> Contents]
      BY <2>5, <3>1, InsertTyped DEF ImportCreate
    <3>3. 0 \in Gens
      BY DEF Gens
    <3> QED
      BY <2>5, <3>2, <3>3, CreateTyped DEF ImportCreate, TypeOK, requests, pages
  <2> QED
    BY <1>2, <2>1, <2>2, <2>3, <2>4, <2>5 DEF SnapshotStep
<1>3. CASE ClientStep
  <2>1. ASSUME NEW c \in Clients, ConfigDetail(c)
        PROVE  TypeOK'
    BY <2>1 DEF ConfigDetail, TypeOK, Drafts, configRow, snapRows, cacheVars, requests
  <2>2. ASSUME NEW c \in Clients, NEW shape \in Shapes, ConfigUpdate(c, shape)
        PROVE  TypeOK'
    BY <2>2 DEF ConfigUpdate, WriteDraft, Draft, Drafts, TypeOK, snapRows, cacheVars, requests
  <2>3. ASSUME NEW c \in Clients, NEW value \in Values, ConfigUpdateValue(c, value)
        PROVE  TypeOK'
    BY <2>3 DEF ConfigUpdateValue, WriteDraft, Draft, Drafts, TypeOK, snapRows, cacheVars, requests
  <2>4. ASSUME NEW c \in Clients, NEW s \in SnapIds, SnapshotGet(c, s)
        PROVE  TypeOK'
    <3>1. [id |-> s, version |-> snapVersion[s], released |-> s \in released,
           current |-> s \in current]
             \in [id : SnapIds, version : Nat, released : BOOLEAN, current : BOOLEAN]
      BY DEF TypeOK
    <3> QED
      BY <2>4, <3>1 DEF SnapshotGet, TypeOK, configRow, snapRows, cacheVars, requests
  <2>5. ASSUME NEW c \in Clients, NEW s \in SnapIds, Publish(c, s)
        PROVE  TypeOK'
    <3>1. content[s].value \in Values
      BY DEF TypeOK, Contents
    <3>2. rv + 1 \in Gens
      BY <2>5 DEF Publish, Prepared, publicationState, RuntimeVersionLeft, Gens, TypeOK
    <3> QED
      BY <2>5, <3>1, <3>2 DEF Publish, Prepared, publicationState, Advance, NextGeneration, Retired, TypeOK, requests
  <2>6. ASSUME NEW c \in Clients, NEW s \in SnapIds, Unpublish(c, s)
        PROVE  TypeOK'
    <3>1. rv + 1 \in Gens
      BY <2>6 DEF Unpublish, Prepared, publicationState, RuntimeVersionLeft, Gens, TypeOK
    <3> QED
      BY <2>6, <3>1 DEF Unpublish, Prepared, publicationState, Advance, NextGeneration, TypeOK, requests
  <2>7. ASSUME NEW c \in Clients, Forget(c)
        PROVE  TypeOK'
    BY <2>7 DEF Forget, TypeOK, configRow, snapRows, cacheVars, requests
  <2> QED
    BY <1>3, <2>1, <2>2, <2>3, <2>4, <2>5, <2>6, <2>7 DEF ClientStep
<1>4. CASE CacheStep
  BY <1>4 DEF CacheStep, Cleanup, Expire, TypeOK, configRow, snapRows, requests, pages
<1>5. CASE ReadStep
  <2> SUFFICES ASSUME NEW r \in Readers,
                      \/ ReadBegin(r) \/ FindRuntimeConfig(r) \/ CacheGet(r)
                      \/ FindReleasedSnapshot(r) \/ CacheSet(r) \/ ReadCommit(r)
                      \/ ReadCancel(r) \/ LateSet(r)
               PROVE  TypeOK'
    BY <1>5 DEF ReadStep
  <2> USE DEF Goto, Holding, TypeOK, configRow, snapRows, cacheVars, pages
  <2>1. CASE ReadBegin(r)
    BY <2>1 DEF ReadBegin, Gens
  <2>2. CASE FindRuntimeConfig(r)
    BY <2>2 DEF FindRuntimeConfig, RowLockedBy
  <2>3. CASE CacheGet(r)
    BY <2>3 DEF CacheGet
  <2>4. CASE FindReleasedSnapshot(r)
    BY <2>4 DEF FindReleasedSnapshot, Contents
  <2>5. CASE CacheSet(r) \/ LateSet(r)
    BY <2>5 DEF CacheSet, LateSet
  <2>6. CASE ReadCommit(r)
    BY <2>6 DEF ReadCommit, Unlocked
  <2>7. CASE ReadCancel(r)
    BY <2>7 DEF ReadCancel
  <2> QED
    BY <2>1, <2>2, <2>3, <2>4, <2>5, <2>6, <2>7
<1>6. CASE UNCHANGED vars
  BY <1>6 DEF vars, TypeOK, configRow, snapRows, cacheVars, requests, pages
<1> QED
  BY <1>1, <1>2, <1>3, <1>4, <1>5, <1>6 DEF Next

\* Every reachable state is typed: in particular no publication carries
\* runtime_version past MaxRuntime.
THEOREM TypeCorrect == Spec => []TypeOK
BY InitTyped, NextTyped, PTL DEF Spec

-----------------------------------------------------------------------------
(* The inductive invariant *)

\* Nothing is published, cached or read yet.
LEMMA InitConsistent == Init => Consistent
BY ConstantsAssumption
   DEF Init, Consistent, OneReleased, OneCurrent, NeverUndone, HistoryMatches,
       ReadersConsistent, CacheFaithful, NothingPublished, Gens, Holding

\* A step that leaves the released row, the generation, its history and the
\* requests alone, and removes at most cache entries, keeps what they promise.
LEMMA RuntimeUntouched ==
    ASSUME TypeOK, HistoryMatches, ReadersConsistent, CacheFaithful,
           UNCHANGED <<rv, published, released, requests>>,
           \A s \in released : content'[s] = content[s],
           \A g \in Gens : cache'[g] \in {cache[g], None},
           IsLive => IsLive'
    PROVE  HistoryMatches' /\ ReadersConsistent' /\ CacheFaithful'
<1>1. HistoryMatches'
  BY DEF HistoryMatches
<1>2. ReadersConsistent'
  BY DEF ReadersConsistent, requests
<1>3. CacheFaithful'
  BY DEF CacheFaithful
<1> QED
  BY <1>1, <1>2, <1>3

\* A row that is not live was never published: creating or restoring it with
\* runtime_version zero resets nothing that a request or an entry refers to.
LEMMA CreateResetsNothing ==
    ASSUME TypeOK, Consistent, ~IsLive
    PROVE  /\ rv = 0 /\ live = {} /\ released = {}
           /\ published = NothingPublished
<1>1. rv = 0 /\ live = {}
  BY ConstantsAssumption DEF Consistent, NeverUndone, TypeOK, Gens
<1>2. released = {}
  BY <1>1 DEF TypeOK
<1>3. ASSUME NEW g \in Gens
      PROVE  published[g] = None
  <2>1. CASE g = 0
    BY <2>1 DEF Consistent, HistoryMatches
  <2>2. CASE g > 0
    BY <1>1, <2>2 DEF Consistent, HistoryMatches
  <2> QED
    BY <2>1, <2>2, ConstantsAssumption DEF Gens
<1>4. published = NothingPublished
  BY <1>3 DEF TypeOK, NothingPublished
<1> QED
  BY <1>1, <1>2, <1>4

\* Taking, loading or importing a snapshot leaves one current snapshot.
LEMMA InsertSelects ==
    ASSUME TypeOK, NEW new \in SUBSET SnapIds, NEW c, NEW s \in live \cup new,
           InsertAndSelect(new, c, s)
    PROVE  OneCurrent' /\ live' # {}
BY DEF InsertAndSelect, OneCurrent

\* The steps on the configuration row.
LEMMA ConfigStepConsistent == TypeOK /\ Consistent /\ ConfigStep => Consistent'
<1> SUFFICES ASSUME TypeOK, Consistent, ConfigStep
             PROVE  Consistent'
  OBVIOUS
<1>1. UNCHANGED <<snapRows, cacheVars, requests, rv, published>>
  <2>1. CASE ConfigCreate
    BY <2>1, CreateResetsNothing DEF ConfigCreate, CreateRow
  <2> QED
    BY <2>1 DEF ConfigStep, ConfigDelete, SchemaEdit
<1>2. IsLive => IsLive' \/ (live = {} /\ lock = None)
  BY DEF ConfigStep, ConfigCreate, ConfigDelete, SchemaEdit, CreateRow, ConfigDeletable, IsLive
<1>3. live # {} => IsLive'
  BY <1>2 DEF Consistent, NeverUndone
<1>4. ReadersConsistent'
  BY <1>1, <1>2, ConstantsAssumption DEF ReadersConsistent, Consistent, requests
<1> QED
  BY <1>1, <1>3, <1>4
     DEF Consistent, OneReleased, OneCurrent, NeverUndone, HistoryMatches, CacheFaithful,
         snapRows, cacheVars

\* The steps on snapshots.
LEMMA SnapshotStepConsistent == TypeOK /\ Consistent /\ SnapshotStep => Consistent'
<1> SUFFICES ASSUME TypeOK, Consistent, NEW s \in SnapIds,
                    \/ SnapshotCreate(s) \/ SnapshotDelete(s) \/ SnapshotLoad(s)
                    \/ \E d \in Drafts : ImportReplace(s, d) \/ ImportCreate(s, d)
             PROVE  Consistent'
  BY DEF SnapshotStep
<1>1. ASSUME UNCHANGED <<rv, published, released, requests, cache>>,
             \A t \in released : content'[t] = content[t],
             IsLive'
      PROVE  OneReleased' /\ HistoryMatches' /\ ReadersConsistent' /\ CacheFaithful'
  BY <1>1, RuntimeUntouched DEF Consistent, OneReleased
<1>2. ASSUME NEW new \in SUBSET FreeIds, NEW c, s \in live \cup new, InsertAndSelect(new, c, s)
      PROVE  /\ OneCurrent' /\ live' # {}
             /\ released' = released
             /\ \A t \in released : content'[t] = content[t]
  <2>1. \A t \in released : t \in SnapIds /\ t \notin new
    BY DEF FreeIds, TypeOK
  <2>2. new \in SUBSET SnapIds
    BY DEF FreeIds
  <2> QED
    BY <1>2, <2>1, <2>2, InsertSelects DEF InsertAndSelect
<1>3. CASE SnapshotCreate(s)
  BY <1>1, <1>2, <1>3 DEF SnapshotCreate, Consistent, NeverUndone, IsLive,
                          configRow, cacheVars
<1>4. CASE SnapshotDelete(s)
  <2>1. OneReleased' /\ HistoryMatches' /\ ReadersConsistent' /\ CacheFaithful'
    BY <1>1, <1>4 DEF SnapshotDelete, IsLive, configRow, cacheVars
  <2>2. PICK t \in live : current = {t}
    BY <1>4 DEF SnapshotDelete, Consistent, OneCurrent
  <2>3. t # s /\ t \in live' /\ current' = {t}
    BY <1>4, <2>2 DEF SnapshotDelete, SnapshotDeletable
  <2>4. OneCurrent' /\ NeverUndone'
    BY <1>4, <2>3 DEF SnapshotDelete, OneCurrent, NeverUndone, IsLive, configRow
  <2> QED
    BY <2>1, <2>4 DEF Consistent
<1>5. CASE SnapshotLoad(s)
  <2>1. PICK new \in AutoSave : InsertAndSelect(new, Preview, s)
    BY <1>5 DEF SnapshotLoad
  <2>2. new \in SUBSET FreeIds
    BY <2>1 DEF AutoSave
  <2> QED
    BY <1>1, <1>2, <1>5, <2>1, <2>2 DEF SnapshotLoad, Consistent, NeverUndone, IsLive, cacheVars
<1>6. ASSUME NEW d \in Drafts, ImportReplace(s, d)
      PROVE  Consistent'
  BY <1>1, <1>2, <1>6 DEF ImportReplace, Consistent, NeverUndone, IsLive
<1>7. ASSUME NEW d \in Drafts, ImportCreate(s, d)
      PROVE  Consistent'
  <2>1. UNCHANGED <<rv, published>> /\ IsLive'
    BY <1>7, CreateResetsNothing DEF ImportCreate, CreateRow, IsLive
  <2> QED
    BY <1>1, <1>2, <1>7, <2>1 DEF ImportCreate, Consistent, NeverUndone
<1> QED
  BY <1>3, <1>4, <1>5, <1>6, <1>7

\* Publishing and unpublishing.
LEMMA AdvanceConsistent ==
    ASSUME TypeOK, Consistent,
           NEW c \in Clients, NEW s \in SnapIds, Publish(c, s) \/ Unpublish(c, s)
    PROVE  Consistent'
<1>1. /\ rv + 1 \in Gens /\ rv' = rv + 1
      /\ UNCHANGED <<state, live, current, content, cache, requests>>
      /\ lock = None /\ live # {} /\ IsLive
  <2>1. Prepared(c, s)
    BY DEF Publish, Unpublish
  <2>2. /\ rv' = rv + 1
        /\ UNCHANGED <<state, live, current, content, cache, requests>>
    BY DEF Publish, Unpublish, Advance, NextGeneration
  <2>3. rv + 1 \in Gens
    BY <2>1, ConstantsAssumption DEF Prepared, publicationState, RuntimeVersionLeft, TypeOK, Gens
  <2> QED
    BY <2>1, <2>2, <2>3 DEF Prepared, publicationState
<1>2. PICK value : /\ published' = [published EXCEPT ![rv + 1] = value]
                   /\ \/ released' = {} /\ value = None
                      \/ released' = {s} /\ value = content[s].value
  <2>1. CASE Publish(c, s)
    BY <2>1 DEF Publish, Advance, NextGeneration, Retired
  <2>2. CASE Unpublish(c, s)
    <3>1. released' = {}
      BY <2>2 DEF Unpublish, Consistent, OneReleased
    <3> QED
      BY <2>2, <3>1 DEF Unpublish, Advance, NextGeneration
  <2> QED
    BY <2>1, <2>2
<1>3. \A g \in Gens : g <= rv => published'[g] = published[g]
  BY <1>2 DEF TypeOK, Gens
<1>4. published'[rv + 1] = value
  BY <1>1, <1>2 DEF TypeOK
<1>5. OneReleased' /\ OneCurrent' /\ NeverUndone'
  BY <1>1, <1>2 DEF Consistent, OneReleased, OneCurrent, NeverUndone, IsLive
<1>6. HistoryMatches'
  <2>1. published'[0] = None
    <3>1. 0 \in Gens /\ 0 <= rv
      BY ConstantsAssumption DEF TypeOK, Gens
    <3> QED
      BY <1>3, <3>1 DEF Consistent, HistoryMatches
  <2>2. ASSUME NEW g \in Gens, g > rv'
        PROVE  published'[g] = None
    <3>1. g # rv + 1 /\ g > rv
      BY <1>1, <2>2, ConstantsAssumption DEF TypeOK, Gens
    <3> QED
      BY <1>2, <3>1 DEF Consistent, HistoryMatches, TypeOK
  <2> QED
    BY <1>1, <1>2, <1>4, <2>1, <2>2 DEF HistoryMatches
<1>7. ReadersConsistent'
  BY <1>1, <1>3, ConstantsAssumption DEF Consistent, ReadersConsistent, TypeOK, Gens, requests, IsLive
<1>8. CacheFaithful'
  BY <1>1, <1>3 DEF Consistent, CacheFaithful, TypeOK, Gens
<1> QED
  BY <1>5, <1>6, <1>7, <1>8 DEF Consistent

\* Everything else clients and the cache do.
LEMMA ClientCacheConsistent ==
    TypeOK /\ Consistent /\ (ClientStep \/ CacheStep) => Consistent'
<1> SUFFICES ASSUME TypeOK, Consistent, ClientStep \/ CacheStep
             PROVE  Consistent'
  OBVIOUS
<1>1. ASSUME UNCHANGED <<state, rv, snapRows, requests, published>>,
             \A g \in Gens : cache'[g] \in {cache[g], None}
      PROVE  Consistent'
  <2>1. HistoryMatches' /\ ReadersConsistent' /\ CacheFaithful'
    BY <1>1, RuntimeUntouched DEF Consistent, snapRows, IsLive
  <2> QED
    BY <1>1, <2>1 DEF Consistent, OneReleased, OneCurrent, NeverUndone, IsLive, snapRows
<1>2. CASE CacheStep
  <2>1. \A g \in Gens : cache'[g] \in {cache[g], None}
    BY <1>2 DEF CacheStep, Cleanup, Expire, TypeOK
  <2> QED
    BY <1>1, <1>2, <2>1 DEF CacheStep, Cleanup, Expire, configRow
<1>3. ASSUME NEW c \in Clients,
             \/ ConfigDetail(c) \/ Forget(c)
             \/ \E shape \in Shapes : ConfigUpdate(c, shape)
             \/ \E value \in Values : ConfigUpdateValue(c, value)
             \/ \E s \in SnapIds : SnapshotGet(c, s)
      PROVE  Consistent'
  BY <1>1, <1>3 DEF ConfigDetail, Forget, ConfigUpdate, ConfigUpdateValue, WriteDraft,
                    SnapshotGet, configRow, cacheVars
<1> QED
  BY <1>2, <1>3, AdvanceConsistent DEF ClientStep

\* The steps of a runtime request.
LEMMA ReadStepConsistent == TypeOK /\ Consistent /\ ReadStep => Consistent'
<1> SUFFICES ASSUME TypeOK, Consistent, NEW r \in Readers,
                    \/ ReadBegin(r) \/ FindRuntimeConfig(r) \/ CacheGet(r)
                    \/ FindReleasedSnapshot(r) \/ CacheSet(r) \/ ReadCommit(r)
                    \/ ReadCancel(r) \/ LateSet(r)
             PROVE  Consistent'
  BY DEF ReadStep
<1>1. UNCHANGED <<configRow, snapRows, published>>
  BY DEF ReadBegin, FindRuntimeConfig, CacheGet, FindReleasedSnapshot, CacheSet, ReadCommit,
         ReadCancel, LateSet
<1>2. OneReleased' /\ OneCurrent' /\ NeverUndone' /\ HistoryMatches'
  BY <1>1 DEF Consistent, OneReleased, OneCurrent, NeverUndone, HistoryMatches, IsLive,
              configRow, snapRows
<1>3. CacheFaithful'
  <2>1. CASE CacheSet(r) \/ LateSet(r)
    BY <1>1, <2>1 DEF CacheSet, LateSet, Consistent, CacheFaithful, ReadersConsistent,
                      configRow, TypeOK
  <2>2. CASE ~(CacheSet(r) \/ LateSet(r))
    BY <1>1, <2>2 DEF ReadBegin, FindRuntimeConfig, CacheGet, FindReleasedSnapshot, ReadCommit,
                      ReadCancel, Consistent, CacheFaithful, configRow, cacheVars
  <2> QED
    BY <2>1, <2>2
<1>4. ReadersConsistent'
  <2> USE <1>1, ConstantsAssumption DEF ReadersConsistent, Consistent, Goto, Holding, IsLive, configRow, TypeOK
  <2>1. CASE ReadBegin(r)
    BY <2>1 DEF ReadBegin
  <2>2. CASE FindRuntimeConfig(r)
    BY <2>2 DEF FindRuntimeConfig, RowLockedBy
  <2>3. CASE CacheGet(r)
    BY <2>3 DEF CacheGet, CacheFaithful
  <2>4. CASE FindReleasedSnapshot(r)
    BY <2>4 DEF FindReleasedSnapshot, HistoryMatches, Contents, Gens
  <2>5. CASE CacheSet(r)
    BY <2>5 DEF CacheSet
  <2>6. CASE ReadCommit(r)
    BY <2>6 DEF ReadCommit, Unlocked
  <2>7. CASE ReadCancel(r)
    BY <2>7 DEF ReadCancel
  <2>8. CASE LateSet(r)
    BY <2>8 DEF LateSet
  <2> QED
    BY <2>1, <2>2, <2>3, <2>4, <2>5, <2>6, <2>7, <2>8
<1> QED
  BY <1>2, <1>3, <1>4 DEF Consistent

\* Consistent is inductive relative to the type invariant.
LEMMA NextConsistent == TypeOK /\ Consistent /\ [Next]_vars => Consistent'
<1>1. TypeOK /\ Consistent /\ UNCHANGED vars => Consistent'
  BY DEF vars, configRow, snapRows, cacheVars, requests, Consistent, OneReleased, OneCurrent,
         NeverUndone, HistoryMatches, ReadersConsistent, CacheFaithful, IsLive
<1> QED
  BY <1>1, ConfigStepConsistent, SnapshotStepConsistent, ClientCacheConsistent,
     ReadStepConsistent DEF Next

\* The inductive invariant holds in every reachable state: one released and one
\* current snapshot, a published configuration is never undone, and requests,
\* history and cache agree on what every generation published.
THEOREM AlwaysConsistent == Spec => [](TypeOK /\ Consistent)
<1>1. Init => TypeOK /\ Consistent
  BY InitTyped, InitConsistent
<1>2. TypeOK /\ Consistent /\ [Next]_vars => (TypeOK /\ Consistent)'
  BY NextTyped, NextConsistent
<1> QED
  BY <1>1, <1>2, PTL DEF Spec

\* The cache never holds anything but what its generation published.
THEOREM CacheAlwaysFaithful == Spec => []CacheFaithful
<1>1. TypeOK /\ Consistent => CacheFaithful
  BY DEF Consistent
<1> QED
  BY <1>1, AlwaysConsistent, PTL

\* However publications and withdrawals interleave, at most one snapshot is
\* released, so none of them ever meets the conflict of two.
THEOREM NeverTwoReleased == Spec => []OneReleased
<1>1. TypeOK /\ Consistent => OneReleased
  BY DEF Consistent
<1> QED
  BY <1>1, AlwaysConsistent, PTL

\* From its first snapshot on a configuration has exactly one current one.
THEOREM AlwaysOneCurrent == Spec => []OneCurrent
<1>1. TypeOK /\ Consistent => OneCurrent
  BY DEF Consistent
<1> QED
  BY <1>1, AlwaysConsistent, PTL

-----------------------------------------------------------------------------
(* Snapshots *)

\* The rows autoSave inserts have ids that no row has used.
LEMMA AutoSaveFree == \A new \in AutoSave : new \subseteq FreeIds
BY DEF AutoSave

\* A content that fits its schema keeps the table usable.
LEMMA InsertUsable ==
    ASSUME TypeOK, SnapshotsUsable, NEW new \in SUBSET FreeIds, NEW c, NEW s, Fits(c),
           InsertAndSelect(new, c, s)
    PROVE  SnapshotsUsable'
<1> SUFFICES ASSUME NEW t \in live'
             PROVE  Fits(content'[t])
  BY DEF SnapshotsUsable, Fits
<1>1. t \in SnapIds /\ content'[t] = IF t \in new THEN c ELSE content[t]
  BY DEF InsertAndSelect, FreeIds, TypeOK
<1> QED
  BY <1>1 DEF InsertAndSelect, SnapshotsUsable

\* Every way to make a snapshot validates its content first, and no step changes
\* the content of one.
LEMMA NextUsable == TypeOK /\ SnapshotsUsable /\ [Next]_vars => SnapshotsUsable'
<1> SUFFICES ASSUME TypeOK, SnapshotsUsable, [Next]_vars
             PROVE  SnapshotsUsable'
  OBVIOUS
<1>1. CASE live' \subseteq live /\ content' = content
  BY <1>1 DEF SnapshotsUsable, Fits
<1>2. Fits(draft) => Fits(Preview)
  BY DEF Fits, Preview
<1>3. ASSUME NEW s \in SnapIds, SnapshotCreate(s)
      PROVE  SnapshotsUsable'
  BY <1>2, <1>3, InsertUsable DEF SnapshotCreate, PreviewValid
<1>4. ASSUME NEW s \in SnapIds, SnapshotLoad(s)
      PROVE  SnapshotsUsable'
  BY <1>2, <1>4, AutoSaveFree, InsertUsable DEF SnapshotLoad, PreviewValid
<1>5. ASSUME NEW s \in SnapIds, NEW d \in Drafts, ImportReplace(s, d) \/ ImportCreate(s, d)
      PROVE  SnapshotsUsable'
  <2>1. Fits(d) /\ \A g : Fits(Imported(d, g))
    BY <1>5 DEF ImportReplace, ImportCreate, Fits, Imported
  <2> QED BY <1>5, <2>1, InsertUsable DEF ImportReplace, ImportCreate
<1>6. CASE SnapshotStep
  BY <1>1, <1>3, <1>4, <1>5, <1>6 DEF SnapshotStep, SnapshotDelete
<1>7. CASE ConfigStep \/ CacheStep \/ UNCHANGED vars
  BY <1>1, <1>7 DEF ConfigStep, ConfigCreate, ConfigDelete, SchemaEdit, CacheStep, Cleanup, Expire,
                    vars, snapRows
<1>8. CASE ClientStep
  BY <1>1, <1>8 DEF ClientStep, ConfigDetail, ConfigUpdate, ConfigUpdateValue, WriteDraft,
                    SnapshotGet, Publish, Unpublish, Advance, Forget, snapRows
<1>9. CASE ReadStep
  BY <1>1, <1>9 DEF ReadStep, ReadBegin, FindRuntimeConfig, CacheGet, FindReleasedSnapshot,
                    CacheSet, ReadCommit, ReadCancel, LateSet, snapRows
<1> QED
  BY <1>6, <1>7, <1>8, <1>9 DEF Next

\* No stored snapshot is a dead end: each passes the validation that Publish and
\* Load repeat on it, whatever became of the draft and its schema since.
THEOREM SnapshotsAlwaysUsable == Spec => []SnapshotsUsable
<1>1. Init => SnapshotsUsable
  BY DEF Init, SnapshotsUsable
<1>2. TypeOK /\ SnapshotsUsable /\ [Next]_vars => SnapshotsUsable'
  BY NextUsable
<1> QED
  BY <1>1, <1>2, TypeCorrect, PTL DEF Spec

\* The draft a load replaces is the current snapshot already, or becomes one.
LEMMA LoadSaves ==
    ASSUME TypeOK, NEW s \in SnapIds, SnapshotLoad(s)
    PROVE  \E t \in live' : content'[t].value = draft.value /\ content'[t].shape = draft.shape
<1>1. PICK new \in AutoSave : InsertAndSelect(new, Preview, s)
  BY DEF SnapshotLoad
<1>2. Preview.value = draft.value /\ Preview.shape = draft.shape
  BY DEF Preview
<1>3. CASE DraftSaved
  <2>1. PICK t \in current : content[t] = Preview
    BY <1>3 DEF DraftSaved
  <2>2. new = {} /\ t \in SnapIds /\ t \in live
    BY <1>1, <1>3, <2>1 DEF AutoSave, TypeOK
  <2>3. t \in live' /\ content'[t] = content[t]
    BY <1>1, <2>2 DEF InsertAndSelect
  <2> QED BY <1>2, <2>1, <2>3
<1>4. CASE ~DraftSaved
  <2>1. PICK a \in FreeIds : new = {a}
    BY <1>1, <1>4 DEF AutoSave
  <2>2. a \in live' /\ content'[a] = Preview
    BY <1>1, <2>1 DEF InsertAndSelect, FreeIds
  <2> QED BY <1>2, <2>2
<1> QED
  BY <1>3, <1>4

\* Loading a snapshot never loses the draft it overwrites.
THEOREM LoadNeverLosesDraft == Spec => LoadKeepsDraft
<1>1. TypeOK /\ [Next]_vars =>
          [(\E s \in SnapIds : SnapshotLoad(s)) =>
              \E t \in live' : /\ content'[t].value = draft.value
                               /\ content'[t].shape = draft.shape]_vars
  BY LoadSaves
<1> QED
  BY <1>1, TypeCorrect, PTL DEF Spec, LoadKeepsDraft

-----------------------------------------------------------------------------
(* What the clients' pages show *)

\* A page never shows a newer version of the draft than there is, and of the same
\* version only the draft itself; also when the row is deleted or restored.
DraftPages ==
    /\ state = "absent" => version = 0
    /\ \A c \in Clients : draftSeen[c] # None =>
          /\ draftSeen[c].version <= version
          /\ draftSeen[c].version = version => draftSeen[c].value = draft.value

\* The same of a snapshot row; the id of a row that was seen is never used again.
SnapshotPages ==
    \A c \in Clients : snapSeen[c] # None =>
        LET s == snapSeen[c].id
        IN /\ s \in live \cup gone
           /\ snapSeen[c].version <= snapVersion[s]
           /\ s \in live /\ snapVersion[s] = snapSeen[c].version =>
                  /\ snapSeen[c].released <=> s \in released
                  /\ snapSeen[c].current <=> s \in current

\* The draft pages stay right when no page is opened and the draft either keeps
\* its version and its value or gets a later version.
LEMMA DraftPagesStay ==
    ASSUME TypeOK, DraftPages, version' \in Nat,
           \A c \in Clients : draftSeen'[c] \in {draftSeen[c], None},
           \/ version' > version
           \/ version' = version /\ draft'.value = draft.value,
           state' = "absent" => version' = 0
    PROVE  DraftPages'
<1> SUFFICES ASSUME NEW c \in Clients, draftSeen'[c] # None
             PROVE  /\ draftSeen'[c].version <= version'
                    /\ draftSeen'[c].version = version' => draftSeen'[c].value = draft'.value
  BY DEF DraftPages
<1>1. draftSeen'[c] = draftSeen[c] /\ draftSeen[c] \in [version : Nat, value : Values]
  BY DEF TypeOK
<1>2. draftSeen[c].version \in Nat /\ version \in Nat
  BY <1>1 DEF TypeOK
<1> QED
  BY <1>1, <1>2 DEF DraftPages

\* The snapshot pages stay right when no page is opened, ids stay in use, and a
\* row whose marks change, or that becomes live, gets a later version.
LEMMA SnapshotPagesStay ==
    ASSUME TypeOK, SnapshotPages,
           \A c \in Clients : snapSeen'[c] \in {snapSeen[c], None},
           live \cup gone \subseteq live' \cup gone',
           snapVersion' \in [SnapIds -> Nat],
           \A t \in live \cup gone :
               \/ snapVersion'[t] > snapVersion[t]
               \/ /\ snapVersion'[t] = snapVersion[t]
                  /\ t \in live' => t \in live
                  /\ t \in released' <=> t \in released
                  /\ t \in current' <=> t \in current
    PROVE  SnapshotPages'
<1> SUFFICES ASSUME NEW c \in Clients, snapSeen'[c] # None
             PROVE  LET s == snapSeen'[c].id
                    IN /\ s \in live' \cup gone'
                       /\ snapSeen'[c].version <= snapVersion'[s]
                       /\ s \in live' /\ snapVersion'[s] = snapSeen'[c].version =>
                              /\ snapSeen'[c].released <=> s \in released'
                              /\ snapSeen'[c].current <=> s \in current'
  BY DEF SnapshotPages
<1>1. /\ snapSeen'[c] = snapSeen[c] /\ snapSeen[c] # None
      /\ snapSeen[c] \in [id : SnapIds, version : Nat, released : BOOLEAN, current : BOOLEAN]
  BY DEF TypeOK
<1> DEFINE s == snapSeen[c].id
<1>2. /\ s \in live \cup gone
      /\ snapSeen[c].version <= snapVersion[s]
      /\ s \in live /\ snapVersion[s] = snapSeen[c].version =>
             /\ snapSeen[c].released <=> s \in released
             /\ snapSeen[c].current <=> s \in current
  BY <1>1 DEF SnapshotPages
<1>3. snapSeen[c].version \in Nat /\ snapVersion[s] \in Nat /\ snapVersion'[s] \in Nat
  BY <1>1 DEF TypeOK
<1>4. CASE snapVersion'[s] > snapVersion[s]
  <2>1. snapSeen[c].version < snapVersion'[s]
    BY <1>2, <1>3, <1>4
  <2> QED BY <1>1, <1>2, <1>3, <2>1
<1>5. CASE /\ snapVersion'[s] = snapVersion[s]
           /\ s \in live' => s \in live
           /\ s \in released' <=> s \in released
           /\ s \in current' <=> s \in current
  BY <1>1, <1>2, <1>5
<1> QED
  BY <1>2, <1>4, <1>5

\* Rows that are inserted have new ids, and the row that becomes current and the
\* one that was get a later version.
LEMMA InsertKeepsPages ==
    ASSUME TypeOK, SnapshotPages, NEW new \in SUBSET FreeIds, NEW c, NEW s \in SnapIds,
           InsertAndSelect(new, c, s), UNCHANGED snapSeen
    PROVE  SnapshotPages'
<1>1. snapVersion' \in [SnapIds -> Nat]
  BY DEF InsertAndSelect, TypeOK
<1>2. ASSUME NEW t \in live \cup gone
      PROVE  \/ snapVersion'[t] > snapVersion[t]
             \/ /\ snapVersion'[t] = snapVersion[t]
                /\ t \in live' => t \in live
                /\ t \in released' <=> t \in released
                /\ t \in current' <=> t \in current
  <2>1. t \in SnapIds /\ t \notin new /\ snapVersion[t] \in Nat
    BY DEF FreeIds, TypeOK
  <2>2. CASE t \in Reselected(s)
    BY <2>1, <2>2 DEF InsertAndSelect
  <2>3. CASE t \notin Reselected(s)
    BY <2>1, <2>3 DEF InsertAndSelect, Reselected
  <2> QED BY <2>2, <2>3
<1> QED
  BY <1>1, <1>2, SnapshotPagesStay DEF InsertAndSelect

\* A page that is opened shows what is there.
LEMMA PagesOpen ==
    ASSUME TypeOK, DraftPages, SnapshotPages, NEW c \in Clients,
           ConfigDetail(c) \/ \E s \in SnapIds : SnapshotGet(c, s)
    PROVE  DraftPages' /\ SnapshotPages'
<1>1. UNCHANGED <<configRow, snapRows>>
  BY DEF ConfigDetail, SnapshotGet
<1>2. CASE ConfigDetail(c)
  <2>1. SnapshotPages'
    BY <1>1, <1>2 DEF ConfigDetail, SnapshotPages, snapRows
  <2>2. /\ draftSeen'[c] = [version |-> version, value |-> draft.value]
        /\ \A b \in Clients \ {c} : draftSeen'[b] = draftSeen[b]
    BY <1>2 DEF ConfigDetail, TypeOK
  <2>3. version <= version
    BY DEF TypeOK
  <2>4. DraftPages'
    BY <1>1, <2>2, <2>3 DEF DraftPages, configRow
  <2> QED BY <2>1, <2>4
<1>3. ASSUME NEW s \in SnapIds, SnapshotGet(c, s)
      PROVE  DraftPages' /\ SnapshotPages'
  <2>1. DraftPages'
    BY <1>1, <1>3 DEF SnapshotGet, DraftPages, configRow
  <2>2. /\ snapSeen'[c] = [id |-> s, version |-> snapVersion[s],
                           released |-> s \in released, current |-> s \in current]
        /\ \A b \in Clients \ {c} : snapSeen'[b] = snapSeen[b]
        /\ s \in live
    BY <1>3 DEF SnapshotGet, TypeOK
  <2>3. snapVersion[s] <= snapVersion[s]
    BY DEF TypeOK
  <2>4. UNCHANGED <<live, gone, released, current, snapVersion>>
    BY <1>1 DEF snapRows
  <2>5. /\ snapSeen'[c].id = s /\ snapSeen'[c].version = snapVersion[s]
        /\ snapSeen'[c].released = (s \in released)
        /\ snapSeen'[c].current = (s \in current)
    BY <2>2
  <2>6. SnapshotPages'
    BY <2>2, <2>3, <2>4, <2>5 DEF SnapshotPages
  <2> QED BY <2>1, <2>6
<1> QED
  BY <1>2, <1>3

\* Publishing and unpublishing move on the version of every row they touch.
LEMMA AdvanceKeepsPages ==
    ASSUME TypeOK, DraftPages, SnapshotPages, NEW c \in Clients, NEW s \in SnapIds,
           Publish(c, s) \/ Unpublish(c, s)
    PROVE  DraftPages' /\ SnapshotPages'
<1>1. /\ UNCHANGED <<state, draft, version, live, gone, current, draftSeen>>
      /\ \A b \in Clients : snapSeen'[b] \in {snapSeen[b], None}
  BY DEF Publish, Unpublish, Advance, TypeOK
<1>2. DraftPages'
  BY <1>1 DEF DraftPages
<1>3. PICK touched \in SUBSET SnapIds :
          /\ snapVersion' = [t \in SnapIds |->
                                IF t \in touched THEN snapVersion[t] + 1 ELSE snapVersion[t]]
          /\ \A t \in SnapIds \ touched : t \in released' <=> t \in released
  <2>1. CASE Publish(c, s)
    <3>1. {s} \cup Retired \in SUBSET SnapIds
      BY DEF Retired, TypeOK
    <3> QED BY <2>1, <3>1 DEF Publish, Advance, Retired
  <2>2. CASE Unpublish(c, s)
    BY <2>2 DEF Unpublish, Advance
  <2> QED BY <2>1, <2>2
<1>4. snapVersion' \in [SnapIds -> Nat]
  BY <1>3 DEF TypeOK
<1>5. ASSUME NEW t \in live \cup gone
      PROVE  \/ snapVersion'[t] > snapVersion[t]
             \/ /\ snapVersion'[t] = snapVersion[t]
                /\ t \in released' <=> t \in released
  BY <1>3 DEF TypeOK
<1> QED
  BY <1>1, <1>2, <1>4, <1>5, SnapshotPagesStay

\* Every step keeps the pages right.
LEMMA NextPages ==
    TypeOK /\ DraftPages /\ SnapshotPages /\ [Next]_vars => DraftPages' /\ SnapshotPages'
<1> SUFFICES ASSUME TypeOK, DraftPages, SnapshotPages, [Next]_vars
             PROVE  DraftPages' /\ SnapshotPages'
  OBVIOUS
<1>1. ASSUME UNCHANGED <<configRow, snapRows, pages>>
      PROVE  DraftPages' /\ SnapshotPages'
  BY <1>1 DEF configRow, snapRows, pages, DraftPages, SnapshotPages
<1>2. CASE CacheStep \/ UNCHANGED vars
  BY <1>1, <1>2 DEF CacheStep, Cleanup, Expire, vars
<1>3. CASE ReadStep
  BY <1>1, <1>3 DEF ReadStep, ReadBegin, FindRuntimeConfig, CacheGet, FindReleasedSnapshot,
                    CacheSet, ReadCommit, ReadCancel, LateSet
<1>4. version \in Nat /\ version' \in Nat
  BY NextTyped DEF TypeOK
<1>5. ASSUME NEW d, CreateRow(d), UNCHANGED draftSeen
      PROVE  DraftPages'
  <2>1. version' > version /\ state' # "absent"
    BY <1>4, <1>5 DEF CreateRow, RestoredVersion, DraftPages
  <2> QED BY <1>4, <1>5, <2>1, DraftPagesStay
<1>6. CASE ConfigStep
  <2>1. SnapshotPages'
    BY <1>6 DEF ConfigStep, ConfigCreate, ConfigDelete, SchemaEdit, SnapshotPages, snapRows, pages
  <2>2. CASE ConfigCreate
    BY <1>5, <2>1, <2>2 DEF ConfigCreate, pages
  <2>3. CASE ConfigDelete
    BY <1>4, <2>1, <2>3, DraftPagesStay DEF ConfigDelete, pages
  <2>4. ASSUME NEW shape \in Shapes, SchemaEdit(shape)
        PROVE  DraftPages'
    BY <1>4, <2>4, DraftPagesStay DEF SchemaEdit, Draft, pages, DraftPages
  <2> QED BY <1>6, <2>1, <2>2, <2>3, <2>4 DEF ConfigStep
<1>7. CASE SnapshotStep
  <2> SUFFICES ASSUME NEW s \in SnapIds,
                      \/ SnapshotCreate(s) \/ SnapshotDelete(s) \/ SnapshotLoad(s)
                      \/ \E d \in Drafts : ImportReplace(s, d) \/ ImportCreate(s, d)
               PROVE  DraftPages' /\ SnapshotPages'
    BY <1>7 DEF SnapshotStep
  <2>1. CASE SnapshotCreate(s)
    BY <2>1, InsertKeepsPages DEF SnapshotCreate, configRow, pages, DraftPages
  <2>2. CASE SnapshotDelete(s)
    <3>1. DraftPages'
      BY <2>2 DEF SnapshotDelete, configRow, pages, DraftPages
    <3>2. snapVersion' \in [SnapIds -> Nat]
      BY <2>2 DEF SnapshotDelete, TypeOK
    <3>3. \A t \in live \cup gone :
              \/ snapVersion'[t] > snapVersion[t]
              \/ /\ snapVersion'[t] = snapVersion[t]
                 /\ t \in live' => t \in live
                 /\ t \in released' <=> t \in released
                 /\ t \in current' <=> t \in current
      BY <2>2 DEF SnapshotDelete, TypeOK
    <3> QED BY <2>2, <3>1, <3>2, <3>3, SnapshotPagesStay DEF SnapshotDelete, pages
  <2>3. CASE SnapshotLoad(s)
    <3>1. DraftPages'
      BY <1>4, <2>3, DraftPagesStay DEF SnapshotLoad, IsLive, pages
    <3> QED BY <2>3, <3>1, AutoSaveFree, InsertKeepsPages DEF SnapshotLoad, pages
  <2>4. ASSUME NEW d \in Drafts, ImportReplace(s, d)
        PROVE  DraftPages' /\ SnapshotPages'
    <3>1. DraftPages'
      BY <1>4, <2>4, DraftPagesStay DEF ImportReplace, IsLive, pages
    <3> QED BY <2>4, <3>1, InsertKeepsPages DEF ImportReplace, pages
  <2>5. ASSUME NEW d \in Drafts, ImportCreate(s, d)
        PROVE  DraftPages' /\ SnapshotPages'
    BY <1>5, <2>5, InsertKeepsPages DEF ImportCreate, pages
  <2> QED BY <2>1, <2>2, <2>3, <2>4, <2>5
<1>8. ASSUME NEW c \in Clients, NEW d, WriteDraft(c, d)
      PROVE  DraftPages' /\ SnapshotPages'
  <2>1. DraftPages'
    BY <1>4, <1>8, DraftPagesStay DEF WriteDraft, IsLive, TypeOK
  <2> QED BY <1>8, <2>1 DEF WriteDraft, SnapshotPages, snapRows
<1>9. ASSUME NEW c \in Clients, Forget(c)
      PROVE  DraftPages' /\ SnapshotPages'
  <2>1. /\ \A b \in Clients : draftSeen'[b] \in {draftSeen[b], None}
        /\ \A b \in Clients : snapSeen'[b] \in {snapSeen[b], None}
    BY <1>9 DEF Forget, TypeOK
  <2> QED BY <1>9, <2>1 DEF Forget, configRow, snapRows, DraftPages, SnapshotPages
<1>10. CASE ClientStep
  BY <1>8, <1>9, <1>10, PagesOpen, AdvanceKeepsPages
     DEF ClientStep, ConfigUpdate, ConfigUpdateValue
<1> QED
  BY <1>2, <1>3, <1>6, <1>7, <1>10 DEF Next

\* A client whose version passes the optimistic check has in front of it the row
\* that its write replaces.
THEOREM ViewsAlwaysFresh == Spec => []FreshViews
<1>1. Init => DraftPages /\ SnapshotPages
  BY DEF Init, DraftPages, SnapshotPages
<1>2. TypeOK /\ DraftPages /\ SnapshotPages /\ [Next]_vars => (DraftPages /\ SnapshotPages)'
  BY NextPages
<1>3. DraftPages /\ SnapshotPages => FreshViews
  BY DEF DraftPages, SnapshotPages, FreshViews
<1> QED
  BY <1>1, <1>2, <1>3, TypeCorrect, PTL DEF Spec

-----------------------------------------------------------------------------
(* The runtime register *)

\* Outside publications the register keeps its generation and its value.
LEMMA RegisterUntouched ==
    TypeOK /\ Consistent /\ (ConfigStep \/ SnapshotStep \/ CacheStep)
       => UNCHANGED <<rv, published, requests>>
<1> SUFFICES ASSUME TypeOK, Consistent, ConfigStep \/ SnapshotStep \/ CacheStep
             PROVE  UNCHANGED <<rv, published, requests>>
  OBVIOUS
<1>1. CASE ConfigStep
  BY <1>1, CreateResetsNothing
     DEF ConfigStep, ConfigCreate, ConfigDelete, SchemaEdit, CreateRow
<1>2. ASSUME NEW s \in SnapIds, NEW d \in Drafts, ImportCreate(s, d)
      PROVE  UNCHANGED <<rv, published, requests>>
  BY <1>2, CreateResetsNothing DEF ImportCreate, CreateRow
<1>3. CASE SnapshotStep
  BY <1>2, <1>3 DEF SnapshotStep, SnapshotCreate, SnapshotDelete, SnapshotLoad, ImportReplace,
                    configRow
<1>4. CASE CacheStep
  BY <1>4 DEF CacheStep, Cleanup, Expire, configRow
<1> QED
  BY <1>1, <1>3, <1>4

\* No step takes the generation back.
LEMMA NextMonotone == TypeOK /\ Consistent /\ [Next]_vars => rv' >= rv
<1> SUFFICES ASSUME TypeOK, Consistent, [Next]_vars
             PROVE  rv' >= rv
  OBVIOUS
<1>1. rv \in Int
  BY ConstantsAssumption DEF TypeOK, Gens
<1>2. CASE ClientStep
  BY <1>1, <1>2 DEF ClientStep, ConfigDetail, ConfigUpdate, ConfigUpdateValue, WriteDraft,
                    SnapshotGet, Forget, Publish, Unpublish, Advance, NextGeneration, configRow
<1>3. CASE ReadStep
  BY <1>1, <1>3 DEF ReadStep, ReadBegin, FindRuntimeConfig, CacheGet, FindReleasedSnapshot,
                    CacheSet, ReadCommit, ReadCancel, LateSet, configRow
<1>4. CASE ConfigStep \/ SnapshotStep \/ CacheStep
  BY <1>1, <1>4, RegisterUntouched
<1>5. CASE UNCHANGED vars
  BY <1>1, <1>5 DEF vars, configRow
<1> QED
  BY <1>2, <1>3, <1>4, <1>5 DEF Next

\* The runtime version clients compare never decreases, whatever is deleted,
\* restored or imported.
THEOREM GenerationNeverFalls == Spec => GenerationMonotone
<1>1. TypeOK /\ Consistent /\ [Next]_vars => [rv' >= rv]_vars
  BY NextMonotone
<1> QED
  BY <1>1, AlwaysConsistent, PTL DEF Spec, GenerationMonotone

\* A request that serves its value serves the register's: it holds the row, so
\* the generation it read is the row's and its value is what that published.
LEMMA CommitServes ==
    ASSUME TypeOK, Consistent, NEW r \in Readers, ReadCommit(r)
    PROVE  readGen[r] = rv /\ readValue[r] = published[rv] /\ published[rv] # None
BY DEF ReadCommit, Consistent, ReadersConsistent, Holding

\* What one request tells its client changes by one transition of the register.
LEMMA ReadStepRefines ==
    ASSUME TypeOK, Consistent, ReadStep
    PROVE  [Register!RegNext]_<<rv, published[rv], [r \in Readers |-> Outcome(r)]>>
<1> SUFFICES ASSUME NEW r \in Readers,
                    \/ ReadBegin(r) \/ FindRuntimeConfig(r) \/ CacheGet(r)
                    \/ FindReleasedSnapshot(r) \/ CacheSet(r) \/ ReadCommit(r)
                    \/ ReadCancel(r) \/ LateSet(r)
             PROVE  [Register!RegNext]_<<rv, published[rv], [q \in Readers |-> Outcome(q)]>>
  BY DEF ReadStep
<1> DEFINE out == [q \in Readers |-> Outcome(q)]
           failed == [st |-> "failed", gen |-> 0, value |-> None]
           pending == [st |-> "pending", gen |-> 0, value |-> None]
<1>1. UNCHANGED <<rv, published>>
  BY DEF ReadBegin, FindRuntimeConfig, CacheGet, FindReleasedSnapshot, CacheSet, ReadCommit,
         ReadCancel, LateSet, configRow
<1>2. \A q \in Readers \ {r} : pc'[q] = pc[q] /\ readGen'[q] = readGen[q] /\ readValue'[q] = readValue[q]
  BY DEF ReadBegin, FindRuntimeConfig, CacheGet, FindReleasedSnapshot, CacheSet, ReadCommit,
         ReadCancel, LateSet, Goto, TypeOK
<1>3. \A q \in Readers \ {r} : Outcome(q)' = Outcome(q)
  BY <1>2 DEF Outcome
<1>4. out' = [out EXCEPT ![r] = Outcome(r)']
  BY <1>3
<1>5. CASE ReadBegin(r)
  <2>1. out[r].st # "pending" /\ Outcome(r)' = pending
    BY <1>5 DEF ReadBegin, Goto, Outcome, TypeOK
  <2> QED
    BY <1>1, <1>4, <2>1 DEF Register!RegNext, Register!Begin, Register!Pending
<1>6. CASE ReadCommit(r)
  <2>1. out[r].st = "pending" /\ Outcome(r)' = [st |-> "served", gen |-> rv, value |-> published[rv]]
    BY <1>6, CommitServes DEF ReadCommit, Goto, Outcome, TypeOK
  <2>2. published[rv] # None
    BY <1>6, CommitServes
  <2> QED
    BY <1>1, <1>4, <2>1, <2>2 DEF Register!RegNext, Register!Serve, Register!Answer
<1>7. CASE /\ pc[r] \in {"waiting", "locked", "missed", "loaded", "hit"}
           /\ pc'[r] \in {"failed", "late"}
  <2>1. out[r].st = "pending" /\ Outcome(r)' = failed
    BY <1>7 DEF Outcome
  <2> QED
    BY <1>1, <1>4, <2>1 DEF Register!RegNext, Register!Fail, Register!Failed
<1>8. CASE \/ /\ pc[r] \in {"waiting", "locked", "missed", "loaded", "hit"}
              /\ pc'[r] \in {"waiting", "locked", "missed", "loaded", "hit"}
           \/ pc[r] = "late" /\ pc'[r] = "failed"
  <2>1. Outcome(r)' = Outcome(r)
    BY <1>8 DEF Outcome
  <2>2. out' = out
    BY <1>3, <2>1
  <2> QED
    BY <1>1, <2>2
<1> QED
  BY <1>5, <1>6, <1>7, <1>8
     DEF FindRuntimeConfig, CacheGet, FindReleasedSnapshot, CacheSet, ReadCancel, LateSet,
         Goto, Holding, TypeOK

\* Every step of the system is a step of the register or leaves it unchanged.
LEMMA NextRefines ==
    TypeOK /\ Consistent /\ [Next]_vars => [Register!RegNext]_(Register!regVars)
<1> SUFFICES ASSUME TypeOK, Consistent, [Next]_vars
             PROVE  [Register!RegNext]_<<rv, published[rv], [r \in Readers |-> Outcome(r)]>>
  BY DEF Register!regVars
<1>1. ASSUME UNCHANGED <<rv, published, requests>>
      PROVE  UNCHANGED <<rv, published[rv], [r \in Readers |-> Outcome(r)]>>
  BY <1>1 DEF Outcome, requests
<1>2. CASE ReadStep
  BY <1>2, ReadStepRefines
<1>3. CASE ConfigStep \/ SnapshotStep \/ CacheStep
  BY <1>1, <1>3, RegisterUntouched
<1>4. ASSUME NEW c \in Clients, NEW s \in SnapIds, Publish(c, s) \/ Unpublish(c, s)
      PROVE  Register!RegNext
  <2>1. PICK value \in Values \cup {None} : published' = [published EXCEPT ![rv + 1] = value]
    BY <1>4 DEF Publish, Unpublish, Advance, NextGeneration, TypeOK, Contents
  <2>2. rv' = rv + 1 /\ rv + 1 \in Gens /\ UNCHANGED requests
    BY <1>4, ConstantsAssumption
       DEF Publish, Unpublish, Prepared, publicationState, RuntimeVersionLeft, Advance, NextGeneration, TypeOK, Gens
  <2>3. published'[rv'] = value
    BY <2>1, <2>2 DEF TypeOK
  <2>4. UNCHANGED [r \in Readers |-> Outcome(r)]
    BY <2>2 DEF Outcome, requests
  <2> QED
    BY <2>2, <2>3, <2>4 DEF Register!RegNext, Register!Write
<1>5. ASSUME NEW c \in Clients,
             \/ ConfigDetail(c) \/ Forget(c)
             \/ \E shape \in Shapes : ConfigUpdate(c, shape)
             \/ \E value \in Values : ConfigUpdateValue(c, value)
             \/ \E s \in SnapIds : SnapshotGet(c, s)
      PROVE  UNCHANGED <<rv, published, requests>>
  BY <1>5 DEF ConfigDetail, Forget, ConfigUpdate, ConfigUpdateValue, WriteDraft,
              SnapshotGet, configRow
<1>6. CASE ClientStep
  BY <1>1, <1>4, <1>5, <1>6 DEF ClientStep
<1>7. CASE UNCHANGED vars
  BY <1>1, <1>7 DEF vars, configRow
<1> QED
  BY <1>2, <1>3, <1>6, <1>7 DEF Next

\* Runtime reads through the generation-keyed cache are reads of one atomic
\* register: Publication implements PublishedRegister.
THEOREM ReadsImplementRegister == Spec => ReadsAreAtomic
<1>1. Init => Register!RegInit
  <2> SUFFICES ASSUME Init
               PROVE  Register!RegInit
    OBVIOUS
  <2>1. rv = 0 /\ published[rv] = None
    BY ConstantsAssumption DEF Init, NothingPublished, Gens
  <2>2. [r \in Readers |-> Outcome(r)] = [r \in Readers |-> Register!Failed]
    BY DEF Init, Outcome, Register!Failed
  <2> QED
    BY <2>1, <2>2 DEF Register!RegInit
<1> QED
  BY <1>1, NextRefines, AlwaysConsistent, PTL DEF Spec, ReadsAreAtomic, Register!RegSpec
=============================================================================
