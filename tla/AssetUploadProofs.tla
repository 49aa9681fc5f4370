------------------------- MODULE AssetUploadProofs -------------------------
(***************************************************************************)
(* Proofs about AssetUpload, for any number of uploads with one ticket and *)
(* of concurrent uploads and completions, with either storage driver.      *)
(***************************************************************************)
EXTENDS AssetUpload, TLAPS

-----------------------------------------------------------------------------
(* Types *)

\* A new upload extends the contents by one.
LEMMA ContentsGrow ==
    ASSUME TypeOK, NEW isGood \in BOOLEAN, NewUpload(isGood)
    PROVE  /\ uploads' = uploads + 1 /\ uploads' \in 0..MaxUploads
           /\ uploads' \in Contents' /\ Contents \subseteq Contents'
           /\ good \subseteq good' /\ good' \subseteq good \cup {uploads'}
           /\ good' \subseteq 1..uploads'
           /\ ticket = "valid" /\ uploads' # 0 /\ uploads' \notin Contents
BY UploadBounds DEF NewUpload, TypeOK, Contents

\* Every step keeps the shapes of storage and calls.
LEMMA NextTyped == TypeOK /\ [Next]_vars => TypeOK'
<1> SUFFICES ASSUME TypeOK, [Next]_vars
             PROVE  TypeOK'
  OBVIOUS
<1> USE DEF storage, uploaders, completers
<1>0. None \in Contents
  BY UploadBounds DEF TypeOK, Contents, None
<1>1. ASSUME uploads' = uploads
      PROVE  Contents' = Contents
  BY <1>1 DEF Contents
<1>2. CASE Presign \/ Expire
  BY <1>1, <1>2 DEF Presign, Expire, TypeOK
<1>3. ASSUME NEW s \in Scopes, ChangeAccess(s)
      PROVE  TypeOK'
  BY <1>1, <1>3 DEF ChangeAccess, TypeOK
<1>4. CASE UploadS3
  BY <1>4, ContentsGrow DEF UploadS3, TypeOK
<1>5. ASSUME NEW u \in Uploaders, UploadLocal(u)
      PROVE  TypeOK'
  BY <1>5, ContentsGrow DEF UploadLocal, TypeOK
<1>6. ASSUME NEW u \in Uploaders, Copy(u) \/ Link(u) \/ CreateSidecar(u)
      PROVE  TypeOK'
  <2>1. CASE Copy(u)
    BY <1>0, <1>1, <2>1 DEF Copy, Step, UploadDone, TypeOK
  <2>2. CASE Link(u)
    BY <1>0, <1>1, <2>2 DEF Link, Step, UploadDone, TypeOK
  <2>3. CASE CreateSidecar(u)
    <3>1. sidecar' \in Contents /\ partly' \in BOOLEAN
      BY <2>3 DEF CreateSidecar, TypeOK
    <3>2. ustep' \in [Uploaders -> {"idle", "copy", "link", "create", "write", "undo"}]
      BY <2>3 DEF CreateSidecar, Step, TypeOK
    <3> QED BY <1>1, <2>3, <3>1, <3>2 DEF CreateSidecar, Step, TypeOK
  <2> QED BY <1>6, <2>1, <2>2, <2>3
<1>7. ASSUME NEW u \in Uploaders, WriteSidecar(u) \/ UploadFails(u) \/ RemoveObject(u)
      PROVE  TypeOK'
  BY <1>0, <1>1, <1>7 DEF WriteSidecar, UploadFails, RemoveObject, Step, UploadDone, TypeOK
<1>8. ASSUME NEW c \in Completers, NEW s \in Scopes, Complete(c, s)
      PROVE  TypeOK'
  BY <1>1, <1>8, UploadBounds DEF Complete, TypeOK
<1>9. ASSUME NEW c \in Completers,
             \/ ReadMetadata(c) \/ OpenObject(c) \/ PutObjectIfAbsent(c) \/ Cleanup(c)
      PROVE  TypeOK'
  <2>1. CASE ReadMetadata(c)
    BY <1>0, <1>1, <2>1 DEF ReadMetadata, CompleteDone, TypeOK
  <2>2. CASE OpenObject(c)
    BY <1>0, <1>1, <2>2 DEF OpenObject, Go, CompleteDone, TypeOK
  <2>3. CASE PutObjectIfAbsent(c)
    BY <1>0, <1>1, <2>3 DEF PutObjectIfAbsent, Go, CompleteDone, TypeOK
  <2>4. CASE Cleanup(c)
    <3>1. cstep[c] = "cleanup" /\ temporary' \in Contents /\ (driver = "local" => temporary' = None)
      BY <1>0, <2>4 DEF Cleanup, TypeOK
    <3> QED BY <1>0, <1>1, <2>4, <3>1 DEF Cleanup, CompleteDone, TypeOK
  <2> QED BY <1>9, <2>1, <2>2, <2>3, <2>4
<1>10. ASSUME NEW c \in Completers,
             \/ ReadObject(c) \/ ReadSidecar(c) \/ DeleteIncomplete(c) \/ CompleteFails(c)
      PROVE  TypeOK'
  BY <1>0, <1>1, <1>10 DEF ReadObject, ReadSidecar, DeleteIncomplete, CompleteFails, Go,
                           CompleteDone, TypeOK
<1>11. CASE Restart
  BY <1>0, <1>1, <1>11 DEF Restart, TypeOK
<1>12. CASE UNCHANGED vars
  BY <1>1, <1>12 DEF vars, TypeOK
<1> QED
  BY <1>2, <1>3, <1>4, <1>5, <1>6, <1>7, <1>8, <1>9, <1>10, <1>11, <1>12 DEF Next

\* Nothing has been uploaded.
LEMMA InitTyped == Init => TypeOK
<1> SUFFICES ASSUME Init
             PROVE  TypeOK
  OBVIOUS
<1>1. 0 \in Contents /\ None \in Contents /\ uploads \in 0..MaxUploads /\ completes \in 0..MaxCompletes
  BY UploadBounds DEF Init, Contents, None
<1>2. partly \in BOOLEAN
  BY DEF Init
<1>3. /\ ustep \in [Uploaders -> {"idle", "copy", "link", "create", "write", "undo"}]
      /\ cstep \in [Completers -> {"idle", "read", "sidecar", "open", "put", "cleanup", "discard",
                                   "discardSidecar"}]
  BY DEF Init
<1>4. upload \in [Uploaders -> Contents] /\ seen \in [Completers -> Contents]
  BY <1>1 DEF Init
<1> QED
  BY <1>1, <1>2, <1>3, <1>4 DEF Init, TypeOK

\* Tickets, storage and calls keep their shapes, for any number of them.
THEOREM UploadTypeCorrect == Spec => []TypeOK
BY InitTyped, NextTyped, PTL DEF Spec

-----------------------------------------------------------------------------
(* The inductive invariant *)

\* Only local storage has uploads of several steps, and past the copy they are
\* of the declared size.
UploadersSound ==
    \A u \in Uploaders :
        /\ ustep[u] # "idle" => driver = "local"
        /\ ustep[u] \in {"link", "create", "write", "undo"} => upload[u] \in good

\* What a completion has validated it goes on with, what it discards it found
\* wrong, and it cleans up only after its object is public.
CompletersSound ==
    \A c \in Completers :
        /\ cstep[c] \in {"open", "put", "cleanup"} => driver = "s3"
        /\ cstep[c] \in {"sidecar", "discardSidecar"} => driver = "local"
        /\ cstep[c] \in {"open", "put"} => seen[c] \in good
        /\ cstep[c] = "cleanup" => object # None
        /\ cstep[c] = "discard" /\ driver = "s3" => seen[c] # None /\ seen[c] \notin good

\* The temporary S3 object is the newest upload, or has been removed.
TemporaryNewest == driver = "s3" => temporary \in {None, uploads}

\* The inductive invariant behind the three properties.
Sound == UploadersSound /\ CompletersSound /\ TemporaryNewest /\ PublishedAsDeclared

\* Which steps add an upload: all others leave what was uploaded alone.
LEMMA OnlyUploadsAdd ==
    ASSUME [Next]_vars
    PROVE  \/ UNCHANGED <<uploads, good>>
           \/ \E isGood \in BOOLEAN : NewUpload(isGood)
BY DEF Next, vars, Presign, Expire, ChangeAccess, UploadS3, UploadLocal, Copy, Link, CreateSidecar,
       WriteSidecar, UploadFails, RemoveObject, Complete, ReadMetadata, OpenObject,
       PutObjectIfAbsent, Cleanup, ReadObject, ReadSidecar, DeleteIncomplete, CompleteFails, Restart

\* A content that was found good, or found wrong, stays so.
LEMMA JudgementsStay ==
    ASSUME TypeOK, [Next]_vars
    PROVE  \A n \in Contents : n \in good' <=> n \in good
<1>1. ASSUME NEW isGood \in BOOLEAN, NewUpload(isGood)
      PROVE  \A n \in Contents : n \in good' <=> n \in good
  BY <1>1, ContentsGrow
<1> QED
  BY <1>1, OnlyUploadsAdd

\* The driver is chosen at the start of the process.
LEMMA DriverStays == [Next]_vars => driver' = driver
BY DEF Next, vars, Presign, Expire, ChangeAccess, UploadS3, UploadLocal, Copy, Link, CreateSidecar,
       WriteSidecar, UploadFails, RemoveObject, Complete, ReadMetadata, OpenObject,
       PutObjectIfAbsent, Cleanup, ReadObject, ReadSidecar, DeleteIncomplete, CompleteFails, Restart

\* The steps of one upload.
LEMMA NextUploadersSound == TypeOK /\ UploadersSound /\ [Next]_vars => UploadersSound'
<1> SUFFICES ASSUME TypeOK, UploadersSound, [Next]_vars
             PROVE  UploadersSound'
  OBVIOUS
<1> USE DEF storage, uploaders, completers, UploadersSound
<1>1. \A n \in Contents : n \in good => n \in good'
  BY JudgementsStay
<1>2. \A u \in Uploaders : upload[u] \in Contents
  BY DEF TypeOK
<1>3. driver' = driver
  BY DriverStays
<1>4. CASE UNCHANGED <<ustep, upload>>
  BY <1>1, <1>2, <1>3, <1>4
<1>5. ASSUME NEW u \in Uploaders, UploadLocal(u) \/ Copy(u)
      PROVE  UploadersSound'
  BY <1>1, <1>2, <1>3, <1>5 DEF UploadLocal, Copy, Step, UploadDone, TypeOK
<1>6. ASSUME NEW u \in Uploaders, Link(u) \/ CreateSidecar(u)
      PROVE  UploadersSound'
  BY <1>1, <1>2, <1>3, <1>6 DEF Link, CreateSidecar, Step, UploadDone, TypeOK
<1>7. ASSUME NEW u \in Uploaders, WriteSidecar(u) \/ UploadFails(u) \/ RemoveObject(u)
      PROVE  UploadersSound'
  BY <1>1, <1>2, <1>3, <1>7 DEF WriteSidecar, UploadFails, RemoveObject, Step, UploadDone, TypeOK
<1>8. CASE Restart
  BY <1>8 DEF Restart
<1> QED
  BY <1>4, <1>5, <1>6, <1>7, <1>8
     DEF Next, vars, Presign, Expire, ChangeAccess, UploadS3, Complete, ReadMetadata, OpenObject,
         PutObjectIfAbsent, Cleanup, ReadObject, ReadSidecar, DeleteIncomplete, CompleteFails

\* A public object is never replaced, and with S3 it is never removed either: no
\* local upload runs there and every PUT asks for absence.
LEMMA ObjectStays ==
    ASSUME TypeOK, UploadersSound, [Next]_vars, object # None
    PROVE  object' = object \/ (driver = "local" /\ object' = None)
<1> USE DEF storage, UploadersSound
<1>1. ASSUME NEW u \in Uploaders, Link(u) \/ RemoveObject(u)
      PROVE  object' = object \/ (driver = "local" /\ object' = None)
  BY <1>1 DEF Link, RemoveObject
<1>2. ASSUME NEW c \in Completers, PutObjectIfAbsent(c) \/ DeleteIncomplete(c)
      PROVE  object' = object \/ (driver = "local" /\ object' = None)
  BY <1>2 DEF PutObjectIfAbsent, DeleteIncomplete
<1> QED
  BY <1>1, <1>2
     DEF Next, vars, Presign, Expire, ChangeAccess, UploadS3, UploadLocal, Copy, CreateSidecar,
         WriteSidecar, UploadFails, Complete, ReadMetadata, OpenObject, Cleanup, ReadObject,
         ReadSidecar, CompleteFails, Restart

\* The steps of one completion.
LEMMA NextCompletersSound ==
    TypeOK /\ UploadersSound /\ CompletersSound /\ [Next]_vars => CompletersSound'
<1> SUFFICES ASSUME TypeOK, UploadersSound, CompletersSound, [Next]_vars
             PROVE  CompletersSound'
  OBVIOUS
<1> USE DEF storage, uploaders, completers, CompletersSound
<1>1. \A n \in Contents : n \in good' <=> n \in good
  BY JudgementsStay
<1>2. \A c \in Completers : seen[c] \in Contents
  BY DEF TypeOK
<1>3. driver' = driver /\ driver \in {"s3", "local"}
  BY DriverStays DEF TypeOK
<1>4. driver = "s3" /\ object # None => object' # None
  BY ObjectStays
<1>5. CASE UNCHANGED <<cstep, seen>>
  BY <1>1, <1>2, <1>3, <1>4, <1>5
<1>6. ASSUME NEW c \in Completers, NEW s \in Scopes, Complete(c, s)
      PROVE  CompletersSound'
  BY <1>1, <1>2, <1>3, <1>4, <1>6 DEF Complete, TypeOK
<1>7. ASSUME NEW c \in Completers, ReadMetadata(c)
      PROVE  CompletersSound'
  BY <1>1, <1>2, <1>3, <1>4, <1>7
     DEF ReadMetadata, validateCompletedMetadata, CompleteDone, TypeOK
<1>8. ASSUME NEW c \in Completers, OpenObject(c)
      PROVE  CompletersSound'
  BY <1>1, <1>2, <1>3, <1>4, <1>8 DEF OpenObject, Go, CompleteDone, TypeOK
<1>9. ASSUME NEW c \in Completers, PutObjectIfAbsent(c)
      PROVE  CompletersSound'
  <2>1. cstep'[c] = "cleanup" => object' # None
    BY <1>2, <1>9 DEF PutObjectIfAbsent, Go, CompleteDone, TypeOK, None
  <2> QED BY <1>1, <1>2, <1>3, <1>4, <1>9, <2>1 DEF PutObjectIfAbsent, Go, CompleteDone, TypeOK
<1>10. ASSUME NEW c \in Completers, ReadObject(c) \/ ReadSidecar(c)
      PROVE  CompletersSound'
  BY <1>1, <1>2, <1>3, <1>4, <1>10 DEF ReadObject, ReadSidecar, Go, CompleteDone, TypeOK
<1>11. ASSUME NEW c \in Completers, Cleanup(c) \/ DeleteIncomplete(c) \/ CompleteFails(c)
      PROVE  CompletersSound'
  BY <1>1, <1>2, <1>3, <1>4, <1>11
     DEF Cleanup, DeleteIncomplete, CompleteFails, Go, CompleteDone, TypeOK
<1>12. CASE Restart
  BY <1>12 DEF Restart
<1> QED
  BY <1>5, <1>6, <1>7, <1>8, <1>9, <1>10, <1>11, <1>12
     DEF Next, vars, Presign, Expire, ChangeAccess, UploadS3, UploadLocal, Copy, Link, CreateSidecar,
         WriteSidecar, UploadFails, RemoveObject

\* An upload replaces what the temporary key held.
LEMMA NextTemporaryNewest == TypeOK /\ TemporaryNewest /\ [Next]_vars => TemporaryNewest'
<1> SUFFICES ASSUME TypeOK, TemporaryNewest, [Next]_vars, driver = "s3"
             PROVE  temporary' \in {None, uploads'}
  BY DriverStays DEF TemporaryNewest
<1>1. temporary \in {None, uploads}
  BY DEF TemporaryNewest
<1>2. CASE UploadS3
  BY <1>2 DEF UploadS3
<1>3. ASSUME NEW c \in Completers, Cleanup(c) \/ DeleteIncomplete(c)
      PROVE  temporary' \in {temporary, None} /\ uploads' = uploads
  BY <1>3 DEF Cleanup, DeleteIncomplete
<1>4. ASSUME NEW u \in Uploaders
      PROVE  ~UploadLocal(u)
  BY DEF UploadLocal
<1>5. CASE UNCHANGED <<temporary, uploads>>
  BY <1>1, <1>5
<1> QED
  BY <1>1, <1>2, <1>3, <1>4, <1>5
     DEF Next, vars, storage, Presign, Expire, ChangeAccess, Copy, Link, CreateSidecar, WriteSidecar,
         UploadFails, RemoveObject, Complete, ReadMetadata, OpenObject, PutObjectIfAbsent, ReadObject,
         ReadSidecar, CompleteFails, Restart

\* Only a content that was validated is published, by the link or by the PUT.
LEMMA NextDeclared ==
    TypeOK /\ UploadersSound /\ CompletersSound /\ PublishedAsDeclared /\ [Next]_vars
        => PublishedAsDeclared'
<1> SUFFICES ASSUME TypeOK, UploadersSound, CompletersSound, PublishedAsDeclared, [Next]_vars
             PROVE  object' # None => object' \in good'
  BY DEF PublishedAsDeclared
<1>1. \A n \in Contents : n \in good => n \in good'
  BY JudgementsStay
<1>2. object \in Contents /\ (object # None => object \in good)
  BY DEF TypeOK, PublishedAsDeclared
<1>3. CASE object' \in {object, None}
  BY <1>1, <1>2, <1>3
<1>4. ASSUME NEW u \in Uploaders, Link(u)
      PROVE  object' = object \/ (object' \in good /\ object' \in Contents)
  BY <1>4 DEF Link, UploadersSound, TypeOK
<1>5. ASSUME NEW c \in Completers, PutObjectIfAbsent(c)
      PROVE  object' = object \/ (object' \in good /\ object' \in Contents)
  BY <1>5 DEF PutObjectIfAbsent, CompletersSound, TypeOK
<1>6. ASSUME NEW u \in Uploaders, RemoveObject(u)
      PROVE  object' \in {object, None}
  BY <1>6 DEF RemoveObject
<1>7. ASSUME NEW c \in Completers, DeleteIncomplete(c)
      PROVE  object' \in {object, None}
  BY <1>7 DEF DeleteIncomplete
<1> QED
  BY <1>1, <1>3, <1>4, <1>5, <1>6, <1>7
     DEF Next, vars, storage, Presign, Expire, ChangeAccess, UploadS3, UploadLocal, Copy,
         CreateSidecar, WriteSidecar, UploadFails, Complete, ReadMetadata, OpenObject, Cleanup, ReadObject, ReadSidecar, CompleteFails, Restart

\* The temporary object goes only by a cleanup, after a completion has published
\* one, or by a completion that discards what it found wrong; that was an earlier
\* upload if the one that goes is sound.
LEMMA TemporaryStays ==
    ASSUME TypeOK, Sound, [Next]_vars,
           driver = "s3", object = None, temporary \in good, temporary' = None
    PROVE  \E c \in Completers : cstep[c] = "discard" /\ seen[c] \in (1..(temporary - 1)) \ good
<1> USE DEF Sound
<1>1. temporary \in 1..uploads /\ uploads \in Nat
  BY UploadBounds DEF TypeOK
<1>2. temporary = uploads /\ temporary # None
  BY <1>1 DEF TemporaryNewest, None
<1>3. ~UploadS3
  BY <1>1 DEF UploadS3, NewUpload, None
<1>4. ASSUME NEW c \in Completers, Cleanup(c)
      PROVE  FALSE
  BY <1>4 DEF Cleanup, CompletersSound
<1>5. ASSUME NEW c \in Completers, DeleteIncomplete(c)
      PROVE  cstep[c] = "discard" /\ seen[c] \in (1..(temporary - 1)) \ good
  <2>1. cstep[c] = "discard"
    BY <1>5 DEF DeleteIncomplete, CompletersSound
  <2>2. seen[c] \in 0..uploads /\ seen[c] # 0 /\ seen[c] \notin good
    BY <2>1 DEF CompletersSound, TypeOK, Contents, None
  <2>3. seen[c] # temporary
    BY <2>2
  <2> QED BY <1>1, <1>2, <2>1, <2>2, <2>3
<1> QED
  BY <1>2, <1>3, <1>4, <1>5
     DEF Next, vars, storage, Presign, Expire, ChangeAccess, UploadLocal, Copy, Link, CreateSidecar,
         WriteSidecar, UploadFails, RemoveObject, Complete, ReadMetadata, OpenObject,
         PutObjectIfAbsent, ReadObject, ReadSidecar, CompleteFails, Restart

\* The whole invariant is kept.
LEMMA NextSound == TypeOK /\ Sound /\ [Next]_vars => Sound'
BY NextUploadersSound, NextCompletersSound, NextTemporaryNewest, NextDeclared DEF Sound

\* Before the first upload there is nothing to judge or to lose.
LEMMA InitSound == Init => Sound
<1> SUFFICES ASSUME Init
             PROVE  Sound
  OBVIOUS
<1> QED
  BY DEF Init, Sound, UploadersSound, CompletersSound, TemporaryNewest, PublishedAsDeclared

-----------------------------------------------------------------------------
(* The theorems *)

\* Uploads, completions and storage agree in every state.
THEOREM AlwaysSound == Spec => [](TypeOK /\ Sound)
<1>1. Init => TypeOK /\ Sound
  BY InitTyped, InitSound
<1>2. TypeOK /\ Sound /\ [Next]_vars => (TypeOK /\ Sound)'
  BY NextTyped, NextSound
<1> QED BY <1>1, <1>2, PTL DEF Spec

\* What is public has the size and the type its ticket declared, however often
\* the temporary object is replaced between the check and the copy.
THEOREM PublishedAlwaysDeclared == Spec => []PublishedAsDeclared
<1>1. Sound => PublishedAsDeclared
  BY DEF Sound
<1> QED BY <1>1, AlwaysSound, PTL

\* Before anything is public, a sound S3 upload disappears only to a completion
\* that read an earlier, wrong upload of the same ticket and discards it by its
\* key: after any number of replacements and of completions that fail, repeat or
\* overlap.
THEOREM SoundUploadLostOnlyToEarlier == Spec => UploadKept
<1>1. TypeOK /\ Sound /\ [Next]_vars
        => [driver = "s3" /\ object = None /\ temporary \in good /\ temporary' = None
              => \E c \in Completers :
                    cstep[c] = "discard" /\ seen[c] \in (1..(temporary - 1)) \ good]_vars
  BY TemporaryStays
<1> QED BY <1>1, AlwaysSound, PTL DEF Spec, UploadKept

\* A published S3 object never changes and a local one is at most removed,
\* whatever is uploaded and completed with the same ticket afterwards.
THEOREM PublishedNeverChanges == Spec => PublishedImmutable
<1>1. TypeOK /\ Sound /\ [Next]_vars
        => (object # None => object' = object \/ (driver = "local" /\ object' = None))
  BY ObjectStays DEF Sound
<1>2. TypeOK /\ Sound /\ [Next]_vars
        => [object # None => object' = object \/ (driver = "local" /\ object' = None)]_vars
  BY <1>1
<1> QED BY <1>2, AlwaysSound, PTL DEF Spec, PublishedImmutable
=============================================================================
