----------------------------- MODULE AssetUpload -----------------------------
(***************************************************************************)
(* The upload of one asset: a ticket, the browser's uploads with it, and   *)
(* the completion that publishes the object, with either storage driver.   *)
(*                                                                         *)
(* With S3 the browser writes a private temporary key; a completion reads  *)
(* its metadata, opens the version it validated, creates the public object *)
(* unless one exists, and removes the temporary one.  With local storage   *)
(* an upload is a file that is linked to its name, then a sidecar file     *)
(* with its declaration; a completion reads both.  Each request to the     *)
(* provider and each file operation is a step of its own.                  *)
(***************************************************************************)
EXTENDS Naturals, FiniteSets

CONSTANTS
    Uploaders,    \* browser requests that write to local storage
    Completers,   \* calls of Complete
    Scopes,       \* <<environment, project>> pairs
    Owner,        \* the scope the object key was generated for
    MaxUploads,   \* bound on the uploads, also of the same ticket
    MaxCompletes  \* bound on the completions begun

ASSUME OwnerAssumption == Owner \in Scopes

ASSUME UploadBounds ==
    /\ MaxUploads \in Nat
    /\ MaxCompletes \in Nat

VARIABLES
    driver,     \* object_storage.driver
    ticket,     \* the upload ticket: none, valid, or no longer accepted
    allowed,    \* scopes with a live project in which the caller has asset:write
    uploads,    \* uploads begun; each is a content of its own (an ETag)
    good,       \* uploads of the size and type the ticket declares
    temporary,  \* S3: the object under uploads/
    object,     \* the object under environments/
    sidecar,    \* local: the upload whose declaration the sidecar has
    partly,     \* local: the sidecar exists but is not written yet
    ustep, upload,           \* local uploads: control, content
    cstep, seen,             \* completions: control, version validated
    completes

vars == <<driver, ticket, allowed, uploads, good, temporary, object, sidecar, partly,
          ustep, upload, cstep, seen, completes>>

None == 0

\* The contents there have been, and None.
Contents == 0..uploads

TypeOK ==
    /\ driver \in {"s3", "local"}
    /\ ticket \in {"none", "valid", "expired"}
    /\ allowed \subseteq Scopes
    /\ uploads \in 0..MaxUploads
    /\ good \subseteq 1..uploads
    /\ temporary \in Contents
    /\ object \in Contents
    /\ sidecar \in Contents
    /\ partly \in BOOLEAN
    /\ ustep \in [Uploaders -> {"idle", "copy", "link", "create", "write", "undo"}]
    /\ upload \in [Uploaders -> Contents]
    /\ cstep \in [Completers -> {"idle", "read", "sidecar", "open", "put", "cleanup", "discard", "discardSidecar"}]
    /\ seen \in [Completers -> Contents]
    /\ completes \in 0..MaxCompletes
    /\ driver = "local" => temporary = None
    /\ uploads # 0 => ticket # "none"

Init ==
    /\ driver \in {"s3", "local"}
    /\ ticket = "none"
    /\ allowed \in SUBSET Scopes
    /\ uploads = 0
    /\ good = {}
    /\ temporary = None
    /\ object = None
    /\ sidecar = None
    /\ partly = FALSE
    /\ ustep = [u \in Uploaders |-> "idle"]
    /\ upload = [u \in Uploaders |-> None]
    /\ cstep = [c \in Completers |-> "idle"]
    /\ seen = [c \in Completers |-> None]
    /\ completes = 0

storage == <<temporary, object, sidecar, partly>>

uploaders == <<ustep, upload>>

completers == <<cstep, seen, completes>>

\* requireAccess: the permission in the environment, the project in it.
requireAccess(scope) == scope \in allowed

\* Presign: a fresh key in the caller's scope, and a ticket for it.
Presign ==
    /\ ticket = "none"
    /\ requireAccess(Owner)
    /\ ticket' = "valid"
    /\ UNCHANGED <<driver, allowed, uploads, good, storage, uploaders, completers>>

Expire ==
    /\ ticket = "valid"
    /\ ticket' = "expired"
    /\ UNCHANGED <<driver, allowed, uploads, good, storage, uploaders, completers>>

ChangeAccess(scope) ==
    /\ allowed' = IF scope \in allowed THEN allowed \ {scope} ELSE allowed \cup {scope}
    /\ UNCHANGED <<driver, ticket, uploads, good, storage, uploaders, completers>>

\* The ticket authenticates the upload: its signature, and that it has not expired.
NewUpload(isGood) ==
    /\ ticket = "valid"
    /\ uploads < MaxUploads
    /\ uploads' = uploads + 1
    /\ good' = IF isGood THEN good \cup {uploads'} ELSE good

\* S3 accepts any size the policy allows and replaces what the key held.
UploadS3 ==
    /\ driver = "s3"
    /\ \E isGood \in BOOLEAN : NewUpload(isGood)
    /\ temporary' = uploads'
    /\ UNCHANGED <<driver, ticket, allowed, object, sidecar, partly, uploaders, completers>>

-----------------------------------------------------------------------------
(* writeUpload of the local driver *)

UploadDone(u) ==
    /\ ustep' = [ustep EXCEPT ![u] = "idle"]
    /\ upload' = [upload EXCEPT ![u] = None]

Step(u, label) ==
    /\ ustep' = [ustep EXCEPT ![u] = label]
    /\ UNCHANGED upload

UploadLocal(u) ==
    /\ driver = "local"
    /\ ustep[u] = "idle"
    /\ object = None
    /\ \E isGood \in BOOLEAN : NewUpload(isGood)
    /\ ustep' = [ustep EXCEPT ![u] = "copy"]
    /\ upload' = [upload EXCEPT ![u] = uploads']
    /\ UNCHANGED <<driver, ticket, allowed, storage, completers>>

\* Into a temporary file; another size than the declared one ends the upload.
Copy(u) ==
    /\ ustep[u] = "copy"
    /\ \/ upload[u] \in good /\ Step(u, "link")
       \/ upload[u] \notin good /\ UploadDone(u)
    /\ UNCHANGED <<driver, ticket, allowed, uploads, good, storage, completers>>

\* os.Link does not replace a file.
Link(u) ==
    /\ ustep[u] = "link"
    /\ \/ /\ object = None
          /\ object' = upload[u]
          /\ Step(u, "create")
       \/ /\ object # None
          /\ UploadDone(u)
          /\ UNCHANGED object
    /\ UNCHANGED <<driver, ticket, allowed, uploads, good, temporary, sidecar, partly, completers>>

\* O_EXCL: where a sidecar exists the object that was just linked goes again.
CreateSidecar(u) ==
    /\ ustep[u] = "create"
    /\ \/ /\ sidecar = None
          /\ sidecar' = upload[u]
          /\ partly' = TRUE
          /\ Step(u, "write")
       \/ /\ sidecar # None
          /\ Step(u, "undo")
          /\ UNCHANGED <<sidecar, partly>>
    /\ UNCHANGED <<driver, ticket, allowed, uploads, good, temporary, object, completers>>

\* The file may have been unlinked since; the upload is acknowledged all the same.
WriteSidecar(u) ==
    /\ ustep[u] = "write"
    /\ partly' = IF sidecar = upload[u] THEN FALSE ELSE partly
    /\ UploadDone(u)
    /\ UNCHANGED <<driver, ticket, allowed, uploads, good, temporary, object, sidecar, completers>>

\* A write that fails removes the sidecar by its name and then, as a sidecar
\* that cannot be created does, the object: two removals, whose results are ignored.
UploadFails(u) ==
    /\ \/ /\ ustep[u] \in {"copy", "link"}
          /\ UploadDone(u)
          /\ UNCHANGED <<sidecar, partly>>
       \/ /\ ustep[u] = "create"
          /\ Step(u, "undo")
          /\ UNCHANGED <<sidecar, partly>>
       \/ /\ ustep[u] = "write"
          /\ \/ sidecar' = None /\ partly' = FALSE
             \/ UNCHANGED <<sidecar, partly>>
          /\ Step(u, "undo")
    /\ UNCHANGED <<driver, ticket, allowed, uploads, good, temporary, object, completers>>

RemoveObject(u) ==
    /\ ustep[u] = "undo"
    /\ object' \in {object, None}
    /\ UploadDone(u)
    /\ UNCHANGED <<driver, ticket, allowed, uploads, good, temporary, sidecar, partly, completers>>

-----------------------------------------------------------------------------
(* Complete *)

Go(c, label) ==
    /\ cstep' = [cstep EXCEPT ![c] = label]
    /\ UNCHANGED <<seen, completes>>

CompleteDone(c) ==
    /\ cstep' = [cstep EXCEPT ![c] = "idle"]
    /\ seen' = [seen EXCEPT ![c] = None]
    /\ UNCHANGED completes

\* The scope in the key must be the caller's before storage is asked anything.
Complete(c, scope) ==
    /\ cstep[c] = "idle"
    /\ completes < MaxCompletes
    /\ ticket # "none"
    /\ scope = Owner
    /\ requireAccess(scope)
    /\ completes' = completes + 1
    /\ cstep' = [cstep EXCEPT ![c] = "read"]
    /\ UNCHANGED <<driver, ticket, allowed, uploads, good, storage, uploaders, seen>>

\* Actual size and type against the declaration stored with the object.
validateCompletedMetadata(content) == content \in good

\* S3: a missing object ends the call, a wrong one is discarded first.
ReadMetadata(c) ==
    /\ driver = "s3"
    /\ cstep[c] = "read"
    /\ \/ /\ temporary = None
          /\ CompleteDone(c)
       \/ /\ temporary # None
          /\ seen' = [seen EXCEPT ![c] = temporary]
          /\ cstep' = [cstep EXCEPT ![c] = IF validateCompletedMetadata(temporary) THEN "open" ELSE "discard"]
          /\ UNCHANGED completes
    /\ UNCHANGED <<driver, ticket, allowed, uploads, good, storage, uploaders>>

Bug_OpenAnyVersion(c) ==
    /\ cstep[c] = "open"
    /\ temporary # None
    /\ seen' = [seen EXCEPT ![c] = temporary]
    /\ cstep' = [cstep EXCEPT ![c] = "put"]
    /\ UNCHANGED <<driver, ticket, allowed, uploads, good, storage, uploaders, completes>>

\* GET with If-Match: the version that was validated, or an error.
OpenObject(c) ==
    /\ cstep[c] = "open"
    /\ \/ temporary = seen[c] /\ Go(c, "put")
       \/ temporary # seen[c] /\ CompleteDone(c)
    /\ UNCHANGED <<driver, ticket, allowed, uploads, good, storage, uploaders>>

Bug_PutOverwrites(c) ==
    /\ cstep[c] = "put"
    /\ object' = seen[c]
    /\ Go(c, "cleanup")
    /\ UNCHANGED <<driver, ticket, allowed, uploads, good, temporary, sidecar, partly, uploaders>>

Bug_CleanupFirst(c) ==
    /\ cstep[c] = "put"
    /\ temporary' = None
    /\ \/ object = None /\ object' = seen[c] /\ Go(c, "cleanup")
       \/ CompleteDone(c) /\ UNCHANGED object
    /\ UNCHANGED <<driver, ticket, allowed, uploads, good, sidecar, partly, uploaders>>

\* PUT with If-None-Match: the commit point.
PutObjectIfAbsent(c) ==
    /\ cstep[c] = "put"
    /\ \/ object = None /\ object' = seen[c] /\ Go(c, "cleanup")
       \/ object # None /\ CompleteDone(c) /\ UNCHANGED object
    /\ UNCHANGED <<driver, ticket, allowed, uploads, good, temporary, sidecar, partly, uploaders>>

\* The result of the removal is ignored.
Cleanup(c) ==
    /\ cstep[c] = "cleanup"
    /\ temporary' \in {temporary, None}
    /\ CompleteDone(c)
    /\ UNCHANGED <<driver, ticket, allowed, uploads, good, object, sidecar, partly, uploaders>>

\* Local: the object first, its sidecar next; only a sidecar that cannot be
\* decoded is an error of integrity.
ReadObject(c) ==
    /\ driver = "local"
    /\ cstep[c] = "read"
    /\ \/ object # None /\ Go(c, "sidecar")
       \/ object = None /\ CompleteDone(c)
    /\ UNCHANGED <<driver, ticket, allowed, uploads, good, storage, uploaders>>

ReadSidecar(c) ==
    /\ cstep[c] = "sidecar"
    /\ \/ sidecar # None /\ partly /\ Go(c, "discard")
       \/ (sidecar = None \/ ~partly) /\ CompleteDone(c)
    /\ UNCHANGED <<driver, ticket, allowed, uploads, good, storage, uploaders>>

\* DeleteIncomplete: the temporary S3 object, or the two local files in turn.
DeleteIncomplete(c) ==
    /\ cstep[c] \in {"discard", "discardSidecar"}
    /\ \/ /\ driver = "s3"
          /\ temporary' = None
          /\ CompleteDone(c)
          /\ UNCHANGED <<object, sidecar, partly>>
       \/ /\ driver = "local" /\ cstep[c] = "discard"
          /\ object' = None
          /\ Go(c, "discardSidecar")
          /\ UNCHANGED <<temporary, sidecar, partly>>
       \/ /\ driver = "local" /\ cstep[c] = "discardSidecar"
          /\ sidecar' = None
          /\ partly' = FALSE
          /\ CompleteDone(c)
          /\ UNCHANGED <<temporary, object>>
    /\ UNCHANGED <<driver, ticket, allowed, uploads, good, uploaders>>

\* A provider error or a cancelled request ends the call where it stands.
CompleteFails(c) ==
    /\ cstep[c] # "idle"
    /\ CompleteDone(c)
    /\ UNCHANGED <<driver, ticket, allowed, uploads, good, storage, uploaders>>

\* Every call dies; a new process signs local tickets with a new key.
Restart ==
    /\ ustep' = [u \in Uploaders |-> "idle"]
    /\ upload' = [u \in Uploaders |-> None]
    /\ cstep' = [c \in Completers |-> "idle"]
    /\ seen' = [c \in Completers |-> None]
    /\ ticket' = IF driver = "local" /\ ticket = "valid" THEN "expired" ELSE ticket
    /\ UNCHANGED <<driver, allowed, uploads, good, storage, completes>>

Next ==
    \/ Presign \/ Expire \/ UploadS3 \/ Restart
    \/ \E s \in Scopes : ChangeAccess(s)
    \/ \E u \in Uploaders :
          UploadLocal(u) \/ Copy(u) \/ Link(u) \/ CreateSidecar(u) \/ WriteSidecar(u)
          \/ UploadFails(u) \/ RemoveObject(u)
    \/ \E c \in Completers :
          \/ \E s \in Scopes : Complete(c, s)
          \/ ReadMetadata(c) \/ OpenObject(c) \/ PutObjectIfAbsent(c) \/ Cleanup(c)
          \/ ReadObject(c) \/ ReadSidecar(c) \/ DeleteIncomplete(c) \/ CompleteFails(c)

Spec == Init /\ [][Next]_vars

-----------------------------------------------------------------------------
(* Properties *)

\* "Reusing an upload ticket can therefore never change a published URL" (s3.go):
\* a published S3 object stays as it is, whatever uploads and completions follow
\* or run beside it.  A local object can be removed, never replaced.
PublishedImmutable ==
    [][object # None => object' = object \/ (driver = "local" /\ object' = None)]_vars

\* What is published has the size and the type its ticket declared, also when
\* the temporary object is replaced while a completion works on it.
PublishedAsDeclared == object # None => object \in good

\* DeleteIncomplete and Cleanup remove the temporary S3 object by its key, not by
\* the version the completion looked at.  So a sound upload can be lost, and this
\* is the only way it is: before anything is public, the newest upload disappears
\* only to a completion that found an earlier, wrong upload of the same ticket
\* there and discards it late.  Failed, repeated and overlapping completions of
\* sound uploads lose nothing, however often the object is replaced.
UploadKept ==
    [][driver = "s3" /\ object = None /\ temporary \in good /\ temporary' = None
         => \E c \in Completers : cstep[c] = "discard" /\ seen[c] \in (1..(temporary - 1)) \ good]_vars
=============================================================================
