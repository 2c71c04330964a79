--------------------------- MODULE OriginalFiles ---------------------------
(***************************************************************************)
(* The original files of documents: objects in MinIO and the revision rows *)
(* that refer to them.  An upload stores its object first and then commits *)
(* the revision; a deletion stops the document in one transaction, removes *)
(* its objects and deletes its rows in another.  No step covers both       *)
(* stores, and the answer of either may be lost.                           *)
(*                                                                         *)
(* Every upload makes a key of its own, so a revision is named by its      *)
(* object.  What an upload may be refused for once its file is stored      *)
(* (permissions, an unchanged file, a document code in use) is one action; *)
(* the race it must detect, another revision or a deletion, is explicit.   *)
(***************************************************************************)
EXTENDS Naturals

CONSTANTS
  Uploaders,     \* HTTP requests being served at once
  MaxDocuments,  \* bound: documents ever created
  MaxFiles       \* bound: uploads whose file reaches the object storage

ASSUME FilesBoundsAssumption == MaxDocuments \in Nat /\ MaxFiles \in Nat

VARIABLES
  document,  \* document rows
  owner,     \* the document whose revision refers, or referred, to an object
  objects,   \* objects that exist in MinIO
  keys,      \* object keys made so far
  request,   \* requests inside the server
  excused    \* ghost: objects a fault may have left behind

filesVars == <<document, owner, objects, keys, request, excused>>

Documents == 1..MaxDocuments
Files == 1..MaxFiles

Document ==
  [status : {"NONE", "LIVE", "DELETED", "PURGED"},
   desired : 0..MaxFiles]           \* desired_revision_id

UploadCall ==
  [phase : {"idle", "checked", "stored", "refused", "unknown", "deleting"},
   document : 0..MaxDocuments,      \* 0: a new document
   expected : 0..MaxFiles,          \* expected_revision_id
   file : 0..MaxFiles,              \* the key of the upload
   left : SUBSET Files]             \* objects a deletion has still to remove

NoDocument == [status |-> "NONE", desired |-> 0]
NoUpload == [phase |-> "idle", document |-> 0, expected |-> 0, file |-> 0, left |-> {}]

FilesTypeOK ==
  /\ document \in [Documents -> Document]
  /\ owner \in [Files -> 0..MaxDocuments]
  /\ objects \subseteq Files
  /\ keys \in 0..MaxFiles
  /\ request \in [Uploaders -> UploadCall]
  /\ excused \subseteq Files

FilesInit ==
  /\ document = [d \in Documents |-> NoDocument]
  /\ owner = [f \in Files |-> 0]
  /\ objects = {}
  /\ keys = 0
  /\ request = [u \in Uploaders |-> NoUpload]
  /\ excused = {}

-----------------------------------------------------------------------------
(* Uploading *)

Doing(u, phase) == request[u].phase = phase
Ends(u) == request' = [request EXCEPT ![u] = NoUpload]
RevisionsOf(d) == {f \in Files : owner[f] = d}

(* update_target() of a revised document, or require_write() of a new one. *)
BeginUpload(u, d) ==
  /\ Doing(u, "idle") /\ keys < MaxFiles
  /\ d # 0 => document[d].status = "LIVE"
  /\ request' = [request EXCEPT ![u] =
       [NoUpload EXCEPT !.phase = "checked", !.document = d,
                        !.expected = IF d = 0 THEN 0 ELSE document[d].desired]]
  /\ UNCHANGED <<document, owner, objects, keys, excused>>

(* The object is stored under a new key.  When put() fails, the object may *)
(* be there all the same, and nobody will look for it.                     *)
PutFile(u) ==
  /\ Doing(u, "checked") /\ keys < MaxFiles
  /\ LET f == keys + 1
     IN /\ keys' = f
        /\ \/ /\ objects' = objects \cup {f}
              /\ request' = [request EXCEPT ![u].phase = "stored", ![u].file = f]
              /\ UNCHANGED excused
           \/ /\ objects' \in {objects, objects \cup {f}}
              /\ excused' = excused \cup {f}
              /\ Ends(u)
  /\ UNCHANGED <<document, owner>>

(* persist() finds the document as the user saw it, under its lock.        *)
MayPersist(d, expected) == document[d].status = "LIVE" /\ document[d].desired = expected

IsNewDocument(d) ==
  document[d].status = "NONE" /\ \A e \in 1..(d - 1) : document[e].status # "NONE"

(* persist() and its commit, which is answered or not.                     *)
PersistUpload(u) ==
  LET f == request[u].file
  IN /\ Doing(u, "stored")
     /\ \E d \in Documents :
          /\ IF request[u].document = 0
             THEN IsNewDocument(d)
             ELSE d = request[u].document /\ MayPersist(d, request[u].expected)
          /\ document' = [document EXCEPT ![d] = [status |-> "LIVE", desired |-> f]]
          /\ owner' = [owner EXCEPT ![f] = d]
     /\ \/ Ends(u)
        \/ request' = [request EXCEPT ![u].phase = "unknown"]
     /\ UNCHANGED <<objects, keys, excused>>

(* persist() refuses the upload, or fails without a commit.                *)
RefuseUpload(u) ==
  /\ Doing(u, "stored")
  /\ \/ /\ request' = [request EXCEPT ![u].phase = "refused"]
        /\ UNCHANGED excused
     \/ /\ request' = [request EXCEPT ![u].phase = "unknown"]
        /\ excused' = excused \cup {request[u].file}
  /\ UNCHANGED <<document, owner, objects, keys>>

(* Fault: every exception removes the file.                                *)
IsCleanedUp_Always(phase) == TRUE

(* Only an error that comes before the commit removes the file.            *)
IsCleanedUp(phase) == phase = "refused"

(* The except clauses of upload(); the removal itself may fail.            *)
CleanUpUpload(u) ==
  LET f == request[u].file
  IN /\ request[u].phase \in {"refused", "unknown"}
     /\ \/ /\ objects' = IF IsCleanedUp(request[u].phase) THEN objects \ {f} ELSE objects
           /\ UNCHANGED excused
        \/ /\ excused' = excused \cup {f}
           /\ UNCHANGED objects
     /\ Ends(u)
     /\ UNCHANGED <<document, owner, keys>>

-----------------------------------------------------------------------------
(* Deleting *)

(* delete_document(): processing stops, the objects are listed.            *)
PrepareDeletion(u, d) ==
  /\ Doing(u, "idle") /\ document[d].status \in {"LIVE", "DELETED"}
  /\ document' = [document EXCEPT ![d] = [status |-> "DELETED", desired |-> 0]]
  /\ request' = [request EXCEPT ![u] = [NoUpload EXCEPT !.phase = "deleting",
                                          !.document = d, !.left = RevisionsOf(d)]]
  /\ UNCHANGED <<owner, objects, keys, excused>>

(* remove(): all versions of one object.                                   *)
RemoveObject(u, f) ==
  /\ Doing(u, "deleting") /\ f \in request[u].left
  /\ objects' = objects \ {f}
  /\ request' = [request EXCEPT ![u].left = @ \ {f}]
  /\ UNCHANGED <<document, owner, keys, excused>>

IsCleared(u) == Doing(u, "deleting") /\ request[u].left = {}

(* purge_document(): all rows of the document are deleted.                 *)
PurgeDocument(u) ==
  LET d == request[u].document
  IN /\ IsCleared(u) /\ document[d].status = "DELETED"
     /\ document' = [document EXCEPT ![d].status = "PURGED"]
     /\ Ends(u)
     /\ UNCHANGED <<owner, objects, keys, excused>>

(* A request is refused, loses a store, or its process dies.               *)
AbortRequest(u) ==
  /\ ~Doing(u, "idle")
  /\ excused' = IF request[u].file # 0 THEN excused \cup {request[u].file} ELSE excused
  /\ Ends(u)
  /\ UNCHANGED <<document, owner, objects, keys>>

FilesNext ==
  \E u \in Uploaders :
    \/ \E d \in Documents \cup {0} : BeginUpload(u, d)
    \/ PutFile(u)
    \/ PersistUpload(u)
    \/ RefuseUpload(u)
    \/ CleanUpUpload(u)
    \/ \E d \in Documents : PrepareDeletion(u, d)
    \/ \E f \in Files : RemoveObject(u, f)
    \/ PurgeDocument(u)
    \/ AbortRequest(u)

FilesSpec == FilesInit /\ [][FilesNext]_filesVars

-----------------------------------------------------------------------------
(* Properties *)

(* No revision of a document that can be read loses its file, whatever     *)
(* answers of PostgreSQL or MinIO are lost while uploads and deletions     *)
(* race (upload: the object of an unknown commit is kept).                 *)
ReadableRevisionsHaveFiles ==
  \A f \in Files :
    owner[f] # 0 /\ document[owner[f]].status = "LIVE" => f \in objects

(* Once the rows of a document are gone nobody knows its keys any more: by *)
(* then every file it ever had is gone, however often the deletion was     *)
(* interrupted and asked for again, and whatever uploads raced it.         *)
PurgedDocumentsLeaveNoFiles ==
  \A f \in objects : owner[f] # 0 => document[owner[f]].status # "PURGED"

(* A file that no revision refers to and no request works on was left by a *)
(* failure; refused uploads alone never fill the storage (upload).         *)
RefusedUploadsLeaveNoFiles ==
  \A f \in objects :
    \/ owner[f] # 0 \/ f \in excused
    \/ \E u \in Uploaders : request[u].file = f

(* The three together: what PostgreSQL and MinIO may disagree on.          *)
FilesMatchDocuments ==
  /\ ReadableRevisionsHaveFiles
  /\ PurgedDocumentsLeaveNoFiles
  /\ RefusedUploadsLeaveNoFiles

=============================================================================
