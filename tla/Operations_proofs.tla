------------------------- MODULE Operations_proofs -------------------------
(***************************************************************************)
(* Original files, rebuilt graphs and the locks of the transactions, whose *)
(* modules share no state.                                                 *)
(*                                                                         *)
(* What PostgreSQL and MinIO may disagree on, for any number of requests,  *)
(* documents and files.  FilesInv adds to FilesMatchDocuments why it is    *)
(* kept: keys are never used twice, a request that has stored a file is    *)
(* the only one to know it, and a deletion has still to remove whatever    *)
(* its document left in the storage.                                       *)
(*                                                                         *)
(* At most one graph serves a generation, none that is erased, and a       *)
(* rebuilt one is the graph a reviewer saw; a published generation keeps   *)
(* the graph it has.  RebuildInv adds what the rows of a generation say of *)
(* each other, and what commands under way rely on.  Any number of         *)
(* commands, facts, projections and generations.                           *)
(*                                                                         *)
(* Transactions other than those that show chat answers never wait for     *)
(* each other in a circle, for any number of connections and tasks.        *)
(***************************************************************************)
EXTENDS OriginalFiles, GraphRebuild, LockOrder, SequenceTheorems, FiniteSetTheorems,
        WellFoundedInduction, TLAPS

-----------------------------------------------------------------------------
(* Original files *)

(* A key that was not made yet is neither referred to nor used.            *)
KeysAreFresh ==
  /\ \A f \in Files : f > keys => owner[f] = 0 /\ f \notin objects
  /\ \A u \in Uploaders : request[u].file \in 0..keys

(* No two requests work on the same file.                                  *)
RequestsHoldTheirFile ==
  \A u, v \in Uploaders : request[u].file = request[v].file => u = v \/ request[u].file = 0

(* What a request knows of its file in each phase.                         *)
UploadsKnowTheirFile ==
  \A u \in Uploaders :
    LET f == request[u].file
    IN /\ f # 0 <=> request[u].phase \in {"stored", "refused", "unknown"}
       /\ request[u].phase \in {"stored", "refused"} => owner[f] = 0
       /\ request[u].phase = "stored" => f \in objects
       /\ request[u].phase = "unknown" => owner[f] # 0 \/ f \in excused

OwnersExist == \A f \in Files : owner[f] # 0 => document[owner[f]].status # "NONE"

(* A deletion has yet to remove each object of its document.               *)
DeletionsKnowTheFiles ==
  \A u \in Uploaders : request[u].phase = "deleting" =>
    LET d == request[u].document
    IN /\ d \in Documents /\ document[d].status \in {"DELETED", "PURGED"}
       /\ \A f \in request[u].left : owner[f] = d
       /\ \A f \in objects : owner[f] = d => f \in request[u].left

FilesInv ==
  /\ FilesTypeOK
  /\ KeysAreFresh
  /\ RequestsHoldTheirFile
  /\ UploadsKnowTheirFile
  /\ OwnersExist
  /\ DeletionsKnowTheFiles
  /\ FilesMatchDocuments

-----------------------------------------------------------------------------
(* Types *)

LEMMA NoUploadType == NoUpload \in UploadCall
  BY FilesBoundsAssumption DEF NoUpload, UploadCall, Files

LEMMA FilesInitially == FilesInit => FilesInv
  BY FilesBoundsAssumption, NoUploadType
  DEF FilesInit, FilesInv, FilesTypeOK, KeysAreFresh, RequestsHoldTheirFile,
      UploadsKnowTheirFile, OwnersExist, DeletionsKnowTheFiles, FilesMatchDocuments,
      ReadableRevisionsHaveFiles, PurgedDocumentsLeaveNoFiles, RefusedUploadsLeaveNoFiles,
      NoDocument, NoUpload, Document, Documents, Files

-----------------------------------------------------------------------------
(* Uploads *)

LEMMA BeginUploadKeeps ==
  ASSUME FilesInv, NEW u \in Uploaders, NEW d \in Documents \cup {0}, BeginUpload(u, d)
  PROVE  FilesInv'
PROOF
<1> DEFINE expected == IF d = 0 THEN 0 ELSE document[d].desired
           c == [NoUpload EXCEPT !.phase = "checked", !.document = d, !.expected = expected]
<1>1. /\ c \in UploadCall /\ c.phase = "checked" /\ c.file = 0
      /\ request' = [request EXCEPT ![u] = c] /\ request[u].phase = "idle"
      /\ UNCHANGED <<document, owner, objects, keys, excused>>
  <2>1. expected \in 0..MaxFiles
    BY FilesBoundsAssumption DEF FilesInv, FilesTypeOK, Document
  <2>9. request' = [request EXCEPT ![u] = c] /\ request[u].phase = "idle"
        /\ UNCHANGED <<document, owner, objects, keys, excused>>
    BY DEF BeginUpload, Doing
  <2> HIDE DEF expected
  <2>2. d \in 0..MaxDocuments
    BY FilesBoundsAssumption DEF Documents
  <2>3. c \in UploadCall
    BY <2>1, <2>2, NoUploadType DEF UploadCall
  <2>4. c.phase = "checked" /\ c.file = 0
    BY DEF NoUpload
  <2> QED
    BY <2>3, <2>4, <2>9
<1> HIDE DEF c
<1>2. FilesTypeOK'
  BY <1>1 DEF FilesInv, FilesTypeOK
<1>3. KeysAreFresh'
  BY <1>1 DEF FilesInv, FilesTypeOK, KeysAreFresh
<1>4. RequestsHoldTheirFile'
  BY <1>1 DEF FilesInv, FilesTypeOK, RequestsHoldTheirFile
<1>5. UploadsKnowTheirFile'
  BY <1>1 DEF FilesInv, FilesTypeOK, UploadsKnowTheirFile
<1>6. OwnersExist'
  BY <1>1 DEF FilesInv, OwnersExist
<1>7. DeletionsKnowTheFiles'
  BY <1>1 DEF FilesInv, FilesTypeOK, DeletionsKnowTheFiles
<1>8. FilesMatchDocuments'
  <2>1. ReadableRevisionsHaveFiles' /\ PurgedDocumentsLeaveNoFiles'
    BY <1>1 DEF FilesInv, FilesMatchDocuments, ReadableRevisionsHaveFiles, PurgedDocumentsLeaveNoFiles
  <2>2. RefusedUploadsLeaveNoFiles'
    BY <1>1 DEF FilesInv, FilesTypeOK, FilesMatchDocuments, RefusedUploadsLeaveNoFiles,
                UploadsKnowTheirFile, Files
  <2> QED
    BY <2>1, <2>2 DEF FilesMatchDocuments
<1> QED
  BY <1>2, <1>3, <1>4, <1>5, <1>6, <1>7, <1>8 DEF FilesInv

LEMMA PutFileKeeps ==
  ASSUME FilesInv, NEW u \in Uploaders, PutFile(u)
  PROVE  FilesInv'
PROOF
<1> DEFINE f == keys + 1
           stored == [request[u] EXCEPT !.phase = "stored", !.file = f]
           c == request'[u]
<1>1. /\ f \in Files /\ keys' = f /\ keys \in Nat /\ owner[f] = 0 /\ f \notin objects
      /\ request[u].phase = "checked" /\ request[u].file = 0
      /\ UNCHANGED <<document, owner>>
  BY FilesBoundsAssumption
  DEF FilesInv, FilesTypeOK, KeysAreFresh, UploadsKnowTheirFile, PutFile, Doing, Files
<1>2. /\ c \in UploadCall /\ request' = [request EXCEPT ![u] = c]
      /\ objects \subseteq objects' /\ objects' \subseteq objects \cup {f}
      /\ excused \subseteq excused' /\ excused' \subseteq excused \cup {f}
      /\ \/ c.phase = "stored" /\ c.file = f /\ f \in objects'
         \/ c = NoUpload /\ f \in excused'
  <2>1. CASE /\ objects' = objects \cup {f}
             /\ request' = [request EXCEPT ![u].phase = "stored", ![u].file = f]
             /\ UNCHANGED excused
    <3>1. request[u] \in UploadCall /\ f \in 0..MaxFiles
      BY <1>1, FilesBoundsAssumption DEF FilesInv, FilesTypeOK, Files
    <3>2. stored \in UploadCall /\ stored.phase = "stored" /\ stored.file = f
      BY <3>1 DEF UploadCall
    <3>3. request' = [request EXCEPT ![u] = stored] /\ request'[u] = stored
      BY <2>1 DEF FilesInv, FilesTypeOK
    <3> QED
      BY <2>1, <3>2, <3>3
  <2>2. CASE /\ objects' \in {objects, objects \cup {f}}
             /\ excused' = excused \cup {f}
             /\ Ends(u)
    BY <2>2, NoUploadType DEF FilesInv, FilesTypeOK, Ends
  <2> QED
    BY <2>1, <2>2 DEF PutFile
<1> HIDE DEF c, stored, f
<1>3. /\ \A v \in Uploaders : request[v].file # f
      /\ \A v \in Uploaders : v # u => request'[v] = request[v]
      /\ request'[u] = c /\ c.file \in {0, f} /\ c.phase \in {"stored", "idle"}
      /\ f \in Nat /\ 0 # f /\ f = keys + 1
  BY <1>1, <1>2 DEF FilesInv, FilesTypeOK, KeysAreFresh, f, NoUpload
<1>4. FilesTypeOK'
  BY <1>1, <1>2 DEF FilesInv, FilesTypeOK, Files
<1>5. KeysAreFresh'
  BY <1>1, <1>2, <1>3 DEF FilesInv, FilesTypeOK, KeysAreFresh, Files
<1>6. RequestsHoldTheirFile'
  BY <1>3 DEF FilesInv, RequestsHoldTheirFile
<1>7. UploadsKnowTheirFile'
  BY <1>1, <1>2, <1>3 DEF FilesInv, UploadsKnowTheirFile, NoUpload
<1>8. OwnersExist'
  BY <1>1 DEF FilesInv, OwnersExist
<1>9. DeletionsKnowTheFiles'
  BY <1>1, <1>2, <1>3 DEF FilesInv, DeletionsKnowTheFiles, Documents
<1>10. FilesMatchDocuments'
  <2>1. ReadableRevisionsHaveFiles' /\ PurgedDocumentsLeaveNoFiles'
    BY <1>1, <1>2
    DEF FilesInv, FilesMatchDocuments, ReadableRevisionsHaveFiles, PurgedDocumentsLeaveNoFiles
  <2>2. RefusedUploadsLeaveNoFiles'
    BY <1>1, <1>2, <1>3
    DEF FilesInv, FilesTypeOK, FilesMatchDocuments, RefusedUploadsLeaveNoFiles, Files
  <2> QED
    BY <2>1, <2>2 DEF FilesMatchDocuments
<1> QED
  BY <1>4, <1>5, <1>6, <1>7, <1>8, <1>9, <1>10 DEF FilesInv

LEMMA PersistUploadKeeps ==
  ASSUME FilesInv, NEW u \in Uploaders, PersistUpload(u)
  PROVE  FilesInv'
PROOF
<1> DEFINE f == request[u].file
           unknown == [request[u] EXCEPT !.phase = "unknown"]
           c == request'[u]
<1>1. /\ request[u].phase = "stored" /\ f \in Files /\ f # 0 /\ f <= keys /\ owner[f] = 0
      /\ f \in objects /\ request[u] \in UploadCall /\ UNCHANGED <<objects, keys, excused>>
  BY FilesBoundsAssumption
  DEF FilesInv, FilesTypeOK, KeysAreFresh, UploadsKnowTheirFile, PersistUpload, Doing, Files,
      UploadCall
<1>2. PICK d \in Documents :
        /\ document[d].status \in {"NONE", "LIVE"}
        /\ document' = [document EXCEPT ![d] = [status |-> "LIVE", desired |-> f]]
        /\ owner' = [owner EXCEPT ![f] = d]
  BY DEF PersistUpload, IsNewDocument, MayPersist
<1>3. /\ c \in UploadCall /\ request' = [request EXCEPT ![u] = c]
      /\ \/ c.phase = "unknown" /\ c.file = f
         \/ c.phase = "idle" /\ c.file = 0
  <2>1. CASE Ends(u)
    BY <2>1, NoUploadType DEF FilesInv, FilesTypeOK, Ends, NoUpload
  <2>2. CASE request' = [request EXCEPT ![u].phase = "unknown"]
    <3>1. unknown \in UploadCall /\ unknown.phase = "unknown" /\ unknown.file = f
      BY <1>1 DEF UploadCall
    <3>2. request' = [request EXCEPT ![u] = unknown] /\ request'[u] = unknown
      BY <2>2 DEF FilesInv, FilesTypeOK
    <3> QED
      BY <3>1, <3>2
  <2> QED
    BY <2>1, <2>2 DEF PersistUpload
<1> HIDE DEF c
<1>4. /\ d # 0 /\ d \in 0..MaxDocuments
      /\ owner'[f] = d /\ \A g \in Files : g # f => owner'[g] = owner[g]
      /\ document'[d].status = "LIVE"
      /\ \A e \in Documents : e # d => document'[e] = document[e]
      /\ request'[u] = c /\ \A v \in Uploaders : v # u => request'[v] = request[v]
  BY <1>1, <1>2, <1>3, FilesBoundsAssumption DEF FilesInv, FilesTypeOK, Documents
<1>5. FilesTypeOK'
  <2>1. [status |-> "LIVE", desired |-> f] \in Document
    BY <1>1 DEF Document, UploadCall
  <2> QED
    BY <1>1, <1>2, <1>3, <1>4, <2>1 DEF FilesInv, FilesTypeOK
<1>6. KeysAreFresh'
  BY <1>1, <1>3, <1>4 DEF FilesInv, FilesTypeOK, KeysAreFresh, Files
<1>7. RequestsHoldTheirFile'
  BY <1>3, <1>4 DEF FilesInv, RequestsHoldTheirFile
<1>8. UploadsKnowTheirFile'
  <2> SUFFICES ASSUME NEW v \in Uploaders
               PROVE  UploadsKnowTheirFile!(v)'
    BY DEF UploadsKnowTheirFile
  <2>1. CASE v = u
    BY <1>1, <1>3, <1>4, <2>1
  <2>2. CASE v # u
    <3>1. request'[v] = request[v] /\ request[v].file # f
      BY <1>1, <1>4, <2>2 DEF FilesInv, RequestsHoldTheirFile
    <3>2. request[v].file # 0 => owner'[request[v].file] = owner[request[v].file]
      BY <1>4, <3>1 DEF FilesInv, FilesTypeOK, UploadCall, Files
    <3> QED
      BY <1>1, <3>1, <3>2 DEF FilesInv, UploadsKnowTheirFile
  <2> QED
    BY <2>1, <2>2
<1>9. OwnersExist'
  BY <1>4 DEF FilesInv, FilesTypeOK, OwnersExist, Documents
<1>10. DeletionsKnowTheFiles'
  <2> SUFFICES ASSUME NEW v \in Uploaders, request'[v].phase = "deleting"
               PROVE  DeletionsKnowTheFiles!(v)!2'
    BY DEF DeletionsKnowTheFiles
  <2> DEFINE e == request[v].document
  <2>1. request'[v] = request[v] /\ e \in Documents /\ document[e].status \in {"DELETED", "PURGED"}
    BY <1>3, <1>4 DEF FilesInv, DeletionsKnowTheFiles
  <2>2. e # d /\ document'[e] = document[e]
    BY <1>2, <1>4, <2>1
  <2>3. \A g \in request[v].left : g \in Files /\ g # f /\ owner[g] = e
    BY <1>1, <2>1 DEF FilesInv, FilesTypeOK, UploadCall, DeletionsKnowTheFiles, Documents
  <2>4. \A g \in objects : owner'[g] = e => g \in request[v].left
    BY <1>1, <1>4, <2>1, <2>2 DEF FilesInv, FilesTypeOK, DeletionsKnowTheFiles
  <2> QED
    BY <1>1, <1>4, <2>1, <2>2, <2>3, <2>4
<1>11. FilesMatchDocuments'
  <2>1. \A g \in Files : g # f /\ owner[g] # 0 =>
          \/ owner[g] # d /\ document'[owner[g]] = document[owner[g]]
          \/ owner[g] = d /\ document[d].status = "LIVE"
    BY <1>2, <1>4 DEF FilesInv, FilesTypeOK, OwnersExist, Documents
  <2>2. ReadableRevisionsHaveFiles' /\ PurgedDocumentsLeaveNoFiles'
    BY <1>1, <1>4, <2>1
    DEF FilesInv, FilesTypeOK, FilesMatchDocuments, ReadableRevisionsHaveFiles,
        PurgedDocumentsLeaveNoFiles
  <2>3. RefusedUploadsLeaveNoFiles'
    BY <1>1, <1>4
    DEF FilesInv, FilesTypeOK, FilesMatchDocuments, RefusedUploadsLeaveNoFiles
  <2> QED
    BY <2>2, <2>3 DEF FilesMatchDocuments
<1> QED
  BY <1>5, <1>6, <1>7, <1>8, <1>9, <1>10, <1>11 DEF FilesInv

LEMMA RefuseUploadKeeps ==
  ASSUME FilesInv, NEW u \in Uploaders, RefuseUpload(u)
  PROVE  FilesInv'
PROOF
<1> DEFINE f == request[u].file
           Moved(phase) == [request[u] EXCEPT !.phase = phase]
           c == request'[u]
<1>1. /\ request[u].phase = "stored" /\ f \in Files /\ f # 0 /\ owner[f] = 0
      /\ request[u] \in UploadCall /\ UNCHANGED <<document, owner, objects, keys>>
  BY FilesBoundsAssumption
  DEF FilesInv, FilesTypeOK, UploadsKnowTheirFile, RefuseUpload, Doing, Files, UploadCall
<1>2. /\ c \in UploadCall /\ request' = [request EXCEPT ![u] = c] /\ c.file = f
      /\ \/ c.phase = "refused" /\ excused' = excused
         \/ c.phase = "unknown" /\ excused' = excused \cup {f}
  <2>1. \A phase \in {"refused", "unknown"} :
          /\ Moved(phase) \in UploadCall /\ Moved(phase).phase = phase
          /\ Moved(phase).file = f
    BY <1>1 DEF UploadCall
  <2>2. \A phase \in {"refused", "unknown"} :
          request' = [request EXCEPT ![u].phase = phase] =>
            request' = [request EXCEPT ![u] = Moved(phase)] /\ c = Moved(phase)
    BY DEF FilesInv, FilesTypeOK
  <2> HIDE DEF Moved, c
  <2> QED
    BY <2>1, <2>2 DEF RefuseUpload
<1> HIDE DEF c
<1>3. request'[u] = c /\ \A v \in Uploaders : v # u => request'[v] = request[v]
  BY <1>2 DEF FilesInv, FilesTypeOK
<1>4. FilesTypeOK'
  BY <1>1, <1>2 DEF FilesInv, FilesTypeOK
<1>5. KeysAreFresh'
  BY <1>1, <1>2, <1>3 DEF FilesInv, KeysAreFresh
<1>6. RequestsHoldTheirFile'
  BY <1>2, <1>3 DEF FilesInv, RequestsHoldTheirFile
<1>7. UploadsKnowTheirFile'
  BY <1>1, <1>2, <1>3 DEF FilesInv, UploadsKnowTheirFile
<1>8. OwnersExist'
  BY <1>1 DEF FilesInv, OwnersExist
<1>9. DeletionsKnowTheFiles'
  BY <1>1, <1>2, <1>3 DEF FilesInv, DeletionsKnowTheFiles
<1>10. FilesMatchDocuments'
  BY <1>1, <1>2, <1>3
  DEF FilesInv, FilesMatchDocuments, ReadableRevisionsHaveFiles, PurgedDocumentsLeaveNoFiles,
      RefusedUploadsLeaveNoFiles
<1> QED
  BY <1>4, <1>5, <1>6, <1>7, <1>8, <1>9, <1>10 DEF FilesInv

(* A request that ends leaves nothing behind that is not referred to,      *)
(* excused or removed.                                                     *)
LEMMA EndKeeps ==
  ASSUME FilesInv, NEW u \in Uploaders, Ends(u),
         UNCHANGED <<document, owner, keys>>,
         excused \subseteq excused', excused' \subseteq Files,
         LET f == request[u].file
         IN \/ objects' = objects /\ (f # 0 => owner[f] # 0 \/ f \in excused')
            \/ objects' = objects \ {f} /\ f # 0 /\ owner[f] = 0
  PROVE  FilesInv'
PROOF
<1> DEFINE f == request[u].file
<1>1. /\ request'[u] = NoUpload /\ NoUpload.file = 0 /\ NoUpload.phase = "idle"
      /\ \A v \in Uploaders : v # u => request'[v] = request[v]
      /\ objects' \subseteq objects
      /\ \A g \in objects : g # f => g \in objects'
  BY DEF FilesInv, FilesTypeOK, Ends, NoUpload
<1>2. FilesTypeOK'
  BY NoUploadType DEF FilesInv, FilesTypeOK, Ends
<1>3. KeysAreFresh'
  BY <1>1 DEF FilesInv, FilesTypeOK, KeysAreFresh
<1>4. RequestsHoldTheirFile'
  BY <1>1 DEF FilesInv, RequestsHoldTheirFile
<1>5. UploadsKnowTheirFile'
  <2> SUFFICES ASSUME NEW v \in Uploaders
               PROVE  UploadsKnowTheirFile!(v)'
    BY DEF UploadsKnowTheirFile
  <2>1. CASE v = u
    BY <1>1, <2>1
  <2>2. CASE v # u
    <3>1. request'[v] = request[v] /\ (request[v].file = f => f = 0)
      BY <1>1, <2>2 DEF FilesInv, RequestsHoldTheirFile
    <3> QED
      BY <1>1, <3>1 DEF FilesInv, UploadsKnowTheirFile
  <2> QED
    BY <2>1, <2>2
<1>6. OwnersExist'
  BY DEF FilesInv, OwnersExist
<1>7. DeletionsKnowTheFiles'
  BY <1>1 DEF FilesInv, DeletionsKnowTheFiles
<1>8. FilesMatchDocuments'
  <2>1. ReadableRevisionsHaveFiles'
    BY <1>1 DEF FilesInv, FilesMatchDocuments, ReadableRevisionsHaveFiles
  <2>2. PurgedDocumentsLeaveNoFiles'
    BY <1>1 DEF FilesInv, FilesMatchDocuments, PurgedDocumentsLeaveNoFiles
  <2>3. RefusedUploadsLeaveNoFiles'
    BY <1>1
    DEF FilesInv, FilesTypeOK, FilesMatchDocuments, RefusedUploadsLeaveNoFiles, Files
  <2> QED
    BY <2>1, <2>2, <2>3 DEF FilesMatchDocuments
<1> QED
  BY <1>2, <1>3, <1>4, <1>5, <1>6, <1>7, <1>8 DEF FilesInv

LEMMA CleanUpUploadKeeps ==
  ASSUME FilesInv, NEW u \in Uploaders, CleanUpUpload(u)
  PROVE  FilesInv'
PROOF
<1> DEFINE f == request[u].file
<1>1. /\ f \in Files /\ f # 0 /\ excused \subseteq Files
      /\ request[u].phase = "refused" => owner[f] = 0
      /\ request[u].phase = "unknown" => owner[f] # 0 \/ f \in excused
  BY FilesBoundsAssumption
  DEF FilesInv, FilesTypeOK, UploadsKnowTheirFile, CleanUpUpload, UploadCall, Files
<1> QED
  BY <1>1, EndKeeps DEF CleanUpUpload, IsCleanedUp

LEMMA AbortRequestKeeps ==
  ASSUME FilesInv, NEW u \in Uploaders, AbortRequest(u)
  PROVE  FilesInv'
PROOF
<1>1. excused \subseteq Files /\ (request[u].file # 0 => request[u].file \in Files)
  BY FilesBoundsAssumption DEF FilesInv, FilesTypeOK, UploadCall, Files
<1> QED
  BY <1>1, EndKeeps DEF AbortRequest

-----------------------------------------------------------------------------
(* Deletions *)

LEMMA PrepareDeletionKeeps ==
  ASSUME FilesInv, NEW u \in Uploaders, NEW d \in Documents, PrepareDeletion(u, d)
  PROVE  FilesInv'
PROOF
<1> DEFINE c == [NoUpload EXCEPT !.phase = "deleting", !.document = d, !.left = RevisionsOf(d)]
<1>1. /\ request[u].phase = "idle" /\ document[d].status \in {"LIVE", "DELETED"}
      /\ document' = [document EXCEPT ![d] = [status |-> "DELETED", desired |-> 0]]
      /\ request' = [request EXCEPT ![u] = c]
      /\ UNCHANGED <<owner, objects, keys, excused>>
  BY DEF PrepareDeletion, Doing
<1>2. c \in UploadCall
  <2>1. d \in 0..MaxDocuments /\ RevisionsOf(d) \in SUBSET Files
    BY FilesBoundsAssumption DEF Documents, RevisionsOf
  <2> QED
    BY <2>1, NoUploadType DEF UploadCall
<1>3. c.phase = "deleting" /\ c.document = d /\ c.file = 0 /\ c.left = RevisionsOf(d)
  BY DEF NoUpload
<1> HIDE DEF c
<1>4. /\ document'[d].status = "DELETED"
      /\ \A e \in Documents : e # d => document'[e] = document[e]
      /\ request'[u] = c /\ \A v \in Uploaders : v # u => request'[v] = request[v]
      /\ d # 0
  BY <1>1, FilesBoundsAssumption DEF FilesInv, FilesTypeOK, Documents
<1>5. FilesTypeOK'
  <2>1. [status |-> "DELETED", desired |-> 0] \in Document
    BY FilesBoundsAssumption DEF Document
  <2> QED
    BY <1>1, <1>2, <2>1 DEF FilesInv, FilesTypeOK
<1>6. KeysAreFresh'
  BY <1>1, <1>3, <1>4 DEF FilesInv, FilesTypeOK, KeysAreFresh
<1>7. RequestsHoldTheirFile'
  BY <1>3, <1>4 DEF FilesInv, RequestsHoldTheirFile
<1>8. UploadsKnowTheirFile'
  BY <1>1, <1>3, <1>4 DEF FilesInv, UploadsKnowTheirFile
<1>9. OwnersExist'
  BY <1>1, <1>4 DEF FilesInv, FilesTypeOK, OwnersExist, Documents
<1>10. DeletionsKnowTheFiles'
  BY <1>1, <1>3, <1>4 DEF FilesInv, FilesTypeOK, DeletionsKnowTheFiles, RevisionsOf
<1>11. FilesMatchDocuments'
  <2>1. \A f \in Files : owner[f] # 0 =>
          owner[f] \in Documents
            /\ (document'[owner[f]] = document[owner[f]] \/ document'[owner[f]].status = "DELETED")
    BY <1>4 DEF FilesInv, FilesTypeOK, Documents
  <2>2. ReadableRevisionsHaveFiles' /\ PurgedDocumentsLeaveNoFiles'
    BY <1>1, <2>1
    DEF FilesInv, FilesTypeOK, FilesMatchDocuments, ReadableRevisionsHaveFiles,
        PurgedDocumentsLeaveNoFiles
  <2>3. RefusedUploadsLeaveNoFiles'
    BY <1>1, <1>4
    DEF FilesInv, FilesTypeOK, FilesMatchDocuments, RefusedUploadsLeaveNoFiles,
        UploadsKnowTheirFile, Files
  <2> QED
    BY <2>2, <2>3 DEF FilesMatchDocuments
<1> QED
  BY <1>5, <1>6, <1>7, <1>8, <1>9, <1>10, <1>11 DEF FilesInv

LEMMA RemoveObjectKeeps ==
  ASSUME FilesInv, NEW u \in Uploaders, NEW f \in Files, RemoveObject(u, f)
  PROVE  FilesInv'
PROOF
<1> DEFINE c == [request[u] EXCEPT !.left = request[u].left \ {f}]
           d == request[u].document
<1>1. /\ request[u].phase = "deleting" /\ f \in request[u].left
      /\ objects' = objects \ {f} /\ UNCHANGED <<document, owner, keys, excused>>
      /\ request' = [request EXCEPT ![u] = c]
  BY DEF RemoveObject, Doing, FilesInv, FilesTypeOK
<1>2. /\ c \in UploadCall /\ c.phase = "deleting" /\ c.document = d
      /\ c.file = request[u].file /\ c.left = request[u].left \ {f}
  BY <1>1 DEF FilesInv, FilesTypeOK, UploadCall
<1>3. request'[u] = c /\ \A v \in Uploaders : v # u => request'[v] = request[v]
  BY <1>1 DEF FilesInv, FilesTypeOK
<1>4. owner[f] = d /\ d # 0 /\ document[d].status \in {"DELETED", "PURGED"}
  BY <1>1, FilesBoundsAssumption DEF FilesInv, DeletionsKnowTheFiles, Documents
<1> HIDE DEF c
<1>5. FilesTypeOK'
  BY <1>1, <1>2 DEF FilesInv, FilesTypeOK
<1>6. KeysAreFresh'
  BY <1>1, <1>2, <1>3 DEF FilesInv, KeysAreFresh
<1>7. RequestsHoldTheirFile'
  BY <1>2, <1>3 DEF FilesInv, RequestsHoldTheirFile
<1>8. UploadsKnowTheirFile'
  <2> SUFFICES ASSUME NEW v \in Uploaders
               PROVE  UploadsKnowTheirFile!(v)'
    BY DEF UploadsKnowTheirFile
  <2>1. /\ request'[v].phase = request[v].phase /\ request'[v].file = request[v].file
        /\ request[v].phase = "stored" => request[v].file # f
    BY <1>1, <1>2, <1>3, <1>4 DEF FilesInv, UploadsKnowTheirFile
  <2> QED
    BY <1>1, <2>1 DEF FilesInv, UploadsKnowTheirFile
<1>9. OwnersExist'
  BY <1>1 DEF FilesInv, OwnersExist
<1>10. DeletionsKnowTheFiles'
  <2> SUFFICES ASSUME NEW v \in Uploaders, request'[v].phase = "deleting"
               PROVE  DeletionsKnowTheFiles!(v)!2'
    BY DEF DeletionsKnowTheFiles
  <2>1. CASE v = u
    BY <1>1, <1>2, <1>3, <2>1 DEF FilesInv, DeletionsKnowTheFiles
  <2>2. CASE v # u
    BY <1>1, <1>3, <2>2 DEF FilesInv, DeletionsKnowTheFiles
  <2> QED
    BY <2>1, <2>2
<1>11. FilesMatchDocuments'
  <2>1. ReadableRevisionsHaveFiles' /\ PurgedDocumentsLeaveNoFiles'
    BY <1>1, <1>4
    DEF FilesInv, FilesMatchDocuments, ReadableRevisionsHaveFiles, PurgedDocumentsLeaveNoFiles
  <2>2. RefusedUploadsLeaveNoFiles'
    BY <1>1, <1>2, <1>3 DEF FilesInv, FilesMatchDocuments, RefusedUploadsLeaveNoFiles
  <2> QED
    BY <2>1, <2>2 DEF FilesMatchDocuments
<1> QED
  BY <1>5, <1>6, <1>7, <1>8, <1>9, <1>10, <1>11 DEF FilesInv

LEMMA PurgeDocumentKeeps ==
  ASSUME FilesInv, NEW u \in Uploaders, PurgeDocument(u)
  PROVE  FilesInv'
PROOF
<1> DEFINE d == request[u].document
<1>1. /\ request[u].phase = "deleting" /\ request[u].left = {} /\ request[u].file = 0
      /\ d \in Documents /\ document[d].status = "DELETED"
      /\ document' = [document EXCEPT ![d].status = "PURGED"]
      /\ \A f \in objects : owner[f] # d
      /\ UNCHANGED <<owner, objects, keys, excused>> /\ Ends(u)
  BY DEF PurgeDocument, IsCleared, Doing, FilesInv, DeletionsKnowTheFiles, UploadsKnowTheirFile
<1>2. /\ document'[d].status = "PURGED"
      /\ \A e \in Documents : e # d => document'[e] = document[e]
      /\ request'[u] = NoUpload /\ NoUpload.phase = "idle" /\ NoUpload.file = 0
      /\ \A v \in Uploaders : v # u => request'[v] = request[v]
  BY <1>1 DEF FilesInv, FilesTypeOK, Ends, NoUpload
<1>3. FilesTypeOK'
  <2>1. [document[d] EXCEPT !.status = "PURGED"] \in Document
    BY <1>1 DEF FilesInv, FilesTypeOK, Document
  <2> QED
    BY <1>1, <2>1, NoUploadType DEF FilesInv, FilesTypeOK, Ends
<1>4. KeysAreFresh'
  BY <1>1, <1>2 DEF FilesInv, FilesTypeOK, KeysAreFresh
<1>5. RequestsHoldTheirFile'
  BY <1>2 DEF FilesInv, RequestsHoldTheirFile
<1>6. UploadsKnowTheirFile'
  BY <1>1, <1>2 DEF FilesInv, UploadsKnowTheirFile
<1>7. OwnersExist'
  BY <1>1, <1>2 DEF FilesInv, FilesTypeOK, OwnersExist, Documents
<1>8. DeletionsKnowTheFiles'
  BY <1>1, <1>2 DEF FilesInv, DeletionsKnowTheFiles
<1>9. FilesMatchDocuments'
  <2>1. \A f \in Files : owner[f] # 0 =>
          owner[f] \in Documents
            /\ (owner[f] # d => document'[owner[f]] = document[owner[f]])
    BY <1>2 DEF FilesInv, FilesTypeOK, Documents
  <2>2. ReadableRevisionsHaveFiles' /\ PurgedDocumentsLeaveNoFiles'
    BY <1>1, <1>2, <2>1
    DEF FilesInv, FilesTypeOK, FilesMatchDocuments, ReadableRevisionsHaveFiles,
        PurgedDocumentsLeaveNoFiles
  <2>3. RefusedUploadsLeaveNoFiles'
    BY <1>1, <1>2
    DEF FilesInv, FilesTypeOK, FilesMatchDocuments, RefusedUploadsLeaveNoFiles, Files
  <2> QED
    BY <2>2, <2>3 DEF FilesMatchDocuments
<1> QED
  BY <1>3, <1>4, <1>5, <1>6, <1>7, <1>8, <1>9 DEF FilesInv

-----------------------------------------------------------------------------
(* Theorems *)

(* FilesInv is inductive: the storage and the rows stay related in every   *)
(* reachable state, whatever answers were lost (documents/service.py).     *)
THEOREM FilesInductive == FilesSpec => []FilesInv
PROOF
<1>1. FilesInit => FilesInv
  BY FilesInitially
<1>2. FilesInv /\ [FilesNext]_filesVars => FilesInv'
  <2> SUFFICES ASSUME FilesInv, [FilesNext]_filesVars
               PROVE  FilesInv'
    OBVIOUS
  <2>1. CASE FilesNext
    BY <2>1, BeginUploadKeeps, PutFileKeeps, PersistUploadKeeps, RefuseUploadKeeps,
       CleanUpUploadKeeps, PrepareDeletionKeeps, RemoveObjectKeeps, PurgeDocumentKeeps,
       AbortRequestKeeps
    DEF FilesNext
  <2>2. CASE UNCHANGED filesVars
    BY <2>2
    DEF filesVars, FilesInv, FilesTypeOK, KeysAreFresh, RequestsHoldTheirFile,
        UploadsKnowTheirFile, OwnersExist, DeletionsKnowTheFiles, FilesMatchDocuments,
        ReadableRevisionsHaveFiles, PurgedDocumentsLeaveNoFiles, RefusedUploadsLeaveNoFiles
  <2> QED
    BY <2>1, <2>2
<1> QED
  BY <1>1, <1>2, PTL DEF FilesSpec

(* Rows, requests and keys stay within their types.                        *)
THEOREM FilesTypeCorrect == FilesSpec => []FilesTypeOK
PROOF
<1>1. FilesInv => FilesTypeOK
  BY DEF FilesInv
<1> QED
  BY <1>1, FilesInductive, PTL

(* A readable revision has its file, a purged document has left none, and  *)
(* a refused upload leaves none, for any number of requests, documents and *)
(* files (upload(), delete()).                                             *)
THEOREM FilesAgreeWithDocuments == FilesSpec => []FilesMatchDocuments
PROOF
<1>1. FilesInv => FilesMatchDocuments
  BY DEF FilesInv
<1> QED
  BY <1>1, FilesInductive, PTL

-----------------------------------------------------------------------------
(* Graphs of a document *)

(* What the row of a projection says of its generation, its task and its   *)
(* clean-up; a candidate is of a generation that was published, and it is  *)
(* built and reviewed while that is current.                               *)
IsOfWanted(row) == row.generation \in published.wanted

RowIsSound(row) ==
  /\ row.status = "NONE" => row = NoProjection
  /\ row.status # "NONE" => row.generation # 0
  /\ row.generation <= published.newest
  /\ row.task = "open" => row.status = "BUILDING"
  /\ row.status = "BUILDING" => IsOfWanted(row)
  /\ row.status \in {"BUILDING", "READY"} => row.purge = "none"
  /\ row.purge # "none" => ~ IsOfWanted(row) \/ row.generation < published.active
  /\ row.status = "READY" => row.task = "SUCCEEDED"
  /\ row.base = 0 /\ row.task = "SUCCEEDED" => row.status \in {"READY", "STALE"}
  /\ row.status = "STALE" /\ IsOfWanted(row) =>
       \/ row.generation < published.active
       \/ row.generation = published.active /\ row.task = "SUCCEEDED"
  /\ row.base # 0 => row.generation <= published.active
  /\ row.base # 0 /\ row.status = "BUILDING" => row.generation = published.active

RowsAreSound == \A p \in Projections : RowIsSound(projection[p])

GenerationsAreSound ==
  /\ published.active <= published.newest
  /\ \A g \in published.wanted : g <= published.newest

(* The first graph of a generation is the only one, and beside a READY     *)
(* graph there are candidates and replaced graphs.                         *)
MayStandBeside(row, other) ==
  /\ row.base # 0 \/ other.base # 0
  /\ row.status = "READY" =>
       other.status # "READY" /\ (other.base = 0 => other.status = "STALE")

GraphsShareGenerations ==
  \A p \in Projections : \A q \in Projections \ {p} :
    projection[p].status # "NONE" /\ projection[q].generation = projection[p].generation
      => MayStandBeside(projection[p], projection[q])

(* Graphs that serve, or that a rollback may make serve again.             *)
IsServable(p) == projection[p].status = "READY" \/ IsRetained(p)

ServableGraphsWereReviewed ==
  \A p \in Projections \ touched :
    IsServable(p) /\ projection[p].base # 0 => IsReviewed(p, graph[p])

(* A command works on an existing graph, and on a candidate if it filters  *)
(* or activates; what it approved is as reviewed.                          *)
CommandIsSound(c) ==
  c.phase # "idle" =>
    /\ c.target \in Projections /\ projection[c.target].status # "NONE"
    /\ c.phase \in {"recorded", "activate", "approved"} =>
         projection[c.target].base # 0 /\ projection[c.target].task # "open"
    /\ c.phase = "approved" /\ projection[c.target].status = "BUILDING"
         /\ c.target \notin touched => IsReviewed(c.target, graph[c.target])

CommandsAreSound == \A o \in Operators : CommandIsSound(command[o])

(* FinishedGraphsServe is inductive beside this.                           *)
RebuildInv ==
  /\ RebuildTypeOK
  /\ GenerationsAreSound
  /\ RowsAreSound
  /\ GraphsShareGenerations
  /\ CommandsAreSound
  /\ ServableGraphsWereReviewed

-----------------------------------------------------------------------------
(* Rows and commands *)

LEMMA CountsAreBounded ==
  \A facts \in SUBSET Facts : Cardinality(facts) \in 0..Cardinality(Facts)
PROOF
<1> SUFFICES ASSUME NEW facts \in SUBSET Facts
             PROVE  Cardinality(facts) \in 0..Cardinality(Facts)
  OBVIOUS
<1>1. IsFiniteSet(facts) /\ Cardinality(facts) <= Cardinality(Facts)
  BY FS_Subset, RebuildBoundsAssumption
<1>2. Cardinality(facts) \in Nat /\ Cardinality(Facts) \in Nat
  BY <1>1, FS_CardinalityType, RebuildBoundsAssumption
<1> QED
  BY <1>1, <1>2

LEMMA EmptyRowType == NoProjection \in Projection
PROOF
<1>1. Cardinality(Facts) \in Nat
  BY FS_CardinalityType, RebuildBoundsAssumption
<1> QED
  BY <1>1, RebuildBoundsAssumption DEF NoProjection, Projection

LEMMA NoCommandType == NoCommand \in Command
  BY RebuildBoundsAssumption DEF NoCommand, Command

LEMMA EmptyRowIsSound ==
  ASSUME published.newest \in Nat
  PROVE  RowIsSound(NoProjection)
  BY DEF RowIsSound, NoProjection

(* A row that a GRAPH task is to build.                                    *)
LEMMA NewRow ==
  ASSUME NEW g \in Generated, NEW base \in 0..MaxProjections
  PROVE  LET row == NewProjection(g, base)
         IN /\ row \in Projection
            /\ row.status = "BUILDING" /\ row.generation = g /\ row.base = base
            /\ row.task = "open" /\ row.purge = "none"
PROOF
<1>1. g \in 0..MaxGenerations
  BY RebuildBoundsAssumption DEF Generated
<1> QED
  BY <1>1, EmptyRowType DEF NewProjection, NoProjection, Projection

LEMMA RetiredRow ==
  ASSUME NEW row \in Projection
  PROVE  /\ Retired(row) \in Projection
         /\ Retired(row).status = "STALE" /\ Retired(row).generation = row.generation
         /\ Retired(row).base = row.base /\ Retired(row).purge # "none"
         /\ Retired(row).task # "open"
         /\ Retired(row).task = IF row.task = "open" THEN "CANCELLED" ELSE row.task
PROOF
<1> DEFINE task == IF row.task = "open" THEN "CANCELLED" ELSE row.task
           purge == IF row.purge = "none" THEN "asked" ELSE row.purge
           cancelled == [row EXCEPT !.task = task]
<1>1. Cancelled(row) = cancelled
  BY DEF Cancelled, Projection
<1>2. /\ task \in {"none", "open", "SUCCEEDED", "FAILED", "CANCELLED"} /\ task # "open"
      /\ purge \in {"none", "asked", "done"} /\ purge # "none"
  BY DEF Projection
<1>3. /\ cancelled \in Projection /\ cancelled.purge = row.purge
      /\ cancelled.generation = row.generation /\ cancelled.base = row.base
      /\ cancelled.task = task
  BY <1>2 DEF Projection
<1>4. Retired(row) = [cancelled EXCEPT !.status = "STALE", !.purge = purge]
  BY <1>1, <1>3 DEF Retired
<1> HIDE DEF cancelled
<1>5. /\ Retired(row) \in Projection
      /\ Retired(row).status = "STALE" /\ Retired(row).generation = cancelled.generation
      /\ Retired(row).base = cancelled.base /\ Retired(row).purge = purge
      /\ Retired(row).task = cancelled.task
  BY <1>2, <1>3, <1>4 DEF Projection
<1> QED
  BY <1>2, <1>3, <1>5

LEMMA RebuildInitially == RebuildInit => RebuildInv
PROOF
<1> SUFFICES ASSUME RebuildInit
             PROVE  RebuildInv
  OBVIOUS
<1>1. PICK g \in {0, 1} : published = [active |-> g, newest |-> g, wanted |-> 1..g]
  BY DEF RebuildInit
<1>2. g \in 0..MaxGenerations /\ 1..g \in SUBSET Generated
  BY RebuildBoundsAssumption DEF Generated
<1>3. \A p \in Projections : projection[p] = NoProjection
  BY DEF RebuildInit
<1>4. RebuildTypeOK
  BY <1>1, <1>2, EmptyRowType, NoCommandType DEF RebuildInit, RebuildTypeOK
<1>5. GenerationsAreSound
  BY <1>1 DEF GenerationsAreSound
<1>6. RowsAreSound
  <2>1. published.newest \in Nat
    BY <1>1
  <2> QED
    BY <1>3, <2>1, EmptyRowIsSound DEF RowsAreSound
<1>7. GraphsShareGenerations
  BY <1>3 DEF GraphsShareGenerations, NoProjection
<1>8. CommandsAreSound
  BY DEF RebuildInit, CommandsAreSound, CommandIsSound, NoCommand
<1>9. ServableGraphsWereReviewed
  BY <1>3 DEF ServableGraphsWereReviewed, IsServable, IsRetained, NoProjection
<1> QED
  BY <1>4, <1>5, <1>6, <1>7, <1>8, <1>9 DEF RebuildInv

-----------------------------------------------------------------------------
(* Steps that change no row *)

(* Commands go on, and reports may be added.                               *)
LEMMA CommandsOnly ==
  ASSUME RebuildInv, UNCHANGED <<published, projection, graph, touched>>,
         reviews \subseteq reviews', reviews' \subseteq Review,
         command' \in [Operators -> Command],
         \A o \in Operators : command'[o] = command[o] \/ CommandIsSound(command'[o])
  PROVE  RebuildInv'
PROOF
<1>1. RebuildTypeOK'
  BY DEF RebuildInv, RebuildTypeOK
<1>2. GenerationsAreSound' /\ RowsAreSound' /\ GraphsShareGenerations'
  BY DEF RebuildInv, GenerationsAreSound, RowsAreSound, RowIsSound, IsOfWanted,
         GraphsShareGenerations
<1>3. CommandsAreSound'
  <2> SUFFICES ASSUME NEW o \in Operators
               PROVE  CommandIsSound(command[o])'
    BY DEF CommandsAreSound
  <2>1. CommandIsSound(command'[o])
    BY DEF RebuildInv, CommandsAreSound
  <2> QED
    BY <2>1 DEF CommandIsSound, IsReviewed
<1>4. ServableGraphsWereReviewed'
  BY DEF RebuildInv, ServableGraphsWereReviewed, IsServable, IsRetained, IsCurrent, IsActive,
         IsWanted, IsReviewed
<1> QED
  BY <1>1, <1>2, <1>3, <1>4 DEF RebuildInv

(* One command goes on as x.                                               *)
LEMMA CommandStep ==
  ASSUME RebuildInv, NEW o \in Operators, NEW x \in Command,
         command' = [command EXCEPT ![o] = x], CommandIsSound(x),
         UNCHANGED <<published, projection, graph, reviews, touched>>
  PROVE  RebuildInv'
PROOF
<1>1. command' \in [Operators -> Command] /\ reviews' \subseteq Review
  BY DEF RebuildInv, RebuildTypeOK
<1>2. \A q \in Operators : command'[q] = IF q = o THEN x ELSE command[q]
  BY DEF RebuildInv, RebuildTypeOK
<1> QED
  BY <1>1, <1>2, CommandsOnly

LEMMA PlanKeeps ==
  ASSUME RebuildInv, NEW o \in Operators, NEW p \in Projections, Plan(o, p)
  PROVE  RebuildInv'
PROOF
<1> DEFINE x == [NoCommand EXCEPT !.phase = "planned", !.target = p]
<1>1. x \in Command /\ x.phase = "planned" /\ x.target = p
  <2>1. p \in 0..MaxProjections
    BY RebuildBoundsAssumption DEF Projections
  <2> QED
    BY <2>1, NoCommandType DEF Command
<1>2. /\ command' = [command EXCEPT ![o] = x] /\ projection[p].status = "READY"
      /\ UNCHANGED <<published, projection, graph, reviews, touched>>
  BY DEF Plan
<1> HIDE DEF x
<1>3. CommandIsSound(x)
  BY <1>1, <1>2 DEF CommandIsSound
<1> QED
  BY <1>1, <1>2, <1>3, CommandStep

LEMMA SoundFactsType ==
  \A row \in Projection : SoundFacts(row) \in SUBSET Facts
  BY DEF SoundFacts, Projection

(* A graph of the published generation exists.                             *)
LEMMA CurrentRowsExist ==
  ASSUME RebuildInv, NEW p \in Projections, IsCurrent(p)
  PROVE  projection[p].status # "NONE"
PROOF
<1>1. published.active \in Generated
  BY DEF IsCurrent, IsActive, IsWanted, RebuildInv, RebuildTypeOK
<1>2. published.active # 0
  BY <1>1, RebuildBoundsAssumption DEF Generated
<1> QED
  BY <1>2 DEF IsCurrent, IsActive, RebuildInv, RowsAreSound, RowIsSound, NoProjection

LEMMA StartKeeps ==
  ASSUME RebuildInv, NEW o \in Operators, NEW p \in Projections,
         NEW name \in {"activate", "rollback"}, NEW active \in 0..MaxProjections,
         Start(o, p, name, active), name = "activate" => IsComplete(p)
  PROVE  RebuildInv'
PROOF
<1> DEFINE x == [phase |-> name, target |-> p, facts |-> SoundFacts(projection[p]),
                 left |-> {}, active |-> active]
<1>1. x \in Command /\ x.phase = name /\ x.target = p
  <2>1. SoundFacts(projection[p]) \in SUBSET Facts /\ p \in 0..MaxProjections
    BY SoundFactsType DEF RebuildInv, RebuildTypeOK, Projections
  <2> QED
    BY <2>1 DEF Command
<1>2. /\ command' = [command EXCEPT ![o] = x] /\ IsCurrent(p)
      /\ UNCHANGED <<published, projection, graph, reviews, touched>>
  BY DEF Start
<1> HIDE DEF x
<1>3. CommandIsSound(x)
  BY <1>1, <1>2, CurrentRowsExist DEF CommandIsSound, IsComplete
<1> QED
  BY <1>1, <1>2, <1>3, CommandStep

LEMMA StartSwitchKeeps ==
  ASSUME RebuildInv, NEW o \in Operators, NEW p \in Projections, StartSwitch(o, p)
  PROVE  RebuildInv'
PROOF
<1>1. 0 \in 0..MaxProjections /\ \A q \in Projections : q \in 0..MaxProjections
  BY RebuildBoundsAssumption DEF Projections
<1> QED
  BY <1>1, StartKeeps DEF StartSwitch

LEMMA ApproveKeeps ==
  ASSUME RebuildInv, NEW o \in Operators, Approve(o)
  PROVE  RebuildInv'
PROOF
<1> DEFINE p == command[o].target
<1>1. PICK phase \in {"approved", "approvedBack"} :
        /\ Continues(o, phase)
        /\ phase = "approved" => Running(o, "activate") /\ IsReviewed(p, graph[p])
        /\ phase = "approvedBack" => Running(o, "rollback")
        /\ UNCHANGED <<published, projection, graph, reviews, touched>>
  BY DEF Approve
<1> DEFINE x == [command[o] EXCEPT !.phase = phase]
<1>2. command[o] \in Command /\ command' = [command EXCEPT ![o] = x]
  BY <1>1 DEF Continues, RebuildInv, RebuildTypeOK
<1>3. x \in Command /\ x.phase = phase /\ x.target = p
  BY <1>2 DEF Command
<1> HIDE DEF x
<1>4. CommandIsSound(command[o])
  BY DEF RebuildInv, CommandsAreSound
<1>5. CommandIsSound(x)
  BY <1>1, <1>3, <1>4 DEF CommandIsSound, Running
<1> QED
  BY <1>1, <1>2, <1>3, <1>5, CommandStep

LEMMA InterruptKeeps ==
  ASSUME RebuildInv, NEW o \in Operators, Interrupt(o)
  PROVE  RebuildInv'
PROOF
<1>1. CommandIsSound(NoCommand)
  BY DEF CommandIsSound, NoCommand
<1> QED
  BY <1>1, NoCommandType, CommandStep DEF Interrupt, Stops

LEMMA VerifyKeeps ==
  ASSUME RebuildInv, NEW p \in Projections, Verify(p)
  PROVE  RebuildInv'
PROOF
<1>1. /\ reviews' = reviews \cup {[projection |-> p, facts |-> graph[p]]}
      /\ UNCHANGED <<published, projection, graph, command, touched>>
  BY DEF Verify
<1>2. reviews' \subseteq Review /\ command' \in [Operators -> Command]
  BY <1>1 DEF RebuildInv, RebuildTypeOK, Review
<1> QED
  BY <1>1, <1>2, CommandsOnly

-----------------------------------------------------------------------------
(* Steps that change a row *)

(* Commands that go on with their target, or are sound themselves.         *)
CommandsFollow ==
  \A o \in Operators :
    \/ /\ command'[o].phase = command[o].phase
       /\ command'[o].target = command[o].target
    \/ CommandIsSound(command[o])'

LEMMA UnchangedFollows ==
  ASSUME RebuildInv, UNCHANGED command
  PROVE  command' \in [Operators -> Command] /\ CommandsFollow
  BY DEF RebuildInv, RebuildTypeOK, CommandsFollow

LEMMA StopsFollows ==
  ASSUME RebuildInv, NEW o \in Operators, Stops(o)
  PROVE  command' \in [Operators -> Command] /\ CommandsFollow
PROOF
<1>1. command' = [command EXCEPT ![o] = NoCommand] /\ command \in [Operators -> Command]
  BY DEF Stops, RebuildInv, RebuildTypeOK
<1>2. NoCommand.phase = "idle"
  BY DEF NoCommand
<1>3. CommandIsSound(command[o])'
  BY <1>1, <1>2 DEF CommandIsSound
<1> QED
  BY <1>1, <1>3, NoCommandType DEF CommandsFollow

(* What the rows, the graphs and the commands owe the commands that go on: *)
(* rows stay, a finished candidate stays finished, and nothing else than   *)
(* what a switch read becomes visible to it.                               *)
RowsGoOn ==
  \A p \in Projections : projection[p].status # "NONE" =>
    /\ projection'[p].status # "NONE" /\ projection'[p].base = projection[p].base
    /\ projection[p].base # 0 /\ projection[p].task # "open" => projection'[p].task # "open"

ApprovedGraphsStay ==
  \A o \in Operators, p \in Projections \ touched' :
    command[o].phase = "approved" /\ command[o].target = p /\ projection'[p].status = "BUILDING"
      => projection[p].status = "BUILDING" /\ graph'[p] = graph[p]

LEMMA CommandsStaySound ==
  ASSUME RebuildInv, CommandsFollow, RowsGoOn, ApprovedGraphsStay,
         reviews \subseteq reviews', touched \subseteq touched'
  PROVE  CommandsAreSound'
PROOF
<1> SUFFICES ASSUME NEW o \in Operators, command'[o].phase # "idle",
                    command'[o].phase = command[o].phase,
                    command'[o].target = command[o].target
             PROVE  CommandIsSound(command[o])'
  BY DEF CommandsFollow, CommandsAreSound, CommandIsSound
<1> DEFINE p == command[o].target
<1>1. command'[o].phase = command[o].phase /\ command'[o].target = p
  OBVIOUS
<1>2. CommandIsSound(command[o])
  BY DEF RebuildInv, CommandsAreSound
<1>3. p \in Projections /\ projection[p].status # "NONE"
  BY <1>1, <1>2 DEF CommandIsSound
<1>4. projection'[p].status # "NONE" /\ projection'[p].base = projection[p].base
  BY <1>3 DEF RowsGoOn
<1>5. command[o].phase \in {"recorded", "activate", "approved"} =>
        projection'[p].base # 0 /\ projection'[p].task # "open"
  BY <1>1, <1>2, <1>3 DEF CommandIsSound, RowsGoOn
<1>6. command[o].phase = "approved" /\ projection'[p].status = "BUILDING" /\ p \notin touched'
        => [projection |-> p, facts |-> graph'[p]] \in reviews'
  BY <1>1, <1>2, <1>3 DEF CommandIsSound, ApprovedGraphsStay, IsReviewed
<1> QED
  BY <1>1, <1>3, <1>4, <1>5, <1>6 DEF CommandIsSound, IsReviewed

(* The row of p changes, and so may its graph.                             *)
LEMMA RowKeeps ==
  ASSUME RebuildInv, NEW p \in Projections, NEW row \in Projection,
         projection' = [projection EXCEPT ![p] = row], UNCHANGED <<published, reviews>>,
         command' \in [Operators -> Command], CommandsFollow,
         graph' \in [Projections -> SUBSET Facts],
         \A q \in Projections \ {p} : graph'[q] = graph[q],
         touched \subseteq touched', touched' \subseteq Projections,
         projection[p].status # "NONE", row.status # "NONE", RowIsSound(row),
         row.generation = projection[p].generation, row.base = projection[p].base,
         row.base # 0 /\ projection[p].task # "open" => row.task # "open",
         \A q \in Projections \ {p} : projection[q].generation = row.generation =>
           MayStandBeside(row, projection[q]) /\ MayStandBeside(projection[q], row),
         p \notin touched' /\ row.base # 0
           /\ (row.status = "READY" \/ (row.status = "STALE" /\ IsCurrent(p)))
             => IsReviewed(p, graph'[p]),
         ApprovedGraphsStay
  PROVE  RebuildInv'
PROOF
<1>1. projection'[p] = row /\ \A q \in Projections \ {p} : projection'[q] = projection[q]
  BY DEF RebuildInv, RebuildTypeOK
<1>2. RebuildTypeOK'
  BY DEF RebuildInv, RebuildTypeOK
<1>3. GenerationsAreSound'
  BY DEF RebuildInv, GenerationsAreSound
<1>4. RowsAreSound'
  BY <1>1 DEF RebuildInv, RowsAreSound, RowIsSound, IsOfWanted
<1>5. GraphsShareGenerations'
  BY <1>1 DEF RebuildInv, GraphsShareGenerations
<1>6. RowsGoOn
  BY <1>1 DEF RowsGoOn
<1>7. CommandsAreSound'
  BY <1>6, CommandsStaySound
<1>8. ServableGraphsWereReviewed'
  <2> SUFFICES ASSUME NEW q \in Projections, q \notin touched', IsServable(q)',
                      projection'[q].base # 0
               PROVE  IsReviewed(q, graph[q])'
    BY DEF ServableGraphsWereReviewed
  <2>1. CASE q = p
    <3>1. row.status = "READY" \/ (row.status = "STALE" /\ IsCurrent(p))
      <4>1. IsServable(p)'
        BY <2>1
      <4>2. IsCurrent(p)' <=> IsCurrent(p)
        BY <1>1 DEF IsCurrent, IsActive, IsWanted
      <4> QED
        BY <1>1, <4>1, <4>2 DEF IsServable, IsRetained, IsCurrent
    <3>2. IsReviewed(p, graph'[p])
      BY <1>1, <2>1, <3>1
    <3> QED
      BY <2>1, <3>2 DEF IsReviewed
  <2>2. CASE q # p
    BY <1>1, <2>2
    DEF RebuildInv, ServableGraphsWereReviewed, IsServable, IsRetained, IsCurrent, IsActive,
        IsWanted, IsReviewed
  <2> QED
    BY <2>1, <2>2
<1> QED
  BY <1>2, <1>3, <1>4, <1>5, <1>7, <1>8 DEF RebuildInv

(* A row is added, to a generation that may be new as well.                *)
LEMMA NewRowKeeps ==
  ASSUME RebuildInv, NEW n \in Projections, NEW g \in Generated,
         NEW base \in 0..MaxProjections, projection[n].status = "NONE",
         projection' = [projection EXCEPT ![n] = NewProjection(g, base)],
         UNCHANGED <<graph, reviews, touched>>,
         command' \in [Operators -> Command], CommandsFollow,
         published' \in [active : 0..MaxGenerations, newest : 0..MaxGenerations,
                         wanted : SUBSET Generated],
         published'.active = published.active, published.newest <= published'.newest,
         GenerationsAreSound', g \in published'.wanted,
         \A h \in Nat : h <= published.newest =>
           (h \in published'.wanted <=> h \in published.wanted),
         base # 0 => g = published.active,
         base = 0 => \A q \in Projections : projection[q].generation # g
  PROVE  RebuildInv'
PROOF
<1> DEFINE row == NewProjection(g, base)
<1>1. /\ row \in Projection /\ row.status = "BUILDING" /\ row.generation = g
      /\ row.base = base /\ row.task = "open" /\ row.purge = "none"
  BY NewRow
<1>2. projection' = [projection EXCEPT ![n] = row]
  OBVIOUS
<1> HIDE DEF row
<1>3. projection'[n] = row /\ \A q \in Projections \ {n} : projection'[q] = projection[q]
  BY <1>2 DEF RebuildInv, RebuildTypeOK
<1>4. \A q \in Projections : projection[q].generation \in Nat /\ RowIsSound(projection[q])
  BY RebuildBoundsAssumption DEF RebuildInv, RebuildTypeOK, Projection, RowsAreSound
<1>5. published.active \in Nat /\ published.newest \in Nat /\ published'.newest \in Nat
  BY RebuildBoundsAssumption DEF RebuildInv, RebuildTypeOK
<1>6. RebuildTypeOK'
  BY <1>1, <1>2 DEF RebuildInv, RebuildTypeOK
<1>7. RowsAreSound'
  <2> SUFFICES ASSUME NEW q \in Projections
               PROVE  RowIsSound(projection[q])'
    BY DEF RowsAreSound
  <2>1. CASE q = n
    <3>1. g <= published'.newest /\ g # 0
      BY RebuildBoundsAssumption DEF GenerationsAreSound, Generated
    <3> QED
      BY <1>1, <1>3, <1>5, <2>1, <3>1, RebuildBoundsAssumption
      DEF RowIsSound, IsOfWanted, Generated
  <2>2. CASE q # n
    <3>1. IsOfWanted(projection[q])' <=> IsOfWanted(projection[q])
      BY <1>3, <1>4, <2>2 DEF IsOfWanted, RowIsSound
    <3> QED
      BY <1>3, <1>4, <1>5, <2>2, <3>1 DEF RowIsSound
  <2> QED
    BY <2>1, <2>2
<1>8. GraphsShareGenerations'
  <2> SUFFICES ASSUME NEW p \in Projections, NEW q \in Projections \ {p},
                      projection'[p].status # "NONE",
                      projection'[q].generation = projection'[p].generation
               PROVE  MayStandBeside(projection'[p], projection'[q])
    BY DEF GraphsShareGenerations, MayStandBeside
  <2>1. CASE p = n \/ q = n
    BY <1>1, <1>3, <2>1 DEF MayStandBeside
  <2>2. CASE p # n /\ q # n
    BY <1>3, <2>2 DEF RebuildInv, GraphsShareGenerations
  <2> QED
    BY <2>1, <2>2
<1>9. RowsGoOn
  BY <1>3 DEF RowsGoOn
<1>10. ApprovedGraphsStay
  <2>1. \A o \in Operators : command[o].phase = "approved" => command[o].target # n
    BY DEF RebuildInv, CommandsAreSound, CommandIsSound
  <2> QED
    BY <1>3, <2>1 DEF ApprovedGraphsStay
<1>11. CommandsAreSound'
  BY <1>9, <1>10, CommandsStaySound
<1>12. ServableGraphsWereReviewed'
  <2> SUFFICES ASSUME NEW q \in Projections \ touched, IsServable(q)', projection'[q].base # 0
               PROVE  IsReviewed(q, graph[q])'
    BY DEF ServableGraphsWereReviewed
  <2>1. q # n
    BY <1>1, <1>3 DEF IsServable, IsRetained
  <2>2. IsServable(q)
    <3>1. IsWanted(q)' <=> IsWanted(q)
      BY <1>3, <1>4, <2>1 DEF IsWanted, RowIsSound
    <3> QED
      BY <1>3, <2>1, <3>1 DEF IsServable, IsRetained, IsCurrent, IsActive
  <2> QED
    BY <1>3, <2>1, <2>2 DEF RebuildInv, ServableGraphsWereReviewed, IsReviewed
<1> QED
  BY <1>6, <1>7, <1>8, <1>11, <1>12 DEF RebuildInv

(* A row that stays as it was may stand where it stood.                    *)
LEMMA NeighboursStay ==
  ASSUME RebuildInv, NEW p \in Projections, NEW row \in Projection,
         projection[p].status # "NONE", row.generation = projection[p].generation,
         row.base = projection[p].base,
         \/ row.status = projection[p].status
         \/ projection[p].status = "BUILDING" /\ row.status # "READY"
  PROVE  \A q \in Projections \ {p} : projection[q].generation = row.generation =>
           MayStandBeside(row, projection[q]) /\ MayStandBeside(projection[q], row)
PROOF
<1> SUFFICES ASSUME NEW q \in Projections \ {p}, projection[q].generation = row.generation
             PROVE  MayStandBeside(row, projection[q]) /\ MayStandBeside(projection[q], row)
  OBVIOUS
<1>1. MayStandBeside(projection[p], projection[q])
  BY DEF RebuildInv, GraphsShareGenerations
<1>2. projection[q].status # "NONE"
  BY DEF RebuildInv, RowsAreSound, RowIsSound, NoProjection
<1>3. MayStandBeside(projection[q], projection[p])
  BY <1>2 DEF RebuildInv, GraphsShareGenerations
<1> QED
  BY <1>1, <1>3 DEF MayStandBeside

(* Only what is erased or written differs: the row keeps all that counts.  *)
LEMMA GraphKeeps ==
  ASSUME RebuildInv, NEW p \in Projections, projection[p].status # "NONE",
         NEW facts, Writes(p, facts), facts \in SUBSET Facts,
         UNCHANGED <<published, projection, reviews>>,
         command' \in [Operators -> Command], CommandsFollow
  PROVE  RebuildInv'
PROOF
<1>1. graph' = [graph EXCEPT ![p] = facts]
      /\ touched' = IF WasRead(p) /\ facts # graph[p] THEN touched \cup {p} ELSE touched
  BY DEF Writes
<1>2. /\ graph' \in [Projections -> SUBSET Facts] /\ graph'[p] = facts
      /\ \A q \in Projections \ {p} : graph'[q] = graph[q]
      /\ touched \subseteq touched' /\ touched' \subseteq Projections
  BY <1>1 DEF RebuildInv, RebuildTypeOK
<1>3. projection[p] \in Projection /\ projection' = [projection EXCEPT ![p] = projection[p]]
  BY DEF RebuildInv, RebuildTypeOK
<1>4. RowIsSound(projection[p])
  BY DEF RebuildInv, RowsAreSound
<1>5. \A q \in Projections \ {p} : projection[q].generation = projection[p].generation =>
        MayStandBeside(projection[p], projection[q]) /\ MayStandBeside(projection[q], projection[p])
  <2> DEFINE row == projection[p]
  <2>1. row \in Projection /\ row.status = projection[p].status
        /\ row.generation = projection[p].generation /\ row.base = projection[p].base
    BY <1>3
  <2> HIDE DEF row
  <2>2. \A q \in Projections \ {p} : projection[q].generation = row.generation =>
          MayStandBeside(row, projection[q]) /\ MayStandBeside(projection[q], row)
    BY <2>1, NeighboursStay
  <2> QED
    BY <2>2 DEF row
<1>6. p \notin touched' /\ projection[p].base # 0 /\ IsServable(p) => IsReviewed(p, graph'[p])
  <2>1. IsServable(p) => WasRead(p)
    BY DEF IsServable, IsRetained, WasRead
  <2> QED
    BY <1>1, <1>2, <2>1 DEF RebuildInv, ServableGraphsWereReviewed
<1>7. ApprovedGraphsStay
  <2> SUFFICES ASSUME NEW o \in Operators, NEW q \in Projections \ touched',
                      command[o].phase = "approved", command[o].target = q
               PROVE  graph'[q] = graph[q]
    BY DEF ApprovedGraphsStay
  <2>1. CASE q = p
    <3>1. WasRead(p)
      BY <2>1 DEF WasRead
    <3> QED
      BY <1>1, <1>2, <2>1, <3>1
  <2>2. CASE q # p
    BY <1>2, <2>2
  <2> QED
    BY <2>1, <2>2
<1> QED
  BY <1>2, <1>3, <1>4, <1>5, <1>6, <1>7, RowKeeps DEF IsServable, IsRetained, IsCurrent

-----------------------------------------------------------------------------
(* The graph of a generation *)

LEMMA StageKeeps ==
  ASSUME RebuildInv, NEW n \in Projections, Stage(n)
  PROVE  RebuildInv'
PROOF
<1> DEFINE g == published.newest + 1
<1>1. /\ g <= MaxGenerations /\ projection[n].status = "NONE"
      /\ published' = [published EXCEPT !.newest = g, !.wanted = published.wanted \cup {g}]
      /\ projection' = [projection EXCEPT ![n] = NewProjection(g, 0)]
      /\ UNCHANGED <<graph, reviews, command, touched>>
  BY DEF Stage, IsNext, RebuildInv, RebuildTypeOK
<1>2. /\ published.newest \in Nat /\ published.active \in Nat
      /\ published.wanted \in SUBSET Generated /\ published.active <= published.newest
      /\ \A h \in published.wanted : h <= published.newest
  BY RebuildBoundsAssumption DEF RebuildInv, RebuildTypeOK, GenerationsAreSound
<1>3. g \in Generated /\ g \in 0..MaxGenerations
  BY <1>1, <1>2, RebuildBoundsAssumption DEF Generated
<1>4. /\ published'.active = published.active /\ published'.newest = g
      /\ published'.wanted = published.wanted \cup {g}
      /\ published' \in [active : 0..MaxGenerations, newest : 0..MaxGenerations,
                         wanted : SUBSET Generated]
  BY <1>1, <1>2, <1>3 DEF RebuildInv, RebuildTypeOK
<1>5. GenerationsAreSound'
  <2>1. \A h \in published.wanted : h \in Nat
    BY <1>2, RebuildBoundsAssumption DEF Generated
  <2> QED
    BY <1>2, <1>4, <2>1 DEF GenerationsAreSound
<1>6. \A q \in Projections : projection[q].generation # g
  <2>1. \A q \in Projections : projection[q].generation <= published.newest
    BY DEF RebuildInv, RowsAreSound, RowIsSound
  <2> QED
    BY <1>2, <2>1
<1>7. /\ published.newest <= published'.newest /\ g \in published'.wanted
      /\ \A h \in Nat : h <= published.newest =>
           (h \in published'.wanted <=> h \in published.wanted)
  BY <1>2, <1>4
<1>8. command' \in [Operators -> Command] /\ CommandsFollow
  BY <1>1, UnchangedFollows
<1>9. 0 \in 0..MaxProjections
  BY RebuildBoundsAssumption
<1> HIDE DEF g
<1> QED
  BY <1>1, <1>3, <1>4, <1>5, <1>6, <1>7, <1>8, <1>9, NewRowKeeps

(* A row is added to the published generation.                             *)
LEMMA NewCurrentRowKeeps ==
  ASSUME RebuildInv, NEW n \in Projections, NEW base \in 0..MaxProjections,
         projection[n].status = "NONE", published.active \in published.wanted,
         projection' = [projection EXCEPT ![n] = NewProjection(published.active, base)],
         UNCHANGED <<published, graph, reviews, touched>>,
         command' \in [Operators -> Command], CommandsFollow,
         base = 0 => \A q \in Projections : projection[q].generation # published.active
  PROVE  RebuildInv'
PROOF
<1>1. published.active \in Generated /\ published.newest <= published.newest
  BY RebuildBoundsAssumption DEF RebuildInv, RebuildTypeOK
<1>2. published' \in [active : 0..MaxGenerations, newest : 0..MaxGenerations,
                      wanted : SUBSET Generated]
  BY DEF RebuildInv, RebuildTypeOK
<1>3. GenerationsAreSound'
  BY DEF RebuildInv, GenerationsAreSound
<1> QED
  BY <1>1, <1>2, <1>3, NewRowKeeps

LEMMA BackfillKeeps ==
  ASSUME RebuildInv, NEW n \in Projections, Backfill(n)
  PROVE  RebuildInv'
PROOF
<1>1. 0 \in 0..MaxProjections
  BY RebuildBoundsAssumption
<1>2. command' \in [Operators -> Command] /\ CommandsFollow
  BY UnchangedFollows DEF Backfill
<1> QED
  BY <1>1, <1>2, NewCurrentRowKeeps DEF Backfill, IsNext

LEMMA EnqueueKeeps ==
  ASSUME RebuildInv, NEW o \in Operators, NEW n \in Projections, Enqueue(o, n)
  PROVE  RebuildInv'
PROOF
<1> DEFINE p == command[o].target
<1>1. /\ Running(o, "planned") /\ IsCurrent(p) /\ projection[n].status = "NONE" /\ Stops(o)
      /\ projection' = [projection EXCEPT ![n] = NewProjection(projection[p].generation, p)]
      /\ UNCHANGED <<published, graph, reviews, touched>>
  BY DEF Enqueue, IsNext
<1>2. p \in Projections
  BY <1>1 DEF RebuildInv, CommandsAreSound, CommandIsSound, Running
<1>3. p \in 0..MaxProjections /\ p # 0
  BY <1>2, RebuildBoundsAssumption DEF Projections
<1>4. projection[p].generation = published.active /\ published.active \in published.wanted
  BY <1>1 DEF IsCurrent, IsActive, IsWanted
<1>5. command' \in [Operators -> Command] /\ CommandsFollow
  BY <1>1, StopsFollows
<1> QED
  BY <1>1, <1>3, <1>4, <1>5, NewCurrentRowKeeps

LEMMA RequeueKeeps ==
  ASSUME RebuildInv, NEW p \in Projections, Requeue(p)
  PROVE  RebuildInv'
PROOF
<1> DEFINE row == [projection[p] EXCEPT !.task = "open", !.status = "BUILDING",
                                        !.built = FALSE, !.count = 0]
<1>1. /\ projection[p].base = 0 /\ projection[p].task = "FAILED" /\ IsCurrent(p)
      /\ UNCHANGED <<published, graph, reviews, command, touched>>
  BY DEF Requeue
<1>2. projection \in [Projections -> Projection] /\ 0 \in 0..Cardinality(Facts)
  <2>1. Cardinality(Facts) \in Nat
    BY FS_CardinalityType, RebuildBoundsAssumption
  <2> QED
    BY <2>1 DEF RebuildInv, RebuildTypeOK
<1>3. projection' = [projection EXCEPT ![p] = row]
  BY <1>2 DEF Requeue
<1>4. /\ row \in Projection /\ row.status = "BUILDING" /\ row.task = "open"
      /\ row.base = projection[p].base /\ row.generation = projection[p].generation
      /\ row.purge = projection[p].purge
  BY <1>2, ZenonT(40) DEF Projection
<1> HIDE DEF row
<1>5. projection[p].status # "NONE"
  BY <1>1, CurrentRowsExist
<1>6. projection[p].generation = published.active /\ published.active \in published.wanted
  BY <1>1 DEF IsCurrent, IsActive, IsWanted
<1>7. projection[p].status # "STALE" /\ projection[p].purge = "none"
  <2>1. RowIsSound(projection[p]) /\ IsOfWanted(projection[p]) /\ published.active \in Nat
    BY <1>6, RebuildBoundsAssumption DEF RebuildInv, RebuildTypeOK, RowsAreSound, IsOfWanted
  <2> QED
    BY <1>1, <1>6, <2>1 DEF RowIsSound
<1>8. RowIsSound(row)
  <2>1. RowIsSound(projection[p])
    BY DEF RebuildInv, RowsAreSound
  <2> QED
    BY <1>1, <1>4, <1>5, <1>6, <1>7, <2>1 DEF RowIsSound, IsOfWanted
<1>9. ASSUME NEW q \in Projections \ {p}, projection[q].generation = row.generation
      PROVE  MayStandBeside(row, projection[q]) /\ MayStandBeside(projection[q], row)
  <2>1. MayStandBeside(projection[p], projection[q])
    BY <1>4, <1>5, <1>9 DEF RebuildInv, GraphsShareGenerations
  <2>2. projection[q].status # "NONE"
    BY <1>4, <1>5, <1>9 DEF RebuildInv, RowsAreSound, RowIsSound, NoProjection
  <2>3. MayStandBeside(projection[q], projection[p])
    BY <1>4, <1>9, <2>2 DEF RebuildInv, GraphsShareGenerations
  <2> QED
    BY <1>1, <1>4, <1>7, <2>1, <2>3 DEF MayStandBeside
<1>10. ApprovedGraphsStay
  <2>1. \A o \in Operators : command[o].phase = "approved" => command[o].target # p
    BY <1>1 DEF RebuildInv, CommandsAreSound, CommandIsSound
  <2> QED
    BY <1>1, <1>2, <1>3, <2>1 DEF ApprovedGraphsStay
<1>11. command' \in [Operators -> Command] /\ CommandsFollow
  BY <1>1, UnchangedFollows
<1>12. graph' \in [Projections -> SUBSET Facts] /\ touched' \subseteq Projections
  BY <1>1 DEF RebuildInv, RebuildTypeOK
<1> QED
  BY <1>1, <1>3, <1>4, <1>5, <1>8, <1>9, <1>10, <1>11, <1>12, RowKeeps

LEMMA FinishKeeps ==
  ASSUME RebuildInv, NEW p \in Projections, Finish(p)
  PROVE  RebuildInv'
PROOF
<1> DEFINE ready == projection[p].base = 0
           status == IF ready THEN "READY" ELSE "BUILDING"
           row == [projection[p] EXCEPT !.task = "SUCCEEDED", !.status = status,
                                        !.built = TRUE, !.count = Cardinality(Facts)]
<1>1. /\ projection[p].task = "open" /\ IsWanted(p) /\ (ready \/ IsActive(p))
      /\ graph' = [graph EXCEPT ![p] = Facts]
      /\ UNCHANGED <<published, reviews, command, touched>>
  BY DEF Finish
<1>2. projection \in [Projections -> Projection]
      /\ Cardinality(Facts) \in 0..Cardinality(Facts)
  BY CountsAreBounded DEF RebuildInv, RebuildTypeOK
<1>3. projection' = [projection EXCEPT ![p] = row]
  BY <1>2 DEF Finish
<1>4. status \in {"READY", "BUILDING"} /\ (status = "READY" <=> ready)
  OBVIOUS
<1> HIDE DEF status
<1>5. /\ row \in Projection /\ row.status = status /\ row.task = "SUCCEEDED"
      /\ row.base = projection[p].base /\ row.generation = projection[p].generation
      /\ row.purge = projection[p].purge
  BY <1>2, <1>4, ZenonT(40) DEF Projection
<1> HIDE DEF row
<1>6. RowIsSound(projection[p]) /\ projection[p].status = "BUILDING"
  BY <1>1 DEF RebuildInv, RowsAreSound, RowIsSound
<1>7. RowIsSound(row)
  BY <1>1, <1>4, <1>5, <1>6 DEF RowIsSound, IsOfWanted, IsActive
<1>8. ASSUME NEW q \in Projections \ {p}, projection[q].generation = row.generation
      PROVE  MayStandBeside(row, projection[q]) /\ MayStandBeside(projection[q], row)
  <2>1. MayStandBeside(projection[p], projection[q])
    BY <1>5, <1>6, <1>8 DEF RebuildInv, GraphsShareGenerations
  <2>2. projection[q].status # "NONE"
    BY <1>5, <1>6, <1>8 DEF RebuildInv, RowsAreSound, RowIsSound, NoProjection
  <2>3. MayStandBeside(projection[q], projection[p])
    BY <1>5, <1>8, <2>2 DEF RebuildInv, GraphsShareGenerations
  <2> QED
    BY <1>4, <1>5, <1>6, <2>1, <2>3 DEF MayStandBeside
<1>9. ApprovedGraphsStay
  <2>1. \A o \in Operators : command[o].phase = "approved" => command[o].target # p
    BY <1>1 DEF RebuildInv, CommandsAreSound, CommandIsSound
  <2> QED
    BY <1>1, <1>2, <1>3, <2>1 DEF ApprovedGraphsStay, RebuildInv, RebuildTypeOK
<1>10. command' \in [Operators -> Command] /\ CommandsFollow
  BY <1>1, UnchangedFollows
<1>11. /\ graph' \in [Projections -> SUBSET Facts] /\ touched' \subseteq Projections
       /\ \A q \in Projections \ {p} : graph'[q] = graph[q]
  BY <1>1 DEF RebuildInv, RebuildTypeOK
<1>12. row.base # 0 => row.status = "BUILDING"
  BY <1>4, <1>5
<1>13. row.status # "NONE" /\ projection[p].status # "NONE" /\ row.task # "open"
       /\ touched \subseteq touched' /\ UNCHANGED <<published, reviews>>
  BY <1>1, <1>4, <1>5, <1>6
<1> QED
  BY <1>3, <1>5, <1>7, <1>8, <1>9, <1>10, <1>11, <1>12, <1>13, RowKeeps

LEMMA FailBuildKeeps ==
  ASSUME RebuildInv, NEW p \in Projections, FailBuild(p)
  PROVE  RebuildInv'
PROOF
<1> DEFINE row == [projection[p] EXCEPT !.task = "FAILED", !.status = "FAILED"]
<1>1. projection[p].task = "open" /\ UNCHANGED <<published, graph, reviews, command, touched>>
  BY DEF FailBuild
<1>2. projection \in [Projections -> Projection]
  BY DEF RebuildInv, RebuildTypeOK
<1>3. projection' = [projection EXCEPT ![p] = row]
  BY <1>2 DEF FailBuild
<1>4. /\ row \in Projection /\ row.status = "FAILED" /\ row.task = "FAILED"
      /\ row.base = projection[p].base /\ row.generation = projection[p].generation
      /\ row.purge = projection[p].purge
  BY <1>2 DEF Projection
<1> HIDE DEF row
<1>5. RowIsSound(projection[p]) /\ projection[p].status = "BUILDING"
  BY <1>1 DEF RebuildInv, RowsAreSound, RowIsSound
<1>6. RowIsSound(row)
  BY <1>4, <1>5 DEF RowIsSound
<1>7. \A q \in Projections \ {p} : projection[q].generation = row.generation =>
        MayStandBeside(row, projection[q]) /\ MayStandBeside(projection[q], row)
  BY <1>4, <1>5, NeighboursStay
<1>8. ApprovedGraphsStay
  <2>1. \A o \in Operators : command[o].phase = "approved" => command[o].target # p
    BY <1>1 DEF RebuildInv, CommandsAreSound, CommandIsSound
  <2> QED
    BY <1>1, <1>2, <1>3, <2>1 DEF ApprovedGraphsStay
<1>9. command' \in [Operators -> Command] /\ CommandsFollow
  BY <1>1, UnchangedFollows
<1>10. graph' \in [Projections -> SUBSET Facts] /\ touched' \subseteq Projections
  BY <1>1 DEF RebuildInv, RebuildTypeOK
<1> QED
  BY <1>1, <1>3, <1>4, <1>5, <1>6, <1>7, <1>8, <1>9, <1>10, RowKeeps

LEMMA LateWriteKeeps ==
  ASSUME RebuildInv, NEW p \in Projections, LateWrite(p)
  PROVE  RebuildInv'
PROOF
<1>1. PICK f \in Facts : Writes(p, graph[p] \cup {f})
  BY DEF LateWrite
<1>2. /\ projection[p].task = "SUCCEEDED"
      /\ UNCHANGED <<published, projection, reviews, command>>
  BY DEF LateWrite
<1>3. projection[p].status # "NONE"
  BY <1>2 DEF RebuildInv, RowsAreSound, RowIsSound, NoProjection
<1>4. graph[p] \cup {f} \in SUBSET Facts
  BY DEF RebuildInv, RebuildTypeOK
<1>5. command' \in [Operators -> Command] /\ CommandsFollow
  BY <1>2, UnchangedFollows
<1> QED
  BY <1>1, <1>2, <1>3, <1>4, <1>5, GraphKeeps

LEMMA EraseKeeps ==
  ASSUME RebuildInv, NEW p \in Projections, Erase(p)
  PROVE  RebuildInv'
PROOF
<1> DEFINE row == [projection[p] EXCEPT !.purge = "done"]
<1>1. /\ projection[p].purge = "asked" /\ graph' = [graph EXCEPT ![p] = {}]
      /\ UNCHANGED <<published, reviews, command, touched>>
  BY DEF Erase
<1>2. projection \in [Projections -> Projection]
  BY DEF RebuildInv, RebuildTypeOK
<1>3. projection' = [projection EXCEPT ![p] = row]
  BY <1>2 DEF Erase
<1>4. /\ row \in Projection /\ row.status = projection[p].status
      /\ row.task = projection[p].task /\ row.base = projection[p].base
      /\ row.generation = projection[p].generation /\ row.purge = "done"
  BY <1>2 DEF Projection
<1> HIDE DEF row
<1>5. RowIsSound(projection[p]) /\ published.active \in Nat
  BY RebuildBoundsAssumption DEF RebuildInv, RebuildTypeOK, RowsAreSound
<1>6. projection[p].status \notin {"NONE", "BUILDING", "READY"}
  BY <1>1, <1>5 DEF RowIsSound, NoProjection
<1>7. RowIsSound(row)
  BY <1>1, <1>4, <1>5, <1>6 DEF RowIsSound, IsOfWanted
<1>8. ~ IsCurrent(p)
  BY <1>1, <1>5 DEF RowIsSound, IsOfWanted, IsCurrent, IsActive, IsWanted
<1>9. \A q \in Projections \ {p} : projection[q].generation = row.generation =>
        MayStandBeside(row, projection[q]) /\ MayStandBeside(projection[q], row)
  BY <1>4, <1>6, NeighboursStay
<1>10. ApprovedGraphsStay
  <2>1. projection'[p].status # "BUILDING" /\ \A q \in Projections \ {p} :
          graph'[q] = graph[q] /\ projection'[q] = projection[q]
    BY <1>1, <1>2, <1>3, <1>4, <1>6 DEF RebuildInv, RebuildTypeOK
  <2> QED
    BY <2>1 DEF ApprovedGraphsStay
<1>11. command' \in [Operators -> Command] /\ CommandsFollow
  BY <1>1, UnchangedFollows
<1>12. /\ graph' \in [Projections -> SUBSET Facts] /\ touched' \subseteq Projections
       /\ \A q \in Projections \ {p} : graph'[q] = graph[q]
  BY <1>1 DEF RebuildInv, RebuildTypeOK
<1> QED
  BY <1>1, <1>3, <1>4, <1>6, <1>7, <1>8, <1>9, <1>10, <1>11, <1>12, RowKeeps

-----------------------------------------------------------------------------
(* Filtering and switching *)

LEMMA RecordExclusionsKeeps ==
  ASSUME RebuildInv, NEW o \in Operators, NEW p \in Projections, RecordExclusions(o, p)
  PROVE  RebuildInv'
PROOF
<1>1. PICK excluded \in SUBSET Facts :
        /\ projection' = [projection EXCEPT ![p].excluded = excluded]
        /\ command' = [command EXCEPT ![o] =
             [phase |-> "recorded", target |-> p, facts |-> excluded,
              left |-> Facts, active |-> 0]]
  BY DEF RecordExclusions
<1>2. IsComplete(p) /\ UNCHANGED <<published, graph, reviews, touched>>
  BY DEF RecordExclusions
<1> DEFINE row == [projection[p] EXCEPT !.excluded = excluded]
           x == [phase |-> "recorded", target |-> p, facts |-> excluded,
                 left |-> Facts, active |-> 0]
<1>3. x \in Command /\ x.phase = "recorded" /\ x.target = p
  <2>1. p \in 0..MaxProjections /\ 0 \in 0..MaxProjections
    BY RebuildBoundsAssumption DEF Projections
  <2> QED
    BY <2>1 DEF Command
<1>4. projection' = [projection EXCEPT ![p] = row] /\ command' = [command EXCEPT ![o] = x]
      /\ projection \in [Projections -> Projection]
  BY <1>1 DEF RebuildInv, RebuildTypeOK
<1>5. /\ row \in Projection /\ row.status = projection[p].status
      /\ row.task = projection[p].task /\ row.base = projection[p].base
      /\ row.generation = projection[p].generation /\ row.purge = projection[p].purge
  BY <1>4 DEF Projection
<1> HIDE DEF row, x
<1>6. projection[p].status = "BUILDING" /\ projection[p].task = "SUCCEEDED"
      /\ projection[p].base # 0
  BY <1>2 DEF IsComplete
<1>7. RowIsSound(row)
  <2>1. RowIsSound(projection[p])
    BY DEF RebuildInv, RowsAreSound
  <2> QED
    BY <1>5, <1>6, <2>1 DEF RowIsSound, IsOfWanted
<1>8. \A q \in Projections \ {p} : projection[q].generation = row.generation =>
        MayStandBeside(row, projection[q]) /\ MayStandBeside(projection[q], row)
  BY <1>5, <1>6, NeighboursStay
<1>9. ApprovedGraphsStay
  BY <1>2, <1>4, <1>5 DEF ApprovedGraphsStay
<1>10. command' \in [Operators -> Command] /\ CommandsFollow
  <2>1. command' \in [Operators -> Command] /\ \A q \in Operators :
          command'[q] = IF q = o THEN x ELSE command[q]
    BY <1>3, <1>4 DEF RebuildInv, RebuildTypeOK
  <2>2. CommandIsSound(command[o])'
    BY <1>3, <1>4, <1>5, <1>6, <2>1 DEF CommandIsSound
  <2> QED
    BY <2>1, <2>2 DEF CommandsFollow
<1>11. graph' \in [Projections -> SUBSET Facts] /\ touched' \subseteq Projections
  BY <1>2 DEF RebuildInv, RebuildTypeOK
<1> QED
  BY <1>2, <1>4, <1>5, <1>6, <1>7, <1>8, <1>9, <1>10, <1>11, RowKeeps

LEMMA RewriteChunkKeeps ==
  ASSUME RebuildInv, NEW o \in Operators, RewriteChunk(o)
  PROVE  RebuildInv'
PROOF
<1> DEFINE p == command[o].target
<1>1. Running(o, "recorded") /\ UNCHANGED <<published, projection, reviews>>
  BY DEF RewriteChunk
<1>2. p \in Projections /\ projection[p].status # "NONE" /\ command[o] \in Command
  BY <1>1 DEF RebuildInv, RebuildTypeOK, CommandsAreSound, CommandIsSound, Running
<1>3. PICK f \in command[o].left :
        /\ Writes(p, IF f \in command[o].facts THEN graph[p] \ {f} ELSE graph[p] \cup {f})
        /\ command' = [command EXCEPT ![o].left = command[o].left \ {f}]
  BY DEF RewriteChunk, RebuildInv, RebuildTypeOK
<1> DEFINE facts == IF f \in command[o].facts THEN graph[p] \ {f} ELSE graph[p] \cup {f}
           x == [command[o] EXCEPT !.left = command[o].left \ {f}]
<1>4. facts \in SUBSET Facts
  BY <1>2 DEF RebuildInv, RebuildTypeOK, Command
<1>5. /\ x \in Command /\ x.phase = command[o].phase /\ x.target = p
      /\ command' = [command EXCEPT ![o] = x]
  BY <1>2, <1>3 DEF Command, RebuildInv, RebuildTypeOK
<1> HIDE DEF x
<1>6. command' \in [Operators -> Command] /\ CommandsFollow
  BY <1>5 DEF CommandsFollow, RebuildInv, RebuildTypeOK
<1>7. Writes(p, facts)
  BY <1>3
<1> HIDE DEF facts, p
<1> QED
  BY <1>1, <1>2, <1>4, <1>6, <1>7, GraphKeeps

LEMMA RecordCountsKeeps ==
  ASSUME RebuildInv, NEW o \in Operators, RecordCounts(o)
  PROVE  RebuildInv'
PROOF
<1> DEFINE p == command[o].target
           excluded == command[o].facts
           row == [projection[p] EXCEPT !.excluded = excluded,
                                        !.count = Cardinality(Facts \ excluded)]
<1>1. /\ Running(o, "recorded") /\ IsComplete(p) /\ Stops(o)
      /\ UNCHANGED <<published, graph, reviews, touched>>
  BY DEF RecordCounts
<1>2. p \in Projections /\ command[o] \in Command
  BY <1>1 DEF RebuildInv, RebuildTypeOK, CommandsAreSound, CommandIsSound, Running
<1>3. projection' = [projection EXCEPT ![p] = row] /\ projection \in [Projections -> Projection]
  BY DEF RecordCounts, RebuildInv, RebuildTypeOK
<1>4. excluded \in SUBSET Facts /\ Cardinality(Facts \ excluded) \in 0..Cardinality(Facts)
  BY <1>2, CountsAreBounded DEF Command
<1>5. /\ row \in Projection /\ row.status = projection[p].status
      /\ row.task = projection[p].task /\ row.base = projection[p].base
      /\ row.generation = projection[p].generation /\ row.purge = projection[p].purge
  BY <1>2, <1>3, <1>4, ZenonT(40) DEF Projection
<1> HIDE DEF row
<1>6. projection[p].status = "BUILDING" /\ projection[p].task = "SUCCEEDED"
  BY <1>1 DEF IsComplete
<1>7. RowIsSound(row)
  <2>1. RowIsSound(projection[p])
    BY <1>2 DEF RebuildInv, RowsAreSound
  <2> QED
    BY <1>5, <1>6, <2>1 DEF RowIsSound, IsOfWanted
<1>8. \A q \in Projections \ {p} : projection[q].generation = row.generation =>
        MayStandBeside(row, projection[q]) /\ MayStandBeside(projection[q], row)
  BY <1>2, <1>5, <1>6, NeighboursStay
<1>9. ApprovedGraphsStay
  BY <1>1, <1>3, <1>5 DEF ApprovedGraphsStay
<1>10. command' \in [Operators -> Command] /\ CommandsFollow
  BY <1>1, StopsFollows
<1>11. graph' \in [Projections -> SUBSET Facts] /\ touched' \subseteq Projections
  BY <1>1 DEF RebuildInv, RebuildTypeOK
<1> HIDE DEF p, excluded
<1> QED
  BY <1>1, <1>2, <1>3, <1>5, <1>6, <1>7, <1>8, <1>9, <1>10, <1>11, RowKeeps

(* The graph that served is kept, and p serves instead.                    *)
LEMMA SwitchKeeps ==
  ASSUME RebuildInv, NEW o \in Operators, Switch(o)
  PROVE  RebuildInv'
PROOF
<1> DEFINE p == command[o].target
<1>1. PICK active \in Projections \ {p} :
        /\ Serves(active, p) /\ MayReplace(o, active)
        /\ projection' = [projection EXCEPT ![active].status = "STALE",
                                            ![p].status = "READY"]
  BY DEF Switch
<1>2. /\ command[o].phase \in {"approved", "approvedBack"} /\ IsCurrent(p) /\ Stops(o)
      /\ UNCHANGED <<published, graph, reviews, touched>>
  BY DEF Switch
<1>3. p \in Projections /\ projection[p].status # "NONE" /\ CommandIsSound(command[o])
  BY <1>2 DEF RebuildInv, CommandsAreSound, CommandIsSound
<1> DEFINE replaced == [projection[active] EXCEPT !.status = "STALE"]
           row == [projection[p] EXCEPT !.status = "READY"]
<1>4. projection \in [Projections -> Projection]
  BY DEF RebuildInv, RebuildTypeOK
<1>5. /\ projection'[active] = replaced /\ projection'[p] = row
      /\ \A q \in Projections \ {p, active} : projection'[q] = projection[q]
      /\ projection' = [projection EXCEPT ![active] = replaced, ![p] = row]
  BY <1>1, <1>3, <1>4
<1>6. /\ row \in Projection /\ row.status = "READY" /\ row.task = projection[p].task
      /\ row.base = projection[p].base /\ row.generation = projection[p].generation
      /\ row.purge = projection[p].purge
  BY <1>3, <1>4 DEF Projection
<1>7. /\ replaced \in Projection /\ replaced.status = "STALE"
      /\ replaced.task = projection[active].task
      /\ replaced.base = projection[active].base
      /\ replaced.generation = projection[active].generation
      /\ replaced.purge = projection[active].purge
  BY <1>4 DEF Projection
<1> HIDE DEF row, replaced, p
<1>8. /\ RowIsSound(projection[p]) /\ RowIsSound(projection[active])
      /\ published.active \in Nat
  BY <1>3, RebuildBoundsAssumption DEF RebuildInv, RebuildTypeOK, RowsAreSound
<1>9. /\ projection[p].generation = published.active /\ published.active \in published.wanted
      /\ projection[active].generation = published.active
      /\ projection[active].status = "READY"
  BY <1>1, <1>2 DEF Serves, IsCurrent, IsActive, IsWanted
<1>10. \/ command[o].phase = "approved" /\ IsComplete(p)
       \/ projection[p].status = "STALE"
  BY <1>1 DEF MayReplace, Running, p
<1>11. projection[p].task = "SUCCEEDED"
  BY <1>8, <1>9, <1>10 DEF RowIsSound, IsOfWanted, IsComplete
<1>12. RebuildTypeOK'
  <2>1. command' \in [Operators -> Command]
    BY <1>2, StopsFollows
  <2> QED
    BY <1>2, <1>5, <1>6, <1>7, <2>1 DEF RebuildInv, RebuildTypeOK
<1>13. GenerationsAreSound'
  BY <1>2 DEF RebuildInv, GenerationsAreSound
<1>14. RowIsSound(row) /\ RowIsSound(replaced)
  BY <1>6, <1>7, <1>8, <1>9, <1>11 DEF RowIsSound, IsOfWanted
<1>15. RowsAreSound'
  <2> SUFFICES ASSUME NEW q \in Projections
               PROVE  RowIsSound(projection[q])'
    BY DEF RowsAreSound
  <2>1. RowIsSound(projection'[q])
    BY <1>5, <1>14 DEF RebuildInv, RowsAreSound
  <2> QED
    BY <1>2, <2>1 DEF RowIsSound, IsOfWanted
<1>16. GraphsShareGenerations'
  <2> SUFFICES ASSUME NEW a \in Projections, NEW b \in Projections \ {a},
                      projection'[a].status # "NONE",
                      projection'[b].generation = projection'[a].generation
               PROVE  MayStandBeside(projection'[a], projection'[b])
    BY DEF GraphsShareGenerations, MayStandBeside
  <2>1. \A q \in Projections :
          /\ projection'[q].generation = projection[q].generation
          /\ projection'[q].base = projection[q].base
    BY <1>5, <1>6, <1>7
  <2>2. projection[a].status # "NONE"
    BY <1>3, <1>5, <1>9
  <2>3. MayStandBeside(projection[a], projection[b])
    BY <2>1, <2>2 DEF RebuildInv, GraphsShareGenerations
  <2>4. CASE a = p
    <3>1. projection[b].generation = projection[active].generation
      BY <1>9, <2>1, <2>4
    <3>2. b # active => MayStandBeside(projection[active], projection[b])
      BY <1>9, <3>1 DEF RebuildInv, GraphsShareGenerations
    <3> QED
      BY <1>5, <1>6, <1>7, <1>9, <2>1, <2>3, <2>4, <3>2 DEF MayStandBeside
  <2>5. CASE a = active
    BY <1>5, <1>7, <2>1, <2>3, <2>5 DEF MayStandBeside
  <2>6. CASE a # p /\ a # active
    <3>1. projection'[a] = projection[a]
      BY <1>5, <2>6
    <3>2. CASE b = p
      <4>1. projection[a].status # "READY"
        <5>1. projection[a].generation = projection[active].generation
          BY <1>9, <2>1, <3>2
        <5> QED
          BY <1>9, <2>6, <5>1 DEF RebuildInv, GraphsShareGenerations, MayStandBeside
      <4> QED
        BY <2>1, <2>3, <3>1, <4>1 DEF MayStandBeside
    <3>3. CASE b = active
      BY <1>5, <1>7, <2>1, <2>3, <3>1, <3>3 DEF MayStandBeside
    <3>4. CASE b # p /\ b # active
      BY <1>5, <2>3, <3>1, <3>4
    <3> QED
      BY <3>2, <3>3, <3>4
  <2> QED
    BY <2>4, <2>5, <2>6
<1>17. CommandsAreSound'
  <2>1. RowsGoOn
    BY <1>5, <1>6, <1>7 DEF RowsGoOn
  <2>2. ApprovedGraphsStay
    BY <1>2, <1>5, <1>6, <1>7 DEF ApprovedGraphsStay
  <2> QED
    BY <1>2, <2>1, <2>2, StopsFollows, CommandsStaySound
<1>18. ServableGraphsWereReviewed'
  <2> SUFFICES ASSUME NEW q \in Projections \ touched, IsServable(q)', projection'[q].base # 0
               PROVE  IsReviewed(q, graph[q])
    BY <1>2 DEF ServableGraphsWereReviewed, IsReviewed
  <2>1. CASE q = p /\ projection[p].status = "BUILDING"
    BY <1>3, <1>10, <2>1 DEF CommandIsSound, p
  <2>2. CASE q = p /\ projection[p].status # "BUILDING"
    <3>1. projection[p].status = "STALE"
      BY <1>10, <2>2 DEF IsComplete
    <3> QED
      BY <1>2, <1>5, <1>6, <2>2, <3>1
      DEF RebuildInv, ServableGraphsWereReviewed, IsServable, IsRetained, IsCurrent
  <2>3. CASE q = active
    BY <1>5, <1>7, <1>9, <2>3 DEF RebuildInv, ServableGraphsWereReviewed, IsServable
  <2>4. CASE q # p /\ q # active
    BY <1>2, <1>5, <2>4
    DEF RebuildInv, ServableGraphsWereReviewed, IsServable, IsRetained, IsCurrent, IsActive,
        IsWanted
  <2> QED
    BY <2>1, <2>2, <2>3, <2>4
<1> QED
  BY <1>12, <1>13, <1>15, <1>16, <1>17, <1>18 DEF RebuildInv

-----------------------------------------------------------------------------
(* Uploads and publications *)

(* Rows that stay or are retired, for a desired revision and a publication *)
(* that may have moved on.                                                 *)
LEMMA RetiredRowsKeep ==
  ASSUME RebuildInv, UNCHANGED <<graph, reviews, command, touched>>,
         published' \in [active : 0..MaxGenerations, newest : 0..MaxGenerations,
                         wanted : SUBSET Generated],
         GenerationsAreSound', RowsAreSound',
         projection' \in [Projections -> Projection],
         \A p \in Projections :
           \/ projection'[p] = projection[p]
           \/ projection[p].status # "NONE" /\ projection'[p] = Retired(projection[p]),
         \A p \in Projections : ~ IsRetained(p)'
  PROVE  RebuildInv'
PROOF
<1>1. \A p \in Projections : projection[p] \in Projection
  BY DEF RebuildInv, RebuildTypeOK
<1>2. \A p \in Projections :
        \/ projection'[p] = projection[p]
        \/ /\ projection[p].status # "NONE"
           /\ projection'[p].status = "STALE" /\ projection'[p].base = projection[p].base
           /\ projection'[p].generation = projection[p].generation
           /\ projection'[p].task # "open"
  BY <1>1, RetiredRow
<1>3. RebuildTypeOK'
  BY DEF RebuildInv, RebuildTypeOK
<1>4. GraphsShareGenerations'
  <2> SUFFICES ASSUME NEW a \in Projections, NEW b \in Projections \ {a},
                      projection'[a].status # "NONE",
                      projection'[b].generation = projection'[a].generation
               PROVE  MayStandBeside(projection'[a], projection'[b])
    BY DEF GraphsShareGenerations, MayStandBeside
  <2>1. projection[a].status # "NONE"
        /\ projection[b].generation = projection[a].generation
    BY <1>2
  <2>2. MayStandBeside(projection[a], projection[b])
    BY <2>1 DEF RebuildInv, GraphsShareGenerations
  <2> QED
    BY <1>2, <2>2 DEF MayStandBeside
<1>5. CommandsAreSound'
  <2>1. RowsGoOn
    BY <1>2 DEF RowsGoOn
  <2>2. ApprovedGraphsStay
    BY <1>2 DEF ApprovedGraphsStay
  <2>3. CommandsFollow
    BY UnchangedFollows
  <2> QED
    BY <2>1, <2>2, <2>3, CommandsStaySound
<1>6. ServableGraphsWereReviewed'
  <2> SUFFICES ASSUME NEW p \in Projections \ touched, IsServable(p)', projection'[p].base # 0
               PROVE  IsReviewed(p, graph[p])
    BY DEF ServableGraphsWereReviewed, IsReviewed
  <2>1. projection'[p].status = "READY"
    BY DEF IsServable
  <2>2. projection'[p] = projection[p]
    BY <1>2, <2>1
  <2> QED
    BY <2>1, <2>2 DEF RebuildInv, ServableGraphsWereReviewed, IsServable
<1> QED
  BY <1>3, <1>4, <1>5, <1>6 DEF RebuildInv

LEMMA UploadKeeps ==
  ASSUME RebuildInv, Upload
  PROVE  RebuildInv'
PROOF
<1>1. /\ published' = [published EXCEPT !.wanted = {}]
      /\ projection' = [p \in Projections |-> Superseded(projection[p])]
      /\ UNCHANGED <<graph, reviews, command, touched>>
  BY DEF Upload
<1>2. /\ published' \in [active : 0..MaxGenerations, newest : 0..MaxGenerations,
                         wanted : SUBSET Generated]
      /\ published'.wanted = {} /\ published'.active = published.active
      /\ published'.newest = published.newest
  BY <1>1 DEF RebuildInv, RebuildTypeOK
<1>3. \A p \in Projections :
        /\ projection[p] \in Projection /\ RowIsSound(projection[p])
        /\ projection'[p] = IF projection[p].status \in {"BUILDING", "FAILED"}
                            THEN Retired(projection[p]) ELSE projection[p]
  BY <1>1 DEF RebuildInv, RebuildTypeOK, RowsAreSound, Superseded
<1>4. projection' \in [Projections -> Projection]
  BY <1>1, <1>3, RetiredRow DEF Superseded
<1>5. GenerationsAreSound'
  BY <1>2 DEF RebuildInv, GenerationsAreSound
<1>6. RowsAreSound'
  <2> SUFFICES ASSUME NEW p \in Projections
               PROVE  RowIsSound(projection[p])'
    BY DEF RowsAreSound
  <2>1. CASE projection[p].status \in {"BUILDING", "FAILED"}
    BY <1>2, <1>3, <2>1, RetiredRow DEF RowIsSound, IsOfWanted
  <2>2. CASE projection[p].status \notin {"BUILDING", "FAILED"}
    BY <1>2, <1>3, <2>2 DEF RowIsSound, IsOfWanted
  <2> QED
    BY <2>1, <2>2
<1>7. \A p \in Projections : ~ IsRetained(p)'
  BY <1>2 DEF IsRetained, IsCurrent, IsWanted
<1> QED
  BY <1>1, <1>2, <1>3, <1>4, <1>5, <1>6, <1>7, RetiredRowsKeep

LEMMA PublishKeeps ==
  ASSUME RebuildInv, NEW g \in Generated, Publish(g)
  PROVE  RebuildInv'
PROOF
<1>1. /\ g \in published.wanted /\ g > published.active
      /\ published' = [published EXCEPT !.active = g]
      /\ projection' = [p \in Projections |->
           IF projection[p].status # "NONE" /\ IsActive(p)
           THEN Retired(projection[p]) ELSE projection[p]]
      /\ UNCHANGED <<graph, reviews, command, touched>>
  BY DEF Publish
<1>2. /\ g \in Nat /\ published.active \in Nat /\ published.newest \in Nat
      /\ g <= published.newest
      /\ \A p \in Projections : projection[p].generation \in Nat
  BY <1>1, RebuildBoundsAssumption
  DEF RebuildInv, RebuildTypeOK, Projection, Generated, GenerationsAreSound
<1>3. /\ published' \in [active : 0..MaxGenerations, newest : 0..MaxGenerations,
                         wanted : SUBSET Generated]
      /\ published'.wanted = published.wanted /\ published'.active = g
      /\ published'.newest = published.newest
  <2>1. g \in 0..MaxGenerations
    BY <1>2, RebuildBoundsAssumption DEF Generated
  <2> QED
    BY <1>1, <2>1 DEF RebuildInv, RebuildTypeOK
<1>4. \A p \in Projections :
        /\ projection[p] \in Projection /\ RowIsSound(projection[p])
        /\ projection'[p] = IF projection[p].status # "NONE"
                                /\ projection[p].generation = published.active
                            THEN Retired(projection[p]) ELSE projection[p]
  BY <1>1 DEF RebuildInv, RebuildTypeOK, RowsAreSound, IsActive
<1>5. projection' \in [Projections -> Projection]
  BY <1>1, <1>4, RetiredRow
<1>6. GenerationsAreSound'
  BY <1>2, <1>3 DEF RebuildInv, GenerationsAreSound
<1>7. RowsAreSound'
  <2> SUFFICES ASSUME NEW p \in Projections
               PROVE  RowIsSound(projection[p])'
    BY DEF RowsAreSound
  <2>1. CASE projection[p].status # "NONE" /\ projection[p].generation = published.active
    <3>1. projection'[p] = Retired(projection[p])
      BY <1>4, <2>1
    <3>2. /\ projection'[p].status = "STALE" /\ projection'[p].task # "open"
          /\ projection'[p].generation = published.active
      BY <1>4, <2>1, <3>1, RetiredRow
    <3>3. published.active # 0
      BY <1>4, <2>1 DEF RowIsSound
    <3> QED
      BY <1>1, <1>2, <1>3, <3>2, <3>3 DEF RowIsSound, IsOfWanted
  <2>2. CASE projection[p].status = "NONE"
    <3>1. projection'[p] = NoProjection
      BY <1>4, <2>2 DEF RowIsSound
    <3> QED
      BY <1>2, <1>3, <3>1, EmptyRowIsSound DEF RowIsSound, NoProjection
  <2>3. CASE projection[p].status # "NONE" /\ projection[p].generation # published.active
    <3>1. projection'[p] = projection[p] /\ RowIsSound(projection[p])
      BY <1>4, <2>3
    <3>2. projection[p].generation \in Nat
      BY <1>2
    <3> QED
      BY <1>1, <1>2, <1>3, <2>3, <3>1, <3>2 DEF RowIsSound, IsOfWanted
  <2> QED
    BY <2>1, <2>2, <2>3
<1>8. \A p \in Projections : ~ IsRetained(p)'
  <2> SUFFICES ASSUME NEW p \in Projections, IsRetained(p)'
               PROVE  FALSE
    OBVIOUS
  <2>1. /\ projection'[p].status = "STALE" /\ projection'[p].generation = g
        /\ g \in published.wanted
    BY <1>1, <1>3 DEF IsRetained, IsCurrent, IsActive
  <2>2. projection[p].generation = g
    BY <1>4, <2>1, RetiredRow
  <2>3. projection[p].status = "STALE"
    BY <1>1, <1>2, <1>4, <2>1, <2>2
  <2> QED
    BY <1>1, <1>2, <1>4, <2>2, <2>3 DEF RowIsSound, IsOfWanted
<1> QED
  BY <1>1, <1>3, <1>4, <1>5, <1>6, <1>7, <1>8, RetiredRowsKeep

-----------------------------------------------------------------------------
(* The invariant and what follows from it *)

LEMMA RebuildStep ==
  ASSUME RebuildInv, [RebuildNext]_rebuildVars
  PROVE  RebuildInv'
PROOF
<1>1. CASE UNCHANGED rebuildVars
  <2>1. UNCHANGED command /\ UNCHANGED <<published, projection, graph, touched>>
        /\ reviews' = reviews
    BY <1>1 DEF rebuildVars
  <2>2. reviews \subseteq reviews' /\ reviews' \subseteq Review
        /\ command' \in [Operators -> Command]
    BY <2>1 DEF RebuildInv, RebuildTypeOK
  <2> QED
    BY <2>1, <2>2, CommandsOnly
<1>2. ASSUME NEW o \in Operators, NEW p \in Projections,
             Plan(o, p) \/ Enqueue(o, p) \/ RecordExclusions(o, p) \/ StartSwitch(o, p)
      PROVE  RebuildInv'
  BY <1>2, PlanKeeps, EnqueueKeeps, RecordExclusionsKeeps, StartSwitchKeeps
<1>3. ASSUME NEW o \in Operators,
             RewriteChunk(o) \/ RecordCounts(o) \/ Approve(o) \/ Switch(o) \/ Interrupt(o)
      PROVE  RebuildInv'
  BY <1>3, RewriteChunkKeeps, RecordCountsKeeps, ApproveKeeps, SwitchKeeps, InterruptKeeps
<1>4. ASSUME NEW p \in Projections,
             \/ Stage(p) \/ Backfill(p) \/ Requeue(p) \/ Finish(p) \/ FailBuild(p)
             \/ LateWrite(p) \/ Verify(p) \/ Erase(p)
      PROVE  RebuildInv'
  BY <1>4, StageKeeps, BackfillKeeps, RequeueKeeps, FinishKeeps, FailBuildKeeps,
     LateWriteKeeps, VerifyKeeps, EraseKeeps
<1> QED
  BY <1>1, <1>2, <1>3, <1>4, UploadKeeps, PublishKeeps DEF RebuildNext

(* No step but a publication ends the service of a graph without another   *)
(* one that takes over.                                                    *)
LEMMA ServiceGoesOn ==
  ASSUME RebuildInv, [RebuildNext]_rebuildVars, published'.active = published.active,
         NEW p \in Projections, ServesQueries(p)
  PROVE  \E q \in Projections : ServesQueries(q)'
PROOF
<1>1. /\ projection[p].status = "READY" /\ projection[p].generation = published.active
      /\ projection[p].task = "SUCCEEDED" /\ projection \in [Projections -> Projection]
  BY DEF ServesQueries, IsActive, RebuildInv, RebuildTypeOK, RowsAreSound, RowIsSound
<1> DEFINE Kept == /\ projection'[p].status = projection[p].status
                   /\ projection'[p].generation = projection[p].generation
<1>2. SUFFICES ASSUME ~ Kept
               PROVE  \E q \in Projections : ServesQueries(q)'
  BY <1>1 DEF ServesQueries, IsActive
<1>3. ~ UNCHANGED projection
  BY <1>2
<1>4. ASSUME NEW o \in Operators, NEW q \in Projections,
             Plan(o, q) \/ Enqueue(o, q) \/ RecordExclusions(o, q) \/ StartSwitch(o, q)
      PROVE  FALSE
  <2>1. CASE Plan(o, q) \/ StartSwitch(o, q)
    BY <1>3, <2>1 DEF Plan, StartSwitch, Start
  <2>2. CASE Enqueue(o, q)
    <3>1. q # p /\ \E row : projection' = [projection EXCEPT ![q] = row]
      BY <1>1, <2>2 DEF Enqueue, IsNext
    <3> QED
      BY <1>1, <1>2, <3>1
  <2>3. CASE RecordExclusions(o, q)
    BY <1>1, <1>2, <2>3 DEF RecordExclusions, Projection
  <2> QED
    BY <1>4, <2>1, <2>2, <2>3
<1>5. ASSUME NEW o \in Operators,
             RewriteChunk(o) \/ RecordCounts(o) \/ Approve(o) \/ Interrupt(o)
      PROVE  FALSE
  <2>1. CASE RewriteChunk(o) \/ Approve(o) \/ Interrupt(o)
    BY <1>3, <2>1 DEF RewriteChunk, Approve, Interrupt
  <2>2. CASE RecordCounts(o)
    BY <1>1, <1>2, <2>2 DEF RecordCounts, Projection
  <2> QED
    BY <1>5, <2>1, <2>2
<1>6. ASSUME NEW q \in Projections,
             \/ Stage(q) \/ Backfill(q) \/ Requeue(q) \/ Finish(q) \/ FailBuild(q)
             \/ LateWrite(q) \/ Verify(q) \/ Erase(q)
      PROVE  FALSE
  <2>1. CASE Stage(q) \/ Backfill(q)
    <3>1. q # p /\ \E row : projection' = [projection EXCEPT ![q] = row]
      BY <1>1, <2>1 DEF Stage, Backfill, IsNext
    <3> QED
      BY <1>1, <1>2, <3>1
  <2>2. CASE Requeue(q) \/ Finish(q) \/ FailBuild(q)
    <3>1. projection[q].task \in {"FAILED", "open"}
      BY <2>2 DEF Requeue, Finish, FailBuild
    <3>2. q # p
      BY <1>1, <3>1
    <3>3. projection'[p] = projection[p]
      BY <1>1, <2>2, <3>2 DEF Requeue, Finish, FailBuild
    <3> QED
      BY <1>2, <3>3
  <2>3. CASE LateWrite(q) \/ Verify(q)
    BY <1>3, <2>3 DEF LateWrite, Verify
  <2>4. CASE Erase(q)
    BY <1>1, <1>2, <2>4 DEF Erase, Projection
  <2> QED
    BY <1>6, <2>1, <2>2, <2>3, <2>4
<1>7. ASSUME NEW o \in Operators, Switch(o)
      PROVE  \E q \in Projections : ServesQueries(q)'
  <2> DEFINE t == command[o].target
  <2>1. PICK active \in Projections :
          projection' = [projection EXCEPT ![active].status = "STALE", ![t].status = "READY"]
    BY <1>7 DEF Switch
  <2>2. t \in Projections /\ projection[t].generation = published.active
        /\ UNCHANGED published
    BY <1>7
    DEF Switch, IsCurrent, IsActive, RebuildInv, CommandsAreSound, CommandIsSound
  <2>3. projection'[t].status = "READY" /\ projection'[t].generation = projection[t].generation
    BY <1>1, <2>1, <2>2 DEF Projection
  <2> QED
    BY <2>2, <2>3 DEF ServesQueries, IsActive
<1>8. ~ Upload
  BY <1>1, <1>2 DEF Upload, Superseded
<1>9. ASSUME NEW g \in Generated
      PROVE  ~ Publish(g)
  <2>1. Publish(g) => published'.active = g /\ g > published.active
    BY DEF Publish, RebuildInv, RebuildTypeOK
  <2> QED
    BY <2>1, RebuildBoundsAssumption DEF Generated, RebuildInv, RebuildTypeOK
<1>10. ~ UNCHANGED rebuildVars
  BY <1>3 DEF rebuildVars
<1> QED
  BY <1>4, <1>5, <1>6, <1>7, <1>8, <1>9, <1>10 DEF RebuildNext

(* A row whose graph is finished was so before, or this step finishes it.  *)
IsFinished(row) == row.base = 0 /\ row.task = "SUCCEEDED"

LEMMA OnlyFinishFinishes ==
  ASSUME RebuildInv, [RebuildNext]_rebuildVars, NEW p \in Projections,
         IsFinished(projection'[p])
  PROVE  \/ /\ IsFinished(projection[p])
            /\ projection'[p].generation = projection[p].generation
         \/ projection'[p].status = "READY" /\ UNCHANGED published
PROOF
<1> DEFINE Kept == /\ projection'[p].base = projection[p].base
                   /\ projection'[p].task = projection[p].task
                   /\ projection'[p].generation = projection[p].generation
<1>1. projection \in [Projections -> Projection] /\ projection[p] \in Projection
  BY DEF RebuildInv, RebuildTypeOK
<1>2. SUFFICES ASSUME ~ Kept
               PROVE  projection'[p].status = "READY" /\ UNCHANGED published
  BY DEF IsFinished
<1>3. ~ UNCHANGED projection
  BY <1>2
<1>4. \A n \in Projections, g \in Generated, base \in 0..MaxProjections :
        projection' # [projection EXCEPT ![n] = NewProjection(g, base)]
  <2> SUFFICES ASSUME NEW n \in Projections, NEW g \in Generated,
                      NEW base \in 0..MaxProjections,
                      projection' = [projection EXCEPT ![n] = NewProjection(g, base)]
               PROVE  FALSE
    OBVIOUS
  <2>1. NewProjection(g, base).task = "open"
    BY NewRow
  <2>2. CASE n = p
    BY <1>1, <2>1, <2>2 DEF IsFinished
  <2>3. CASE n # p
    BY <1>1, <1>2, <2>3
  <2> QED
    BY <2>2, <2>3
<1>5. ASSUME NEW o \in Operators, NEW q \in Projections,
             Plan(o, q) \/ Enqueue(o, q) \/ RecordExclusions(o, q) \/ StartSwitch(o, q)
      PROVE  FALSE
  <2>1. CASE Plan(o, q) \/ StartSwitch(o, q)
    BY <1>3, <2>1 DEF Plan, StartSwitch, Start
  <2>2. CASE Enqueue(o, q)
    <3> DEFINE base == command[o].target
    <3>1. base \in Projections
      BY <2>2 DEF Enqueue, RebuildInv, CommandsAreSound, CommandIsSound, Running
    <3>2. base \in 0..MaxProjections
      BY <3>1, RebuildBoundsAssumption DEF Projections
    <3>3. projection[base].generation \in Generated
      BY <2>2 DEF Enqueue, IsCurrent, IsActive, IsWanted, RebuildInv, RebuildTypeOK
    <3> QED
      BY <1>4, <2>2, <3>2, <3>3 DEF Enqueue
  <2>3. CASE RecordExclusions(o, q)
    BY <1>1, <1>2, <2>3 DEF RecordExclusions, Projection
  <2> QED
    BY <1>5, <2>1, <2>2, <2>3
<1>6. ASSUME NEW o \in Operators,
             RewriteChunk(o) \/ RecordCounts(o) \/ Approve(o) \/ Switch(o) \/ Interrupt(o)
      PROVE  FALSE
  <2>1. CASE RewriteChunk(o) \/ Approve(o) \/ Interrupt(o)
    BY <1>3, <2>1 DEF RewriteChunk, Approve, Interrupt
  <2>2. CASE RecordCounts(o)
    BY <1>1, <1>2, <2>2 DEF RecordCounts, Projection
  <2>3. CASE Switch(o)
    <3> DEFINE t == command[o].target
    <3>1. PICK active \in Projections :
            projection' = [projection EXCEPT ![active].status = "STALE", ![t].status = "READY"]
      BY <2>3 DEF Switch
    <3> QED
      BY <1>1, <1>2, <3>1 DEF Projection
  <2> QED
    BY <1>6, <2>1, <2>2, <2>3
<1>7. ASSUME NEW q \in Projections,
             \/ Stage(q) \/ Backfill(q) \/ Requeue(q) \/ FailBuild(q)
             \/ LateWrite(q) \/ Verify(q) \/ Erase(q)
      PROVE  FALSE
  <2>1. CASE Stage(q)
    <3>1. published.newest + 1 \in Generated /\ 0 \in 0..MaxProjections
      BY <2>1, RebuildBoundsAssumption DEF Stage, Generated, RebuildInv, RebuildTypeOK
    <3> QED
      BY <1>4, <2>1, <3>1 DEF Stage
  <2>2. CASE Backfill(q)
    <3>1. published.active \in Generated /\ 0 \in 0..MaxProjections
      BY <2>2, RebuildBoundsAssumption DEF Backfill, RebuildInv, RebuildTypeOK
    <3> QED
      BY <1>4, <2>2, <3>1 DEF Backfill
  <2>3. CASE Requeue(q)
    BY <1>1, <1>2, <2>3 DEF Requeue, IsFinished, Projection
  <2>4. CASE FailBuild(q)
    BY <1>1, <1>2, <2>4 DEF FailBuild, IsFinished, Projection
  <2>5. CASE LateWrite(q) \/ Verify(q)
    BY <1>3, <2>5 DEF LateWrite, Verify
  <2>6. CASE Erase(q)
    BY <1>1, <1>2, <2>6 DEF Erase, Projection
  <2> QED
    BY <1>7, <2>1, <2>2, <2>3, <2>4, <2>5, <2>6
<1>8. ASSUME NEW q \in Projections, Finish(q)
      PROVE  projection'[p].status = "READY" /\ UNCHANGED published
  <2>1. projection'[p].base = projection[p].base
    BY <1>1, <1>8 DEF Finish, Projection
  <2>2. q = p
    BY <1>1, <1>2, <1>8 DEF Finish, Projection
  <2> QED
    BY <1>1, <1>8, <2>1, <2>2 DEF Finish, IsFinished, Projection
<1>9. ASSUME Upload \/ \E g \in Generated : Publish(g)
      PROVE  FALSE
  <2>1. projection'[p] \in {projection[p], Retired(projection[p])}
    BY <1>9 DEF Upload, Publish, Superseded
  <2>2. /\ Retired(projection[p]).base = projection[p].base
        /\ Retired(projection[p]).generation = projection[p].generation
        /\ Retired(projection[p]).task =
             IF projection[p].task = "open" THEN "CANCELLED" ELSE projection[p].task
    BY <1>1, RetiredRow
  <2> QED
    BY <1>2, <2>1, <2>2 DEF IsFinished
<1>10. ~ UNCHANGED rebuildVars
  BY <1>3 DEF rebuildVars
<1> QED
  BY <1>5, <1>6, <1>7, <1>8, <1>9, <1>10 DEF RebuildNext

(* A publication finds the finished graph of its generation READY.         *)
LEMMA PublishedGraphIsReady ==
  ASSUME RebuildInv, NEW g \in Generated, Publish(g), NEW p \in Projections,
         IsFinished(projection[p]), projection[p].generation = g
  PROVE  ServesQueries(p)'
PROOF
<1>1. /\ g \in published.wanted /\ g > published.active /\ published'.active = g
  BY DEF Publish, RebuildInv, RebuildTypeOK
<1>2. g \in Nat /\ published.active \in Nat
  BY RebuildBoundsAssumption DEF Generated, RebuildInv, RebuildTypeOK
<1>3. projection'[p] = projection[p]
  BY <1>1, <1>2 DEF Publish, IsActive
<1>4. RowIsSound(projection[p])
  BY DEF RebuildInv, RowsAreSound
<1>5. projection[p].status = "READY"
  BY <1>1, <1>2, <1>4 DEF RowIsSound, IsFinished, IsOfWanted
<1> QED
  BY <1>1, <1>3, <1>5 DEF ServesQueries, IsActive

LEMMA OnlyPublishPublishes ==
  ASSUME RebuildInv, [RebuildNext]_rebuildVars, published'.active # published.active
  PROVE  \E g \in Generated : Publish(g)
PROOF
<1>1. ~ UNCHANGED published
  OBVIOUS
<1>2. ASSUME NEW o \in Operators, NEW p \in Projections,
             Plan(o, p) \/ Enqueue(o, p) \/ RecordExclusions(o, p) \/ StartSwitch(o, p)
      PROVE  FALSE
  BY <1>1, <1>2 DEF Plan, Enqueue, RecordExclusions, StartSwitch, Start
<1>3. ASSUME NEW o \in Operators,
             RewriteChunk(o) \/ RecordCounts(o) \/ Approve(o) \/ Switch(o) \/ Interrupt(o)
      PROVE  FALSE
  BY <1>1, <1>3 DEF RewriteChunk, RecordCounts, Approve, Switch, Interrupt
<1>4. ASSUME NEW p \in Projections,
             \/ Stage(p) \/ Backfill(p) \/ Requeue(p) \/ Finish(p) \/ FailBuild(p)
             \/ LateWrite(p) \/ Verify(p) \/ Erase(p)
      PROVE  FALSE
  <2>1. CASE Stage(p)
    BY <2>1 DEF Stage, RebuildInv, RebuildTypeOK
  <2>2. CASE ~ Stage(p)
    BY <1>1, <1>4, <2>2 DEF Backfill, Requeue, Finish, FailBuild, LateWrite, Verify, Erase
  <2> QED
    BY <2>1, <2>2
<1>5. ~ Upload
  BY DEF Upload, RebuildInv, RebuildTypeOK
<1>6. ~ UNCHANGED rebuildVars
  BY <1>1 DEF rebuildVars
<1> QED
  BY <1>2, <1>3, <1>4, <1>5, <1>6 DEF RebuildNext

LEMMA FinishedGraphsKeep ==
  ASSUME RebuildInv, FinishedGraphsServe, [RebuildNext]_rebuildVars
  PROVE  FinishedGraphsServe'
PROOF
<1> SUFFICES ASSUME NEW p \in Projections, IsFinished(projection'[p]),
                    projection'[p].generation = published'.active
             PROVE  \E q \in Projections : ServesQueries(q)'
  BY DEF FinishedGraphsServe, IsFinished, IsActive
<1>1. CASE projection'[p].status = "READY"
  BY <1>1 DEF ServesQueries, IsActive
<1>2. CASE projection'[p].status # "READY"
  <2>1. IsFinished(projection[p]) /\ projection[p].generation = published'.active
    BY <1>2, OnlyFinishFinishes
  <2>2. CASE published'.active = published.active
    <3>1. PICK q \in Projections : ServesQueries(q)
      BY <2>1, <2>2 DEF FinishedGraphsServe, IsFinished, IsActive
    <3> QED
      BY <2>2, <3>1, ServiceGoesOn
  <2>3. CASE published'.active # published.active
    <3>1. \E g \in Generated : Publish(g)
      BY <2>3, OnlyPublishPublishes
    <3>2. PICK g \in Generated : Publish(g)
      BY <3>1
    <3>3. published'.active = g
      BY <3>2 DEF Publish, RebuildInv, RebuildTypeOK
    <3> QED
      BY <2>1, <3>2, <3>3, PublishedGraphIsReady
  <2> QED
    BY <2>2, <2>3
<1> QED
  BY <1>1, <1>2

(* What the invariant says is enough for the properties the runs check.    *)
LEMMA RebuildInvServes == RebuildInv /\ FinishedGraphsServe => ServesOneReviewedGraph
PROOF
<1> SUFFICES ASSUME RebuildInv, FinishedGraphsServe
             PROVE  ServesOneReviewedGraph
  OBVIOUS
<1>1. AtMostOneGraphServes
  BY DEF RebuildInv, GraphsShareGenerations, MayStandBeside, AtMostOneGraphServes
<1>2. NeededGraphsStay
  <2> SUFFICES ASSUME NEW p \in Projections, ServesQueries(p) \/ IsRetained(p)
               PROVE  projection[p].purge = "none"
    BY DEF NeededGraphsStay
  <2>1. RowIsSound(projection[p]) /\ published.active \in Nat
    BY RebuildBoundsAssumption DEF RebuildInv, RebuildTypeOK, RowsAreSound
  <2> QED
    BY <2>1 DEF RowIsSound, IsOfWanted, ServesQueries, IsRetained, IsCurrent, IsActive,
                IsWanted
<1>3. ServedGraphsWereReviewed
  BY DEF RebuildInv, ServableGraphsWereReviewed, IsServable, IsReviewed,
         ServedGraphsWereReviewed
<1> QED
  BY <1>1, <1>2, <1>3 DEF ServesOneReviewedGraph

(* The inductive invariant: whatever is staged, finished, published,       *)
(* rebuilt, filtered, reviewed and switched, by any number of operators    *)
(* and for any number of generations and graphs.                           *)
THEOREM RebuildInductive == RebuildSpec => [](RebuildInv /\ FinishedGraphsServe)
PROOF
<1>1. RebuildInit => RebuildInv /\ FinishedGraphsServe
  <2>1. RebuildInit => FinishedGraphsServe
    BY DEF RebuildInit, FinishedGraphsServe, NoProjection
  <2> QED
    BY <2>1, RebuildInitially
<1>2. RebuildInv /\ FinishedGraphsServe /\ [RebuildNext]_rebuildVars
        => (RebuildInv /\ FinishedGraphsServe)'
  BY RebuildStep, FinishedGraphsKeep
<1> QED
  BY <1>1, <1>2, PTL DEF RebuildSpec

(* Every row, graph, report and command keeps its type.                    *)
THEOREM RebuildTypeCorrect == RebuildSpec => []RebuildTypeOK
PROOF
<1>1. RebuildInv => RebuildTypeOK
  BY DEF RebuildInv
<1> QED
  BY <1>1, RebuildInductive, PTL

(* Queries are served by at most one graph, by none that is erased, by     *)
(* some graph once the first one of the published generation is finished,  *)
(* and by a rebuilt one as it was reviewed.                                *)
THEOREM ReviewedGraphsServe == RebuildSpec => []ServesOneReviewedGraph
  BY RebuildInductive, RebuildInvServes, PTL

-----------------------------------------------------------------------------
(* The order of the locks                                                  *)
(*                                                                         *)
(* The order is the code's: base, grants, tasks by id, document, what      *)
(* belongs to it, users, sign-ins.  It is not kept everywhere.  A user is  *)
(* locked early, but in shared mode; a base is locked again by who has it; *)
(* and publications, deletions and purges lock the parts of a document in  *)
(* different orders, but only with its row and all its tasks in hand.      *)

OrderedTransactions ==
  {"persist", "delete_document", "purge_document", "retry_task", "update_document_metadata",
   "knowledge_base_grant", "document_grant", "sign_in", "index_task", "graph_task",
   "save_extraction", "finish", "verify_work_access", "stage_chunks", "publish_chunks",
   "reindex", "backfill", "rebuild", "switch", "structured"}

Parts == {"projections", "generation", "citations", "chunks", "shares"}
Names == Parts \cup {"base", "grants", "user", "document", "auth_session"}

TaskLocks == {TaskLock(t) : t \in Tasks}
Locks == {Shared(name) : name \in Names} \cup {Exclusive(name) : name \in Names} \cup TaskLocks

LastTask == CHOOSE n \in Tasks : Tasks = 1..n

IsPart(lock) == lock.row[1] \in Parts

(* The place of a lock in the order.                                       *)
Level(lock) ==
  LET name == lock.row[1]
  IN IF name = "base" THEN 0
     ELSE IF name = "grants" THEN 1
     ELSE IF name = "task" THEN 1 + lock.row[2]
     ELSE IF name = "document" THEN LastTask + 2
     ELSE IF name \in Parts THEN LastTask + 3
     ELSE IF name = "user" THEN LastTask + 4
     ELSE LastTask + 5

(* Who has the locks R may wait for another one: those in R come before it *)
(* or stop nobody, it is there already, or both are parts of a document of *)
(* which R has everything.                                                 *)
MayFollow(R, lock) ==
  /\ \A a \in R :
       \/ a = Shared("user") \/ Level(a) < Level(lock)
       \/ \E b \in R : b.row = lock.row /\ ~ lock.exclusive
       \/ IsPart(a) /\ IsPart(lock)
  /\ IsPart(lock) =>
       /\ \E a \in R : a \in TaskLocks \/ a.row = <<"document", 0>>
       /\ (\E a \in R : IsPart(a)) => TaskLocks \cup {Exclusive("document")} \subseteq R
  /\ lock = Exclusive("user") => R = {}

FirstOf(p, n) == {p[i] : i \in 1..n}

IsOrdered(p) ==
  p \in Seq(Locks) /\ \A i \in 1..Len(p) : MayFollow(FirstOf(p, i - 1), p[i])

IsPath(p) == IsOrdered(p) /\ p # << >>

(* An ordered path with the locks R.                                       *)
Collects(p, R) == IsOrdered(p) /\ FirstOf(p, Len(p)) = R

LockInv ==
  /\ path \in [Clients -> Seq(Locks)] /\ held \in [Clients -> Nat]
  /\ \A c \in Clients :
       /\ IsOrdered(path[c]) /\ held[c] <= Len(path[c])
       /\ path[c] # << >> => held[c] >= 1
  /\ \A c, d \in Clients : c # d =>
       \A i \in 1..held[c], j \in 1..held[d] : ~ Conflicts(path[c][i], path[d][j])

-----------------------------------------------------------------------------
(* Locks and their order *)

LEMMA TasksAreNumbered == LastTask \in Nat \ {0} /\ Tasks = 1..LastTask
  BY LockAssumption DEF LastTask

(* The largest of some numbers: from it on, there are the fewest.          *)
LEMMA Greatest ==
  ASSUME NEW N \in Nat, NEW T \in SUBSET (0..N), T # {}
  PROVE  \E x \in T : \A y \in T : y <= x
PROOF
<1> DEFINE From(x) == x..N
           ranges == {From(x) : x \in T}
           Narrower == StrictSubsetOrdering(0..N)
<1>1. IsFiniteSet(0..N)
  BY FS_Interval
<1>2. IsWellFoundedOn(Narrower, SUBSET (0..N))
  BY <1>1, FS_FiniteSubsetsOfFinite, FS_StrictSubsetOrderingWellFounded
<1>3. \A x \in T : From(x) \in SUBSET (0..N)
  OBVIOUS
<1>4. PICK a \in ranges : \A b \in ranges : ~ (<<b, a>> \in Narrower)
  <2>1. ranges \subseteq SUBSET (0..N) /\ ranges # {}
    BY <1>3
  <2> HIDE DEF ranges, Narrower
  <2> QED
    BY <1>2, <2>1, WFMin
<1>5. PICK x \in T : a = From(x)
  OBVIOUS
<1>6. ASSUME NEW y \in T, y > x
      PROVE  FALSE
  <2>1. From(y) \subseteq From(x) /\ From(y) # From(x)
    <3>1. x \in From(x) /\ x \notin From(y) /\ x \in Nat /\ y \in Nat
      BY <1>6
    <3> QED
      BY <1>6, <3>1
  <2>2. <<From(y), From(x)>> \in Narrower
    BY <1>3, <2>1 DEF StrictSubsetOrdering
  <2> HIDE DEF Narrower, From
  <2> QED
    BY <1>4, <1>5, <2>2
<1> QED
  BY <1>6

LEMMA LevelsOfLocks ==
  /\ \A name \in Names :
       /\ Shared(name) \in Locks /\ Exclusive(name) \in Locks
       /\ IsPart(Shared(name)) <=> name \in Parts
       /\ IsPart(Exclusive(name)) <=> name \in Parts
       /\ Level(Exclusive(name)) = Level(Shared(name))
       /\ name \in Parts => Level(Shared(name)) = LastTask + 3
  /\ Level(Shared("base")) = 0 /\ Level(Shared("grants")) = 1
  /\ Level(Shared("document")) = LastTask + 2 /\ Level(Shared("user")) = LastTask + 4
  /\ Level(Shared("auth_session")) = LastTask + 5
  /\ \A t \in Tasks : TaskLock(t) \in Locks /\ ~ IsPart(TaskLock(t)) /\ Level(TaskLock(t)) = 1 + t
  BY ZenonT(40) DEF Locks, TaskLocks, Shared, Exclusive, TaskLock, IsPart, Level, Parts, Names

LEMMA LevelsAreBounded == \A lock \in Locks : Level(lock) \in 0..(LastTask + 5)
PROOF
<1> SUFFICES ASSUME NEW lock \in Locks
             PROVE  Level(lock) \in 0..(LastTask + 5)
  OBVIOUS
<1>1. LastTask \in Nat /\ \A t \in Tasks : t \in 1..LastTask
  BY TasksAreNumbered
<1>2. CASE lock \in TaskLocks
  BY <1>1, <1>2, LevelsOfLocks DEF TaskLocks
<1>3. CASE lock \notin TaskLocks
  <2>1. PICK name \in Names : lock = Shared(name) \/ lock = Exclusive(name)
    BY <1>3 DEF Locks
  <2>2. Level(lock) = Level(Shared(name))
    BY <2>1, LevelsOfLocks
  <2>3. Level(Shared(name)) \in {0, 1, LastTask + 2, LastTask + 3, LastTask + 4, LastTask + 5}
    BY LevelsOfLocks DEF Names
  <2> QED
    BY <1>1, <2>2, <2>3
<1> QED
  BY <1>2, <1>3

(* Locks that conflict are on the same row, and so at the same place.      *)
LEMMA ConflictsAreLevel ==
  ASSUME NEW a \in Locks, NEW b \in Locks, Conflicts(a, b)
  PROVE  Level(a) = Level(b) /\ (IsPart(a) <=> IsPart(b))
  BY DEF Conflicts, Level, IsPart

-----------------------------------------------------------------------------
(* Building ordered paths *)

LEMMA NothingCollected == Collects(<< >>, {})
PROOF
<1>1. << >> \in Seq(Locks) /\ Len(<< >>) = 0
  BY EmptySeq
<1> QED
  BY <1>1 DEF Collects, IsOrdered, FirstOf

LEMMA OneMore ==
  ASSUME NEW p, NEW R, Collects(p, R), NEW lock \in Locks, MayFollow(R, lock)
  PROVE  Collects(p \o <<lock>>, R \cup {lock})
PROOF
<1> DEFINE q == p \o <<lock>>
           n == Len(p)
<1>1. p \in Seq(Locks) /\ <<lock>> \in Seq(Locks) /\ Len(<<lock>>) = 1 /\ n \in Nat
  BY LenProperties DEF Collects, IsOrdered
<1>2. /\ q \in Seq(Locks) /\ Len(q) = n + 1 /\ q[n + 1] = lock
      /\ \A i \in 1..n : q[i] = p[i]
  BY <1>1, ConcatProperties
<1> HIDE DEF q
<1>3. \A m \in 0..n : FirstOf(q, m) = FirstOf(p, m)
  BY <1>1, <1>2 DEF FirstOf
<1>4. FirstOf(q, n + 1) = R \cup {lock}
  <2>1. FirstOf(q, n + 1) = FirstOf(q, n) \cup {q[n + 1]}
    BY <1>1 DEF FirstOf
  <2> QED
    BY <1>1, <1>2, <1>3, <2>1 DEF Collects
<1>5. ASSUME NEW i \in 1..(n + 1)
      PROVE  MayFollow(FirstOf(q, i - 1), q[i])
  <2>1. FirstOf(q, i - 1) = FirstOf(p, i - 1)
    BY <1>1, <1>3
  <2>2. CASE i = n + 1
    BY <1>1, <1>2, <2>1, <2>2 DEF Collects
  <2>3. CASE i # n + 1
    BY <1>1, <1>2, <2>1, <2>3 DEF Collects, IsOrdered
  <2> QED
    BY <2>2, <2>3
<1> QED
  BY <1>2, <1>4, <1>5 DEF Collects, IsOrdered, q

(* All tasks can be locked by who has only what comes before.              *)
LEMMA AllTasksNext ==
  ASSUME NEW p, NEW R, Collects(p, R),
         R \subseteq {Shared("base"), Shared("grants"), Shared("user")}
  PROVE  Collects(p \o LockTasks, R \cup TaskLocks)
PROOF
<1> DEFINE q == p \o LockTasks
           n == Len(p)
<1>1. LastTask \in Nat \ {0} /\ Tasks = 1..LastTask
  BY TasksAreNumbered
<1>2. \A t \in Tasks : TaskLock(t) \in Locks /\ ~ IsPart(TaskLock(t)) /\ Level(TaskLock(t)) = 1 + t
  BY LevelsOfLocks
<1>3. LockTasks \in Seq(Locks) /\ Len(LockTasks) = LastTask
  BY <1>1, <1>2 DEF LockTasks
<1>4. p \in Seq(Locks) /\ n \in Nat
  BY LenProperties DEF Collects, IsOrdered
<1>5. /\ q \in Seq(Locks) /\ Len(q) = n + LastTask
      /\ \A i \in 1..n : q[i] = p[i]
      /\ \A i \in 1..LastTask : q[n + i] = TaskLock(i)
  <2>1. /\ q \in Seq(Locks) /\ Len(q) = n + LastTask
        /\ \A i \in 1..(n + LastTask) : q[i] = IF i <= n THEN p[i] ELSE LockTasks[i - n]
    BY <1>3, <1>4, ConcatProperties
  <2>2. \A i \in 1..LastTask : LockTasks[i] = TaskLock(i)
    BY <1>1 DEF LockTasks
  <2> HIDE DEF q
  <2> QED
    BY <1>1, <1>4, <2>1, <2>2, SMTT(30)
<1> HIDE DEF q
<1>6. \A m \in 0..n : FirstOf(q, m) = FirstOf(p, m)
  BY <1>4, <1>5 DEF FirstOf
<1>7. ASSUME NEW m \in 0..LastTask
      PROVE  FirstOf(q, n + m) = R \cup {TaskLock(t) : t \in 1..m}
  <2>1. FirstOf(q, n + m) = FirstOf(q, n) \cup {q[n + t] : t \in 1..m}
    <3>1. \A i \in 1..(n + m) : i \in 1..n \/ (i - n \in 1..m /\ i = n + (i - n))
      BY <1>1, <1>4
    <3>2. \A t \in 1..m : n + t \in 1..(n + m)
      BY <1>1, <1>4
    <3>3. \A i \in 1..n : i \in 1..(n + m)
      BY <1>1, <1>4
    <3> QED
      BY <3>1, <3>2, <3>3 DEF FirstOf
  <2>2. \A t \in 1..m : q[n + t] = TaskLock(t)
    BY <1>1, <1>5
  <2>3. FirstOf(q, n) = R
    BY <1>4, <1>6 DEF Collects
  <2> QED
    BY <2>1, <2>2, <2>3
<1>8. FirstOf(q, n + LastTask) = R \cup TaskLocks
  BY <1>1, <1>7 DEF TaskLocks
<1>9. ASSUME NEW i \in 1..(n + LastTask)
      PROVE  MayFollow(FirstOf(q, i - 1), q[i])
  <2>1. CASE i <= n
    BY <1>4, <1>5, <1>6, <2>1 DEF Collects, IsOrdered
  <2>2. CASE i > n
    <3> DEFINE m == i - n - 1
    <3>1. m \in 0..LastTask /\ m + 1 \in 1..LastTask /\ i - 1 = n + m /\ i = n + (m + 1)
      BY <1>1, <1>4, <2>2
    <3> HIDE DEF m
    <3>2. /\ FirstOf(q, i - 1) = R \cup {TaskLock(t) : t \in 1..m}
          /\ q[i] = TaskLock(m + 1)
      BY <1>5, <1>7, <3>1
    <3>3. /\ Level(TaskLock(m + 1)) = m + 2 /\ ~ IsPart(TaskLock(m + 1))
          /\ TaskLock(m + 1) # Exclusive("user")
      <4>1. m + 1 \in Tasks /\ 1 + (m + 1) = m + 2
        BY <1>1, <3>1
      <4>2. TaskLock(m + 1) # Exclusive("user")
        BY DEF TaskLock, Exclusive
      <4> QED
        BY <1>2, <4>1, <4>2
    <3>4. \A a \in R : a = Shared("user") \/ Level(a) < m + 2
      BY <3>1, LevelsOfLocks
    <3>5. \A t \in 1..m : Level(TaskLock(t)) < m + 2
      BY <1>1, <1>2, <3>1
    <3> QED
      BY <3>2, <3>3, <3>4, <3>5 DEF MayFollow
  <2> QED
    BY <1>4, <2>1, <2>2
<1> QED
  BY <1>5, <1>8, <1>9 DEF Collects, IsOrdered, q

-----------------------------------------------------------------------------
(* The stages of a path *)

Early == {Shared("base"), Shared("grants"), Shared("user")}
Ahead == Early \cup {Exclusive("base"), Exclusive("grants")} \cup TaskLocks
DocumentLocks == {Shared("document"), Exclusive("document")}
PartLocks == {Shared(name) : name \in Parts} \cup {Exclusive(name) : name \in Parts}

(* Before the tasks; before the document; with the document or a task; in  *)
(* the end; with the document and all of its tasks.                        *)
IsEarly(p) == \E R \in SUBSET Early : Collects(p, R)
IsAhead(p) == \E R \in SUBSET Ahead : Collects(p, R)
HasSome(p) ==
  \E R \in SUBSET (Ahead \cup DocumentLocks) :
    Collects(p, R) /\ R \cap (TaskLocks \cup DocumentLocks) # {}
IsLate(p) ==
  \E R \in SUBSET (Ahead \cup DocumentLocks \cup PartLocks) : Collects(p, R) /\ R # {}
HasAll(p) ==
  \E R \in SUBSET (Ahead \cup DocumentLocks \cup PartLocks) :
    Collects(p, R) /\ TaskLocks \cup {Exclusive("document")} \subseteq R

LEMMA LevelsOfStages ==
  /\ \A a \in Early : a \in Locks /\ ~ IsPart(a) /\ (a = Shared("user") \/ Level(a) < 2)
  /\ \A a \in Ahead : a \in Locks /\ ~ IsPart(a) /\ (a = Shared("user") \/ Level(a) < LastTask + 2)
  /\ \A a \in DocumentLocks : /\ a \in Locks /\ ~ IsPart(a) /\ a.row = <<"document", 0>>
                              /\ Level(a) = LastTask + 2
  /\ \A a \in PartLocks : /\ a \in Locks /\ IsPart(a) /\ a # Exclusive("user")
                          /\ Level(a) = LastTask + 3
PROOF
<1>1. LastTask \in Nat /\ \A t \in Tasks : t \in 1..LastTask
  BY TasksAreNumbered
<1>2. \A a \in Early : a \in Locks /\ ~ IsPart(a) /\ (a = Shared("user") \/ Level(a) < 2)
  BY LevelsOfLocks DEF Early, Names, Parts
<1>3. \A a \in TaskLocks : a \in Locks /\ ~ IsPart(a) /\ Level(a) < LastTask + 2
  BY <1>1, LevelsOfLocks DEF TaskLocks
<1>4. \A a \in {Exclusive("base"), Exclusive("grants")} :
        a \in Locks /\ ~ IsPart(a) /\ Level(a) < 2
  BY LevelsOfLocks DEF Names, Parts
<1>5. \A a \in DocumentLocks : /\ a \in Locks /\ ~ IsPart(a) /\ a.row = <<"document", 0>>
                               /\ Level(a) = LastTask + 2
  <2>1. "document" \in Names /\ "document" \notin Parts
    BY DEF Names, Parts
  <2>2. \A a \in DocumentLocks : a \in Locks /\ ~ IsPart(a) /\ Level(a) = LastTask + 2
    BY <2>1, LevelsOfLocks DEF DocumentLocks
  <2>3. \A a \in DocumentLocks : a.row = <<"document", 0>>
    BY DEF DocumentLocks, Shared, Exclusive
  <2> QED
    BY <2>2, <2>3
<1>6. \A a \in PartLocks : a \in Locks /\ IsPart(a) /\ Level(a) = LastTask + 3
  BY LevelsOfLocks DEF PartLocks, Names
<1>7. \A a \in PartLocks : a # Exclusive("user")
  BY <1>6, LevelsOfLocks DEF Names, Parts
<1>8. \A a \in Early \cup {Exclusive("base"), Exclusive("grants")} :
        a \in Locks /\ ~ IsPart(a) /\ (a = Shared("user") \/ Level(a) < LastTask + 2)
  <2>1. \A k \in Nat : k < 2 => k < LastTask + 2
    BY <1>1
  <2>2. \A a \in Locks : Level(a) \in Nat
    BY <1>1, LevelsAreBounded
  <2> QED
    BY <1>2, <1>4, <2>1, <2>2
<1>9. \A a \in Ahead : a \in Locks /\ ~ IsPart(a) /\ (a = Shared("user") \/ Level(a) < LastTask + 2)
  BY <1>3, <1>8 DEF Ahead
<1> QED
  BY <1>2, <1>5, <1>6, <1>7, <1>9

LEMMA EarlyPaths == IsEarly(S("base")) /\ IsEarly(WriteBase)
PROOF
<1> DEFINE b == Shared("base")
           g == Shared("grants")
           u == Shared("user")
<1>1. /\ b \in Locks /\ g \in Locks /\ u \in Locks
      /\ Level(b) = 0 /\ Level(g) = 1 /\ Level(u) = LastTask + 4
      /\ ~ IsPart(b) /\ ~ IsPart(g) /\ ~ IsPart(u)
  BY LevelsOfLocks DEF Names, Parts
<1>2. b # Exclusive("user") /\ g # Exclusive("user") /\ u # Exclusive("user")
  BY DEF Shared, Exclusive
<1>3. LastTask \in Nat
  BY TasksAreNumbered
<1> HIDE DEF b, g, u
<1>4. <<b>> = << >> \o <<b>>
  <2>1. <<b>> \in Seq(Locks)
    BY <1>1
  <2> QED
    BY <2>1, ConcatEmptySeq
<1>5. Collects(<<b>>, {b})
  <2>1. MayFollow({}, b)
    BY <1>1 DEF MayFollow
  <2>2. Collects(<< >> \o <<b>>, {} \cup {b})
    BY <1>1, <2>1, NothingCollected, OneMore
  <2> QED
    BY <1>4, <2>2
<1>6. Collects(<<b>> \o <<g>>, {b} \cup {g})
  <2>1. MayFollow({b}, g)
    BY <1>1, <1>2 DEF MayFollow
  <2> QED
    BY <1>1, <1>5, <2>1, OneMore
<1>7. Collects((<<b>> \o <<g>>) \o <<u>>, ({b} \cup {g}) \cup {u})
  <2>1. MayFollow({b} \cup {g}, u)
    BY <1>1, <1>2, <1>3 DEF MayFollow
  <2> QED
    BY <1>1, <1>6, <2>1, OneMore
<1>8. IsEarly(<<b>>) /\ IsEarly((<<b>> \o <<g>>) \o <<u>>)
  BY <1>5, <1>7 DEF IsEarly, Early, b, g, u
<1> QED
  BY <1>8 DEF S, WriteBase, b, g, u

LEMMA TaskNext ==
  ASSUME NEW p, IsEarly(p), NEW t \in Tasks
  PROVE  IsAhead(p \o Task(t)) /\ HasSome(p \o Task(t))
PROOF
<1>1. PICK R \in SUBSET Early : Collects(p, R)
  BY DEF IsEarly
<1>2. LastTask \in Nat /\ t \in 1..LastTask
  BY TasksAreNumbered
<1>3. TaskLock(t) \in Locks /\ ~ IsPart(TaskLock(t)) /\ Level(TaskLock(t)) = 1 + t
  BY LevelsOfLocks
<1>4. TaskLock(t) # Exclusive("user")
  BY DEF TaskLock, Exclusive
<1>5. MayFollow(R, TaskLock(t))
  <2>1. \A k \in Nat : k < 2 => k < 1 + t
    BY <1>2
  <2>2. \A a \in Locks : Level(a) \in Nat
    BY <1>2, LevelsAreBounded
  <2>3. \A a \in R : a = Shared("user") \/ Level(a) < Level(TaskLock(t))
    BY <1>3, <2>1, <2>2, LevelsOfStages
  <2> QED
    BY <1>3, <1>4, <2>3 DEF MayFollow
<1>6. Collects(p \o Task(t), R \cup {TaskLock(t)})
  BY <1>1, <1>3, <1>5, OneMore DEF Task
<1>7. TaskLock(t) \in TaskLocks
  BY DEF TaskLocks
<1> QED
  BY <1>6, <1>7 DEF IsAhead, HasSome, Ahead

LEMMA DocumentNext ==
  ASSUME NEW p, IsAhead(p), NEW lock \in DocumentLocks
  PROVE  HasSome(p \o <<lock>>)
PROOF
<1>1. PICK R \in SUBSET Ahead : Collects(p, R)
  BY DEF IsAhead
<1>2. lock \in Locks /\ ~ IsPart(lock) /\ Level(lock) = LastTask + 2
  BY LevelsOfStages
<1>3. lock # Exclusive("user")
  BY DEF DocumentLocks, Shared, Exclusive
<1>4. MayFollow(R, lock)
  BY <1>2, <1>3, LevelsOfStages DEF MayFollow
<1>5. Collects(p \o <<lock>>, R \cup {lock})
  BY <1>1, <1>2, <1>4, OneMore
<1> QED
  BY <1>5 DEF HasSome

LEMMA AllNext ==
  ASSUME NEW p, IsEarly(p)
  PROVE  HasAll((p \o LockTasks) \o X("document"))
PROOF
<1>1. PICK R \in SUBSET Early : Collects(p, R)
  BY DEF IsEarly
<1>2. Collects(p \o LockTasks, R \cup TaskLocks)
  BY <1>1, AllTasksNext DEF Early
<1> DEFINE lock == Exclusive("document")
<1>3. lock \in DocumentLocks /\ lock # Exclusive("user")
  BY DEF DocumentLocks, Exclusive
<1>4. lock \in Locks /\ ~ IsPart(lock) /\ Level(lock) = LastTask + 2
  BY <1>3, LevelsOfStages
<1>5. MayFollow(R \cup TaskLocks, lock)
  <2>1. R \cup TaskLocks \subseteq Ahead
    BY DEF Ahead
  <2> QED
    BY <1>3, <1>4, <2>1, LevelsOfStages DEF MayFollow
<1>6. Collects((p \o LockTasks) \o X("document"), (R \cup TaskLocks) \cup {lock})
  BY <1>2, <1>4, <1>5, OneMore DEF X
<1> QED
  BY <1>3, <1>6 DEF HasAll, Ahead

(* One part of a document is locked by who has the document or a task.     *)
LEMMA PartNext ==
  ASSUME NEW p, HasSome(p), NEW lock \in PartLocks
  PROVE  IsLate(p \o <<lock>>)
PROOF
<1>1. PICK R \in SUBSET (Ahead \cup DocumentLocks) :
        Collects(p, R) /\ R \cap (TaskLocks \cup DocumentLocks) # {}
  BY DEF HasSome
<1>2. lock \in Locks /\ lock # Exclusive("user") /\ Level(lock) = LastTask + 3
  BY LevelsOfStages
<1>3. \A a \in R : ~ IsPart(a) /\ (a = Shared("user") \/ Level(a) < LastTask + 3)
  <2>1. LastTask \in Nat
    BY TasksAreNumbered
  <2>2. \A a \in Ahead : Level(a) \in Nat
    BY LevelsOfStages, LevelsAreBounded, <2>1
  <2> QED
    BY <2>1, <2>2, LevelsOfStages
<1>4. \E a \in R : a \in TaskLocks \/ a.row = <<"document", 0>>
  BY <1>1, LevelsOfStages
<1>5. MayFollow(R, lock)
  BY <1>2, <1>3, <1>4 DEF MayFollow
<1>6. Collects(p \o <<lock>>, R \cup {lock})
  BY <1>1, <1>2, <1>5, OneMore
<1> QED
  BY <1>6 DEF IsLate

(* Who has everything may lock the parts in any order.                     *)
LEMMA PartsNext ==
  ASSUME NEW p, HasAll(p), NEW name \in Parts
  PROVE  HasAll(p \o X(name))
PROOF
<1>1. PICK R \in SUBSET (Ahead \cup DocumentLocks \cup PartLocks) :
        Collects(p, R) /\ TaskLocks \cup {Exclusive("document")} \subseteq R
  BY DEF HasAll
<1> DEFINE lock == Exclusive(name)
<1>2. lock \in PartLocks
  BY DEF PartLocks
<1>3. lock \in Locks /\ lock # Exclusive("user") /\ IsPart(lock) /\ Level(lock) = LastTask + 3
  BY <1>2, LevelsOfStages
<1>4. \A a \in R : IsPart(a) \/ a = Shared("user") \/ Level(a) < LastTask + 3
  <2>1. LastTask \in Nat
    BY TasksAreNumbered
  <2>2. \A a \in Ahead : Level(a) \in Nat
    BY LevelsOfStages, LevelsAreBounded, <2>1
  <2> QED
    BY <2>1, <2>2, LevelsOfStages
<1>5. \E a \in R : a \in TaskLocks \/ a.row = <<"document", 0>>
  BY <1>1 DEF Exclusive
<1> HIDE DEF lock
<1>6. MayFollow(R, lock)
  BY <1>1, <1>3, <1>4, <1>5 DEF MayFollow
<1>7. Collects(p \o <<lock>>, R \cup {lock})
  BY <1>1, <1>3, <1>6, OneMore
<1>8. HasAll(p \o <<lock>>)
  BY <1>1, <1>2, <1>7 DEF HasAll
<1> QED
  BY <1>8 DEF X, lock

(* A user is locked in shared mode at any time.                            *)
LEMMA UserNext ==
  ASSUME NEW p
  PROVE  /\ IsAhead(p) => IsAhead(p \o S("user"))
         /\ HasSome(p) => HasSome(p \o S("user"))
         /\ IsLate(p) => IsLate(p \o S("user"))
         /\ HasAll(p) => HasAll(p \o S("user"))
PROOF
<1> DEFINE lock == Shared("user")
<1>1. lock \in Locks /\ lock # Exclusive("user") /\ ~ IsPart(lock) /\ Level(lock) = LastTask + 4
  <2>1. lock # Exclusive("user")
    BY DEF Shared, Exclusive
  <2> QED
    BY <2>1, LevelsOfLocks DEF Names, Parts
<1>2. LastTask \in Nat
  BY TasksAreNumbered
<1>3. \A a \in Ahead \cup DocumentLocks \cup PartLocks : a = lock \/ Level(a) < LastTask + 4
  <2>1. \A a \in Ahead : Level(a) \in Nat
    BY LevelsOfStages, LevelsAreBounded, <1>2
  <2> QED
    BY <1>2, <2>1, LevelsOfStages
<1>4. ASSUME NEW R \in SUBSET (Ahead \cup DocumentLocks \cup PartLocks), Collects(p, R)
      PROVE  Collects(p \o S("user"), R \cup {lock})
  <2>1. MayFollow(R, lock)
    BY <1>1, <1>3 DEF MayFollow
  <2> QED
    BY <1>1, <1>4, <2>1, OneMore DEF S
<1>5. lock \in Ahead
  BY DEF Ahead, Early
<1> HIDE DEF lock
<1>6. \A R \in SUBSET (Ahead \cup DocumentLocks \cup PartLocks) :
        Collects(p, R) => Collects(p \o S("user"), R \cup {lock})
  BY <1>4
<1>7. IsAhead(p) => IsAhead(p \o S("user"))
  BY <1>5, <1>6 DEF IsAhead
<1>8. HasSome(p) => HasSome(p \o S("user"))
  <2> SUFFICES ASSUME HasSome(p)
               PROVE  HasSome(p \o S("user"))
    OBVIOUS
  <2>1. PICK R \in SUBSET (Ahead \cup DocumentLocks) :
          Collects(p, R) /\ R \cap (TaskLocks \cup DocumentLocks) # {}
    BY DEF HasSome
  <2>2. Collects(p \o S("user"), R \cup {lock})
    BY <1>6, <2>1
  <2> QED
    BY <1>5, <2>1, <2>2 DEF HasSome
<1>9. IsLate(p) => IsLate(p \o S("user"))
  BY <1>5, <1>6 DEF IsLate
<1>10. HasAll(p) => HasAll(p \o S("user"))
  <2> SUFFICES ASSUME HasAll(p)
               PROVE  HasAll(p \o S("user"))
    OBVIOUS
  <2>1. PICK R \in SUBSET (Ahead \cup DocumentLocks \cup PartLocks) :
          Collects(p, R) /\ TaskLocks \cup {Exclusive("document")} \subseteq R
    BY DEF HasAll
  <2>2. Collects(p \o S("user"), R \cup {lock})
    BY <1>6, <2>1
  <2>3. R \cup {lock} \in SUBSET (Ahead \cup DocumentLocks \cup PartLocks)
    BY <1>5, <2>1
  <2>4. TaskLocks \cup {Exclusive("document")} \subseteq R \cup {lock}
    BY <2>1
  <2> QED
    BY <2>2, <2>3, <2>4 DEF HasAll
<1> QED
  BY <1>7, <1>8, <1>9, <1>10

LEMMA StagesArePaths ==
  ASSUME NEW p, HasSome(p) \/ IsLate(p) \/ HasAll(p)
  PROVE  IsPath(p)
PROOF
<1>1. PICK R : Collects(p, R) /\ R # {}
  BY DEF HasSome, IsLate, HasAll
<1>2. p # << >>
  <2>1. Len(<< >>) = 0
    OBVIOUS
  <2>2. FirstOf(<< >>, 0) = {}
    BY DEF FirstOf
  <2> QED
    BY <1>1, <2>1, <2>2 DEF Collects
<1> QED
  BY <1>1, <1>2 DEF Collects, IsPath

-----------------------------------------------------------------------------
(* The paths *)

LEMMA RequestsAreOrdered ==
  ASSUME NEW t \in Tasks,
         NEW name \in {"persist", "delete_document", "purge_document", "retry_task",
                       "update_document_metadata"}
  PROVE  IsPath(RequestPath(name, t))
PROOF
<1>1. HasAll((WriteBase \o LockTasks) \o X("document"))
  BY EarlyPaths, AllNext
<1>2. /\ "projections" \in Parts /\ "generation" \in Parts /\ "citations" \in Parts
      /\ "chunks" \in Parts
  BY DEF Parts
<1>3. CASE name = "persist"
  <2>1. HasAll(((WriteBase \o LockTasks) \o X("document")) \o X("projections"))
    BY <1>1, <1>2, PartsNext
  <2>2. HasAll((((WriteBase \o LockTasks) \o X("document")) \o X("projections"))
               \o X("generation"))
    BY <1>2, <2>1, PartsNext
  <2> QED
    BY <1>3, <2>2, StagesArePaths DEF RequestPath
<1>4. CASE name = "delete_document"
  <2>1. HasAll(((WriteBase \o LockTasks) \o X("document")) \o X("generation"))
    BY <1>1, <1>2, PartsNext
  <2>2. HasAll((((WriteBase \o LockTasks) \o X("document")) \o X("generation"))
               \o X("projections"))
    BY <1>2, <2>1, PartsNext
  <2> QED
    BY <1>4, <2>2, StagesArePaths DEF RequestPath
<1>5. CASE name = "purge_document"
  <2>1. HasAll(((WriteBase \o LockTasks) \o X("document")) \o X("citations"))
    BY <1>1, <1>2, PartsNext
  <2>2. HasAll((((WriteBase \o LockTasks) \o X("document")) \o X("citations"))
               \o X("projections"))
    BY <1>2, <2>1, PartsNext
  <2>3. HasAll(((((WriteBase \o LockTasks) \o X("document")) \o X("citations"))
               \o X("projections")) \o X("chunks"))
    BY <1>2, <2>2, PartsNext
  <2>4. HasAll((((((WriteBase \o LockTasks) \o X("document")) \o X("citations"))
               \o X("projections")) \o X("chunks")) \o X("generation"))
    BY <1>2, <2>3, PartsNext
  <2> QED
    BY <1>5, <2>4, StagesArePaths DEF RequestPath
<1>6. CASE name = "retry_task"
  <2>1. HasSome((WriteBase \o Task(t)) \o X("document"))
    BY EarlyPaths, TaskNext, DocumentNext DEF X, DocumentLocks
  <2> QED
    BY <1>6, <2>1, StagesArePaths DEF RequestPath
<1>7. CASE name = "update_document_metadata"
  <2>1. IsAhead(WriteBase)
    BY EarlyPaths DEF IsEarly, IsAhead, Ahead
  <2>2. HasSome(WriteBase \o X("document"))
    BY <2>1, DocumentNext DEF X, DocumentLocks
  <2> QED
    BY <1>7, <2>2, StagesArePaths DEF RequestPath
<1> QED
  BY <1>3, <1>4, <1>5, <1>6, <1>7

LEMMA PermissionsAreOrdered ==
  ASSUME NEW name \in {"knowledge_base_grant", "document_grant"}
  PROVE  IsPath(PermissionPath(name))
PROOF
<1> DEFINE b == Exclusive("base")
           u == Shared("user")
           g == Exclusive("grants")
           base == (<<b>> \o <<u>>) \o <<g>>
<1>1. /\ b \in Locks /\ g \in Locks /\ u \in Locks
      /\ Level(b) = 0 /\ Level(g) = 1 /\ Level(u) = LastTask + 4
      /\ ~ IsPart(b) /\ ~ IsPart(g) /\ ~ IsPart(u)
  BY LevelsOfLocks DEF Names, Parts
<1>2. b # Exclusive("user") /\ g # Exclusive("user") /\ u # Exclusive("user")
  BY DEF Shared, Exclusive
<1>3. LastTask \in Nat
  BY TasksAreNumbered
<1>4. b \in Ahead /\ u \in Ahead /\ g \in Ahead /\ u = Shared("user")
  BY DEF Ahead, Early
<1> HIDE DEF b, g, u
<1>5. <<b>> = << >> \o <<b>>
  <2>1. <<b>> \in Seq(Locks)
    BY <1>1
  <2> QED
    BY <2>1, ConcatEmptySeq
<1>6. Collects(<<b>>, {b})
  <2>1. MayFollow({}, b)
    BY <1>1 DEF MayFollow
  <2>2. Collects(<< >> \o <<b>>, {} \cup {b})
    BY <1>1, <2>1, NothingCollected, OneMore
  <2> QED
    BY <1>5, <2>2
<1>7. Collects(<<b>> \o <<u>>, {b} \cup {u})
  <2>1. MayFollow({b}, u)
    BY <1>1, <1>2, <1>3 DEF MayFollow
  <2> QED
    BY <1>1, <1>6, <2>1, OneMore
<1>8. Collects(base, ({b} \cup {u}) \cup {g})
  <2>1. MayFollow({b} \cup {u}, g)
    BY <1>1, <1>2, <1>4 DEF MayFollow
  <2> QED
    BY <1>1, <1>7, <2>1, OneMore
<1>9. IsAhead(base) /\ base = (X("base") \o S("user")) \o X("grants")
  <2>1. IsAhead(base)
    BY <1>4, <1>8 DEF IsAhead
  <2>2. base = (X("base") \o S("user")) \o X("grants")
    BY DEF X, S, b, u, g
  <2> QED
    BY <2>1, <2>2
<1> HIDE DEF base
<1>10. CASE name = "knowledge_base_grant"
  <2>1. IsAhead(base \o S("user"))
    BY <1>9, UserNext
  <2>2. base \o S("user") # << >>
    <3>1. base \in Seq(Locks) /\ S("user") \in Seq(Locks) /\ Len(S("user")) = 1
      BY <1>1, <1>4, <1>8 DEF Collects, IsOrdered, S
    <3>2. Len(base \o S("user")) = Len(base) + 1 /\ Len(base) \in Nat
      BY <3>1, ConcatProperties, LenProperties
    <3>3. Len(<< >>) = 0
      OBVIOUS
    <3> QED
      BY <3>2, <3>3
  <2> QED
    BY <1>9, <1>10, <2>1, <2>2 DEF IsAhead, Collects, IsPath, PermissionPath
<1>11. CASE name = "document_grant"
  <2>1. HasSome(base \o X("document"))
    BY <1>9, DocumentNext DEF X, DocumentLocks
  <2>2. IsLate((base \o X("document")) \o X("shares"))
    BY <2>1, PartNext DEF X, PartLocks, Parts
  <2>3. IsPath(((base \o X("document")) \o X("shares")) \o S("user"))
    BY <2>2, UserNext, StagesArePaths
  <2> QED
    BY <1>9, <1>11, <2>3 DEF PermissionPath
<1> QED
  BY <1>10, <1>11

LEMMA SignInIsOrdered == IsPath(SignInPath)
PROOF
<1> DEFINE u == Exclusive("user")
           s == Exclusive("auth_session")
<1>1. /\ u \in Locks /\ s \in Locks /\ ~ IsPart(u) /\ ~ IsPart(s)
      /\ Level(u) = LastTask + 4 /\ Level(s) = LastTask + 5
  BY LevelsOfLocks DEF Names, Parts
<1>2. s # u /\ u = Exclusive("user")
  BY DEF Exclusive
<1>3. LastTask \in Nat
  BY TasksAreNumbered
<1> HIDE DEF u, s
<1>4. <<u>> = << >> \o <<u>>
  <2>1. <<u>> \in Seq(Locks)
    BY <1>1
  <2> QED
    BY <2>1, ConcatEmptySeq
<1>5. Collects(<<u>>, {u})
  <2>1. MayFollow({}, u)
    BY <1>1 DEF MayFollow
  <2>2. Collects(<< >> \o <<u>>, {} \cup {u})
    BY <1>1, <2>1, NothingCollected, OneMore
  <2> QED
    BY <1>4, <2>2
<1>6. Collects(<<u>> \o <<s>>, {u} \cup {s})
  <2>1. MayFollow({u}, s)
    BY <1>1, <1>2, <1>3 DEF MayFollow
  <2> QED
    BY <1>1, <1>5, <2>1, OneMore
<1>7. <<u>> \o <<s>> # << >>
  OBVIOUS
<1> QED
  BY <1>6, <1>7 DEF Collects, IsPath, SignInPath, X, u, s

LEMMA TaskAlone == ASSUME NEW t \in Tasks PROVE HasSome(Task(t))
PROOF
<1>1. IsEarly(<< >>)
  BY NothingCollected DEF IsEarly
<1>2. HasSome(<< >> \o Task(t))
  BY <1>1, TaskNext
<1>3. Task(t) \in Seq(Locks)
  BY LevelsOfLocks DEF Task
<1>4. << >> \o Task(t) = Task(t)
  BY <1>3, ConcatEmptySeq
<1> QED
  BY <1>2, <1>4

(* A task of a base, its document, and the person behind it.               *)
LEMMA WorkAhead ==
  ASSUME NEW t \in Tasks
  PROVE  HasSome(((S("base") \o Task(t)) \o X("document")) \o S("user"))
PROOF
<1>1. HasSome((S("base") \o Task(t)) \o X("document"))
  BY EarlyPaths, TaskNext, DocumentNext DEF X, DocumentLocks
<1> QED
  BY <1>1, UserNext

LEMMA QueuesAreOrdered ==
  ASSUME NEW t \in Tasks,
         NEW name \in {"index_task", "graph_task", "save_extraction", "finish"}
  PROVE  IsPath(QueuePath(name, t))
PROOF
<1>1. \A part \in Parts : IsPath(Task(t) \o X(part))
  BY TaskAlone, PartNext, StagesArePaths DEF X, PartLocks
<1>2. IsPath((((S("base") \o Task(t)) \o X("document")) \o S("user")) \o X("projections"))
  BY WorkAhead, PartNext, StagesArePaths DEF X, PartLocks, Parts
<1>3. "generation" \in Parts /\ "projections" \in Parts /\ "chunks" \in Parts
  BY DEF Parts
<1> QED
  BY <1>1, <1>2, <1>3 DEF QueuePath

LEMMA PublicationsAreOrdered ==
  ASSUME NEW t \in Tasks,
         NEW name \in {"verify_work_access", "stage_chunks", "publish_chunks"}
  PROVE  IsPath(PublicationPath(name, t))
PROOF
<1>1. CASE name = "verify_work_access"
  <2>1. IsAhead(S("base"))
    BY EarlyPaths DEF IsEarly, IsAhead, Ahead
  <2>2. HasSome(S("base") \o S("document"))
    BY <2>1, DocumentNext DEF S, DocumentLocks
  <2> QED
    BY <1>1, <2>2, UserNext, StagesArePaths DEF PublicationPath
<1>2. CASE name = "stage_chunks"
  <2>1. IsLate((((S("base") \o Task(t)) \o X("document")) \o S("user")) \o X("generation"))
    BY WorkAhead, PartNext DEF X, PartLocks, Parts
  <2> QED
    BY <1>2, <2>1, StagesArePaths DEF PublicationPath
<1>3. CASE name = "publish_chunks"
  <2>1. "generation" \in Parts /\ "chunks" \in Parts /\ "projections" \in Parts
    BY DEF Parts
  <2>2. HasAll(((S("base") \o LockTasks) \o X("document")) \o S("user"))
    BY EarlyPaths, AllNext, UserNext
  <2>3. HasAll((((S("base") \o LockTasks) \o X("document")) \o S("user")) \o X("generation"))
    BY <2>1, <2>2, PartsNext
  <2>4. HasAll(((((S("base") \o LockTasks) \o X("document")) \o S("user")) \o X("generation"))
               \o X("chunks"))
    BY <2>1, <2>3, PartsNext
  <2>5. HasAll((((((S("base") \o LockTasks) \o X("document")) \o S("user")) \o X("generation"))
               \o X("chunks")) \o X("projections"))
    BY <2>1, <2>4, PartsNext
  <2> QED
    BY <1>3, <2>5, StagesArePaths DEF PublicationPath
<1> QED
  BY <1>1, <1>2, <1>3

LEMMA ToolsAreOrdered ==
  ASSUME NEW t \in Tasks, NEW name \in {"reindex", "backfill", "rebuild", "switch"}
  PROVE  IsPath(ToolPath(name, t))
PROOF
<1>1. HasSome(S("base") \o X("document"))
  <2>1. IsAhead(S("base"))
    BY EarlyPaths DEF IsEarly, IsAhead, Ahead
  <2> QED
    BY <2>1, DocumentNext DEF X, DocumentLocks
<1>2. CASE name = "reindex"
  <2>1. HasAll(((S("base") \o LockTasks) \o X("document")) \o S("user"))
    BY EarlyPaths, AllNext, UserNext
  <2> QED
    BY <1>2, <2>1, StagesArePaths DEF ToolPath
<1>3. CASE name = "backfill"
  <2>1. IsLate((S("base") \o X("document")) \o X("generation"))
    BY <1>1, PartNext DEF X, PartLocks, Parts
  <2> QED
    BY <1>3, <2>1, UserNext, StagesArePaths DEF ToolPath
<1>4. CASE name = "rebuild"
  BY <1>1, <1>4, UserNext, StagesArePaths DEF ToolPath
<1>5. CASE name = "switch"
  <2>1. IsLate((((S("base") \o Task(t)) \o X("document")) \o S("user")) \o X("projections"))
    BY WorkAhead, PartNext DEF X, PartLocks, Parts
  <2> QED
    BY <1>5, <2>1, StagesArePaths DEF ToolPath
<1> QED
  BY <1>2, <1>3, <1>4, <1>5

(* The base is locked twice, and the parts after the document.             *)
LEMMA StructuredIsOrdered == IsPath(StructuredPath)
PROOF
<1> DEFINE b == Shared("base")
           d == Shared("document")
           g == Shared("generation")
<1>1. /\ b \in Locks /\ d \in Locks /\ g \in Locks
      /\ ~ IsPart(b) /\ ~ IsPart(d) /\ IsPart(g)
      /\ Level(b) = 0 /\ Level(d) = LastTask + 2 /\ Level(g) = LastTask + 3
  BY LevelsOfLocks DEF Names, Parts
<1>2. /\ b # Exclusive("user") /\ d # Exclusive("user") /\ g # Exclusive("user")
      /\ ~ b.exclusive /\ d.row = <<"document", 0>>
  BY DEF Shared, Exclusive
<1>3. LastTask \in Nat
  BY TasksAreNumbered
<1>4. /\ S("base") = <<b>> /\ S("document") = <<d>> /\ S("generation") = <<g>>
      /\ b \in Early
  BY DEF S, Early
<1> HIDE DEF b, d, g
<1>5. <<b>> = << >> \o <<b>>
  <2>1. <<b>> \in Seq(Locks)
    BY <1>1
  <2> QED
    BY <2>1, ConcatEmptySeq
<1>6. Collects(<<b>>, {b})
  <2>1. MayFollow({}, b)
    BY <1>1, <1>2 DEF MayFollow
  <2>2. Collects(<< >> \o <<b>>, {} \cup {b})
    BY <1>1, <2>1, NothingCollected, OneMore
  <2> QED
    BY <1>5, <2>2
<1>7. Collects(<<b>> \o <<d>>, {b} \cup {d})
  <2>1. MayFollow({b}, d)
    BY <1>1, <1>2, <1>3 DEF MayFollow
  <2> QED
    BY <1>1, <1>6, <2>1, OneMore
<1>8. Collects((<<b>> \o <<d>>) \o <<b>>, ({b} \cup {d}) \cup {b})
  <2>1. MayFollow({b} \cup {d}, b)
    BY <1>1, <1>2 DEF MayFollow
  <2> QED
    BY <1>1, <1>7, <2>1, OneMore
<1>9. Collects(((<<b>> \o <<d>>) \o <<b>>) \o <<g>>, (({b} \cup {d}) \cup {b}) \cup {g})
  <2>1. MayFollow(({b} \cup {d}) \cup {b}, g)
    BY <1>1, <1>2, <1>3 DEF MayFollow
  <2> QED
    BY <1>1, <1>8, <2>1, OneMore
<1>10. ((<<b>> \o <<d>>) \o <<b>>) \o <<g>> # << >>
  OBVIOUS
<1> QED
  BY <1>4, <1>9, <1>10 DEF Collects, IsPath, StructuredPath

LEMMA PathsAreOrdered ==
  ASSUME NEW name \in OrderedTransactions, NEW t \in Tasks
  PROVE  IsPath(PathOf(name, t))
  BY RequestsAreOrdered, PermissionsAreOrdered, SignInIsOrdered, QueuesAreOrdered,
     PublicationsAreOrdered, ToolsAreOrdered, StructuredIsOrdered
     DEF PathOf, OrderedTransactions

-----------------------------------------------------------------------------
(* The invariant *)

LEMMA ConflictsBothWays == \A p, q : Conflicts(p, q) <=> Conflicts(q, p)
  BY DEF Conflicts

LEMMA LockInitHolds == LockInit => LockInv
PROOF
<1> SUFFICES ASSUME LockInit
             PROVE  LockInv
  OBVIOUS
<1>1. << >> \in Seq(Locks) /\ Len(<< >>) = 0 /\ IsOrdered(<< >>)
  BY NothingCollected DEF Collects, IsOrdered
<1>2. path \in [Clients -> Seq(Locks)] /\ held \in [Clients -> Nat]
  BY <1>1 DEF LockInit
<1>3. \A c \in Clients : path[c] = << >> /\ held[c] = 0
  BY DEF LockInit
<1> QED
  BY <1>1, <1>2, <1>3 DEF LockInv

LEMMA BeginKeepsInv ==
  ASSUME LockInv, NEW c \in Clients, NEW name \in OrderedTransactions, NEW t \in Tasks,
         Begin(c, name, t)
  PROVE  LockInv'
PROOF
<1> DEFINE locks == PathOf(name, t)
<1>1. locks \in Seq(Locks) /\ IsOrdered(locks) /\ locks # << >>
  BY PathsAreOrdered DEF IsPath, IsOrdered
<1>2. /\ \A d \in Clients : ~ Denies(d, locks[1])
      /\ path' = [path EXCEPT ![c] = locks] /\ held' = [held EXCEPT ![c] = 1]
  BY DEF Begin
<1> HIDE DEF locks
<1>3. Len(locks) \in Nat /\ 1 <= Len(locks)
  BY <1>1, EmptySeq, LenProperties
<1>4. path' \in [Clients -> Seq(Locks)] /\ held' \in [Clients -> Nat]
  BY <1>1, <1>2 DEF LockInv
<1>5. /\ path'[c] = locks /\ held'[c] = 1
      /\ \A d \in Clients : d # c => path'[d] = path[d] /\ held'[d] = held[d]
  BY <1>2 DEF LockInv
<1>6. \A d \in Clients :
        /\ IsOrdered(path'[d]) /\ held'[d] <= Len(path'[d])
        /\ path'[d] # << >> => held'[d] >= 1
  <2>1. IsOrdered(path'[c]) /\ held'[c] <= Len(path'[c]) /\ held'[c] >= 1
    BY <1>1, <1>3, <1>5
  <2>2. \A d \in Clients : d # c =>
          /\ IsOrdered(path'[d]) /\ held'[d] <= Len(path'[d])
          /\ path'[d] # << >> => held'[d] >= 1
    BY <1>5 DEF LockInv
  <2> QED
    BY <2>1, <2>2
<1>7. \A d \in Clients : d # c =>
        \A i \in 1..held'[c], j \in 1..held'[d] : /\ ~ Conflicts(path'[c][i], path'[d][j])
                                                 /\ ~ Conflicts(path'[d][j], path'[c][i])
  <2>1. \A d \in Clients : \A j \in 1..held[d] : ~ Conflicts(path[d][j], locks[1])
    BY <1>2 DEF Denies
  <2>2. \A i \in 1..held'[c] : i = 1
    BY <1>5
  <2> QED
    BY <1>5, <2>1, <2>2, ConflictsBothWays
<1>8. \A d, e \in Clients : d # e =>
        \A i \in 1..held'[d], j \in 1..held'[e] : ~ Conflicts(path'[d][i], path'[e][j])
  <2>1. \A d, e \in Clients : d # e =>
          \A i \in 1..held[d], j \in 1..held[e] : ~ Conflicts(path[d][i], path[e][j])
    BY DEF LockInv
  <2> QED
    BY <1>5, <1>7, <2>1
<1> QED
  BY <1>4, <1>6, <1>8 DEF LockInv

LEMMA AcquireKeepsInv ==
  ASSUME LockInv, NEW c \in Clients, Acquire(c)
  PROVE  LockInv'
PROOF
<1>1. /\ held[c] \in Nat /\ held[c] < Len(path[c]) /\ path' = path
      /\ held' = [held EXCEPT ![c] = held[c] + 1]
  BY DEF LockInv, Acquire, Waits
<1>2. Len(path[c]) \in Nat
  BY LenProperties DEF LockInv
<1>3. held' \in [Clients -> Nat]
  BY <1>1 DEF LockInv
<1>4. /\ held'[c] = held[c] + 1
      /\ \A d \in Clients : d # c => held'[d] = held[d]
  BY <1>1 DEF LockInv
<1>5. \A d \in Clients :
        /\ IsOrdered(path'[d]) /\ held'[d] <= Len(path'[d])
        /\ path'[d] # << >> => held'[d] >= 1
  BY <1>1, <1>2, <1>4 DEF LockInv
<1>6. \A d, e \in Clients : d # e =>
        \A i \in 1..held[d], j \in 1..held[e] : ~ Conflicts(path[d][i], path[e][j])
  BY DEF LockInv
<1>7. \A d \in Clients : d # c =>
        \A i \in 1..held'[c], j \in 1..held'[d] : /\ ~ Conflicts(path'[c][i], path'[d][j])
                                                 /\ ~ Conflicts(path'[d][j], path'[c][i])
  <2>1. \A d \in Clients : d # c =>
          \A j \in 1..held[d] : ~ Conflicts(path[d][j], path[c][held[c] + 1])
    BY <1>1 DEF Acquire, Blocks, Denies, Wanted
  <2>2. \A i \in 1..held'[c] : i \in 1..held[c] \/ i = held[c] + 1
    BY <1>1, <1>4
  <2> QED
    BY <1>1, <1>4, <1>6, <2>1, <2>2, ConflictsBothWays
<1>8. \A d, e \in Clients : d # e =>
        \A i \in 1..held'[d], j \in 1..held'[e] : ~ Conflicts(path'[d][i], path'[e][j])
  BY <1>1, <1>4, <1>6, <1>7
<1> QED
  BY <1>1, <1>3, <1>5, <1>8 DEF LockInv

LEMMA EndKeepsInv ==
  ASSUME LockInv, NEW c \in Clients, End(c)
  PROVE  LockInv'
PROOF
<1>1. path' = [path EXCEPT ![c] = << >>] /\ held' = [held EXCEPT ![c] = 0]
  BY DEF End
<1>2. << >> \in Seq(Locks) /\ Len(<< >>) = 0 /\ IsOrdered(<< >>)
  BY NothingCollected DEF Collects, IsOrdered
<1>3. path' \in [Clients -> Seq(Locks)] /\ held' \in [Clients -> Nat]
  BY <1>1, <1>2 DEF LockInv
<1>4. /\ path'[c] = << >> /\ held'[c] = 0
      /\ \A d \in Clients : d # c => path'[d] = path[d] /\ held'[d] = held[d]
  BY <1>1 DEF LockInv
<1>5. \A d \in Clients :
        /\ IsOrdered(path'[d]) /\ held'[d] <= Len(path'[d])
        /\ path'[d] # << >> => held'[d] >= 1
  BY <1>2, <1>4 DEF LockInv
<1>6. \A d, e \in Clients : d # e =>
        \A i \in 1..held'[d], j \in 1..held'[e] : ~ Conflicts(path'[d][i], path'[e][j])
  <2>1. \A d, e \in Clients : d # e =>
          \A i \in 1..held[d], j \in 1..held[e] : ~ Conflicts(path[d][i], path[e][j])
    BY DEF LockInv
  <2> QED
    BY <1>4, <2>1
<1> QED
  BY <1>3, <1>5, <1>6 DEF LockInv

(* Who waits has a lock, and what it waits for may follow what it has.     *)
LEMMA WaitersFollow ==
  ASSUME LockInv, NEW c \in Clients, Waits(c)
  PROVE  /\ Wanted(c) \in Locks /\ MayFollow(FirstOf(path[c], held[c]), Wanted(c))
         /\ FirstOf(path[c], held[c]) \subseteq Locks /\ FirstOf(path[c], held[c]) # {}
PROOF
<1>1. /\ path[c] \in Seq(Locks) /\ held[c] \in Nat /\ held[c] < Len(path[c])
      /\ IsOrdered(path[c]) /\ (path[c] # << >> => held[c] >= 1)
  BY DEF LockInv, Waits
<1>2. Len(path[c]) \in Nat /\ \A i \in 1..Len(path[c]) : path[c][i] \in Locks
  BY <1>1, LenProperties, ElementOfSeq
<1>3. path[c] # << >>
  BY <1>1, <1>2, EmptySeq
<1>4. held[c] + 1 \in 1..Len(path[c]) /\ (held[c] + 1) - 1 = held[c]
  BY <1>1, <1>2
<1>5. MayFollow(FirstOf(path[c], held[c]), Wanted(c))
  BY <1>1, <1>4 DEF IsOrdered, Wanted
<1>6. path[c][1] \in FirstOf(path[c], held[c])
  BY <1>1, <1>3 DEF FirstOf
<1> QED
  BY <1>1, <1>2, <1>4, <1>5, <1>6 DEF FirstOf, Wanted

(* Who stands in the way of c and waits itself waits for a later lock.     *)
LEMMA BlockersAreAhead ==
  ASSUME LockInv, NEW c \in Clients, NEW d \in Clients, NEW e \in Clients,
         Blocks(d, c), Blocks(e, d)
  PROVE  Level(Wanted(c)) < Level(Wanted(d))
PROOF
<1> DEFINE R == FirstOf(path[d], held[d])
           Q == FirstOf(path[c], held[c])
           v == Wanted(c)
           w == Wanted(d)
<1>1. Waits(c) /\ Waits(d) /\ d # c /\ e # d
  BY DEF Blocks
<1>2. /\ v \in Locks /\ MayFollow(Q, v) /\ Q \subseteq Locks /\ Q # {}
      /\ w \in Locks /\ MayFollow(R, w) /\ R \subseteq Locks
  BY <1>1, WaitersFollow
<1>3. \A p \in R, q \in Q : ~ Conflicts(p, q)
  BY <1>1 DEF LockInv, FirstOf
<1>4. PICK a \in R : Conflicts(a, v)
  BY DEF Blocks, Denies, FirstOf
<1>5. \A p \in R : ~ (p.row = w.row /\ ~ w.exclusive)
  <2>1. PICK j \in 1..held[e] : Conflicts(path[e][j], w)
    BY DEF Blocks, Denies
  <2>2. \A p \in R : ~ Conflicts(p, path[e][j])
    BY <1>1 DEF LockInv, FirstOf
  <2> HIDE DEF R, w
  <2> QED
    BY <2>1, <2>2 DEF Conflicts
<1> HIDE DEF R, Q, v, w
<1>6. Level(a) = Level(v) /\ (IsPart(a) <=> IsPart(v))
  BY <1>2, <1>4, ConflictsAreLevel
<1>7. a # Shared("user")
  <2> SUFFICES ASSUME a = Shared("user")
               PROVE  FALSE
    OBVIOUS
  <2>1. v.row = <<"user", 0>> /\ v.exclusive
    BY <1>4 DEF Conflicts, Shared
  <2>2. v = Exclusive("user")
    <3>1. v \notin TaskLocks
      BY <2>1 DEF TaskLocks, TaskLock
    <3>2. PICK name \in Names : v = Shared(name) \/ v = Exclusive(name)
      BY <1>2, <3>1 DEF Locks
    <3> QED
      BY <2>1, <3>2 DEF Shared, Exclusive
  <2> QED
    BY <1>2, <2>2 DEF MayFollow
<1>8. CASE Level(a) < Level(w)
  BY <1>6, <1>8 DEF v, w
<1>9. CASE IsPart(a) /\ IsPart(w)
  <2>1. TaskLocks \cup {Exclusive("document")} \subseteq R
    BY <1>2, <1>9 DEF MayFollow
  <2>2. PICK q \in Q : q \in TaskLocks \/ q.row = <<"document", 0>>
    BY <1>2, <1>6, <1>9 DEF MayFollow
  <2>3. CASE q \in TaskLocks
    <3>1. Conflicts(q, q)
      BY <2>3 DEF Conflicts, TaskLocks, TaskLock
    <3> QED
      BY <1>3, <2>1, <2>3, <3>1
  <2>4. CASE q.row = <<"document", 0>>
    <3>1. Conflicts(Exclusive("document"), q)
      BY <2>4 DEF Conflicts, Exclusive
    <3> QED
      BY <1>3, <2>1, <3>1
  <2> QED
    BY <2>2, <2>3, <2>4
<1> QED
  BY <1>2, <1>5, <1>7, <1>8, <1>9 DEF MayFollow

LEMMA InvariantForbidsCircles == LockInv => NobodyWaitsInCircles
PROOF
<1> SUFFICES ASSUME LockInv, NEW D \in (SUBSET Clients) \ {{}},
                    ~ \E c \in D : \A d \in D : ~ Blocks(d, c)
             PROVE  FALSE
  BY Zenon DEF NobodyWaitsInCircles
<1> D # {} /\ D \subseteq Clients /\ \A c \in D : \E d \in D : Blocks(d, c)
  OBVIOUS
<1> DEFINE T == {Level(Wanted(c)) : c \in D}
<1>1. LastTask + 5 \in Nat
  BY TasksAreNumbered
<1>2. T \in SUBSET (0..(LastTask + 5)) /\ T # {}
  <2>1. \A c \in D : Wanted(c) \in Locks
    BY WaitersFollow DEF Blocks
  <2> QED
    BY <2>1, LevelsAreBounded
<1>3. PICK x \in T : \A y \in T : y <= x
  BY <1>1, <1>2, Greatest
<1>4. PICK c \in D : x = Level(Wanted(c))
  OBVIOUS
<1>5. PICK d \in D : Blocks(d, c)
  OBVIOUS
<1>6. PICK e \in D : Blocks(e, d)
  OBVIOUS
<1>7. Level(Wanted(c)) < Level(Wanted(d))
  BY <1>5, <1>6, BlockersAreAhead
<1>8. Level(Wanted(d)) <= Level(Wanted(c))
  BY <1>3, <1>4
<1>9. Level(Wanted(c)) \in Nat /\ Level(Wanted(d)) \in Nat
  BY <1>1, <1>2
<1> QED
  BY <1>7, <1>8, <1>9

(* Without the transactions that show chat answers, what connections hold  *)
(* is compatible, every path keeps the order of locks, and who waits has a *)
(* lock already.                                                           *)
THEOREM LocksInductive ==
  ASSUME Transactions \subseteq OrderedTransactions
  PROVE  LockSpec => []LockInv
PROOF
<1>1. LockInit => LockInv
  BY LockInitHolds
<1>2. LockInv /\ [LockNext]_lockVars => LockInv'
  <2> SUFFICES ASSUME LockInv, [LockNext]_lockVars
               PROVE  LockInv'
    OBVIOUS
  <2>1. CASE UNCHANGED lockVars
    BY <2>1 DEF lockVars, LockInv
  <2>2. CASE LockNext
    <3>1. PICK c \in Clients :
            \/ \E name \in Transactions, t \in Tasks : Begin(c, name, t)
            \/ Acquire(c)
            \/ End(c)
      BY <2>2 DEF LockNext
    <3> QED
      BY <3>1, BeginKeepsInv, AcquireKeepsInv, EndKeepsInv
  <2> QED
    BY <2>1, <2>2
<1> QED
  BY <1>1, <1>2, PTL DEF LockSpec

(* The uploads, deletions, permission changes, workers and tools that meet *)
(* on a document, its tasks and its people never wait for each other in a  *)
(* circle, however many run: PostgreSQL aborts none of them as a deadlock. *)
(* It is the answers of the chat that break the order.                     *)
THEOREM LockOrderHolds ==
  ASSUME Transactions \subseteq OrderedTransactions
  PROVE  LockSpec => []NobodyWaitsInCircles
PROOF
<1>1. LockInv => NobodyWaitsInCircles
  BY InvariantForbidsCircles
<1> QED
  BY <1>1, LocksInductive, PTL

=============================================================================
