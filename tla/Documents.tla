------------------------------ MODULE Documents ------------------------------
(***************************************************************************)
(* Documents (DocumentsService, and createDocument of ProjectsService):    *)
(* rows in the database and objects in the store, written one after the    *)
(* other without anything that spans both.                                 *)
(*                                                                         *)
(* With an upload intent the row comes first and the client sends the      *)
(* object itself, at a signed URL; nothing tells the service that it came. *)
(* With upload the API sends the object and then writes the row.           *)
(***************************************************************************)
CONSTANT Document       \* ids of documents; each call draws one of its own

VARIABLES
    document,       \* status of each document row
    stored,         \* documents whose object is in the store
    uploading       \* documents whose upload has put the object, and not written the row

vars == <<document, stored, uploading>>

Unused(d) == document[d] = "ABSENT" /\ d \notin stored

CreateUploadIntent(d) ==
    /\ Unused(d)
    /\ document' = [document EXCEPT ![d] = "PENDING_UPLOAD"]
    /\ UNCHANGED <<stored, uploading>>

SendDocument(d) ==
    /\ document[d] = "PENDING_UPLOAD"
    /\ stored' = stored \cup {d}
    /\ UNCHANGED <<document, uploading>>

\* upload: the object first, then its row.
PutObject(d) ==
    /\ Unused(d)
    /\ stored' = stored \cup {d}
    /\ uploading' = uploading \cup {d}
    /\ UNCHANGED document
CreateRow(d) ==
    /\ d \in uploading
    /\ document' = [document EXCEPT ![d] = "READY"]
    /\ uploading' = uploading \ {d}
    /\ UNCHANGED stored

\* The API stops, or the database refuses: the store keeps an object no row names.
UploadFails(d) ==
    /\ d \in uploading
    /\ uploading' = uploading \ {d}
    /\ UNCHANGED <<document, stored>>

\* softDelete keeps the object.
SoftDelete(d) ==
    /\ document[d] \notin {"ABSENT", "DELETED"}
    /\ document' = [document EXCEPT ![d] = "DELETED"]
    /\ UNCHANGED <<stored, uploading>>

Init ==
    /\ document = [d \in Document |-> "ABSENT"]
    /\ stored = {}
    /\ uploading = {}

Next ==
    \E d \in Document :
        \/ CreateUploadIntent(d) \/ SendDocument(d)
        \/ PutObject(d) \/ CreateRow(d) \/ UploadFails(d)
        \/ SoftDelete(d)

Spec == Init /\ [][Next]_vars

(***************************************************************************)
(* Properties.                                                             *)
(***************************************************************************)

TypeOK ==
    /\ document \in [Document -> {"ABSENT", "PENDING_UPLOAD", "READY", "DELETED"}]
    /\ stored \subseteq Document /\ uploading \subseteq Document

\* A document that is shown as ready has its object, wherever an upload is cut off between
\* the store and the database (documents.module.ts:124-142).  (How long the signed link
\* itself is good for is left out.)
ReadyHasObject == \A d \in Document : document[d] = "READY" => d \in stored

=============================================================================
