---------------------------- MODULE DatasetFolders ----------------------------
(***************************************************************************)
(* One dataset, its tree of virtual folders, the documents filed in it and *)
(* its structured assets, as the requests of src/app/api/datasets.py,      *)
(* documents.py and structured_data.py change them. A request is one       *)
(* transaction at REPEATABLE READ: its read view opens when it is          *)
(* authenticated, a SELECT ... FOR UPDATE and an UPDATE read what is       *)
(* committed and lock it until the transaction ends, and a plain SELECT    *)
(* reads the view.                                                         *)
(*                                                                         *)
(* Writes appear at the commit, which is sound as every row a transaction  *)
(* writes is locked by then.  A transaction that waits may be rolled back: *)
(* InnoDB ends deadlocks and waits that last too long.  Names, metadata    *)
(* and model bindings are left out; so is what happens to a document       *)
(* besides being filed.                                                    *)
(***************************************************************************)
EXTENDS Integers, FiniteSets

CONSTANTS Folders,      \* document_folder rows
          Documents,    \* document rows of the dataset
          Assets,       \* structured_asset rows of the dataset
          Requests,     \* concurrent requests
          Dataset,      \* the dataset row
          Root,         \* parent_id or folder_id NULL
          Absent,       \* stands for a row that is not there
          NoRequest     \* an idle connection

\* NULL is no row, a row that is not there is neither, and no row is of both tables.
ASSUME RowsAssumption ==
    /\ Root \notin Folders /\ Absent \notin Folders \cup Documents \cup {Root}
    /\ Folders \cap Documents = {} /\ Assets \cap Documents = {}

VARIABLES dataset,      \* whether the dataset exists
          parent,       \* parent_id of each folder
          filed,        \* folder_id of each document
          assets,       \* the structured assets
          tx,           \* the transaction of each request
          missed        \* ghost: rows a deletion of the dataset overlooked

folderVars == <<dataset, parent, filed, assets, tx, missed>>

Rows == {Dataset} \cup Folders \cup Documents

Operation == {"CREATE", "MOVE", "DELETE_FOLDER", "UPLOAD", "FILE", "IMPORT", "DELETE_DATASET"}

\* What the request is about, how far it is, the rows it has locked and, for the
\* deletion of the dataset, the documents and structured assets of its read view.
Transaction ==
    [op : Operation, folder : Folders \cup {Root}, to : Folders \cup {Root},
     doc : Documents \cup Assets \cup {Absent},
     at : {"BEGUN", "HOLDS", "CHECKED"},
     locks : SUBSET Rows, view : SUBSET (Documents \cup Assets)]

ASSUME NoRequestAssumption == NoRequest \notin Transaction

FolderInit ==
    /\ dataset = TRUE
    /\ parent = [f \in Folders |-> Absent]
    /\ filed = [d \in Documents |-> Absent]
    /\ tx = [q \in Requests |-> NoRequest]
    /\ assets = {} /\ missed = {}

Folder == {f \in Folders : parent[f] # Absent}

Filed == {d \in Documents : filed[d] # Absent}

Free(q, rows) ==
    \A p \in Requests \ {q} : tx[p] # NoRequest => tx[p].locks \cap rows = {}

At(q, op, at) == tx[q] # NoRequest /\ tx[q].op = op /\ tx[q].at = at

\* The transaction waits for these rows, locks them and goes on.
Lock(q, rows, next) ==
    /\ Free(q, rows)
    /\ tx' = [tx EXCEPT ![q].locks = @ \cup rows, ![q].at = next]

End(q) == tx' = [tx EXCEPT ![q] = NoRequest]

-----------------------------------------------------------------------------
(* The request is authenticated; what its handler reads without a lock. *)

Begin(q, op, f, to, d) ==
    /\ tx[q] = NoRequest /\ dataset
    /\ tx' = [tx EXCEPT ![q] =
                [op |-> op, folder |-> f, to |-> to, doc |-> d, at |-> "BEGUN", locks |-> {},
                 view |-> IF op = "DELETE_DATASET" THEN Filed \cup assets ELSE {}]]
    /\ UNCHANGED <<dataset, parent, filed, assets, missed>>

BeginCreate(q) ==
    \E f \in Folders \ Folder, to \in Folder \cup {Root} : Begin(q, "CREATE", f, to, Absent)

BeginMove(q) ==
    \E f \in Folder, to \in Folder \cup {Root} : Begin(q, "MOVE", f, to, Absent)

BeginDeleteFolder(q) == \E f \in Folder : Begin(q, "DELETE_FOLDER", f, Root, Absent)

\* upload_and_queue_document checks dataset and folder before it takes the file.
BeginUpload(q) ==
    \E d \in Documents \ Filed, to \in Folder \cup {Root} : Begin(q, "UPLOAD", Root, to, d)

BeginFile(q) ==
    \E d \in Filed, to \in Folder \cup {Root} : Begin(q, "FILE", Root, to, d)

\* upload_structured_asset checks the dataset once, before it takes the file.
BeginAssetUpload(q) == \E a \in Assets : Begin(q, "IMPORT", Root, Root, a)

BeginDeleteDataset(q) == Begin(q, "DELETE_DATASET", Root, Root, Absent)

-----------------------------------------------------------------------------
(* _validate_folder_parent *)

\* Where walks towards the root may pass, and sets of them no walk leaves.
Places == Folders \cup {Root, Absent}

Closed(S) == \A f \in S \cap Folders : parent[f] \in S

\* Where the walk leads from a folder.
Above(f) ==
    {p \in Places : \A S \in SUBSET Places : f \in S /\ Closed(S) => p \in S}

ValidParent(f, to) ==
    /\ to \in Folder /\ to # f
    /\ f \notin Above(to) /\ Root \in Above(to)

\* Bug: reads the tree without locking it.
ScanUnlocked(q, op, from) ==
    LET t == tx[q] IN
    /\ At(q, op, from)
    /\ ValidParent(t.folder, t.to)
    /\ tx' = [tx EXCEPT ![q].at = "CHECKED"]
    /\ UNCHANGED <<dataset, parent, filed, assets, missed>>

\* Every folder of the dataset is locked, and the answer is still no or yes.
Scan(q, op, from) ==
    LET t == tx[q] IN
    /\ At(q, op, from)
    /\ t.to # Root
    /\ Free(q, Folder)
    /\ IF ValidParent(t.folder, t.to) THEN Lock(q, Folder, "CHECKED") ELSE End(q)
    /\ UNCHANGED <<dataset, parent, filed, assets, missed>>

-----------------------------------------------------------------------------
(* create_document_folder; it never locks the dataset. *)

CreateScan(q) == Scan(q, "CREATE", "BEGUN")

CreateCommit(q) ==
    LET t == tx[q] IN
    /\ At(q, "CREATE", IF t.to = Root THEN "BEGUN" ELSE "CHECKED")
    /\ parent[t.folder] = Absent
    /\ Free(q, {t.folder})
    /\ parent' = [parent EXCEPT ![t.folder] = t.to]
    /\ missed' = IF dataset THEN missed ELSE missed \cup {t.folder}
    /\ End(q)
    /\ UNCHANGED <<dataset, filed, assets>>

\* The name was taken in the meantime.
CreateConflicts(q) ==
    /\ \E at \in {"BEGUN", "CHECKED"} : At(q, "CREATE", at)
    /\ parent[tx[q].folder] # Absent
    /\ End(q)
    /\ UNCHANGED <<dataset, parent, filed, assets, missed>>

-----------------------------------------------------------------------------
(* update_document_folder with a parent_id, and delete_document_folder *)

\* _owned_folder(for_update=True), or 404.
HoldFolder(q, op) ==
    LET f == tx[q].folder IN
    /\ At(q, op, "BEGUN")
    /\ IF f \in Folder THEN Lock(q, {f}, "HOLDS") ELSE End(q)
    /\ UNCHANGED <<dataset, parent, filed, assets, missed>>

MoveHold(q) == HoldFolder(q, "MOVE")

MoveScan(q) == Scan(q, "MOVE", "HOLDS")

MoveCommit(q) ==
    LET t == tx[q] IN
    /\ At(q, "MOVE", IF t.to = Root THEN "HOLDS" ELSE "CHECKED")
    /\ parent' = [parent EXCEPT ![t.folder] = t.to]
    /\ End(q)
    /\ UNCHANGED <<dataset, filed, assets, missed>>

DeleteHold(q) == HoldFolder(q, "DELETE_FOLDER")

\* The UPDATE of the documents locks them all.
DeleteDocuments(q) ==
    /\ At(q, "DELETE_FOLDER", "HOLDS")
    /\ Lock(q, {d \in Documents : filed[d] = tx[q].folder}, "CHECKED")
    /\ UNCHANGED <<dataset, parent, filed, assets, missed>>

\* The documents of this folder are listed and locked: none can be added, as
\* the index range is locked with them.
Listed(q, f) ==
    \E p \in Requests \ {q} : At(p, "DELETE_FOLDER", "CHECKED") /\ tx[p].folder = f

\* The UPDATE of the subfolders waits for them; then the folder goes.
DeleteCommit(q) ==
    LET f == tx[q].folder
        children == {g \in Folders : parent[g] = f}
        documents == {d \in Documents : filed[d] = f}
    IN  /\ At(q, "DELETE_FOLDER", "CHECKED")
        /\ Free(q, children)
        /\ documents # {} => ~Listed(q, parent[f])
        /\ parent' = [g \in Folders |-> CASE g = f -> Absent
                                          [] g \in children -> parent[f]
                                          [] OTHER -> parent[g]]
        /\ filed' = [d \in Documents |-> IF d \in documents THEN parent[f] ELSE filed[d]]
        /\ End(q)
        /\ UNCHANGED <<dataset, assets, missed>>

-----------------------------------------------------------------------------
(* queue_document_from_path once the file is stored, and update_document *)

\* Bug: trusts the check made before the file was stored.
UploadHoldUnchecked(q) ==
    /\ At(q, "UPLOAD", "BEGUN")
    /\ tx' = [tx EXCEPT ![q].at = "HOLDS"]
    /\ UNCHANGED <<dataset, parent, filed, assets, missed>>

\* The dataset is looked up again, under a lock.
UploadHold(q) ==
    /\ At(q, "UPLOAD", "BEGUN")
    /\ IF dataset THEN Lock(q, {Dataset}, "HOLDS") ELSE End(q)
    /\ UNCHANGED <<dataset, parent, filed, assets, missed>>

\* The document is locked, or gone.
FileHold(q) ==
    LET d == tx[q].doc IN
    /\ At(q, "FILE", "BEGUN")
    /\ IF d \in Filed THEN Lock(q, {d}, "HOLDS") ELSE End(q)
    /\ UNCHANGED <<dataset, parent, filed, assets, missed>>

Placing(q) == At(q, "UPLOAD", "HOLDS") \/ At(q, "FILE", "HOLDS")

\* The document's name was taken in the meantime.
UploadConflicts(q) ==
    /\ At(q, "UPLOAD", "HOLDS") /\ tx[q].doc \in Filed
    /\ End(q)
    /\ UNCHANGED <<dataset, parent, filed, assets, missed>>

\* Bug: the folder the client named is not looked up under a lock.
PlaceUnchecked(q) ==
    LET t == tx[q] IN
    /\ Placing(q) /\ Free(q, {t.doc})
    /\ t.op = "UPLOAD" => t.doc \notin Filed
    /\ filed' = [filed EXCEPT ![t.doc] = t.to]
    /\ End(q)
    /\ UNCHANGED <<dataset, parent, assets, missed>>

\* Both then lock the folder, or answer 404, and write the document.
Place(q) ==
    LET t == tx[q] IN
    /\ Placing(q) /\ Free(q, {t.to, t.doc})
    /\ t.op = "UPLOAD" => t.doc \notin Filed
    /\ filed' = IF t.to \in Folder \cup {Root}
                THEN [filed EXCEPT ![t.doc] = t.to] ELSE filed
    /\ End(q)
    /\ UNCHANGED <<dataset, parent, assets, missed>>

\* A document is deleted, whatever its folder (DocumentQueue).
Discard(d) ==
    /\ d \in Filed
    /\ \A q \in Requests : Free(q, {d}) /\ (tx[q] # NoRequest => d \notin tx[q].locks)
    /\ filed' = [filed EXCEPT ![d] = Absent]
    /\ missed' = missed \ {d}
    /\ UNCHANGED <<dataset, parent, assets, tx>>

-----------------------------------------------------------------------------
(* StructuredAssetPublisher.publish, as far as the dataset goes: its commit adds *)
(* the asset, or a version to it (StructuredImport), and looks at no dataset.    *)

AssetUploadCommit(q) ==
    /\ At(q, "IMPORT", "BEGUN")
    /\ assets' = assets \cup {tx[q].doc}
    /\ End(q)
    /\ UNCHANGED <<dataset, parent, filed, missed>>

-----------------------------------------------------------------------------
(* delete_dataset *)

DeleteDatasetHold(q) ==
    /\ At(q, "DELETE_DATASET", "BEGUN")
    /\ IF dataset THEN Lock(q, {Dataset}, "HOLDS") ELSE End(q)
    /\ UNCHANGED <<dataset, parent, filed, assets, missed>>

\* 409 if the read view holds a document: one that came later is not seen, and
\* no structured asset is looked for.
DeleteDatasetRefused(q) ==
    /\ At(q, "DELETE_DATASET", "HOLDS")
    /\ tx[q].view \cap Documents # {}
    /\ End(q)
    /\ UNCHANGED <<dataset, parent, filed, assets, missed>>

\* The folders and the dataset go, the structured assets stay.
DeleteDataset(q) ==
    /\ At(q, "DELETE_DATASET", "HOLDS")
    /\ Free(q, Folder)
    /\ dataset' = FALSE
    /\ parent' = [f \in Folders |-> Absent]
    /\ missed' = missed \cup (Filed \ tx[q].view)
    /\ End(q)
    /\ UNCHANGED <<filed, assets>>

\* Bug: deletes the dataset with the documents it has.
DeleteDatasetAnyway(q) == DeleteDataset(q)

DeleteDatasetCommit(q) ==
    /\ At(q, "DELETE_DATASET", "HOLDS")
    /\ tx[q].view \cap Documents = {}
    /\ DeleteDataset(q)

\* A deadlock, a wait that takes too long, an error, a client that hangs up.
RollBack(q) ==
    /\ tx[q] # NoRequest
    /\ End(q)
    /\ UNCHANGED <<dataset, parent, filed, assets, missed>>

FolderRequest(q) ==
    \/ BeginCreate(q) \/ CreateScan(q) \/ CreateCommit(q) \/ CreateConflicts(q)
    \/ BeginMove(q) \/ MoveHold(q) \/ MoveScan(q) \/ MoveCommit(q)
    \/ BeginDeleteFolder(q) \/ DeleteHold(q) \/ DeleteDocuments(q) \/ DeleteCommit(q)
    \/ BeginUpload(q) \/ UploadHold(q) \/ UploadConflicts(q)
    \/ BeginFile(q) \/ FileHold(q) \/ Place(q)
    \/ BeginAssetUpload(q) \/ AssetUploadCommit(q)
    \/ BeginDeleteDataset(q) \/ DeleteDatasetHold(q) \/ DeleteDatasetRefused(q)
    \/ DeleteDatasetCommit(q)
    \/ RollBack(q)

FolderNext ==
    \/ \E q \in Requests : FolderRequest(q)
    \/ \E d \in Documents : Discard(d)

FolderSpec == FolderInit /\ [][FolderNext]_folderVars

-----------------------------------------------------------------------------
(* Properties *)

\* However moves, creations and deletions overlap, every folder hangs from the
\* root: the tree has no cycle and no folder below one that is gone
\* (_validate_folder_parent: "校验父文件夹归属并防止形成循环层级").
FoldersRooted == \A f \in Folder : Root \in Above(f)

\* A document is never filed in a folder that is gone: deleting a folder takes
\* the uploads and moves into it along, whichever commits first.  Only a
\* document the deletion of its dataset overlooked can be.
FiledWhereItExists == \A d \in Filed \ missed : filed[d] \in Folder \cup {Root}

\* No document or folder outlives its dataset except what the deletion cannot
\* see: a document inserted after its read view opened (comment in
\* queue_document_from_path: "使删除与插入串行"), and a folder whose creation had
\* checked the dataset before.  Its structured assets do outlive it: the
\* deletion does not look for them.
NoOrphanedFiling == ~dataset => Folder \cup Filed \subseteq missed
=============================================================================
