--------------------------- MODULE StructuredImport ---------------------------
(***************************************************************************)
(* StructuredAssetPublisher (src/app/services/structured_assets.py): XLSX  *)
(* workbooks become immutable versions of one structured asset, and the    *)
(* asset points to the version queries read.  An import is one transaction *)
(* at REPEATABLE READ, opened before the workbook is parsed, that stores   *)
(* objects on its way.                                                     *)
(*                                                                         *)
(* A workbook is its content hash.  Its raw object is stored under the id  *)
(* of the asset and that hash, a key every attempt at the same workbook    *)
(* shares; its tables are stored under the id of the version, which only   *)
(* one attempt has.  What an attempt that failed removes, it removes after *)
(* its rollback, when it locks nothing any more.                           *)
(***************************************************************************)
EXTENDS Integers, FiniteSets

CONSTANTS Imports,      \* concurrent uploads
          Workbooks,    \* contents
          Years,        \* their edition years; 0 is none
          Unparsed,     \* workbooks of a template that is only registered
          NoWorkbook,   \* current_version_id NULL
          NoImport,     \* an idle connection
          MaxMishaps    \* bound: failed uploads, crashes and lost commits

ASSUME ImportAssumption ==
    Years \in [Workbooks -> Nat] /\ Unparsed \subseteq Workbooks /\ MaxMishaps \in Nat

VARIABLES asset,        \* whether the structured_asset row exists
          current,      \* current_version_id
          versions,     \* workbooks with a committed version
          raw,          \* workbooks whose raw object is stored for the asset
          tables,       \* versions whose tables are all stored
          import,       \* the transaction of each upload
          mishaps,      \* mishaps so far
          blind,        \* ghost: a promotion did not see the current version
          torn,         \* ghost: workbooks whose commit lost its answer
          stripped      \* ghost: raw objects removed under another attempt

\* The objects in the store.
objects == <<raw, tables, stripped>>

importVars == <<asset, current, versions, objects, import, mishaps, blind, torn>>

\* FAILED: the import is rolled back and removes what it stored.  LOST: it does
\* so as well, but is committed.
Stage == {"BEGUN", "GAP", "HOLDS", "FLUSHED", "FAILED", "LOST"}

\* seen: the versions of its read view.  stored: how many of its two kinds of
\* objects, the workbook and then its tables, are in "uploaded".
Transfer ==
    [book : Workbooks, at : Stage, seen : SUBSET Workbooks, stored : 0..2]

ASSUME NoImportAssumption == NoWorkbook \notin Workbooks /\ NoImport \notin Transfer

ImportInit ==
    /\ asset = FALSE /\ current = NoWorkbook
    /\ versions = {} /\ raw = {} /\ tables = {} /\ stripped = {} /\ torn = {}
    /\ import = [i \in Imports |-> NoImport]
    /\ mishaps = 0 /\ blind = FALSE

Step(i, at) == import[i] # NoImport /\ import[i].at = at

Mishap == mishaps < MaxMishaps /\ mishaps' = mishaps + 1

Advance(i, at) == import' = [import EXCEPT ![i].at = at]

EndImport(i) == import' = [import EXCEPT ![i] = NoImport]

\* A lock on the asset row, or an uncommitted row.
Locked(i) == \E j \in Imports \ {i} : Step(j, "HOLDS") \/ Step(j, "FLUSHED")

\* upload_structured_asset: the read view opens, then the workbook is parsed.
BeginImport(i) ==
    /\ import[i] = NoImport
    /\ \E b \in Workbooks :
          import' = [import EXCEPT ![i] =
                       [book |-> b, at |-> "BEGUN", seen |-> versions, stored |-> 0]]
    /\ UNCHANGED <<asset, current, versions, objects, mishaps, blind, torn>>

\* The asset is read FOR UPDATE.  Where there is none, only a gap is locked,
\* which another import may lock as well.
LockAsset(i) ==
    /\ Step(i, "BEGUN")
    /\ ~Locked(i)
    /\ Advance(i, IF asset THEN "HOLDS" ELSE "GAP")
    /\ UNCHANGED <<asset, current, versions, objects, mishaps, blind, torn>>

\* The new asset is flushed, which the gap lock of another import prevents.
CreateAsset(i) ==
    /\ Step(i, "GAP")
    /\ ~Locked(i) /\ \A j \in Imports \ {i} : ~Step(j, "GAP")
    /\ Advance(i, "HOLDS")
    /\ UNCHANGED <<asset, current, versions, objects, mishaps, blind, torn>>

\* The content is known: only the file name is added.
Duplicate(i) ==
    /\ Step(i, "HOLDS")
    /\ import[i].book \in import[i].seen
    /\ EndImport(i)
    /\ UNCHANGED <<asset, current, versions, objects, mishaps, blind, torn>>

\* The version is flushed; the unique key knows contents the view does not.
FlushVersion(i) ==
    LET t == import[i] IN
    /\ Step(i, "HOLDS")
    /\ t.book \notin t.seen
    /\ IF t.book \in versions THEN EndImport(i) ELSE Advance(i, "FLUSHED")
    /\ UNCHANGED <<asset, current, versions, objects, mishaps, blind, torn>>

\* The workbook is stored first, then its tables.
StoreObjects(i) ==
    LET t == import[i] IN
    /\ Step(i, "FLUSHED") /\ t.stored < 2
    /\ import' = [import EXCEPT ![i].stored = @ + 1]
    /\ raw' = IF t.stored = 0 THEN raw \cup {t.book} ELSE raw
    /\ UNCHANGED <<asset, current, versions, tables, mishaps, blind, torn, stripped>>

\* Bug: the version published last is served.
PromotedLatest(b, seen) == b

\* _promote_if_newer; a current version outside the view has no year.
Promoted(b, seen) ==
    LET year == IF current \in seen THEN Years[current] ELSE 0
    IN  IF current = NoWorkbook \/ (Years[b] > 0 /\ Years[b] >= year)
        THEN b ELSE current

\* What the commit writes.  An import that created the asset is the only one.
Write(i) ==
    LET t == import[i] IN
    /\ asset' = TRUE
    /\ versions' = versions \cup {t.book}
    /\ current' = IF t.book \in Unparsed THEN current ELSE Promoted(t.book, t.seen)
    /\ blind' = (blind \/ (current' # current /\ current \notin t.seen \cup {NoWorkbook}))

\* Bug: commits as soon as the workbook itself is stored.
CommitEarly(i) ==
    LET t == import[i] IN
    /\ Step(i, "FLUSHED") /\ t.stored > 0
    /\ Write(i)
    /\ tables' = IF t.stored = 2 THEN tables \cup {t.book} ELSE tables
    /\ EndImport(i)
    /\ UNCHANGED <<raw, mishaps, torn, stripped>>

Commit(i) ==
    LET t == import[i] IN
    /\ Step(i, "FLUSHED") /\ t.stored = 2
    /\ Write(i)
    /\ tables' = tables \cup {t.book}
    /\ EndImport(i)
    /\ UNCHANGED <<raw, mishaps, torn, stripped>>

\* The process dies or the client hangs up, which except Exception does not
\* catch: all is rolled back and what is stored stays.  An asset that was not
\* committed is gone, and no later one has its id.
ImportBreaksOff(i) ==
    /\ Step(i, "FLUSHED") /\ Mishap
    /\ EndImport(i)
    /\ raw' = IF asset THEN raw ELSE {}
    /\ UNCHANGED <<asset, current, versions, tables, blind, torn, stripped>>

\* An upload or the commit fails: the rollback comes first and frees every lock.
\* Without an asset, the objects still to be removed are under an id of no row.
ImportFails(i) ==
    /\ Step(i, "FLUSHED") /\ Mishap
    /\ IF asset THEN Advance(i, "FAILED") ELSE EndImport(i)
    /\ raw' = IF asset THEN raw ELSE {}
    /\ UNCHANGED <<asset, current, versions, tables, blind, torn, stripped>>

\* The commit is done but its answer is lost, which is handled as a failure.
CommitAnswerLost(i) ==
    LET t == import[i] IN
    /\ Step(i, "FLUSHED") /\ t.stored = 2 /\ Mishap
    /\ Write(i)
    /\ tables' = tables \cup {t.book}
    /\ torn' = torn \cup {t.book}
    /\ Advance(i, "LOST")
    /\ UNCHANGED <<raw, stripped>>

Removing(i) == Step(i, "FAILED") \/ Step(i, "LOST")

\* The tables go first, those of a committed version if the answer was lost.  A
\* removal that fails is passed over.
RemoveTables(i) ==
    LET t == import[i] IN
    /\ Removing(i) /\ t.stored = 2
    /\ import' = [import EXCEPT ![i].stored = 1]
    /\ tables' \in {tables} \cup (IF t.at = "LOST" THEN {tables \ {t.book}} ELSE {})
    /\ UNCHANGED <<asset, current, versions, raw, mishaps, blind, torn, stripped>>

\* The import has stored its workbook and not yet committed.
HasStored(i) == Step(i, "FLUSHED") /\ import[i].stored > 0

\* A version of this workbook is committed, or may be with what is stored now.
Needed(b) == b \in versions \/ \E j \in Imports : HasStored(j) /\ import[j].book = b

\* Then the workbook, whoever has stored it in the meantime.
RemoveRaw(i) ==
    LET t == import[i] IN
    /\ Removing(i) /\ t.stored = 1
    /\ raw' = raw \ {t.book}
    /\ stripped' = IF Needed(t.book) THEN stripped \cup {t.book} ELSE stripped
    /\ EndImport(i)
    /\ UNCHANGED <<asset, current, versions, tables, mishaps, blind, torn>>

\* There is nothing to remove, the removal of the workbook fails, or the process
\* dies or is cancelled on the way.
GiveUpRemoval(i) ==
    /\ Removing(i)
    /\ EndImport(i)
    /\ UNCHANGED <<asset, current, versions, objects, mishaps, blind, torn>>

\* A deadlock or an error before anything is stored.
RollBackImport(i) ==
    /\ \E at \in {"BEGUN", "GAP", "HOLDS"} : Step(i, at)
    /\ EndImport(i)
    /\ UNCHANGED <<asset, current, versions, objects, mishaps, blind, torn>>

ImportStep(i) ==
    \/ BeginImport(i) \/ LockAsset(i) \/ CreateAsset(i) \/ Duplicate(i)
    \/ FlushVersion(i) \/ StoreObjects(i) \/ Commit(i)
    \/ ImportBreaksOff(i) \/ ImportFails(i) \/ CommitAnswerLost(i)
    \/ RemoveTables(i) \/ RemoveRaw(i) \/ GiveUpRemoval(i) \/ RollBackImport(i)

ImportNext == \E i \in Imports : ImportStep(i)

ImportSpec == ImportInit /\ [][ImportNext]_importVars
-----------------------------------------------------------------------------
(* Properties *)

\* What queries read is a parsed, committed version with all its tables,
\* whatever failed half way; only a commit whose answer was lost breaks it, and
\* then for good, as the same workbook is a duplicate from then on.  Its raw
\* object is there too, unless a failed attempt at the same workbook removed it
\* late: after its rollback, when another had stored it again under the same key
\* (the removals of publish).
CurrentIsServable ==
    current # NoWorkbook =>
       /\ current \in versions \ Unparsed
       /\ current \in tables \cup torn
       /\ current \in raw \cup stripped

\* A version is published for good ("immutable publication and checksum
\* deduplication"): the workbook of a version whose commit was answered is in the
\* store.
PublishedWorkbookKept == versions \ torn \subseteq raw

\* The newest edition is served in whatever order the editions are imported
\* (_promote_if_newer), unless an import could not see the version it replaced:
\* one published after its read view opened counts as having no year.
NewestIsServed ==
    blind \/ \A b \in versions \ Unparsed :
                current # NoWorkbook /\ Years[current] >= Years[b]
=============================================================================
