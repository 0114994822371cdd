------------------------------ MODULE QueryCache ------------------------------
(***************************************************************************)
(* The local copy of one published Parquet table, which every structured   *)
(* query of the process shares: StructuredQueryService._materialize        *)
(* (src/app/services/structured_query.py).  Whoever does not find a copy   *)
(* downloads the table to a second path, in a thread, and renames it.      *)
(*                                                                         *)
(* A path leads to a file, and a thread goes on writing the file it has    *)
(* opened whatever its path is by then.  A table is a few blocks; a query  *)
(* that finds a copy changes nothing here.  A process that dies is each of *)
(* its queries breaking off; the files survive it.                         *)
(***************************************************************************)
EXTENDS Naturals

CONSTANTS Queries,      \* concurrent queries of the table
          Files,        \* files of the cache directory
          Blocks,       \* what a whole copy consists of
          NoFile,       \* a path that does not exist
          NoDownload    \* an idle query

VARIABLES content,      \* the blocks written to each file
          partial,      \* the file at <key>.partial
          cached,       \* the file at <key>.parquet
          download,     \* the download of each query
          shared,       \* ghost: files opened while another download had them,
                        \* or renamed by a query that had opened another one
          abandoned     \* ghost: files some download of which broke off

cacheVars == <<content, partial, cached, download, shared, abandoned>>

\* left: the blocks its thread has not written yet.
Download ==
    [at : {"MISSED", "FETCHING", "CANCELLED"}, file : Files \cup {NoFile}, left : SUBSET Blocks]

ASSUME CacheAssumption == NoFile \notin Files /\ NoDownload \notin Download

CacheInit ==
    /\ content = [f \in Files |-> {}]
    /\ partial = NoFile /\ cached = NoFile
    /\ download = [q \in Queries |-> NoDownload]
    /\ shared = {} /\ abandoned = {}

Downloading(q, at) == download[q] # NoDownload /\ download[q].at = at

\* Those that will still write to the file, or rename it.
Users(f) ==
    {q \in Queries : /\ download[q] # NoDownload /\ download[q].file = f
                     /\ download[q].at = "FETCHING" \/ download[q].left # {}}

Unused == {f \in Files : f \notin {partial, cached} /\ Users(f) = {}}

\* There is no copy, or an empty one.
LookUp(q) ==
    /\ download[q] = NoDownload
    /\ cached # NoFile => content[cached] = {}
    /\ download' = [download EXCEPT ![q] = [at |-> "MISSED", file |-> NoFile, left |-> Blocks]]
    /\ UNCHANGED <<content, partial, cached, shared, abandoned>>

\* The thread opens a file to write it from the start: a new one, or one that is
\* there and loses what it holds.
OpenFile(q, f) ==
    /\ content' = [content EXCEPT ![f] = {}]
    /\ download' = [download EXCEPT ![q].at = "FETCHING", ![q].file = f]
    /\ shared' = IF Users(f) # {} THEN shared \cup {f} ELSE shared \ {f}
    /\ abandoned' = abandoned \ {f}

\* Bug: the table is downloaded where queries look for it.
OpenInPlace(q) ==
    /\ Downloading(q, "MISSED")
    /\ \E f \in Files :
          /\ IF cached = NoFile THEN f \in Unused ELSE f = cached
          /\ OpenFile(q, f)
          /\ cached' = f
    /\ UNCHANGED partial

OpenPartial(q) ==
    /\ Downloading(q, "MISSED")
    /\ \E f \in Files :
          /\ IF partial = NoFile THEN f \in Unused ELSE f = partial
          /\ OpenFile(q, f)
          /\ partial' = f
    /\ UNCHANGED cached

WriteBlock(q, b) ==
    LET t == download[q] IN
    /\ Downloading(q, "FETCHING") \/ Downloading(q, "CANCELLED")
    /\ b \in t.left
    /\ content' = [content EXCEPT ![t.file] = @ \cup {b}]
    /\ download' = [download EXCEPT ![q].left = @ \ {b}]
    /\ UNCHANGED <<partial, cached, shared, abandoned>>

\* The query renames what it finds under the path of the download; if another
\* query has done so before, it fails.
Publish(q) ==
    /\ Downloading(q, "FETCHING") /\ download[q].left = {}
    /\ IF partial = NoFile THEN UNCHANGED <<cached, shared>>
       ELSE /\ cached' = partial
            /\ shared' = IF partial = download[q].file THEN shared ELSE shared \cup {partial}
    /\ partial' = NoFile
    /\ download' = [download EXCEPT ![q] = NoDownload]
    /\ UNCHANGED <<content, abandoned>>

\* The answer no longer needs the query (event_stream in src/app/api/rag.py), or
\* the client is gone.  The thread cannot be cancelled.
Cancel(q) ==
    /\ Downloading(q, "FETCHING")
    /\ download' = [download EXCEPT ![q].at = "CANCELLED"]
    /\ UNCHANGED <<content, partial, cached, shared, abandoned>>

\* A cancelled query's thread is done, or a query is cancelled before its thread
\* runs.
Leave(q) ==
    /\ \/ Downloading(q, "MISSED")
       \/ Downloading(q, "CANCELLED") /\ download[q].left = {}
    /\ download' = [download EXCEPT ![q] = NoDownload]
    /\ UNCHANGED <<content, partial, cached, shared, abandoned>>

\* The store fails, the disk is full, the process dies: nobody removes the file.
BreakOffDownload(q) ==
    LET t == download[q] IN
    /\ Downloading(q, "FETCHING") \/ Downloading(q, "CANCELLED")
    /\ abandoned' = IF t.left # {} THEN abandoned \cup {t.file} ELSE abandoned
    /\ download' = [download EXCEPT ![q] = NoDownload]
    /\ UNCHANGED <<content, partial, cached, shared>>

CacheNext ==
    \E q \in Queries :
       \/ LookUp(q) \/ OpenPartial(q) \/ \E b \in Blocks : WriteBlock(q, b)
       \/ Publish(q) \/ Cancel(q) \/ Leave(q) \/ BreakOffDownload(q)

CacheSpec == CacheInit /\ [][CacheNext]_cacheVars
-----------------------------------------------------------------------------

\* Queries read a whole table, whatever fails, is cancelled or dies on the way,
\* unless two downloads had the same file, and then only until the later one has
\* written it, or for good if that one breaks off: nothing replaces a copy that
\* is not empty (_materialize and download_to_path: "失败时 dst 可能是半成品文件").
CopyIsWhole ==
    LET missing == IF cached = NoFile THEN {} ELSE Blocks \ content[cached]
    IN  missing # {} =>
          /\ cached \in shared
          /\ \/ cached \in abandoned
             \/ missing \subseteq UNION {download[q].left : q \in Users(cached)}
=============================================================================
