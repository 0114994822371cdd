-------------------------- MODULE DocumentIngestion --------------------------
(***************************************************************************)
(* What a claimed worker does to the stores outside MySQL, and what DELETE *)
(* undoes: SimpleDocumentIngestionService.ingest and purge_document        *)
(* (src/app/services/document_ingestion.py) over Qdrant, Manticore BM25    *)
(* and MinIO, driven by _process_claim, on top of the row and the leases   *)
(* of DocumentQueue.  Messages are left out: a duplicate delivery lets any *)
(* idle worker claim at any time.                                          *)
(*                                                                         *)
(* An attempt is named by its lease token.  Its chunk ids are fresh uuid4  *)
(* values and its parsed directory carries the token, so the token stands  *)
(* for its Qdrant points, its BM25 rows and its directory.                 *)
(***************************************************************************)
EXTENDS DocumentQueue

CONSTANT Scenarios      \* sets of Disruption that may happen together

\* STALL: a store call outlasts the lease that was checked before it.
\* CANCEL: the worker shuts down and cancels its callbacks.
\* LOST_COMMIT: the READY commit is applied but reported as an error.
\* PURGE_ABORTED: DELETE fails, or its process dies, between two stores.
\* STALE_VIEW: DELETE reads chunk ids in a read view older than its lock.
Disruption == {"STALL", "CANCEL", "LOST_COMMIT", "PURGE_ABORTED", "STALE_VIEW"}

ASSUME ScenariosAssumption == Scenarios \subseteq SUBSET Disruption /\ Docs # {}

VARIABLES job,          \* per worker, the attempt it is executing
          dense,        \* per document, attempts with dense vectors in Qdrant
          sparse,       \* per document, attempts with sparse vectors in Qdrant
          bm25,         \* per document, attempts with rows in Manticore
          objects,      \* per document, <<attempt, kind>> stored in MinIO
          purge,        \* per document, the DELETE request in progress
          abandoned,    \* history: attempts that ended without a clean-up
          disruptions   \* the scenario of this behaviour

stores == <<dense, sparse, bm25, objects>>

ingestVars == <<queueVars, job, stores, purge, abandoned, disruptions>>

Idle == "IDLE"

\* The stages of ingest up to the READY commit, in order.
Pipeline == <<"PARSE", "MARKDOWN", "DENSE", "SPARSE", "BM25_CLEAR",
              "BM25_WRITE", "UNLINK", "COMMIT">>

StageAfter(s) ==
    LET i == CHOOSE j \in 1 .. 7 : Pipeline[j] = s IN Pipeline[i + 1]

Running == {Pipeline[i] : i \in 1 .. 8}

\* The stages ingest enters through _assert_lease.
Guarded == Running \ {"BM25_WRITE", "COMMIT"}

\* The except branch of ingest: CHECK decides between cleaning up as the
\* owner and dropping only its own directory.
Handler == {"CHECK", "CLEAN_POINTS", "CLEAN_BM25", "CLEAN_PREFIX", "REPORT",
            "DROP_PREFIX", "LEAVE"}

\* armed: _assert_lease passed for this stage.  old: the attempt the chunk rows
\* and parsed_object_key named when the claim read the row.
Job == [stage : {Idle, "SWEEP"} \cup Running \cup Handler, armed : BOOLEAN,
        doc : Docs, attempt : Nat, old : Nat, touched : SUBSET {"POINTS", "BM25"},
        cancelled : BOOLEAN]

IdleJob == [stage |-> Idle, armed |-> FALSE, doc |-> CHOOSE d \in Docs : TRUE,
            attempt |-> NoToken, old |-> NoToken, touched |-> {},
            cancelled |-> FALSE]

\* ADMITTED: the session has its read view, not yet the row lock.
Purge == [stage : {Idle, "ADMITTED", "POINTS", "BM25", "OBJECTS", "ROW"},
          seen : Nat]

IdlePurge == [stage |-> Idle, seen |-> NoToken]

\* The attempt whose chunk ids document_chunk holds.
Published(r) == IF r.chunks = 0 THEN NoToken ELSE r.parsed

IngestInit ==
    /\ QueueInit
    /\ job = [w \in Workers |-> IdleJob]
    /\ dense = [d \in Docs |-> {}]
    /\ sparse = [d \in Docs |-> {}]
    /\ bm25 = [d \in Docs |-> {}]
    /\ objects = [d \in Docs |-> {}]
    /\ purge = [d \in Docs |-> IdlePurge]
    /\ abandoned = [d \in Docs |-> {}]
    /\ disruptions \in Scenarios

At(w, s) == job[w].stage = s

GoTo(w, s) == job' = [job EXCEPT ![w].stage = s, ![w].armed = FALSE]

Drop(index, d, ts) == [index EXCEPT ![d] = @ \ ts]

\* Bug: one directory per document.
SharedDirectory(d, t) == objects[d]

\* The objects under the attempt's own directory.
Directory(d, t) == {o \in objects[d] : o[1] = t}

Abandon(w) ==
    abandoned' = [abandoned EXCEPT ![job[w].doc] = @ \cup {job[w].attempt}]

-----------------------------------------------------------------------------
(* ingest up to the READY commit *)

\* The claim is granted; the previous chunk ids and the previous directory
\* are read with the row.
StartAttempt(w, d) ==
    /\ At(w, Idle)
    /\ Grant(w, d)
    /\ job' = [job EXCEPT ![w] = [IdleJob EXCEPT
                  !.stage = "PARSE", !.doc = d, !.attempt = issued'[d],
                  !.old = Published(doc[d])]]
    /\ UNCHANGED <<stores, purge, abandoned, disruptions>>

\* Bug: qdrant_write_started is set after the write, when it may be too late.
TouchLate(s) ==
    IF s = "SPARSE" THEN {"POINTS"} ELSE IF s = "BM25_CLEAR" THEN {"BM25"} ELSE {}

\* qdrant_write_started and bm25_write_started, set before the first call.
Touch(s) ==
    IF s = "DENSE" THEN {"POINTS"} ELSE IF s = "BM25_CLEAR" THEN {"BM25"} ELSE {}

\* Bug: trusts the lease_lost event of the heartbeat, without the query.
AssertLeaseCached(w) ==
    /\ job[w].stage \in Guarded /\ ~job[w].armed
    /\ \/ /\ held[w].pulse # "STOPPED"
          /\ job' = [job EXCEPT ![w].armed = TRUE,
                                ![w].touched = @ \cup Touch(job[w].stage)]
       \/ held[w].pulse = "STOPPED" /\ GoTo(w, "DROP_PREFIX")
    /\ UNCHANGED <<queueVars, stores, purge, abandoned, disruptions>>

\* _assert_lease before a stage; the write that follows is a later step.
AssertLease(w) ==
    /\ job[w].stage \in Guarded /\ ~job[w].armed
    /\ \/ /\ Owns(w)
          /\ job' = [job EXCEPT ![w].armed = TRUE,
                                ![w].touched = @ \cup Touch(job[w].stage)]
       \/ ~Owns(w) /\ GoTo(w, "DROP_PREFIX")
    /\ UNCHANGED <<queueVars, stores, purge, abandoned, disruptions>>

Allowed(w) == job[w].armed \/ At(w, "BM25_WRITE")

\* The store call of the stage worker w is in.
Effect(w) ==
    LET d == job[w].doc
        t == job[w].attempt
        Put(kind) == objects' = [objects EXCEPT ![d] = @ \cup {<<t, kind>>}]
    IN  \/ At(w, "PARSE") /\ Put("IMAGES") /\ UNCHANGED <<dense, sparse, bm25>>
        \/ At(w, "MARKDOWN") /\ Put("MARKDOWN")
                             /\ UNCHANGED <<dense, sparse, bm25>>
        \/ /\ At(w, "DENSE")
           /\ dense' = [dense EXCEPT ![d] = @ \cup {t}]
           /\ UNCHANGED <<sparse, bm25, objects>>
        \/ /\ At(w, "SPARSE")
           /\ sparse' = [sparse EXCEPT ![d] = @ \cup {t}]
           /\ UNCHANGED <<dense, bm25, objects>>
        \/ /\ At(w, "BM25_CLEAR")
           /\ bm25' = [bm25 EXCEPT ![d] = {}]
           /\ UNCHANGED <<dense, sparse, objects>>
        \/ /\ At(w, "BM25_WRITE")
           /\ bm25' = [bm25 EXCEPT ![d] = @ \cup {t}]
           /\ UNCHANGED <<dense, sparse, objects>>
        \/ /\ At(w, "UNLINK")
           /\ dense' = Drop(dense, d, {job[w].old})
           /\ sparse' = Drop(sparse, d, {job[w].old})
           /\ UNCHANGED <<bm25, objects>>

Write(w) ==
    /\ Allowed(w)
    /\ Effect(w)
    /\ GoTo(w, StageAfter(job[w].stage))
    /\ UNCHANGED <<queueVars, purge, abandoned, disruptions>>

\* A stage raises, before its store call or after the call took effect.
StageFails(w) ==
    /\ job[w].stage \in Running
    /\ \/ Allowed(w) /\ Effect(w)
       \/ UNCHANGED stores
    /\ GoTo(w, "CHECK")
    /\ UNCHANGED <<queueVars, purge, abandoned, disruptions>>

\* _replace_chunk_records and mark_ready in one commit.
Commit(w) ==
    /\ At(w, "COMMIT")
    /\ Finish(w)
    /\ \/ GoTo(w, "SWEEP")
       \/ "LOST_COMMIT" \in disruptions /\ GoTo(w, "CHECK")
    /\ UNCHANGED <<stores, purge, abandoned, disruptions>>

\* mark_ready found its lease gone and rolled back.
CommitFenced(w) ==
    /\ At(w, "COMMIT") /\ ~Owns(w)
    /\ GoTo(w, "DROP_PREFIX")
    /\ UNCHANGED <<queueVars, stores, purge, abandoned, disruptions>>

\* _cleanup_superseded_parsed_output; its errors are logged and swallowed.
Sweep(w) ==
    /\ At(w, "SWEEP")
    /\ LET d == job[w].doc
       IN  \/ /\ objects' = Drop(objects, d, Directory(d, job[w].old))
              /\ UNCHANGED faults
           \/ Fault /\ UNCHANGED objects
    /\ job' = [job EXCEPT ![w] = IdleJob]
    /\ UNCHANGED <<doc, issued, held, resets, dense, sparse, bm25, purge,
                   abandoned, disruptions>>

-----------------------------------------------------------------------------
(* The except branch of ingest, and what _process_claim does after it *)

\* asyncio.run cancels the callback at shutdown, whatever it awaits; after the
\* commit that is the removal of a superseded directory, if there is one.
Cancel(w) ==
    /\ "CANCEL" \in disruptions /\ faults < MaxFaults
    /\ job[w].stage \in Running \/ (At(w, "SWEEP") /\ job[w].old # NoToken)
    /\ job' = [job EXCEPT ![w].stage = "CHECK", ![w].armed = FALSE,
                          ![w].cancelled = TRUE]
    /\ UNCHANGED <<queueVars, stores, purge, abandoned, disruptions>>

\* Bug: every error but a lost lease cleans up as the owner.
CheckLeaseSkipped(w) ==
    /\ At(w, "CHECK")
    /\ GoTo(w, "CLEAN_POINTS")
    /\ UNCHANGED <<queueVars, stores, purge, abandoned, disruptions>>

\* A lease that cannot be confirmed counts as lost.
CheckLease(w) ==
    /\ At(w, "CHECK")
    /\ \/ Owns(w) /\ GoTo(w, "CLEAN_POINTS")
       \/ /\ ~Owns(w) \/ faults < MaxFaults
          /\ GoTo(w, "DROP_PREFIX")
    /\ UNCHANGED <<queueVars, stores, purge, abandoned, disruptions>>

\* Bug: by document id, like the keyword index.
DeleteAllPoints(w) ==
    /\ dense' = [dense EXCEPT ![job[w].doc] = {}]
    /\ sparse' = [sparse EXCEPT ![job[w].doc] = {}]
    /\ UNCHANGED <<bm25, objects>>

\* By the attempt's own chunk ids.
DeleteOwnPoints(w) ==
    LET ts == IF "POINTS" \in job[w].touched THEN {job[w].attempt} ELSE {}
    IN  /\ dense' = Drop(dense, job[w].doc, ts)
        /\ sparse' = Drop(sparse, job[w].doc, ts)
        /\ UNCHANGED <<bm25, objects>>

\* By document id: rows of every attempt.
DeleteBm25(w) ==
    /\ bm25' = IF "BM25" \in job[w].touched
               THEN [bm25 EXCEPT ![job[w].doc] = {}] ELSE bm25
    /\ UNCHANGED <<dense, sparse, objects>>

RemovePrefix(w) ==
    /\ objects' = Drop(objects, job[w].doc,
                       Directory(job[w].doc, job[w].attempt))
    /\ UNCHANGED <<dense, sparse, bm25>>

\* One clean-up call: it takes effect, or it raises and the next one follows.
CleanUp(w, s, next) ==
    /\ At(w, s)
    /\ \/ /\ \/ s = "CLEAN_POINTS" /\ DeleteOwnPoints(w)
             \/ s = "CLEAN_BM25" /\ DeleteBm25(w)
             \/ s \in {"CLEAN_PREFIX", "DROP_PREFIX"} /\ RemovePrefix(w)
          /\ UNCHANGED <<faults, abandoned>>
       \/ Fault /\ Abandon(w) /\ UNCHANGED stores
    /\ GoTo(w, next)
    /\ UNCHANGED <<doc, issued, held, resets, purge, disruptions>>

Handle(w) ==
    \/ CheckLease(w)
    \/ CleanUp(w, "CLEAN_POINTS", "CLEAN_BM25")
    \/ CleanUp(w, "CLEAN_BM25", "CLEAN_PREFIX")
    \/ CleanUp(w, "CLEAN_PREFIX", "REPORT")
    \/ CleanUp(w, "DROP_PREFIX", "LEAVE")

\* fail_or_retry, which a cancelled callback never reaches.
Report(w) ==
    /\ At(w, "REPORT")
    /\ IF job[w].cancelled
       THEN Crash(w)
       ELSE Fail(w, TRUE) \/ Fail(w, FALSE) \/ GiveUpLostLease(w)
    /\ job' = [job EXCEPT ![w] = IdleJob]
    /\ UNCHANGED <<stores, purge, abandoned, disruptions>>

\* DocumentIngestionLeaseLost reaches the worker, which writes nothing.
Leave(w) ==
    /\ At(w, "LEAVE")
    /\ \/ GiveUpLostLease(w)
       \/ Crash(w)
       \/ ~Working(w) /\ UNCHANGED queueVars
    /\ Abandon(w)
    /\ job' = [job EXCEPT ![w] = IdleJob]
    /\ UNCHANGED <<stores, purge, disruptions>>

WorkerDies(w) ==
    /\ ~At(w, Idle)
    /\ \/ Crash(w)
       \/ ~Working(w) /\ Fault /\ UNCHANGED <<doc, issued, held, resets>>
    /\ Abandon(w)
    /\ job' = [job EXCEPT ![w] = IdleJob]
    /\ UNCHANGED <<stores, purge, disruptions>>

-----------------------------------------------------------------------------
(* DELETE: purge_document under the row lock *)

SetPurge(d, s) == purge' = [purge EXCEPT ![d].stage = s]

\* Authentication opens the read view before the row lock is asked for.
OpenView(d) ==
    /\ "STALE_VIEW" \in disruptions
    /\ purge[d].stage = Idle
    /\ doc[d].status \notin {"ABSENT", "DELETED"}
    /\ purge' = [purge EXCEPT ![d] =
                    [stage |-> "ADMITTED", seen |-> Published(doc[d])]]
    /\ UNCHANGED <<queueVars, job, stores, abandoned, disruptions>>

\* The lock is granted and _previous_chunk_ids reads.
LockForPurge(d) ==
    /\ purge[d].stage \in {Idle, "ADMITTED"}
    /\ Deletable(d)
    /\ purge' = [purge EXCEPT ![d] =
          [stage |-> "POINTS",
           seen |-> IF @.stage = "ADMITTED" THEN @.seen ELSE Published(doc[d])]]
    /\ UNCHANGED <<queueVars, job, stores, abandoned, disruptions>>

\* 409 DOCUMENT_NOT_DELETABLE.
PurgeRefused(d) ==
    /\ purge[d].stage = "ADMITTED" /\ ~Deletable(d)
    /\ purge' = [purge EXCEPT ![d] = IdlePurge]
    /\ UNCHANGED <<queueVars, job, stores, abandoned, disruptions>>

PurgePoints(d) ==
    /\ purge[d].stage = "POINTS"
    /\ dense' = Drop(dense, d, {purge[d].seen})
    /\ sparse' = Drop(sparse, d, {purge[d].seen})
    /\ SetPurge(d, "BM25")
    /\ UNCHANGED <<queueVars, job, bm25, objects, abandoned, disruptions>>

PurgeBm25(d) ==
    /\ purge[d].stage = "BM25"
    /\ bm25' = [bm25 EXCEPT ![d] = {}]
    /\ SetPurge(d, "OBJECTS")
    /\ UNCHANGED <<queueVars, job, dense, sparse, objects, abandoned, disruptions>>

\* The document's whole directory, then the source file.
PurgeObjects(d) ==
    /\ purge[d].stage = "OBJECTS"
    /\ objects' = [objects EXCEPT ![d] = {}]
    /\ SetPurge(d, "ROW")
    /\ UNCHANGED <<queueVars, job, dense, sparse, bm25, abandoned, disruptions>>

PurgeRow(d) ==
    /\ purge[d].stage = "ROW"
    /\ Delete(d)
    /\ purge' = [purge EXCEPT ![d] = IdlePurge]
    /\ UNCHANGED <<job, stores, abandoned, disruptions>>

\* A store raised or the process died: the row rolls back, the stores do not.
PurgeAborted(d) ==
    /\ "PURGE_ABORTED" \in disruptions
    /\ purge[d].stage \in {"POINTS", "BM25", "OBJECTS", "ROW"}
    /\ Fault
    /\ purge' = [purge EXCEPT ![d] = IdlePurge]
    /\ UNCHANGED <<doc, issued, held, resets, job, stores, abandoned, disruptions>>

Purging(d) == purge[d].stage \notin {Idle, "ADMITTED"}

-----------------------------------------------------------------------------

\* The other requests wait for the row lock of a DELETE.
OtherRequest(d) ==
    /\ ~Purging(d)
    /\ \/ Upload(d, TRUE) \/ Upload(d, FALSE)
       \/ Approve(d) \/ Reject(d) \/ Retry(d) \/ Reparse(d)
    /\ UNCHANGED <<job, stores, purge, abandoned, disruptions>>

\* An owner that is past its lease check and changing a shared index.
MidWrite(w) ==
    /\ Owns(w)
    /\ \/ job[w].armed /\ job[w].stage \notin {"PARSE", "MARKDOWN"}
       \/ job[w].stage \in {"BM25_WRITE", "CLEAN_POINTS", "CLEAN_BM25"}

TimePasses(d) ==
    /\ \/ /\ LeaseLapse(d)
          /\ \/ "STALL" \in disruptions
             \/ \A w \in Workers : MidWrite(w) => held[w].doc # d
       \/ RetryDue(d)
    /\ UNCHANGED <<job, stores, purge, abandoned, disruptions>>

\* Claim bookkeeping and heartbeats, which touch no store.
LeaseStep(w) ==
    /\ \/ At(w, Idle) /\ \E d \in Docs : Exhaust(w, d)
       \/ Heartbeat(w) \/ HeartbeatCrash(w)
    /\ UNCHANGED <<job, stores, purge, abandoned, disruptions>>

IngestNext ==
    \/ \E d \in Docs :
          \/ OtherRequest(d) \/ TimePasses(d)
          \/ OpenView(d) \/ LockForPurge(d) \/ PurgeRefused(d)
          \/ PurgePoints(d) \/ PurgeBm25(d) \/ PurgeObjects(d)
          \/ PurgeRow(d) \/ PurgeAborted(d)
    \/ \E w \in Workers :
          \/ \E d \in Docs : StartAttempt(w, d)
          \/ AssertLease(w) \/ Write(w) \/ StageFails(w)
          \/ Commit(w) \/ CommitFenced(w) \/ Sweep(w)
          \/ Cancel(w) \/ Handle(w) \/ Report(w) \/ Leave(w) \/ WorkerDies(w)
          \/ LeaseStep(w)

IngestSpec == IngestInit /\ [][IngestNext]_ingestVars

-----------------------------------------------------------------------------
(* Properties *)

Settled(d) == doc[d].status = "READY" /\ ~Purging(d)

\* No disruption but the allowed ones can happen in this behaviour.
Only(allowed) == disruptions \subseteq allowed

\* A READY document can be found through all three indexes, and BM25 knows no
\* other attempt of it (README: "三路索引均完成，可以召回").
ReadySearchable ==
    \A d \in Docs : Settled(d) =>
        /\ doc[d].parsed \in dense[d] \cap sparse[d]
        /\ bm25[d] = {doc[d].parsed}

\* Shutdowns, ambiguous commits and deletes with an old read view never leave
\* a READY document unsearchable; only store calls that outlast their lease do.
SearchableUnlessStalled ==
    Only({"CANCEL", "LOST_COMMIT", "STALE_VIEW"}) => ReadySearchable

\* Whatever a worker that lost its lease still writes, deletes or cleans up,
\* the vectors of the published attempt stay.
ReadyPointsIntact ==
    Only({"STALL", "CANCEL", "LOST_COMMIT"}) =>
        \A d \in Docs : Settled(d) => doc[d].parsed \in dense[d] \cap sparse[d]

\* The parsed text the row points to is there, while newer attempts run, fail,
\* lose their lease or are cleaned up (README: "不覆盖、也不删除上一个 READY 产物").
ParsedTextKept ==
    \A d \in Docs : doc[d].chunks # 0 /\ ~Purging(d)
                       => <<doc[d].parsed, "MARKDOWN">> \in objects[d]

\* Only a shutdown during the removal of a superseded directory, or an error
\* that hides a commit, can take the published text away.
PublishedArtifactKept == Only({"STALL", "STALE_VIEW"}) => ParsedTextKept

\* Vectors left in Qdrant belong to the published attempt, to one still being
\* worked on, or to one that ended without cleaning up: nothing else leaks.
PointsAccounted ==
    Only({"STALL", "CANCEL", "PURGE_ABORTED"}) =>
        \A d \in Docs : dense[d] \cup sparse[d] \subseteq
            {doc[d].parsed} \cup abandoned[d]
                \cup {job[w].attempt : w \in {v \in Workers : job[v].doc = d}}

\* A deleted document has no row left in the keyword index.
NoBm25AfterDelete ==
    "STALL" \notin disruptions =>
        \A d \in Docs : doc[d].status = "DELETED" => bm25[d] = {}
=============================================================================
