# EnerLedger-AI: TLA+ specifications

EnerLedger-AI stores energy and carbon documents, parses them in worker processes,
indexes them three ways (dense and sparse vectors in Qdrant, keywords in Manticore
BM25), answers questions about them, and has a language-model agent write reports
from them. This directory specifies the parts of the system where processes,
stores, transactions and failures meet: the life of a document, the life of a
report, the requests whose transactions overlap (folders, structured imports and
queries, conversations), and what questions and agents retrieve while documents
change. Paths below are relative to the repository; `PROJECT.json` maps every
definition to the lines it models.

## 1. The system

| Component | State it keeps | Operations | Modelled in |
| --- | --- | --- | --- |
| document row and parse queue (`app/services/document_queue.py`) | `document`: status, version, attempts, `available_at`, lease, error, reparse flag | claim, renew, owns_lease, fail_or_retry, snapshot, reset | `DocumentRow`, `DocumentQueue` |
| document outbox (`app/services/document_dispatch.py`) | `document.dispatch_*` | claim, send, confirm, release, reconcile | `DocumentRow`, `DocumentDispatch` |
| RabbitMQ and the retry wrapper (`app/rag/core/mq`) | queue, unacknowledged deliveries, dead letters | deliver, ack, nack, dead-letter | `DocumentDispatch`, `ReportDispatch` |
| parse worker (`app/workers/document_parse_worker.py`) | one callback per message, one heartbeat task per claim | snapshot, sleep, claim, ingest, fail, shut down | `DocumentDispatch`, `DocumentQueue` |
| ingestion (`app/services/document_ingestion.py`) | Qdrant points, BM25 rows, MinIO objects, `document_chunk` | ingest, clean-up, READY commit, purge | `DocumentIngestion` |
| document API, crawler review (`app/api/documents.py`, `app/api/crawler.py`) | row locks | upload, file, approve, reject, retry, reparse, delete | `DocumentQueue`, `DocumentIngestion`, `DatasetFolders` |
| datasets and folders (`app/api/datasets.py`) | dataset, folder tree, model bindings | create, move, delete, rebind | `DatasetFolders` (rebinding is the reset of `DocumentQueue`) |
| report queue and outbox (`app/services/report_queue.py`, `report_dispatch.py`) | `report_run`: state, attempts, lease, `dispatch_*` | claim, renew, complete, fail; claim, send, confirm, release, reconcile | `ReportRow`, `ReportQueue`, `ReportDispatch` |
| report worker (`app/workers/report_generation_worker.py`, `app/services/report_artifacts.py`) | one callback per message, `report_artifact` rows and files | check the document, claim, call the agent, read back, persist, end | `ReportDispatch`, `ReportAgent` |
| reports API, internal agent API (`app/api/reports.py`, `app/api/report_agent_internal.py`) | `report_question`, drafts, reports | create, cancel, retry, answer, delete; draft, patch, clarify, submit | `ReportQueue`, `ReportAgent` |
| pi service (`apps/pi-service/src`) | `activeRuns`, the outcome of a session; of a chat run its recalled passages and sources | start, refuse, time out, finish; call tools in parallel, give them up, list sources | `ReportAgent`, `AgentTools` |
| structured assets and query (`app/services/structured_assets.py`, `structured_query.py`) | asset, versions, the current one, objects; local copies of tables | publish, promote, roll back; look up, download, rename | `StructuredImport`, `QueryCache` |
| agent conversations (`app/services/agent_conversations.py`, `app/api/agent.py`, `app/api/agent_conversations.py`) | conversation, turns, their questions | start, settle, choose a template, delete | `Conversation` |
| Kafka adapter, Redis caches, circuit breaker | fence and lock keys; breaker state | cache-aside reads, invalidate; call, record | not modelled: nothing in the default configuration uses them |
| LTR shadow executor | set of background tasks | submit, time out, shut down | not modelled: its results are only logged |
| retrieval core (`app/rag/core/pipeline/recall`, `app/rag/application`) | a session per step of a request | search the routes, gate, take a window, fetch contents, answer | `AgentTools` |
| agent runs (`app/api/agent.py`, `app/services/agent_runs.py`) | evidence ledger, numbers, section references, cursors of each run | recall, expand, outline, read section, source list | `AgentTools` |
| parsing, splitting, heading trees, ranking, report composition, frontend, models and users, deployment | none that is shared and concurrent | pure computation or single-row CRUD | not modelled |
| upstream parse-task pipeline, its workflow engine, repositories, purger, routes | tables and columns the schema does not have | parse tasks, post-processing, workflows | not modelled: not part of the deployment |

How they interact. An API request changes a document or report row and marks it
PENDING in the same transaction, then tries to publish; a reconciler in every API
process publishes what was missed. RabbitMQ delivers a message to a callback of some
worker process, which reads the row, claims it under the row lock and gets a
lease with a fresh token, and a heartbeat renews it.

* A document worker sleeps until the row is due and keeps its message until the
  document has settled. It parses and writes the stores, checking the lease before
  each stage; its last transaction replaces the chunk rows and makes the row READY if
  the lease is still in force. Failures clean up and put the row back, or give up.
* A report worker uses its message up in any case. It checks the document,
  claims, calls the agent service and waits. The agent's session calls the internal
  API with the token of the lease: it saves drafts, asks questions, submits. The
  worker then reads the submitted report from the row, renders it, registers the
  files and completes the run, or completes it with NEEDS_INPUT. Answering the last
  open question makes the run PENDING again.
* A conversation turn may create a report, at once or after the user has chosen
  its type. A dataset holds folders, documents and structured assets.
* A question, or a tool call of an agent run, searches the indexes, asks MySQL which
  hits belong to READY documents, and fetches their contents in another session. What
  it returns is registered in the run's ledger, which numbers the passages; the pi
  service keeps what the model was shown, and lists the sources at the end.

What is hard about it. Messages may be duplicated, outdated, or returned by a
broken channel under a callback that keeps running. Processes die between any two
steps. Leases expire under a stalled owner, and the agent's session outlives the
worker that started it. Users retry, cancel, answer and delete at any moment. The
stores take part in no transaction, and a lease check is not atomic with the write
it guards. Reads in a transaction see the view that its first read, the
authentication, opened, even after a lock was obtained. `PROJECT.json` lists these
hazards with their lines and with the properties that would notice them.

What correct means, by component:

* queues: one owner at a time; a lost lease stays lost; nothing old is published
  over something new; attempts are counted exactly; what has ended stays ended;
* outboxes, broker, workers: no active row is forgotten; one dispatcher moves the
  outbox state; nothing cancelled is sent again; everything settles in the end;
* ingestion: a READY document is complete in all three indexes and its parsed
  text exists, whatever slower or failed attempts do; deleting leaves nothing;
* reports: what is published is one report, the one the attempt's own session
  submitted; a run that waits for its user can go on; deleting leaves nothing;
* folders stay a tree that documents are filed in, and no folder or document is left
  without a dataset;
* the newest edition of a structured asset is served, and its objects are there;
* queries read whole tables; turns are numbered in order and settle; one question
  leads to one report;
* one response holds passages of one edition of a document, none that was not READY
  since it began; a citation leads to its source; pages make up the section.

## 2. The modules

| Module | What it is |
| --- | --- |
| `DocumentRow` | the document row and the functions from row to row the services apply in one transaction |
| `DocumentLifecycle` | abstract specification: status, version and the version being served; no lease, worker or broker |
| `DocumentQueue` | leases, heartbeats, takeovers and user requests; implements `DocumentLifecycle` |
| `DocumentDispatch` | extends the queue with outbox, broker and message loop |
| `DocumentIngestion` | extends the queue with the stores, the stages of `ingest`, its clean-up, and DELETE |
| `ReportRow` | the report row and its functions |
| `ReportQueue` | leases, attempts and requests of report runs; abstract for the next two |
| `ReportDispatch` | extends it with outbox, broker and message loop; implements `ReportQueue` |
| `ReportAgent` | extends it with the inside of an attempt, the agent's calls, answers and DELETE; implements `ReportQueue` |
| `DatasetFolders` | requests on one dataset, its folders, the filing of documents and its structured assets, as transactions |
| `StructuredImport` | imports of workbooks as versions of one asset, as transactions that store objects |
| `QueryCache` | the local copy of one table that queries download and share |
| `Conversation` | the turns of one conversation and the choice of a report type |
| `AgentTools` | questions and the tool calls of an agent run, against documents that change |
| `DocumentQueueProofs`, `DocumentDispatchProofs`, `DocumentIngestionProofs`, `ReportQueueProofs`, `ReportDispatchProofs`, `ReportAgentProofs`, `RequestProofs`, `AgentToolsProofs` | the proofs |
| `MC*` | the instances TLC checks; `MCComponents` puts `DocumentQueue`, `DatasetFolders`, `StructuredImport`, `Conversation` and `QueryCache` side by side |

The queue modules leave the inside of an attempt open; a dispatch module adds how a
worker comes to claim, and an ingestion or agent module what it does then. Each is
built from the actions of its queue module (`Grant`, `Finish`, `Publish`, `Fail`,
`Request`...), so there is one reading of the row operations.

### Documents

* `doc[d]` is the row. A timestamp is reduced to what the code compares:
  `due`, `live`, `dispatchDue`, `ticketLive` say whether it has passed.
  `parsed` is the attempt whose directory `parsed_object_key` names, `chunks` the
  version of the `document_chunk` rows. The error code keeps only what decides a
  transition.
* A `uuid4` token is the number of the grant that drew it (`issued`, `drawn`):
  fresh, never reused, 0 for NULL. `drawn` and `issued` are not in the code;
  no guard depends on them except through the token drawn.
* `held[w]` is the `DocumentClaim` of one message callback, with the version read
  along with it and the state of its heartbeat task: BEATING, STOPPED (it saw
  the lease lost), CRASHED (renew_lease raised; nobody notices before the finally
  block awaits the task).
* `wire`, `dead`, `loop` are the broker's queue, the dead letters and the stage
  of each callback; `tagged` says the broker still waits for its ack.
* An attempt is named by its lease token, and its points, BM25 rows and objects by
  the attempt (chunk ids are fresh `uuid4` values, the directory carries the token).
  `job[w].armed` says the lease check of the stage has passed: the store call is
  a later step. `touched` is the pair of flags `qdrant_write_started` and
  `bm25_write_started`.
* `purge[d]` is a DELETE in progress; while it holds the row lock other requests
  wait. `seen` is the attempt whose chunk ids it read.

### Reports

* `run[r]` is the row, with `draft` and `ir` (`report_ir_draft`, `report_ir`) named
  by the lease of the session that wrote them: the text of a report does not matter,
  whose it is does. `manifest` is the report the row was completed with. `resumed` is
  the stage RESUMING: the answers of the user have put the run back.
* `changed` are the runs whose document is no longer the one that was frozen;
  `deleting` those a DELETE has checked without a lock and not yet removed.
* A heartbeat is only beating or not: here nothing waits for a stopped one before
  the attempt is over, and `complete` looks at the row.
* `job[w]` is how far `PiReportProcessor.process` is; `session[r]` is the entry of
  `activeRuns` with what its tool calls have reported; `calls` are the calls of
  agents that were authorised and not yet committed. Authorisation and commit are two
  steps, since `_authorized_run` checks the lease and nothing checks it again.
* `answering[u]` is the read view of a request that answers questions: what remains
  open is counted in it, state and answers are checked under the lock.
* `marks` records accidents of a run: LATE (a commit of an attempt whose lease was
  gone), OVERLAP (an answer counted in an outdated view), REACTIVATED (run again
  between a DELETE's check and its removal). They are history, read by properties
  only: each property is stated for runs without the accident that breaks it, so the
  runs say exactly which accidents matter.
* `AgentWrites` and `OutboxWrites` of `ReportQueue` say what the refined modules may
  do to the row, and `ReportSpec` is checked (and proved) to be implemented with them.

### Requests

* A request is a transaction at MySQL's default REPEATABLE READ, which
  `app/rag/database.py` does not override: its view opens at authentication, rows it
  locks or updates are current, and its writes appear at the commit, which is
  sound since every row it writes is locked by then.
* `DatasetFolders`: `tx[q]` holds what the request is about, the rows it has locked
  and, for a deletion of the dataset, its view. `_validate_folder_parent` locks every
  folder of the dataset (`Scan`); filing a document locks the folder; an UPDATE locks
  what it matches. Waits that form a cycle end by `RollBack`, as InnoDB rolls
  one of them back. `missed` are rows the deletion of a dataset could not see. A
  structured asset matters here only as something the dataset holds: its upload checks
  the dataset once, at the beginning, and its commit looks at no dataset.
* `StructuredImport`: a workbook is its content hash. `raw` are the workbooks whose raw
  object is stored, under the id of the asset and the hash, a key that every import of
  the same workbook shares; `tables` are the versions whose tables are stored, under the
  id of the version, which one import has. An import that fails is rolled back in one
  step, which frees its locks, and removes its objects in later ones (`RemoveTables`,
  `RemoveRaw`), any of which may fail or not be reached (`GiveUpRemoval`). `stripped` are
  workbooks whose raw object such a late removal took from another import. A locking read of an asset that is not there locks only the gap (`GAP`), which
  two imports may hold, and neither can insert before the other is gone. `blind` and
  `torn` record a promotion over a version outside the view, and a commit whose
  answer was lost.
* `QueryCache`: a path leads to a file, and a file to the blocks written so far; a
  thread writes to the file it opened whatever its path is by then, and cancelling
  its query does not stop it. `shared` are files two downloads had open at a time, or
  that were renamed by a query that had opened another one; `abandoned` those whose
  download broke off.
* `Conversation`: a call is a stream or a template choice with the newest turn
  number of its view; `hung` are turns whose request broke off, `reopened` those
  asked again after a report had been committed.

### Retrieval

* `shelf` is what `DocumentLifecycle` promises of a document: which edition its
  indexes and its chunk table hold, and whether it is READY. It changes at any time.
* A question or a recall searches, passes the gate, and fetches. The gate is one step
  since its two queries share one read view; fetching is another session and another
  step. A plain question and an agent run share no state, so that a behaviour has
  either. Scores are anything, so hits are sets: a window is any subset of its size
  (`Best`), and a context what some order of the hits lets into the budget (`Assemble`).
* `ledger`, `numbers`, `refs` and `cursors` are those of `AgentRunRegistry`;
  `listed`, `recalled` and `told` are what the pi service lists as sources, has kept of
  recalls, and has shown the model. `TimesOut` gives a call up in the pi service while
  the handler goes on. `low`, `overlapped` and `finished` are history.
* An outline gives per heading the chunks of its own and those below its subheadings, in
  reading order; `Listing` is what `_collect_section_chunk_ids` returns of it. A cursor
  holds a section reference and an offset, so that the model chooses for every page anew
  whether descendants are included (`CallSection`), and an offset counted with them may be
  past the end of the section without (`ReadSection`).

One action stands for one handler, or for the part of it between two points where
another process can step in. `LeaseLapse` and `TicketLapse` let a lease run out:
freely when nobody renews it, at the price of a fault when its owner is merely slow.

Definitions under a comment "Bug:" are plausible mistakes. No specification uses
them: replacing the definition that follows by such a one must break the property
`PROJECT.json` names, which is how each property is known to look at the code.

## 3. The runs

Deadlock is checked where the component can always go on (`imports_late_removal`); elsewhere, once everything has settled and the bounds are used up the
system really is at rest. The bounds are in the guards of the specifications.

| Run | Shows | Distinct states |
| --- | --- | --- |
| `components` | five components, each explored while the others are as they began. The queue, with two workers, two resets and three faults: `SingleOwner`, `ReadyServesLatestAttempt`, `OverwriteIsRequested`, `NotGivenUpEarly`, `LostLeaseStaysLost`, and `DocumentLifecycle` is implemented. A dataset, with two requests: `FoldersRooted`, `FiledWhereItExists`, `NoOrphanedFiling`. Two imports of four workbooks: `CurrentIsServable`, `NewestIsServed`. A conversation: `TurnsNumberedInOrder`, `OneReportPerQuestion`, `TurnsSettle`. Copies of a table: `CopyIsWhole` | 501,553 |
| `dispatch` | request and reconciler dispatching, two workers, database errors allowed, under fairness: `NoStrandedDocument` (somebody always still has to act on a queued document, unless its message was dead-lettered by a database error), `SingleTicketHolder`, `OnlyOutdatedDeadLettered`, and every queued document settles (`QueuedDocumentsSettle`) | 654,388 |
| `ingestion` | two attempts, their stores and a DELETE under three sets of disruptions: `SearchableUnlessStalled`, `ReadyPointsIntact`, `PublishedArtifactKept`, `PointsAccounted`, `NoBm25AfterDelete` | 1,949,143 |
| `report_dispatch` | a reconciler, two workers, database errors allowed, under fairness: one owner, `AnsweredRunIsTried`, `NoStrandedRun`, `CancelledNotRedispatched`, `TerminalIsFinal`, every active run settles (`ActiveRunsSettle`), and `ReportSpec` is implemented | 347,731 |
| `report_agent` | two attempts and their sessions over uploaded material, one question, an answer, a DELETE: `PublishedReportConsistent`, `DraftOfThisAttempt`, `WaitingRunHasQuestion`, `DeletedLeavesNothing`, `PublishesOwnReport` | 1,356,737 |
| `agent_tools` | questions and agent runs while the document is parsed again and deleted: `OneEditionPerResponse`, `OnlyVisibleReturned`, `CitationsResolve`, `SectionReadWhole` | 849,187 |

Why the instances are large enough.

* One document, or one report run: rows, tokens, messages and stores of two of them
  share nothing but the workers, and a worker busy with another one is a worker
  that does not step. Two workers (two callbacks, of one process or of two) give
  an owner and somebody who takes over or duplicates. `MaxAttempts` is 2, the least
  with both a retry and a last attempt. `MaxResets` and `MaxRounds` bound retries,
  reparses and resumptions, `MaxFaults` crashes, stalls and errors during attempts,
  `MaxMishaps` failures elsewhere.
* `MaxCopies`: the reconciler selects a run whose worker died in every poll until
  somebody takes it, so copies of its message pile up while nobody consumes. The
  bound stops it when one copy is queued. `MaxCalls` 1: one call of an agent is under
  way at a time, which still leaves the call of a session that has lost its lease
  against everything the next attempt does.
* `Scenarios` of `DocumentIngestion` are the sets of disruptions that may happen in one
  behaviour, so that one run checks each claim with every disruption it withstands:
  each property names the disruptions it allows. The sets {CANCEL, LOST_COMMIT,
  STALE_VIEW}, {STALL} and {CANCEL, PURGE_ABORTED} contain each disruption, but not
  every pair.
* Two folders make a cycle, each moved below the other, and a folder that goes while
  another is created in, moved into or out of it; a document and a structured asset are
  uploaded and filed meanwhile. That longer walks bring nothing new is proved (section 4). Four workbooks (no year, an older
  and a newer edition, a template that is only registered) and two imports: one that fails
  and one of the same workbook meanwhile.
  Two turns, two callers, one break. Two queries over three files of two blocks: as
  many as are open, published and about to be opened at a time, and a half is the only
  way a table can be torn. None of these gets a third request: what
  one can do to another between its view, its lock and its commit needs two.
* `agent_tools`: one document with an edition whose section has a chunk of its own and one
  below it, and an edition whose only chunk both list, pages
  with and without descendants, a page size and a budget of one, two calls at a time, four in all: enough for two recalls that
  overlap, a page read after a new edition, hits that do not fit, and a call that was given
  up and ends after others. Calls are interchangeable (symmetry; no liveness is checked).

Type correctness of every module is proved (section 4), so that the runs leave it
out.

The limits of the code are shown by runs that must fail:

| Run | What the code does against what is said |
| --- | --- |
| `dispatch_stuck` | README.md:339-341 promises retry with back-off. A database error in the heartbeat of an attempt that fails is re-raised after the row was put back; the message goes to the dead letters, and the row stays QUEUED and PUBLISHED, which neither the reconciler nor retry, reparse or delete accepts |
| `ingestion_late_write` | README.md:298: READY means all three indexes are complete. BM25 is written by document id without fencing: a call that outlasts its lease empties or mixes the rows of the attempt that took over |
| `ingestion_shutdown` | README.md:345-347: cleaning up never removes a READY artefact. A cancellation during the sweep that follows the READY commit removes the directory just published |
| `imports_late_removal` | `app/services/structured_assets.py:1`: immutable publication. A failed import removes its raw workbook after the rollback has freed the asset, under a key that another import of the same workbook has stored again and publishes |
| `report_waiting` | `.spec/document-report-generation-pi-agent.md:229`: NEEDS_INPUT is resumed by answering. Two answers at once each count the other's question, in their old view, as open: everything is answered and the run stays NEEDS_INPUT |
| `report_old` | the same line and criterion 8 (line 322): no report on an old document version is published. The document is compared only when the message is read |

Further limits the models show, without a run of their own. DELETE of a document
leaves vectors of attempts that died or lost their lease, since `purge_document` knows
only the ids in `document_chunk` (`PointsAccounted` says these are all), and with an
old read view also those of a commit in between. A DELETE that fails half-way leaves
a READY row whose indexes are empty until it is repeated. An attempt that outlives
its lease can still store a draft or register files, for a run that is deleted
or belongs to another attempt: hence LATE in the report properties. A dataset may be
deleted under a folder or a document its read view cannot see (`missed`), and the
schema declares no foreign key that would refuse it. It is also deleted under its
structured assets, which `delete_dataset` does not look for
(`app/api/datasets.py:526-533`), although `docs/前端页面与功能需求.md:90` has only empty
datasets deleted: asset, versions, tables and objects stay, out of everybody's reach. An import that
began before a newer edition was published is promoted over it (`blind`), and one
whose commit lost its answer removes the objects of a committed version (`torn`); so
does one that failed, of the raw object only and after its rollback (`stripped`).
Two queries that miss the same table share one `.partial` file: one renames what the
other has just truncated, and if the other breaks off the torn copy is never replaced
(`shared`, `abandoned`). Two recalls of one message may cost the source list a passage
whose number the model has seen (`overlapped`; `apps/pi-service/src/runtime/agent.js:216`,
while `docs/pi-agent.md:52-53` has the numbers lead to the sources). Pages of a section read
before and after a new edition do not fit together, and pages read to the end without
descendants do not contain what is below, whatever was asked for at first: what has_more
says is about the last page's request (`SectionReadWhole`).
A crash leaves a turn STREAMING for ever (`hung`). A report created right before
`create_report` raises is created again when the question is answered again (`reopened`).

Fairness. `DocumentDispatch` and `ReportDispatch`: the reconciler polls for ever and a
claimed message is sent, confirmed or released (weak fairness of `Publish`,
`Dispatch`); consumers keep consuming and acknowledge, because `dispatch_with_retry`
always ends (`Consume`); parser, stores, models and the agent service have timeouts,
so an attempt ends (`EndWork`); clocks advance (the time actions). `Conversation`: a
handler that runs goes on, as its model calls and its stream have timeouts (`Work`).
Nothing is assumed of users, of faults, or of which way an attempt ends; the bounds on
faults say that failures stop eventually.

## 4. What is proved

Every theorem holds for all sets of documents, runs, workers, dispatchers, callers and
requests and all values of the bounds, from the named assumptions on the constants:
`MaxAttempts` is at least 1, bounds are natural numbers, page and window sizes positive;
what stands for "none" (`NoClaim`, `NoWork`, `NoFile`, `NoRequest`...) is none of the
things it stands beside; there is a document, or a report run, for an idle record to
name; `Scenarios` are sets of disruptions; the editions of an outline are numbered from
1 on and their chunks among finitely many.

`DocumentQueueProofs`: `TypeCorrect`, and `InvariantHolds` for the inductive
`QueueInvariant`. The safety properties are not inductive by themselves: that two
workers cannot both pass the fence needs that tokens of a document are distinct; that
a grant keeps them distinct needs that every token held is at most the number of
grants; that a READY row serves the newest attempt needs that a PROCESSING row names
the newest token; that the chunks carry the row's version, and that attempts are
counted right, needs that an owner's claim agrees with the row. The proof sorts steps
into three kinds: one row is replaced by one that is not leased (`SettleStep`), nothing
but timestamps and heartbeats changes (`QuietStep`), or a lease is granted
(`GrantInvariant`). `SingleOwnerHolds`, `ReadyIsLatest`, `OverwriteAlwaysRequested` and
`AllAttemptsMade` follow from it; `LostLeasesStayLost` is the action property, one case
per action. `QueueImplementsLifecycle` is the
refinement: each action replaces a row by one the lifecycle allows (`Moves`) or keeps
its status, version and chunks.

`ReportQueueProofs`: the same for report runs. `ReportInvariant` adds to the fence what
each row promises by itself (`SoundRow`): among others that a run waiting for, or put
back by, its user has an attempt left, which gives `AnsweredRunIsTriedHolds`. A lemma per
row function states which rows it returns; `TerminalIsFinalHolds` follows from them.

`ReportDispatchProofs`: `DispatchImplementsReportQueue` maps each step of outbox, broker
and callbacks to a step of the queue or a stutter, so that every theorem about
`ReportSpec` holds here too (`OneReportOwnerUnderDispatch`). `OutboxInvariant` has four
parts: what a row promises the outbox (`OutboxRows`); a message that was sent for a
waiting run is underway, confirmed or not (`AnnouncedIsUnderway`); tickets in use were
drawn (`TicketsDrawn`); nothing is dead-lettered while no session raises
(`DeadOnErrorOnly`). `NoStrandedRunHolds` and `CancelledNotRedispatchedHolds` follow.

`ReportAgentProofs`: `AgentImplementsReportQueue` as above, and `AgentInvariantHolds` for
the invariant of an attempt: names are bounded by the leases granted (`AgentBounds`);
what a session writes under a lease in force is its own (`OwnWork`); what the
worker has read, rendered and registered is still there (`OwnReport`); who is about to
wait has something to ask (`AskedIsOpen`); a DELETE removes what it has seen and nothing
came after (`DeletionComplete`). Most steps leave what one part speaks about alone or
only take leases away; the lemmas on calm steps (`CalmStepKeeps`) treat them at once, and
the remaining actions have a lemma each. The four safety properties of the run and
the action property `PublishesOwnReportHolds` follow.

`DocumentDispatchProofs`: `DispatchImplementsLifecycle` by way of the queue, of which
every dispatch step is a step or which it leaves alone (`RowsKeepOutbox` for what it does
to the outbox columns). `NoStrandedDocument` is not inductive: that a queued document
has somebody who acts on it needs `AnnouncedIsUnderway` - once the broker has confirmed
a message for a document that is not settled, the message of its current version is
queued, with a callback, or dead-lettered on a database error. That a message of the
current version is not refused or ignored needs `MessagesNotAhead` and
`RefusedOutdated` (a message is at most as new as its row, and refused only if older);
that a failed attempt returns its own message needs `CallbacksMatch`; that a late
confirmation announces nothing of a new version needs `TicketsDistinct` and
`OutboxRows`. Each part is kept by the dispatchers, the callbacks and the row steps of
users and time, one lemma for each.

`DocumentIngestionProofs`: `IngestInvariant` has four layers, and the lemmas on steps come
in the same order. `BaseInvariant` relates jobs to claims: a job keeps the claim it began
with and names an attempt drawn for it (`ClaimFits`, `JobFits`), no two jobs execute
one attempt (`JobsApart`), only a shutdown or an error that hides a commit brings a job
without a claim into the except branch (`KeepsClaim`), and a DELETE holds the row it
has locked (`PurgeFits`). `ContentInvariant` says what the owner has written by each stage,
and so what the READY commit publishes; `IndexInvariant` what BM25 holds of a document
that has an owner or is READY; `PointsInvariant` which attempts' vectors may still exist.
The last three speak of the disruptions they exclude, as the properties do, and each
needs the one before: that a clean-up removes nothing that is published needs to know
that its attempt cannot be the one the row names, which is `BaseInvariant`. The
five safety properties follow; `IngestImplementsLifecycle` and two properties of the
queue hold here by refinement.

`RequestProofs`: four small components. `CacheInvariant`: what is missing in the file
at a path is still being written by those who have it open (`PathsComplete`), and a file
that was never shared has one writer. `ImportInvariant`: one import at a time holds the
asset, what it has stored is in the store or was stripped, only an answer that was lost
makes an import remove the tables of a committed version, and every committed version, not
just the current one, has its objects with these exceptions; `CurrentIsServableHolds`
follows, and `NewestIsServedHolds` is inductive with the types (`PromotionServesNewest`). `ConversationInvariant`: a turn's
number was computed from a view no newer than the turns (`ViewsBehind`), one caller is at a
turn (`OneCallPerTurn`), and a report ends the choice (`ReportIsLast`). `FolderInvariant`:
no two transactions hold one row, and what one has looked up under a lock is still so
(`HoldsWhatItSaw`): in particular the walk a move has checked, from its new parent to the
root, is locked and does not pass the folder that moves (`WalkHeld`). The walk itself is
defined without recursion, as the least set closed under `parent` (`Above`), so
that no induction over data is needed: `EveryWalkEnds` says that every closed set a
folder is in contains the root, and a move keeps that because a closed set of the new
tree that holds the moved folder also holds the locked walk. `NoOrphanedFilingHolds` needs
that an upload or a deletion that holds the dataset finds it there until it ends.

`AgentToolsProofs`: `ToolsInvariant`. A request's hits are of one edition per document
because every later session only drops what is no longer stored, and not older than
what was visible when it began because the oldest edition that can be READY from now on
never decreases (`HitsFit`). A passage has one number in the ledger and a number one passage
(`LedgerFits`), registration keeps every number given (`LedgerGrows`), hence what a
request was given is still the ledger's when it is delivered (`GivenFits`) and what was told
agrees with it (`ToldFits`); that the list of sources keeps it needs that nothing is
told before the one recall of a run that does not overlap has ended (`FirstRecall`). A
cursor's pages are the first chunks of the section with all that is below it, as long as its
edition is the stored one (`ReadFits`, `PageFits`). That holds whichever way each page was
asked for, since the listing without what is below is how the one with it begins
(`OwnFirst`) and a longer prefix only adds (`FirstGrows`): a page that is not the last is
taken from the same prefix of both, and the last one completes the section it was asked of. Five theorems:
the invariant and the four properties.

Only model-checked: liveness - `QueuedDocumentsSettle`, `ActiveRunsSettle` and
`TurnsSettle` - since fairness and ENABLED are out of the prover's reach. Every other
property of a passing run is stated by a theorem.

## 5. What is left out

Documents: parsing, quality gates, chunking and embedding are one stage that succeeds
or raises; `manage_failure=True` (synchronous callers only); renaming and duplicate
detection; uploads that a cancelled thread finishes after its directory was removed
(orphan objects, reclaimed when the document's root directory is deleted); retry headers
of `dispatch_with_retry`, since neither worker raises `RetriableError`. Expiry of a
message in the broker and loss of the broker's disk are not modelled.

Reports: what a report says and how it is validated and rendered (validation may
accept or refuse); the checkpoint, which nothing reads; material uploads and
`purge_expired_materials`, which nothing calls; re-rendering files on request; the
reference from conversation turns that a deleted run clears; two patches of one session
that overwrite each other.

Requests: names, metadata and listings; what queries compute over a structured
asset; attachments and intent decisions of a turn. `_carried_material_ids`
(`app/api/agent.py`) looks for material ids that no stored turn has; it decides about
wording only.

Retrieval: scores, weights and ranking, what the model writes, the structured lookup
beside a plain question, and the scope tool, which only reads. The docstring of
`assemble_context` says that nothing more is taken once the budget is exceeded; the code
skips the chunk that does not fit and may take a shorter one after it
(`app/rag/core/pipeline/recall/generation.py:83`, `:98-100`), and so does the model.

The upstream pipeline (`app/rag/core/pipeline/parse_task`, its workflow engine,
repositories, consumers, purger and routes) is code the deployment does not run
(`app/rag/UPSTREAM.md:28`, `app/services/document_ingestion.py:4`) and cannot run: it needs
columns that `app/rag/models/chunk_record.py:28-73` does not have and tables that are not in
`sql/current_mysql_schema.sql`.

The greater part of the repository is parsers, quality gates, splitting, ranking, wiki
trees, evaluation, rendering and the frontend: functions over text, vectors and figures
without shared state, whose correctness is a matter of examples and data, not of
interleavings, and for which a model would be a copy. The share of the source the
definitions map is therefore small, and concentrated where it matters. Models, users and
settings are single-row create, read, update and delete.

## 6. Plan

Written: the document modules and their proofs, then the report modules and theirs,
then `DatasetFolders`, `StructuredImport`, `QueryCache`, `Conversation` and `AgentTools`.
What would add most next:

1. Proofs: an abstract specification of what a run promises of its evidence - numbered
   once, delivered as registered - that `AgentTools` refines; and lemmas that the two
   outbox proofs, whose steps resemble each other, can share.
2. `ReportAgent` with two calls under way, for patches that overtake each other.
3. The link between turns and runs: deleting a run clears it, deleting a
   conversation leaves the run.
