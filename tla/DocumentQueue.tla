---------------------------- MODULE DocumentQueue ----------------------------
(***************************************************************************)
(* DocumentQueueService and the document API: workers take, renew, lose    *)
(* and give back the lease on a document row while users upload, review,   *)
(* retry, reparse and delete it (src/app/services/document_queue.py,       *)
(* src/app/api/documents.py, src/app/api/crawler.py and the claim part of  *)
(* src/app/workers/document_parse_worker.py).                              *)
(*                                                                         *)
(* A worker here is one message callback of a parse-worker process.  What  *)
(* it does between the claim and the end of the attempt is one unspecified *)
(* computation; DocumentIngestion opens it.  How it comes to claim a       *)
(* document is left open too: DocumentDispatch adds outbox and broker.     *)
(***************************************************************************)
EXTENDS DocumentRow

CONSTANTS Docs,         \* document ids
          Workers,      \* concurrent message callbacks
          NoClaim,      \* what a worker without a claim holds
          MaxResets,    \* bound: retry and reparse requests per document
          MaxFaults     \* bound: crashes, stalls and errors of the environment

ASSUME BoundsAssumption == MaxResets \in Nat /\ MaxFaults \in Nat

VARIABLES doc,          \* the document table
          issued,       \* per document, how many lease tokens were drawn
          held,         \* per worker, its DocumentClaim
          resets,       \* per document, retry and reparse requests so far
          faults        \* faults so far

queueVars == <<doc, issued, held, resets, faults>>

Pulse == {"BEATING", "STOPPED", "CRASHED"}

\* DocumentClaim, the version read with it, and the state of its heartbeat.
Claim == [doc : Docs, lease : Nat, attempt : Nat, replace : BOOLEAN,
          version : Nat, pulse : Pulse]

ASSUME NoClaimAssumption == NoClaim \notin Claim

QueueInit ==
    /\ doc = [d \in Docs |-> NoRow]
    /\ issued = [d \in Docs |-> 0]
    /\ held = [w \in Workers |-> NoClaim]
    /\ resets = [d \in Docs |-> 0]
    /\ faults = 0

Working(w) == held[w] # NoClaim

\* owns_lease, and the WHERE clause of every write a worker makes.
Owns(w) == Working(w) /\ OwnsLease(doc[held[w].doc], held[w].lease)

Fault == faults < MaxFaults /\ faults' = faults + 1

SetRow(d, r) == doc' = [doc EXCEPT ![d] = r]

Release(w) == held' = [held EXCEPT ![w] = NoClaim]

-----------------------------------------------------------------------------
(* Requests of users and of the crawler; each holds the row lock. *)

Upload(d, reviewRequired) ==
    /\ doc[d].status = "ABSENT"
    /\ SetRow(d, InsertedRow(reviewRequired))
    /\ UNCHANGED <<issued, held, resets, faults>>

Approve(d) ==
    /\ doc[d].status = "PENDING_REVIEW"
    /\ SetRow(d, ResetForQueue(doc[d], FALSE))
    /\ UNCHANGED <<issued, held, resets, faults>>

Reject(d) ==
    /\ doc[d].status = "PENDING_REVIEW"
    /\ SetRow(d, MarkDispatchIdle([doc[d] EXCEPT !.status = "REJECTED"]))
    /\ UNCHANGED <<issued, held, resets, faults>>

CountReset(d) ==
    /\ resets[d] < MaxResets
    /\ resets' = [resets EXCEPT ![d] = @ + 1]

Retry(d) ==
    /\ doc[d].status = "FAILED" \/ ExpiredProcessing(doc[d])
    /\ CountReset(d)
    /\ SetRow(d, ResetForQueue(doc[d], FALSE))
    /\ UNCHANGED <<issued, held, faults>>

\* Bug: accepts what retry_document accepts.
ReparseExpired(d) ==
    /\ doc[d].status \in {"READY", "FAILED"} \/ ExpiredProcessing(doc[d])
    /\ CountReset(d)
    /\ SetRow(d, ResetForQueue(doc[d], TRUE))
    /\ UNCHANGED <<issued, held, faults>>

Reparse(d) ==
    /\ doc[d].status \in {"READY", "FAILED"}
    /\ CountReset(d)
    /\ SetRow(d, ResetForQueue(doc[d], TRUE))
    /\ UNCHANGED <<issued, held, faults>>

Deletable(d) ==
    doc[d].status \in {"READY", "FAILED", "PENDING_REVIEW", "REJECTED"}

Delete(d) ==
    /\ Deletable(d)
    /\ SetRow(d, DeletedRow)
    /\ UNCHANGED <<issued, held, resets, faults>>

Request(d) ==
    \/ Upload(d, TRUE) \/ Upload(d, FALSE)
    \/ Approve(d) \/ Reject(d) \/ Retry(d) \/ Reparse(d) \/ Delete(d)

-----------------------------------------------------------------------------
(* DocumentQueueService as the worker calls it *)

\* claim_document finding the attempts used up: the last owner died.
Exhaust(w, d) ==
    /\ ~Working(w)
    /\ Claimable(doc[d])
    /\ doc[d].attempts >= MaxAttempts
    /\ SetRow(d, ExhaustAttempts(doc[d]))
    /\ UNCHANGED <<issued, held, resets, faults>>

\* claim_document granting a lease; _process_claim starts the heartbeat and
\* reads the row back under the new token.
Grant(w, d) ==
    /\ ~Working(w)
    /\ Claimable(doc[d])
    /\ doc[d].attempts < MaxAttempts
    /\ LET token == issued[d] + 1 IN
       /\ issued' = [issued EXCEPT ![d] = token]
       /\ SetRow(d, TakeLease(doc[d], token))
       /\ held' = [held EXCEPT ![w] =
                     [doc |-> d, lease |-> token,
                      attempt |-> doc[d].attempts + 1,
                      replace |-> doc[d].reparse,
                      version |-> doc[d].version, pulse |-> "BEATING"]]
    /\ UNCHANGED <<resets, faults>>

\* Bug: renew_lease does not look at lease_expires_at.
HeartbeatRevives(w) ==
    /\ Working(w) /\ held[w].pulse = "BEATING"
    /\ doc[held[w].doc].status = "PROCESSING"
    /\ doc[held[w].doc].lease = held[w].lease
    /\ SetRow(held[w].doc, RenewLease(doc[held[w].doc]))
    /\ UNCHANGED <<issued, held, resets, faults>>

\* One round of _heartbeat: renew_lease, or lease_lost and stop.
Heartbeat(w) ==
    /\ Working(w) /\ held[w].pulse = "BEATING"
    /\ \/ /\ Owns(w)
          /\ SetRow(held[w].doc, RenewLease(doc[held[w].doc]))
          /\ UNCHANGED held
       \/ /\ ~Owns(w)
          /\ held' = [held EXCEPT ![w].pulse = "STOPPED"]
          /\ UNCHANGED doc
    /\ UNCHANGED <<issued, resets, faults>>

\* renew_lease raised: nothing catches it, the heartbeat task is dead.
HeartbeatCrash(w) ==
    /\ Working(w) /\ held[w].pulse = "BEATING"
    /\ Fault
    /\ held' = [held EXCEPT ![w].pulse = "CRASHED"]
    /\ UNCHANGED <<doc, issued, resets>>

\* The attempt succeeded and mark_ready found its lease in force.
Finish(w) ==
    /\ Owns(w)
    /\ LET c == held[w]
       IN  SetRow(c.doc, MarkReady(doc[c.doc], c.lease, c.version))
    /\ Release(w)
    /\ UNCHANGED <<issued, resets, faults>>

\* The attempt failed and fail_or_retry found its lease in force.
Fail(w, retryable) ==
    /\ Owns(w)
    /\ LET c == held[w]
       IN  SetRow(c.doc, FailOrRetry(doc[c.doc], c.attempt, retryable))
    /\ Release(w)
    /\ UNCHANGED <<issued, resets, faults>>

\* A guard, mark_ready or fail_or_retry found the lease gone: no write.
GiveUpLostLease(w) ==
    /\ Working(w) /\ ~Owns(w)
    /\ Release(w)
    /\ UNCHANGED <<doc, issued, resets, faults>>

-----------------------------------------------------------------------------
(* The environment *)

\* The process dies, or the callback is cancelled: the row is left alone.
Crash(w) ==
    /\ Working(w)
    /\ Fault
    /\ Release(w)
    /\ UNCHANGED <<doc, issued, resets>>

\* Nobody is keeping the lease of d alive.
Unattended(d) ==
    \A w \in Workers : Working(w) /\ held[w].doc = d
                          /\ held[w].lease = doc[d].lease
                       => held[w].pulse # "BEATING"

\* lease_expires_at passes.  With a heartbeat running that takes a stall
\* longer than the lease, which counts as a fault.
LeaseLapse(d) ==
    /\ doc[d].live
    /\ \/ Unattended(d) /\ UNCHANGED faults
       \/ ~Unattended(d) /\ Fault
    /\ doc' = [doc EXCEPT ![d].live = FALSE]
    /\ UNCHANGED <<issued, held, resets>>

\* available_at passes: the retry delay is over.
RetryDue(d) ==
    /\ ~doc[d].due
    /\ doc' = [doc EXCEPT ![d].due = TRUE]
    /\ UNCHANGED <<issued, held, resets, faults>>

-----------------------------------------------------------------------------

WorkerStep(w) ==
    \/ \E d \in Docs : Exhaust(w, d) \/ Grant(w, d)
    \/ Heartbeat(w) \/ HeartbeatCrash(w)
    \/ Finish(w) \/ Fail(w, TRUE) \/ Fail(w, FALSE) \/ GiveUpLostLease(w)
    \/ Crash(w)

QueueNext ==
    \/ \E d \in Docs : Request(d) \/ LeaseLapse(d) \/ RetryDue(d)
    \/ \E w \in Workers : WorkerStep(w)

QueueSpec == QueueInit /\ [][QueueNext]_queueVars

-----------------------------------------------------------------------------
(* Properties *)

\* Every variable has its type: rows of document, claims, counters.
TypeOK ==
    /\ doc \in [Docs -> Row]
    /\ issued \in [Docs -> Nat]
    /\ held \in [Workers -> Claim \cup {NoClaim}]
    /\ resets \in [Docs -> Nat]
    /\ faults \in Nat

\* Across crashes, expiries, takeovers and user retries, at most one worker
\* passes the lease fence of a document (claim_document's promise).
SingleOwner ==
    \A v, w \in Workers :
        Owns(v) /\ Owns(w) /\ held[v].doc = held[w].doc => v = w

\* A worker that has lost its lease can never write again with that claim:
\* neither a late renewal, nor a reset, nor a later grant revives it.
LostForever ==
    \A w \in Workers :
        Working(w) /\ ~Owns(w) => held'[w] = NoClaim \/ ~Owns(w)'

LostLeaseStaysLost == [][LostForever]_queueVars

\* What a READY document serves is the newest attempt ever granted, and its
\* chunks carry the row's current version: no slow worker of an older
\* attempt or version publishes over a newer one.
ReadyServesLatestAttempt ==
    \A d \in Docs : doc[d].status = "READY" =>
        /\ doc[d].parsed = issued[d]
        /\ doc[d].chunks = doc[d].version

\* Chunks of an earlier version are only ever about to be replaced.
ChunksNeedReparse ==
    \A d \in Docs : doc[d].chunks # 0 /\ doc[d].status # "READY"
                       => doc[d].reparse

\* A document that already has chunks is only ever worked on by a claim with
\* reparse_requested set, whatever failures, retries and takeovers happened
\* since: ingest never refuses with "only a reparse may overwrite chunks".
OverwriteIsRequested ==
    /\ ChunksNeedReparse
    /\ \A w \in Workers : Owns(w) /\ doc[held[w].doc].chunks # 0
                          => held[w].replace

\* A document fails on a retryable error only after MaxAttempts attempts of
\* its own, counted since it was last queued by a user.
NotGivenUpEarly ==
    \A d \in Docs :
        doc[d].error \in {"RETRYABLE", "MAX_ATTEMPTS_EXCEEDED"}
            /\ doc[d].status = "FAILED" => doc[d].attempts = MaxAttempts

\* A row names a lease exactly while it is PROCESSING, and then the newest.
RowLease(d) ==
    /\ doc[d].status = "PROCESSING" => doc[d].lease = issued[d] /\ issued[d] # 0
    /\ doc[d].status # "PROCESSING" => doc[d].lease = NoToken /\ ~doc[d].live

\* A worker's token was drawn for its document, and while the row still names
\* it, what the worker read with the claim is what the row says.
ClaimFresh(w) ==
    Working(w) =>
        LET c == held[w]
            r == doc[c.doc]
        IN  /\ c.lease # NoToken /\ c.lease <= issued[c.doc]
            /\ r.lease = c.lease =>
                  /\ c.attempt = r.attempts
                  /\ c.version = r.version
                  /\ c.replace = r.reparse

DistinctTokens ==
    \A v, w \in Workers :
        Working(v) /\ Working(w) /\ held[v].doc = held[w].doc
            /\ held[v].lease = held[w].lease => v = w

\* A queued document always has an attempt left.
AttemptsBounded ==
    \A d \in Docs : /\ doc[d].attempts <= MaxAttempts
                    /\ doc[d].status = "QUEUED"
                          => doc[d].attempts < MaxAttempts

\* Nothing is served of a document before it is uploaded.
AbsentIsEmpty ==
    \A d \in Docs : doc[d].status = "ABSENT" => doc[d].chunks = 0

\* The inductive invariant: tokens only grow, the row and the claims never
\* disagree about an attempt that may still end, and attempts are counted.
QueueInvariant ==
    /\ \A d \in Docs : RowLease(d)
    /\ \A w \in Workers : ClaimFresh(w)
    /\ DistinctTokens
    /\ AttemptsBounded
    /\ ChunksNeedReparse
    /\ AbsentIsEmpty
    /\ ReadyServesLatestAttempt
    /\ NotGivenUpEarly

-----------------------------------------------------------------------------
(* Refinement: leases, tokens and heartbeats implement the plain lifecycle. *)

Lifecycle == INSTANCE DocumentLifecycle WITH
    phase   <- [d \in Docs |-> doc[d].status],
    edition <- [d \in Docs |-> doc[d].version],
    served  <- [d \in Docs |-> doc[d].chunks]

\* Every behaviour of the queue is a behaviour of DocumentLifecycle.
LifecycleImplemented == Lifecycle!LifecycleSpec
=============================================================================
