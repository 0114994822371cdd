----------------------------- MODULE DocumentRow -----------------------------
(***************************************************************************)
(* The authoritative MySQL row of a document and the pure functions from   *)
(* row to row that the services apply to it inside one transaction:        *)
(* src/app/services/document_queue.py (parse state and parse lease),       *)
(* src/app/services/document_dispatch.py (outbox state and its lease) and  *)
(* the READY commit of src/app/services/document_ingestion.py.             *)
(*                                                                         *)
(* Time is abstracted to what the code compares: a timestamp is either     *)
(* still in the future or not.  "due" is available_at <= now, "live" is    *)
(* lease_expires_at > now; dispatchDue and ticketLive are the same facts   *)
(* of the outbox.  A uuid4 token is the number of the grant that drew it,  *)
(* so a later grant never reuses an earlier token; NoToken is SQL NULL.    *)
(*                                                                         *)
(* Here and in the modules above this one, a definition under "Bug:" is    *)
(* the next one with a plausible mistake in it.  No specification uses it; *)
(* PROJECT.json names the property that notices the mistake.               *)
(***************************************************************************)
EXTENDS Integers

CONSTANT MaxAttempts    \* DOCUMENT_QUEUE_MAX_ATTEMPTS

\* DocumentQueueService.__init__ refuses max_attempts <= 0.
ASSUME MaxAttemptsAssumption == MaxAttempts \in Nat \ {0}

NoToken == 0

\* ABSENT is a document nobody has uploaded, DELETED one whose row is gone.
Status == {"ABSENT", "PENDING_REVIEW", "REJECTED", "QUEUED", "PROCESSING",
           "READY", "FAILED", "DELETED"}

DispatchStatus == {"IDLE", "PENDING", "DISPATCHING", "PUBLISHED"}

\* error_code, reduced to what decides a transition.
ErrorCode == {"NONE", "RETRYABLE", "TERMINAL", "MAX_ATTEMPTS_EXCEEDED"}

\* parsed is parsed_object_key: the lease token in the directory it points to.
\* chunks is the document_version of the document_chunk rows, 0 when none.
Row == [status : Status, version : Nat, attempts : Nat, due : BOOLEAN,
        lease : Nat, live : BOOLEAN, reparse : BOOLEAN, error : ErrorCode,
        parsed : Nat, chunks : Nat,
        dispatch : DispatchStatus, dispatchDue : BOOLEAN,
        ticket : Nat, ticketLive : BOOLEAN]

NoRow == [status |-> "ABSENT", version |-> 0, attempts |-> 0, due |-> TRUE,
          lease |-> NoToken, live |-> FALSE, reparse |-> FALSE,
          error |-> "NONE", parsed |-> NoToken, chunks |-> 0,
          dispatch |-> "IDLE", dispatchDue |-> TRUE,
          ticket |-> NoToken, ticketLive |-> FALSE]

DeletedRow == [NoRow EXCEPT !.status = "DELETED"]

-----------------------------------------------------------------------------
(* Outbox columns: document_dispatch.py *)

MarkDispatchPending(r) ==
    [r EXCEPT !.dispatch = "PENDING", !.dispatchDue = TRUE,
              !.ticket = NoToken, !.ticketLive = FALSE]

\* The rows _claim_next selects and _is_claimable accepts.
Dispatchable(r) ==
    \/ r.dispatch = "PENDING" /\ r.dispatchDue
    \/ r.dispatch = "DISPATCHING" /\ ~r.ticketLive

TakeTicket(r, ticket) ==
    [r EXCEPT !.dispatch = "DISPATCHING",
              !.ticket = ticket, !.ticketLive = TRUE]

\* Bug: fenced by the version, not by the outbox lease.
HoldsVersionOnly(r, version, ticket) ==
    r.version = version /\ r.dispatch = "DISPATCHING"

\* The WHERE clause of both updates that end a dispatch.
HoldsTicket(r, version, ticket) ==
    r.version = version /\ r.dispatch = "DISPATCHING" /\ r.ticket = ticket

MarkPublished(r) ==
    [r EXCEPT !.dispatch = "PUBLISHED", !.dispatchDue = TRUE,
              !.ticket = NoToken, !.ticketLive = FALSE]

ReleaseForRetry(r) ==
    [r EXCEPT !.dispatch = "PENDING", !.dispatchDue = FALSE,
              !.ticket = NoToken, !.ticketLive = FALSE]

\* The outbox part of a rejection in review_crawler_submission.
MarkDispatchIdle(r) ==
    [r EXCEPT !.dispatch = "IDLE", !.dispatchDue = TRUE,
              !.ticket = NoToken, !.ticketLive = FALSE]

-----------------------------------------------------------------------------
(* Parse columns: document_queue.py and mark_ready *)

\* The row queue_document_from_path inserts.
InsertedRow(reviewRequired) ==
    LET row == [NoRow EXCEPT !.version = 1,
                    !.status = IF reviewRequired THEN "PENDING_REVIEW"
                                                 ELSE "QUEUED"]
    IN  IF reviewRequired THEN row ELSE MarkDispatchPending(row)

\* Bug: a retry forgets that chunks of an earlier version are to be replaced.
ResetForgetsReparse(r, reparse) ==
    MarkDispatchPending(
        [r EXCEPT !.status = "QUEUED", !.attempts = 0, !.due = TRUE,
                  !.lease = NoToken, !.live = FALSE, !.error = "NONE",
                  !.version = IF reparse THEN @ + 1 ELSE @,
                  !.reparse = reparse])

ResetForQueue(r, reparse) ==
    MarkDispatchPending(
        [r EXCEPT !.status = "QUEUED", !.attempts = 0, !.due = TRUE,
                  !.lease = NoToken, !.live = FALSE, !.error = "NONE",
                  !.version = IF reparse THEN @ + 1 ELSE @,
                  !.reparse = reparse \/ @])

ExpiredProcessing(r) == r.status = "PROCESSING" /\ ~r.live

Claimable(r) == (r.status = "QUEUED" /\ r.due) \/ ExpiredProcessing(r)

ExhaustAttempts(r) ==
    [r EXCEPT !.status = "FAILED", !.error = "MAX_ATTEMPTS_EXCEEDED",
              !.lease = NoToken, !.live = FALSE]

TakeLease(r, token) ==
    [r EXCEPT !.status = "PROCESSING", !.attempts = @ + 1,
              !.lease = token, !.live = TRUE, !.error = "NONE"]

\* Bug: any worker passes while somebody holds the lease.
OwnsAnyLease(r, token) == r.status = "PROCESSING" /\ r.live

\* The fence shared by renew_lease, owns_lease, fail_or_retry and mark_ready.
OwnsLease(r, token) ==
    r.status = "PROCESSING" /\ r.lease = token /\ r.live

RenewLease(r) == [r EXCEPT !.live = TRUE]

\* Bug: gives up one attempt early.
ShouldRetryStrict(attempt, retryable) == retryable /\ attempt + 1 < MaxAttempts

ShouldRetry(attempt, retryable) == retryable /\ attempt < MaxAttempts

FailOrRetry(r, attempt, retryable) ==
    LET again == ShouldRetry(attempt, retryable)
    IN  [r EXCEPT !.status = IF again THEN "QUEUED" ELSE "FAILED",
                  !.due = ~again,
                  !.error = IF retryable THEN "RETRYABLE" ELSE "TERMINAL",
                  !.lease = NoToken, !.live = FALSE]

\* _replace_chunk_records and mark_ready commit in one transaction.
MarkReady(r, token, version) ==
    [r EXCEPT !.status = "READY", !.due = TRUE, !.lease = NoToken,
              !.live = FALSE, !.error = "NONE", !.reparse = FALSE,
              !.parsed = token, !.chunks = version]
=============================================================================
