------------------------------ MODULE ReportRow ------------------------------
(***************************************************************************)
(* The row of a report run and the functions from row to row the services  *)
(* apply to it inside one transaction: src/app/services/report_queue.py    *)
(* (state and lease), src/app/services/report_dispatch.py (outbox state    *)
(* and its lease) and the requests of src/app/api/reports.py.              *)
(*                                                                         *)
(* Time and tokens are abstracted as in DocumentRow: a timestamp is still  *)
(* ahead or it is not, a token is the number of the grant that drew it,    *)
(* and 0 is SQL NULL.  available_at is never later than                    *)
(* dispatch_available_at, so a dispatch that is due has a run that is due. *)
(* The minute STRANDED_LEASE_GRACE adds to an expired lease is part of     *)
(* "some time later".  A report and a draft are named by the attempt whose *)
(* agent wrote them.                                                       *)
(***************************************************************************)
EXTENDS Integers

CONSTANT MaxAttempts    \* REPORT_QUEUE_MAX_ATTEMPTS

\* The setting is declared with gt=0.
ASSUME ReportAttemptsAssumption == MaxAttempts \in Nat \ {0}

NoToken == 0

\* ABSENT is a run nobody has asked for yet, DELETED one whose row is gone.
State == {"ABSENT", "PENDING", "PROCESSING", "NEEDS_INPUT", "SUCCEEDED",
          "FAILED", "CANCELLED", "STALE_DOCUMENT", "DELETED"}

Active == {"PENDING", "PROCESSING"}

\* REPORT_TERMINAL_STATES; retry_report_run leads out of FAILED.
Terminal == {"SUCCEEDED", "FAILED", "CANCELLED", "STALE_DOCUMENT"}

DispatchState == {"PENDING", "DISPATCHING", "PUBLISHED", "CANCELLED"}

\* error_code: what gave a run up.
ReportError == {"NONE", "RETRYABLE", "FATAL", "AGENT_BUSY", "MAX_ATTEMPTS_EXCEEDED"}

\* resumed: stage is RESUMING.  manifest: the report its hash describes.
ReportRunRow ==
    [state : State, attempts : Nat, due : BOOLEAN, lease : Nat, live : BOOLEAN,
     resumed : BOOLEAN, error : ReportError, draft : Nat, ir : Nat, manifest : Nat,
     dispatch : DispatchState, dispatchDue : BOOLEAN,
     ticket : Nat, ticketLive : BOOLEAN]

NoRun == [state |-> "ABSENT", attempts |-> 0, due |-> TRUE, lease |-> NoToken,
          live |-> FALSE, resumed |-> FALSE, error |-> "NONE",
          draft |-> NoToken, ir |-> NoToken, manifest |-> NoToken,
          dispatch |-> "CANCELLED", dispatchDue |-> TRUE,
          ticket |-> NoToken, ticketLive |-> FALSE]

DeletedRun == [NoRun EXCEPT !.state = "DELETED"]

-----------------------------------------------------------------------------
(* Outbox columns *)

MarkReportPending(r) ==
    [r EXCEPT !.dispatch = "PENDING", !.dispatchDue = TRUE,
              !.ticket = NoToken, !.ticketLive = FALSE]

\* _claimable, which dispatch(run) applies to one run.
ReportDispatchable(r) ==
    \/ r.dispatch = "PENDING" /\ r.dispatchDue
    \/ r.dispatch = "DISPATCHING" /\ ~r.ticketLive

\* A worker died under a message that was delivered and is gone.
Abandoned(r) ==
    r.state = "PROCESSING" /\ r.dispatch = "PUBLISHED" /\ ~r.live

\* Bug: the reconciler does not look for runs whose worker died.
SelectedPublishedForgotten(r) == ReportDispatchable(r)

\* What _claim_next selects.
Selected(r) == ReportDispatchable(r) \/ Abandoned(r)

TakeReportTicket(r, ticket) ==
    [r EXCEPT !.dispatch = "DISPATCHING", !.ticket = ticket, !.ticketLive = TRUE]

\* Bug: fenced by the outbox token alone, which a cancellation leaves in place.
HoldsReportTokenOnly(r, ticket) == r.ticket = ticket

\* The WHERE clause of both updates that end a dispatch.
HoldsReportTicket(r, ticket) == r.dispatch = "DISPATCHING" /\ r.ticket = ticket

\* Bug: takes a run whose message is out for a run that is being worked on.
MarkReportPublishedStarts(r) ==
    [r EXCEPT !.state = "PROCESSING", !.dispatch = "PUBLISHED",
              !.dispatchDue = TRUE, !.ticket = NoToken, !.ticketLive = FALSE]

MarkReportPublished(r) ==
    [r EXCEPT !.dispatch = "PUBLISHED", !.dispatchDue = TRUE,
              !.ticket = NoToken, !.ticketLive = FALSE]

ReleaseReport(r) ==
    [r EXCEPT !.dispatch = "PENDING", !.dispatchDue = FALSE,
              !.ticket = NoToken, !.ticketLive = FALSE]

-----------------------------------------------------------------------------
(* Requests *)

\* The row create_report inserts.
CreatedRun == MarkReportPending([NoRun EXCEPT !.state = "PENDING"])

\* The outbox token stays; the state alone says that nothing is to be sent.
CancelRun(r) ==
    [r EXCEPT !.state = "CANCELLED", !.due = TRUE,
              !.lease = NoToken, !.live = FALSE,
              !.dispatch = "CANCELLED", !.dispatchDue = TRUE]

RetryRun(r) ==
    MarkReportPending([r EXCEPT !.state = "PENDING", !.attempts = 0,
                                !.due = TRUE, !.error = "NONE",
                                !.resumed = FALSE])

\* The end of answer_report_questions when nothing is left to ask.
ResumeRun(r) ==
    MarkReportPending([r EXCEPT !.state = "PENDING", !.due = TRUE,
                                !.error = "NONE", !.resumed = TRUE])

-----------------------------------------------------------------------------
(* ReportRunQueueService and process_payload *)

\* Unlike every other write of a worker this one has no fence.
MarkStale(r) ==
    [r EXCEPT !.state = "STALE_DOCUMENT", !.lease = NoToken, !.live = FALSE,
              !.error = "FATAL"]

ReportClaimable(r) ==
    \/ r.state = "PENDING" /\ r.due
    \/ r.state = "PROCESSING" /\ ~r.live

ExhaustRun(r) ==
    [r EXCEPT !.state = "FAILED", !.error = "MAX_ATTEMPTS_EXCEEDED",
              !.lease = NoToken, !.live = FALSE]

\* Bug: the next attempt finds the draft of the one before.
TakeReportLeaseKeepsDraft(r, token) ==
    [r EXCEPT !.state = "PROCESSING", !.attempts = @ + 1, !.resumed = FALSE,
              !.lease = token, !.live = TRUE, !.error = "NONE"]

TakeReportLease(r, token) ==
    [r EXCEPT !.state = "PROCESSING", !.attempts = @ + 1, !.resumed = FALSE,
              !.draft = NoToken, !.lease = token, !.live = TRUE,
              !.error = "NONE"]

\* Bug: whoever is busy with the run may end it.
HoldsAnyReportLease(r, token) == r.state = "PROCESSING"

\* The WHERE clause of fail, and of the re-read at the start of an attempt.
HoldsReportLease(r, token) == r.state = "PROCESSING" /\ r.lease = token

\* The WHERE clause of renew and complete, and of _authorized_run.
OwnsReportLease(r, token) == HoldsReportLease(r, token) /\ r.live

Succeed(r, ir) ==
    [r EXCEPT !.state = "SUCCEEDED", !.due = TRUE, !.lease = NoToken,
              !.live = FALSE, !.ir = ir, !.manifest = ir]

\* Bug: a round of questions costs an attempt.
AwaitInputCounts(r) ==
    [r EXCEPT !.state = "NEEDS_INPUT", !.due = TRUE, !.lease = NoToken,
              !.live = FALSE, !.ir = NoToken, !.manifest = NoToken]

AwaitInput(r) ==
    [r EXCEPT !.state = "NEEDS_INPUT", !.due = TRUE, !.lease = NoToken,
              !.live = FALSE, !.ir = NoToken, !.manifest = NoToken,
              !.attempts = 0]

RetriesLeft(attempt, error) == error = "RETRYABLE" /\ attempt < MaxAttempts

\* Bug: the message of the next attempt goes out before its delay is over.
FailRunSendsAtOnce(r, attempt, error) ==
    LET failed == [r EXCEPT !.lease = NoToken, !.live = FALSE, !.error = error]
    IN  IF RetriesLeft(attempt, error)
        THEN [MarkReportPending(failed) EXCEPT !.state = "PENDING", !.due = FALSE]
        ELSE [failed EXCEPT !.state = "FAILED", !.due = TRUE]

FailRun(r, attempt, error) ==
    LET failed == [r EXCEPT !.lease = NoToken, !.live = FALSE, !.error = error]
    IN  IF RetriesLeft(attempt, error)
        THEN [ReleaseReport(failed) EXCEPT !.state = "PENDING", !.due = FALSE]
        ELSE [failed EXCEPT !.state = "FAILED", !.due = TRUE]
=============================================================================
