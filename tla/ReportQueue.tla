----------------------------- MODULE ReportQueue -----------------------------
(***************************************************************************)
(* ReportRunQueueService, the report worker and the report API: workers    *)
(* take, renew, lose and give back the lease on a run while users create,  *)
(* cancel, retry, resume and delete it and its document changes under it   *)
(* (src/app/services/report_queue.py, src/app/api/reports.py and           *)
(* src/app/workers/report_generation_worker.py).                           *)
(*                                                                         *)
(* What an attempt does between its claim and its end is one unspecified   *)
(* computation, opened by ReportAgent.  How a worker comes to look at a    *)
(* run is left open too: ReportDispatch adds the outbox and the broker.    *)
(***************************************************************************)
EXTENDS ReportRow

CONSTANTS Runs,         \* report run ids
          Workers,      \* concurrent message callbacks
          NoWork,       \* what a worker without a claim holds
          Inline,       \* runs over uploaded material instead of a document
          MaxRounds,    \* bound: retries and resumptions per run
          MaxFaults     \* bound: crashes, stalls and errors of the environment

ASSUME ReportBoundsAssumption ==
    MaxRounds \in Nat /\ MaxFaults \in Nat /\ Inline \subseteq Runs

VARIABLES run,          \* the report_run table
          issued,       \* per run, how many lease tokens were drawn
          held,         \* per worker, its ReportRunClaim
          changed,      \* runs whose document is no longer the frozen one
          deleting,     \* runs a DELETE has checked and not yet removed
          rounds,       \* per run, retries and resumptions so far
          faults        \* faults so far

reportVars == <<run, issued, held, changed, deleting, rounds, faults>>

\* What a failure outside an attempt leaves alone.
unfailedVars == <<run, issued, held, changed, deleting, rounds>>

\* ReportRunClaim, and whether its heartbeat has not died of an exception.  A
\* heartbeat that stops because renew found the lease lost changes nothing:
\* neither does the lease of that claim come alive again.
Work == [run : Runs, lease : Nat, attempt : Nat, beating : BOOLEAN]

ASSUME NoWorkAssumption == NoWork \notin Work

ReportInit ==
    /\ run = [r \in Runs |-> NoRun]
    /\ issued = [r \in Runs |-> 0]
    /\ held = [w \in Workers |-> NoWork]
    /\ changed = {}
    /\ deleting = {}
    /\ rounds = [r \in Runs |-> 0]
    /\ faults = 0

Busy(w) == held[w] # NoWork

Owns(w) == Busy(w) /\ OwnsReportLease(run[held[w].run], held[w].lease)

Holds(w) == Busy(w) /\ HoldsReportLease(run[held[w].run], held[w].lease)

Fault == faults < MaxFaults /\ faults' = faults + 1

SetRun(r, row) == run' = [run EXCEPT ![r] = row]

Release(w) == held' = [held EXCEPT ![w] = NoWork]

Exists(r) == run[r].state \notin {"ABSENT", "DELETED"}

-----------------------------------------------------------------------------
(* Requests; all but DELETE hold the row lock from the check to the commit. *)

Create(r) ==
    /\ run[r].state = "ABSENT"
    /\ SetRun(r, CreatedRun)
    /\ UNCHANGED <<issued, held, changed, deleting, rounds, faults>>

\* Bug: whatever is not finished yet, a failed run included.
CancelUnfinished(r) ==
    /\ Exists(r) /\ run[r].state # "SUCCEEDED"
    /\ SetRun(r, CancelRun(run[r]))
    /\ UNCHANGED <<issued, held, changed, deleting, rounds, faults>>

Cancel(r) ==
    /\ run[r].state \in {"PENDING", "PROCESSING", "NEEDS_INPUT"}
    /\ SetRun(r, CancelRun(run[r]))
    /\ UNCHANGED <<issued, held, changed, deleting, rounds, faults>>

CountRound(r) ==
    /\ rounds[r] < MaxRounds
    /\ rounds' = [rounds EXCEPT ![r] = @ + 1]

Retry(r) ==
    /\ run[r].state = "FAILED"
    /\ r \notin changed
    /\ CountRound(r)
    /\ SetRun(r, RetryRun(run[r]))
    /\ UNCHANGED <<issued, held, changed, deleting, faults>>

\* answer_report_questions with the last open question.
Resume(r) ==
    /\ run[r].state = "NEEDS_INPUT"
    /\ CountRound(r)
    /\ SetRun(r, ResumeRun(run[r]))
    /\ UNCHANGED <<issued, held, changed, deleting, faults>>

\* delete_report_run reads the state without a lock.
AdmitDelete(r) ==
    /\ Exists(r) /\ run[r].state \notin Active
    /\ r \notin deleting
    /\ deleting' = deleting \cup {r}
    /\ UNCHANGED <<run, issued, held, changed, rounds, faults>>

DeleteRun(r) ==
    /\ r \in deleting
    /\ SetRun(r, DeletedRun)
    /\ deleting' = deleting \ {r}
    /\ UNCHANGED <<issued, held, changed, rounds, faults>>

\* The source document is reparsed or deleted: it never becomes the frozen
\* version again.  Uploaded material is frozen with the run.
DocumentChanges(r) ==
    /\ Exists(r) /\ r \notin changed \cup Inline
    /\ changed' = changed \cup {r}
    /\ UNCHANGED <<run, issued, held, deleting, rounds, faults>>

\* What the agent writes for the attempt t: a new draft, or a checked report.
AgentWrites(r, t) ==
    /\ Exists(r)
    /\ \/ SetRun(r, [run[r] EXCEPT !.draft = t])
       \/ SetRun(r, [run[r] EXCEPT !.ir = t])
    /\ UNCHANGED <<issued, held, changed, deleting, rounds, faults>>

\* A dispatcher moves the outbox columns of a run, and nothing else of it.
OutboxWrites(r) ==
    /\ Exists(r)
    /\ run'[r] \in ReportRunRow
    /\ SetRun(r, [run[r] EXCEPT !.dispatch = run'[r].dispatch,
                               !.dispatchDue = run'[r].dispatchDue,
                               !.ticket = run'[r].ticket,
                               !.ticketLive = run'[r].ticketLive])
    /\ Fault \/ UNCHANGED faults
    /\ UNCHANGED <<issued, held, changed, deleting, rounds>>

\* process_payload finds the document changed, whatever the run's state.
DetectStale(r) ==
    /\ Exists(r) /\ r \in changed
    /\ SetRun(r, MarkStale(run[r]))
    /\ UNCHANGED <<issued, held, changed, deleting, rounds, faults>>

Request(r) ==
    \/ Create(r) \/ Cancel(r) \/ Retry(r) \/ AdmitDelete(r) \/ DeleteRun(r)
    \/ DocumentChanges(r)

-----------------------------------------------------------------------------
(* ReportRunQueueService as the worker calls it *)

\* claim finds the attempts used up: the last owner died.
Exhaust(w, r) ==
    /\ ~Busy(w)
    /\ ReportClaimable(run[r])
    /\ run[r].attempts >= MaxAttempts
    /\ SetRun(r, ExhaustRun(run[r]))
    /\ UNCHANGED <<issued, held, changed, deleting, rounds, faults>>

\* claim grants a lease and the heartbeat starts.
Grant(w, r) ==
    /\ ~Busy(w)
    /\ ReportClaimable(run[r])
    /\ run[r].attempts < MaxAttempts
    /\ LET token == issued[r] + 1 IN
       /\ issued' = [issued EXCEPT ![r] = token]
       /\ SetRun(r, TakeReportLease(run[r], token))
       /\ held' = [held EXCEPT ![w] =
                     [run |-> r, lease |-> token,
                      attempt |-> run[r].attempts + 1, beating |-> TRUE]]
    /\ UNCHANGED <<changed, deleting, rounds, faults>>

\* renew raised: nothing catches it, the heartbeat task is dead.
HeartbeatCrash(w) ==
    /\ Busy(w) /\ held[w].beating
    /\ Fault
    /\ held' = [held EXCEPT ![w].beating = FALSE]
    /\ UNCHANGED <<run, issued, changed, deleting, rounds>>

\* complete with a published report.
Publish(w, ir) ==
    /\ Owns(w)
    /\ SetRun(held[w].run, Succeed(run[held[w].run], ir))
    /\ Release(w)
    /\ UNCHANGED <<issued, changed, deleting, rounds, faults>>

\* complete with questions for the user.
Ask(w) ==
    /\ Owns(w)
    /\ SetRun(held[w].run, AwaitInput(run[held[w].run]))
    /\ Release(w)
    /\ UNCHANGED <<issued, changed, deleting, rounds, faults>>

\* fail; an expired lease that nobody took over is still good enough.
Fail(w, error) ==
    /\ Holds(w)
    /\ LET c == held[w] IN SetRun(c.run, FailRun(run[c.run], c.attempt, error))
    /\ Release(w)
    /\ UNCHANGED <<issued, changed, deleting, rounds, faults>>

\* The re-read, complete or fail finds the lease gone and writes nothing.
LoseLease(w) ==
    /\ Busy(w) /\ ~Owns(w)
    /\ Release(w)
    /\ UNCHANGED <<run, issued, changed, deleting, rounds, faults>>

-----------------------------------------------------------------------------
(* The environment *)

\* The process dies, or fail itself raises: the row is left alone.
Crash(w) ==
    /\ Busy(w)
    /\ Fault
    /\ Release(w)
    /\ UNCHANGED <<run, issued, changed, deleting, rounds>>

Unattended(r) ==
    \A w \in Workers : Busy(w) /\ held[w].run = r /\ held[w].lease = run[r].lease
                       => ~held[w].beating

\* lease_expires_at passes; while its heartbeat renews it, only by a stall.
LeaseLapse(r) ==
    /\ run[r].live
    /\ \/ Unattended(r) /\ UNCHANGED faults
       \/ ~Unattended(r) /\ Fault
    /\ run' = [run EXCEPT ![r].live = FALSE]
    /\ UNCHANGED <<issued, held, changed, deleting, rounds>>

\* The delay of a retry, or of a delivery, is over.
BecomesDue(r) ==
    /\ ~run[r].due \/ ~run[r].dispatchDue
    /\ run' = [run EXCEPT ![r].due = TRUE, ![r].dispatchDue = TRUE]
    /\ UNCHANGED <<issued, held, changed, deleting, rounds, faults>>

\* Something breaks that no run and no worker notices.
Mishap == Fault /\ UNCHANGED unfailedVars

WorkerStep(w) ==
    \/ \E r \in Runs : Exhaust(w, r) \/ Grant(w, r)
    \/ HeartbeatCrash(w)
    \/ Ask(w) \/ LoseLease(w) \/ Crash(w)
    \/ Busy(w) /\ \E ir \in 0..issued[held[w].run] : Publish(w, ir)
    \/ \E error \in ReportError \ {"NONE", "MAX_ATTEMPTS_EXCEEDED"} : Fail(w, error)

RunStep(r) ==
    \/ Request(r) \/ Resume(r) \/ DetectStale(r)
    \/ \E t \in 0..issued[r] : AgentWrites(r, t)
    \/ OutboxWrites(r) \/ LeaseLapse(r) \/ BecomesDue(r)

ReportNext ==
    \/ \E w \in Workers : WorkerStep(w)
    \/ \E r \in Runs : RunStep(r)
    \/ Mishap

ReportSpec == ReportInit /\ [][ReportNext]_reportVars

-----------------------------------------------------------------------------
(* Properties *)

\* Every variable has its type.
ReportTypeOK ==
    /\ run \in [Runs -> ReportRunRow]
    /\ issued \in [Runs -> Nat]
    /\ held \in [Workers -> Work \cup {NoWork}]
    /\ changed \subseteq Runs
    /\ deleting \subseteq Runs
    /\ rounds \in [Runs -> Nat]
    /\ faults \in Nat

\* However leases expire and are taken over, at most one worker can still end
\* the attempt of a run, and only a run in PROCESSING has a lease to end.
OneReportOwner ==
    /\ \A r \in Runs : run[r].lease # NoToken => run[r].state = "PROCESSING"
    /\ \A v, w \in Workers :
          Holds(v) /\ Holds(w) /\ held[v].run = held[w].run => v = w

\* Waiting for the user is no failure: however many attempts and rounds of
\* questions a run has behind it, one the user has answered can be tried again
\* (comment in complete: "多轮提问的任务会在第三轮被 MAX_ATTEMPTS 判死").
AnsweredRunIsTried ==
    \A r \in Runs : run[r].state = "PENDING" /\ run[r].resumed
                       => run[r].attempts < MaxAttempts

\* What a row promises by itself: nothing is left of a run that is gone, a lease
\* is only on a run in PROCESSING, a run that is worked on has forgotten how it
\* came to run, and one that was, or can be, answered has an attempt left.
SoundRow(row) ==
    /\ row.state \in {"ABSENT", "DELETED"} => row \in {NoRun, DeletedRun}
    /\ row.lease # NoToken => row.state = "PROCESSING"
    /\ row.state = "PROCESSING" => ~row.resumed
    /\ row.state = "NEEDS_INPUT" => row.attempts < MaxAttempts
    /\ row.state = "PENDING" /\ row.resumed => row.attempts < MaxAttempts

\* The inductive invariant: tokens are drawn once and given to one worker.
ReportInvariant ==
    /\ \A r \in Runs : SoundRow(run[r]) /\ run[r].lease <= issued[r]
    /\ \A w \in Workers : Busy(w) => /\ held[w].lease # NoToken
                                   /\ held[w].lease <= issued[held[w].run]
    /\ \A v, w \in Workers :
          Busy(v) /\ Busy(w) /\ held[v].run = held[w].run
              /\ held[v].lease = held[w].lease => v = w

\* What has ended stays ended: a run leaves a terminal state by a retry after
\* a failure, by deletion, or because a late message finds its document
\* changed; never because of a worker that was still busy with it.
TerminalIsFinal ==
    [][\A r \in Runs : run[r].state \in Terminal =>
          \/ run'[r].state = run[r].state
          \/ run'[r].state = "DELETED"
          \/ run'[r].state = "STALE_DOCUMENT" /\ r \in changed
          \/ run[r].state = "FAILED" /\ run'[r].state = "PENDING"]_reportVars
=============================================================================
