-------------------------- MODULE ReportQueueProofs --------------------------
(***************************************************************************)
(* Proofs about ReportQueue: for any runs, workers and bounds, the leases  *)
(* of report runs keep their types, the inductive invariant and the safety *)
(* properties that follow, and what has ended stays ended.                 *)
(***************************************************************************)
EXTENDS ReportQueue, TLAPS

-----------------------------------------------------------------------------
(* What the row operations return. *)

LEMMA NoRunTyped == NoRun \in ReportRunRow /\ DeletedRun \in ReportRunRow
  BY DEF NoRun, DeletedRun, ReportRunRow, State, DispatchState, ReportError,
         NoToken

\* Any row an operation returns is a row; with what it says about the lease,
\* the attempts and the state.
LEMMA PendingRow ==
    ASSUME NEW r \in ReportRunRow
    PROVE  LET s == MarkReportPending(r) IN
           /\ s \in ReportRunRow
           /\ s.state = r.state /\ s.lease = r.lease
           /\ s.resumed = r.resumed /\ s.attempts = r.attempts
  BY DEF MarkReportPending, ReportRunRow, DispatchState, NoToken

LEMMA ReleasedRow ==
    ASSUME NEW r \in ReportRunRow
    PROVE  LET s == ReleaseReport(r) IN
           /\ s \in ReportRunRow
           /\ s.state = r.state /\ s.lease = r.lease
           /\ s.resumed = r.resumed /\ s.attempts = r.attempts
  BY DEF ReleaseReport, ReportRunRow, DispatchState, NoToken

LEMMA CreatedRow ==
    /\ CreatedRun \in ReportRunRow
    /\ CreatedRun.state = "PENDING" /\ CreatedRun.lease = NoToken
    /\ ~CreatedRun.resumed /\ CreatedRun.attempts = 0
<1> DEFINE r == [NoRun EXCEPT !.state = "PENDING"]
<1>1. r \in ReportRunRow
  BY NoRunTyped DEF ReportRunRow, State
<1>2. /\ r.state = "PENDING" /\ r.lease = NoToken
      /\ r.resumed = FALSE /\ r.attempts = 0
  BY DEF NoRun
<1>3. CreatedRun = MarkReportPending(r)
  BY DEF CreatedRun
<1> HIDE DEF r
<1> QED
  BY <1>1, <1>2, <1>3, PendingRow

LEMMA CancelledRow ==
    ASSUME NEW r \in ReportRunRow
    PROVE  LET s == CancelRun(r) IN
           /\ s \in ReportRunRow
           /\ s.state = "CANCELLED" /\ s.lease = NoToken
  BY DEF CancelRun, ReportRunRow, State, DispatchState, NoToken

LEMMA RetriedRow ==
    ASSUME NEW r \in ReportRunRow
    PROVE  LET s == RetryRun(r) IN
           /\ s \in ReportRunRow
           /\ s.state = "PENDING" /\ s.lease = r.lease
           /\ ~s.resumed /\ s.attempts = 0
<1> DEFINE q == [r EXCEPT !.state = "PENDING", !.attempts = 0, !.due = TRUE,
                          !.error = "NONE", !.resumed = FALSE]
<1>1. /\ q \in ReportRunRow /\ q.state = "PENDING" /\ q.lease = r.lease
      /\ q.resumed = FALSE /\ q.attempts = 0
  BY DEF ReportRunRow, State, ReportError
<1>2. RetryRun(r) = MarkReportPending(q)
  BY DEF RetryRun
<1> HIDE DEF q
<1> QED
  BY <1>1, <1>2, PendingRow

LEMMA ResumedRow ==
    ASSUME NEW r \in ReportRunRow
    PROVE  LET s == ResumeRun(r) IN
           /\ s \in ReportRunRow
           /\ s.state = "PENDING" /\ s.lease = r.lease
           /\ s.attempts = r.attempts
<1> DEFINE q == [r EXCEPT !.state = "PENDING", !.due = TRUE, !.error = "NONE",
                          !.resumed = TRUE]
<1>1. /\ q \in ReportRunRow /\ q.state = "PENDING" /\ q.lease = r.lease
      /\ q.attempts = r.attempts
  BY DEF ReportRunRow, State, ReportError
<1>2. ResumeRun(r) = MarkReportPending(q)
  BY DEF ResumeRun
<1> HIDE DEF q
<1> QED
  BY <1>1, <1>2, PendingRow

LEMMA StaleRow ==
    ASSUME NEW r \in ReportRunRow
    PROVE  LET s == MarkStale(r) IN
           /\ s \in ReportRunRow
           /\ s.state = "STALE_DOCUMENT" /\ s.lease = NoToken
  BY DEF MarkStale, ReportRunRow, State, ReportError, NoToken

LEMMA ExhaustedRow ==
    ASSUME NEW r \in ReportRunRow
    PROVE  LET s == ExhaustRun(r) IN
           /\ s \in ReportRunRow
           /\ s.state = "FAILED" /\ s.lease = NoToken
  BY DEF ExhaustRun, ReportRunRow, State, ReportError, NoToken

LEMMA LeasedRow ==
    ASSUME NEW r \in ReportRunRow, NEW t \in Nat
    PROVE  LET s == TakeReportLease(r, t) IN
           /\ s \in ReportRunRow
           /\ s.state = "PROCESSING" /\ s.lease = t /\ ~s.resumed
           /\ s.attempts = r.attempts + 1
<1>1. r.attempts + 1 \in Nat
  BY DEF ReportRunRow
<1>2. TakeReportLease(r, t) \in ReportRunRow
  BY <1>1 DEF TakeReportLease, ReportRunRow, State, ReportError, NoToken
<1> QED
  BY <1>2 DEF TakeReportLease, ReportRunRow

LEMMA SucceededRow ==
    ASSUME NEW r \in ReportRunRow, NEW ir \in Nat
    PROVE  LET s == Succeed(r, ir) IN
           /\ s \in ReportRunRow
           /\ s.state = "SUCCEEDED" /\ s.lease = NoToken
  BY DEF Succeed, ReportRunRow, State, NoToken

LEMMA AskingRow ==
    ASSUME NEW r \in ReportRunRow
    PROVE  LET s == AwaitInput(r) IN
           /\ s \in ReportRunRow
           /\ s.state = "NEEDS_INPUT" /\ s.lease = NoToken /\ s.attempts = 0
  BY DEF AwaitInput, ReportRunRow, State, NoToken

LEMMA FailedRow ==
    ASSUME NEW r \in ReportRunRow, NEW n \in Nat, NEW error \in ReportError
    PROVE  LET s == FailRun(r, n, error) IN
           /\ s \in ReportRunRow
           /\ s.state \in {"PENDING", "FAILED"} /\ s.lease = NoToken
           /\ s.resumed = r.resumed
<1> DEFINE q == [r EXCEPT !.lease = NoToken, !.live = FALSE, !.error = error]
           Ended(p, state, due) == [p EXCEPT !.state = state, !.due = due]
<1>1. q \in ReportRunRow /\ q.lease = NoToken /\ q.resumed = r.resumed
  BY DEF ReportRunRow, NoToken
<1>2. FailRun(r, n, error) = IF RetriesLeft(n, error)
                             THEN Ended(ReleaseReport(q), "PENDING", FALSE)
                             ELSE Ended(q, "FAILED", TRUE)
  BY DEF FailRun
<1>3. ASSUME NEW p \in ReportRunRow, NEW state \in {"PENDING", "FAILED"},
             NEW due \in BOOLEAN
      PROVE  /\ Ended(p, state, due) \in ReportRunRow
             /\ Ended(p, state, due).state = state
             /\ Ended(p, state, due).lease = p.lease
             /\ Ended(p, state, due).resumed = p.resumed
  BY DEF ReportRunRow, State
<1> HIDE DEF q, Ended
<1>4. /\ ReleaseReport(q) \in ReportRunRow /\ ReleaseReport(q).lease = NoToken
      /\ ReleaseReport(q).resumed = r.resumed
  BY <1>1, ReleasedRow
<1>5. /\ Ended(ReleaseReport(q), "PENDING", FALSE) \in ReportRunRow
      /\ Ended(ReleaseReport(q), "PENDING", FALSE).state = "PENDING"
      /\ Ended(ReleaseReport(q), "PENDING", FALSE).lease = NoToken
      /\ Ended(ReleaseReport(q), "PENDING", FALSE).resumed = r.resumed
  BY <1>3, <1>4
<1>6. /\ Ended(q, "FAILED", TRUE) \in ReportRunRow
      /\ Ended(q, "FAILED", TRUE).state = "FAILED"
      /\ Ended(q, "FAILED", TRUE).lease = NoToken
      /\ Ended(q, "FAILED", TRUE).resumed = r.resumed
  BY <1>1, <1>3
<1> QED
  BY <1>2, <1>5, <1>6

-----------------------------------------------------------------------------
(* Types *)

LEMMA ReportInitTyped == ReportInit => ReportTypeOK
  BY NoRunTyped DEF ReportInit, ReportTypeOK

\* What is known of a worker's claim and of the run it names.
LEMMA WorkTyped ==
    ASSUME ReportTypeOK, NEW w \in Workers, Busy(w)
    PROVE  /\ held[w] \in Work /\ held[w].run \in Runs
           /\ held[w].lease \in Nat /\ held[w].attempt \in Nat
           /\ run[held[w].run] \in ReportRunRow
           /\ issued[held[w].run] \in Nat
<1>1. held[w] \in Work
  BY DEF ReportTypeOK, Busy
<1> QED
  BY <1>1 DEF ReportTypeOK, Work

\* Replacing one row by a row: the others, and the types, stay.
LEMMA SetRunRow ==
    ASSUME ReportTypeOK, NEW r \in Runs, NEW row \in ReportRunRow, SetRun(r, row)
    PROVE  /\ run' \in [Runs -> ReportRunRow]
           /\ run'[r] = row
           /\ \A q \in Runs : q # r => run'[q] = run[q]
  BY DEF SetRun, ReportTypeOK

LEMMA RunStepTyped ==
    ASSUME ReportTypeOK, NEW r \in Runs, RunStep(r)
    PROVE  ReportTypeOK'
<1>1. run[r] \in ReportRunRow /\ issued[r] \in Nat
  BY DEF ReportTypeOK
<1>2. CASE Create(r)
  BY <1>2, CreatedRow, SetRunRow DEF Create, ReportTypeOK
<1>3. CASE Cancel(r)
  BY <1>1, <1>3, CancelledRow, SetRunRow DEF Cancel, ReportTypeOK
<1>4. CountRound(r) => rounds' \in [Runs -> Nat]
  BY DEF CountRound, ReportTypeOK
<1>5. CASE Retry(r)
  BY <1>1, <1>4, <1>5, RetriedRow, SetRunRow DEF Retry, ReportTypeOK
<1>6. CASE Resume(r)
  BY <1>1, <1>4, <1>6, ResumedRow, SetRunRow DEF Resume, ReportTypeOK
<1>7. CASE AdmitDelete(r)
  BY <1>7 DEF AdmitDelete, ReportTypeOK
<1>8. CASE DeleteRun(r)
  BY <1>8, NoRunTyped, SetRunRow DEF DeleteRun, ReportTypeOK
<1>9. CASE DocumentChanges(r)
  BY <1>9 DEF DocumentChanges, ReportTypeOK
<1>10. ASSUME NEW t \in 0..issued[r], AgentWrites(r, t) PROVE ReportTypeOK'
  <2>1. /\ [run[r] EXCEPT !.draft = t] \in ReportRunRow
        /\ [run[r] EXCEPT !.ir = t] \in ReportRunRow
    BY <1>1 DEF ReportRunRow
  <2>2. run' \in [Runs -> ReportRunRow]
    BY <1>10, <2>1, SetRunRow DEF AgentWrites
  <2> QED
    BY <1>10, <2>2 DEF AgentWrites, ReportTypeOK
<1>11. CASE OutboxWrites(r)
  <2> DEFINE row == [run[r] EXCEPT !.dispatch = run'[r].dispatch,
                                   !.dispatchDue = run'[r].dispatchDue,
                                   !.ticket = run'[r].ticket,
                                   !.ticketLive = run'[r].ticketLive]
  <2>1. SetRun(r, row) /\ run'[r] \in ReportRunRow
    BY <1>11 DEF OutboxWrites
  <2>2. row \in ReportRunRow
    BY <1>1, <2>1 DEF ReportRunRow
  <2>3. faults' \in Nat
    BY <1>11 DEF OutboxWrites, Fault, ReportTypeOK
  <2> HIDE DEF row
  <2>4. run' \in [Runs -> ReportRunRow]
    BY <2>1, <2>2, SetRunRow
  <2> QED
    BY <1>11, <2>3, <2>4 DEF OutboxWrites, ReportTypeOK
<1>12. CASE DetectStale(r)
  BY <1>1, <1>12, StaleRow, SetRunRow DEF DetectStale, ReportTypeOK
<1>13. CASE LeaseLapse(r)
  <2>1. [run[r] EXCEPT !.live = FALSE] \in ReportRunRow
    BY <1>1 DEF ReportRunRow
  <2>2. faults' \in Nat
    BY <1>13 DEF LeaseLapse, Fault, ReportTypeOK
  <2> QED
    BY <1>13, <2>1, <2>2 DEF LeaseLapse, ReportTypeOK
<1>14. CASE BecomesDue(r)
  <2>1. [run[r] EXCEPT !.due = TRUE, !.dispatchDue = TRUE] \in ReportRunRow
    BY <1>1 DEF ReportRunRow
  <2> QED
    BY <1>14, <2>1 DEF BecomesDue, ReportTypeOK
<1> QED
  BY <1>2, <1>3, <1>5, <1>6, <1>7, <1>8, <1>9, <1>10, <1>11, <1>12, <1>13, <1>14
  DEF RunStep, Request

LEMMA WorkerStepTyped ==
    ASSUME ReportTypeOK, NEW w \in Workers, WorkerStep(w)
    PROVE  ReportTypeOK'
<1>1. ASSUME NEW r \in Runs, Exhaust(w, r) PROVE ReportTypeOK'
  <2>1. ExhaustRun(run[r]) \in ReportRunRow
    BY ExhaustedRow DEF ReportTypeOK
  <2> QED
    BY <1>1, <2>1, SetRunRow DEF Exhaust, ReportTypeOK
<1>2. ASSUME NEW r \in Runs, Grant(w, r) PROVE ReportTypeOK'
  <2> DEFINE c == [run |-> r, lease |-> issued[r] + 1,
                   attempt |-> run[r].attempts + 1, beating |-> TRUE]
             row == TakeReportLease(run[r], issued[r] + 1)
  <2>1. run[r] \in ReportRunRow /\ issued[r] + 1 \in Nat
    BY DEF ReportTypeOK
  <2>2. c \in Work
    BY <2>1 DEF Work, ReportRunRow
  <2>3. row \in ReportRunRow
    BY <2>1, LeasedRow
  <2>4. /\ SetRun(r, row) /\ held' = [held EXCEPT ![w] = c]
        /\ issued' = [issued EXCEPT ![r] = issued[r] + 1]
        /\ UNCHANGED <<changed, deleting, rounds, faults>>
    BY <1>2 DEF Grant
  <2> HIDE DEF c, row
  <2> QED
    BY <2>1, <2>2, <2>3, <2>4, SetRunRow DEF ReportTypeOK
<1>3. CASE HeartbeatCrash(w)
  <2>1. [held[w] EXCEPT !.beating = FALSE] \in Work
    BY <1>3, WorkTyped DEF HeartbeatCrash, Work
  <2> QED
    BY <1>3, <2>1 DEF HeartbeatCrash, Fault, ReportTypeOK
<1>4. CASE Ask(w)
  <2>1. held[w].run \in Runs /\ AwaitInput(run[held[w].run]) \in ReportRunRow
    BY <1>4, WorkTyped, AskingRow DEF Ask, Owns
  <2> QED
    BY <1>4, <2>1, SetRunRow DEF Ask, Release, ReportTypeOK
<1>5. ASSUME Busy(w), NEW ir \in 0..issued[held[w].run], Publish(w, ir)
      PROVE  ReportTypeOK'
  <2>1. held[w].run \in Runs /\ ir \in Nat
    BY <1>5, WorkTyped
  <2>2. Succeed(run[held[w].run], ir) \in ReportRunRow
    BY <1>5, <2>1, WorkTyped, SucceededRow
  <2> QED
    BY <1>5, <2>1, <2>2, SetRunRow DEF Publish, Release, ReportTypeOK
<1>6. ASSUME NEW error \in ReportError, Fail(w, error) PROVE ReportTypeOK'
  <2>1. /\ held[w].run \in Runs
        /\ FailRun(run[held[w].run], held[w].attempt, error) \in ReportRunRow
    BY <1>6, WorkTyped, FailedRow DEF Fail, Holds
  <2> QED
    BY <1>6, <2>1, SetRunRow DEF Fail, Release, ReportTypeOK
<1>7. CASE LoseLease(w) \/ Crash(w)
  BY <1>7 DEF LoseLease, Crash, Fault, Release, ReportTypeOK
<1> QED
  BY <1>1, <1>2, <1>3, <1>4, <1>5, <1>6, <1>7 DEF WorkerStep

LEMMA ReportTypeStep == ReportTypeOK /\ [ReportNext]_reportVars => ReportTypeOK'
<1> SUFFICES ASSUME ReportTypeOK, [ReportNext]_reportVars
             PROVE  ReportTypeOK'
  OBVIOUS
<1>1. CASE UNCHANGED reportVars
  BY <1>1 DEF reportVars, ReportTypeOK
<1>2. CASE Mishap
  BY <1>2 DEF Mishap, Fault, unfailedVars, ReportTypeOK
<1> QED
  BY <1>1, <1>2, RunStepTyped, WorkerStepTyped DEF ReportNext

\* Whatever the runs, workers and bounds, rows, claims and counters stay
\* well-formed.
THEOREM ReportTypeCorrect == ReportSpec => []ReportTypeOK
<1>1. ReportInit => ReportTypeOK
  BY ReportInitTyped
<1>2. ReportTypeOK /\ [ReportNext]_reportVars => ReportTypeOK'
  BY ReportTypeStep
<1> QED
  BY <1>1, <1>2, PTL DEF ReportSpec

-----------------------------------------------------------------------------
(* The inductive invariant.  A step leaves the rows and tokens alone, or it  *)
(* replaces a sound row by a sound one with the same lease or none, or it    *)
(* grants a lease; one lemma for each.                                       *)

\* Every claim that survives the step is the one the worker had.
WorkKept ==
    \A w \in Workers :
        \/ held'[w] = NoWork
        \/ /\ Busy(w)
           /\ held'[w].run = held[w].run /\ held'[w].lease = held[w].lease

LEMMA ReportInitSound == ReportInit => ReportInvariant
  BY ReportAttemptsAssumption
  DEF ReportInit, ReportInvariant, SoundRow, NoRun, NoToken, Busy

LEMMA QuietStep ==
    ASSUME ReportInvariant, WorkKept, UNCHANGED <<run, issued>>
    PROVE  ReportInvariant'
  BY DEF ReportInvariant, WorkKept, Busy, SoundRow

LEMMA RowStep ==
    ASSUME ReportTypeOK, ReportInvariant, NEW r \in Runs,
           NEW row \in ReportRunRow, SetRun(r, row), SoundRow(row),
           row.lease \in {NoToken, run[r].lease}, WorkKept, UNCHANGED issued
    PROVE  ReportInvariant'
<1>1. run'[r] = row /\ \A q \in Runs : q # r => run'[q] = run[q]
  BY SetRunRow
<1>2. issued[r] \in Nat /\ run[r].lease <= issued[r] /\ NoToken <= issued[r]
  BY DEF ReportTypeOK, ReportInvariant, NoToken
<1>3. \A q \in Runs : SoundRow(run'[q]) /\ run'[q].lease <= issued'[q]
  BY <1>1, <1>2 DEF ReportInvariant
<1>4. \A w \in Workers : held'[w] # NoWork =>
         held'[w].lease # NoToken /\ held'[w].lease <= issued'[held'[w].run]
  BY DEF ReportInvariant, WorkKept
<1>5. \A v, w \in Workers :
         held'[v] # NoWork /\ held'[w] # NoWork /\ held'[v].run = held'[w].run
            /\ held'[v].lease = held'[w].lease => v = w
  BY DEF ReportInvariant, WorkKept
<1> QED
  BY <1>3, <1>4, <1>5 DEF ReportInvariant, Busy, SoundRow

\* A grant draws a token above every token a worker holds for the run.
LEMMA GrantStep ==
    ASSUME ReportTypeOK, ReportInvariant, NEW w \in Workers, NEW r \in Runs,
           Grant(w, r)
    PROVE  ReportInvariant'
<1> DEFINE token == issued[r] + 1
           row == TakeReportLease(run[r], token)
           c == [run |-> r, lease |-> token, attempt |-> run[r].attempts + 1,
                 beating |-> TRUE]
<1>1. /\ run[r] \in ReportRunRow /\ issued[r] \in Nat /\ token \in Nat
      /\ token > issued[r] /\ token # NoToken
  BY DEF ReportTypeOK, NoToken
<1>2. /\ row \in ReportRunRow /\ row.state = "PROCESSING" /\ row.lease = token
      /\ ~row.resumed
  BY <1>1, LeasedRow
<1>3. /\ SetRun(r, row) /\ held'[w] = c
      /\ \A v \in Workers : v # w => held'[v] = held[v]
      /\ issued'[r] = token /\ \A q \in Runs : q # r => issued'[q] = issued[q]
  BY DEF Grant, ReportTypeOK
<1>4. c.run = r /\ c.lease = token
  OBVIOUS
<1> HIDE DEF token, row, c
<1>5. run'[r] = row /\ \A q \in Runs : q # r => run'[q] = run[q]
  BY <1>2, <1>3, SetRunRow
<1>6. \A q \in Runs : SoundRow(run'[q]) /\ run'[q].lease <= issued'[q]
  BY <1>1, <1>2, <1>3, <1>5 DEF ReportInvariant, SoundRow
<1>7. ASSUME NEW v \in Workers, v # w, Busy(v)'
      PROVE  /\ Busy(v) /\ held'[v] = held[v] /\ held[v].run \in Runs
             /\ held[v].lease \in Nat /\ held[v].lease # NoToken
             /\ held[v].lease <= issued[held[v].run]
  BY <1>3, <1>7, WorkTyped DEF Busy, ReportInvariant
<1>8. \A v \in Workers : Busy(v)' =>
         held'[v].lease # NoToken /\ held'[v].lease <= issued'[held'[v].run]
  <2>1. ASSUME NEW v \in Workers, v # w, Busy(v)'
        PROVE  held'[v].lease # NoToken /\ held'[v].lease <= issued'[held'[v].run]
    <3>1. CASE held[v].run = r
      BY <1>1, <1>3, <1>7, <2>1, <3>1
    <3>2. CASE held[v].run # r
      BY <1>3, <1>7, <2>1, <3>2
    <3> QED
      BY <3>1, <3>2
  <2>2. held'[w].lease # NoToken /\ held'[w].lease <= issued'[held'[w].run]
    BY <1>1, <1>3, <1>4
  <2> QED
    BY <2>1, <2>2
<1>9. ASSUME NEW v \in Workers, v # w, Busy(v)', held'[v].run = r
      PROVE  held'[v].lease # token
  BY <1>1, <1>7, <1>9
<1>10. \A u, v \in Workers :
          Busy(u)' /\ Busy(v)' /\ held'[u].run = held'[v].run
             /\ held'[u].lease = held'[v].lease => u = v
  BY <1>3, <1>4, <1>7, <1>9 DEF ReportInvariant
<1> QED
  BY <1>6, <1>8, <1>10 DEF ReportInvariant, SoundRow, Busy

LEMMA RunStepSound ==
    ASSUME ReportTypeOK, ReportInvariant, NEW r \in Runs, RunStep(r)
    PROVE  ReportInvariant'
<1>1. /\ run[r] \in ReportRunRow /\ SoundRow(run[r])
      /\ 0 < MaxAttempts /\ run[r].attempts \in Nat
  BY ReportAttemptsAssumption DEF ReportTypeOK, ReportInvariant, ReportRunRow
<1>2. UNCHANGED held => WorkKept
  BY DEF WorkKept, Busy
<1>3. ASSUME NEW row \in ReportRunRow, SetRun(r, row), SoundRow(row),
             row.lease \in {NoToken, run[r].lease}, UNCHANGED <<issued, held>>
      PROVE  ReportInvariant'
  BY <1>2, <1>3, RowStep
<1>4. CASE Create(r)
  <2>1. SoundRow(CreatedRun)
    BY CreatedRow DEF SoundRow
  <2> QED
    BY <1>3, <1>4, <2>1, CreatedRow DEF Create
<1>5. CASE Cancel(r)
  <2>1. SoundRow(CancelRun(run[r]))
    BY <1>1, CancelledRow DEF SoundRow
  <2> QED
    BY <1>1, <1>3, <1>5, <2>1, CancelledRow DEF Cancel
<1>6. CASE Retry(r)
  <2>1. run[r].lease = NoToken
    BY <1>1, <1>6 DEF Retry, SoundRow
  <2>2. SoundRow(RetryRun(run[r]))
    BY <1>1, <2>1, RetriedRow DEF SoundRow
  <2> QED
    BY <1>1, <1>3, <1>6, <2>2, RetriedRow DEF Retry
<1>7. CASE Resume(r)
  <2>1. run[r].lease = NoToken /\ run[r].attempts < MaxAttempts
    BY <1>1, <1>7 DEF Resume, SoundRow
  <2>2. SoundRow(ResumeRun(run[r]))
    BY <1>1, <2>1, ResumedRow DEF SoundRow
  <2> QED
    BY <1>1, <1>3, <1>7, <2>2, ResumedRow DEF Resume
<1>8. CASE AdmitDelete(r) \/ DocumentChanges(r)
  BY <1>2, <1>8, QuietStep DEF AdmitDelete, DocumentChanges
<1>9. CASE DeleteRun(r)
  <2>1. /\ DeletedRun.state = "DELETED" /\ DeletedRun.lease = NoToken
        /\ SoundRow(DeletedRun)
    BY DEF DeletedRun, NoRun, SoundRow
  <2> QED
    BY <1>3, <1>9, <2>1, NoRunTyped DEF DeleteRun
<1>10. ASSUME Exists(r), NEW row \in ReportRunRow, SetRun(r, row),
              row.state = run[r].state, row.lease = run[r].lease,
              row.attempts = run[r].attempts, row.resumed = run[r].resumed,
              UNCHANGED <<issued, held>>
       PROVE  ReportInvariant'
  <2>1. SoundRow(row)
    BY <1>1, <1>10 DEF SoundRow, Exists
  <2> QED
    BY <1>3, <1>10, <2>1
<1>11. ASSUME NEW t \in 0..issued[r], AgentWrites(r, t) PROVE ReportInvariant'
  <2> DEFINE draft == [run[r] EXCEPT !.draft = t]
             ir == [run[r] EXCEPT !.ir = t]
  <2>1. t \in Nat
    BY DEF ReportTypeOK
  <2>2. /\ draft \in ReportRunRow /\ draft.state = run[r].state
        /\ draft.lease = run[r].lease /\ draft.attempts = run[r].attempts
        /\ draft.resumed = run[r].resumed
    BY <1>1, <2>1 DEF ReportRunRow
  <2>3. /\ ir \in ReportRunRow /\ ir.state = run[r].state
        /\ ir.lease = run[r].lease /\ ir.attempts = run[r].attempts
        /\ ir.resumed = run[r].resumed
    BY <1>1, <2>1 DEF ReportRunRow
  <2>4. /\ SetRun(r, draft) \/ SetRun(r, ir)
        /\ Exists(r) /\ UNCHANGED <<issued, held>>
    BY <1>11 DEF AgentWrites
  <2> HIDE DEF draft, ir
  <2> QED
    BY <1>10, <2>2, <2>3, <2>4
<1>12. CASE OutboxWrites(r)
  <2> DEFINE row == [run[r] EXCEPT !.dispatch = run'[r].dispatch,
                                   !.dispatchDue = run'[r].dispatchDue,
                                   !.ticket = run'[r].ticket,
                                   !.ticketLive = run'[r].ticketLive]
  <2>1. /\ SetRun(r, row) /\ run'[r] \in ReportRunRow
        /\ Exists(r) /\ UNCHANGED <<issued, held>>
    BY <1>12 DEF OutboxWrites
  <2>2. /\ row \in ReportRunRow /\ row.state = run[r].state
        /\ row.lease = run[r].lease /\ row.attempts = run[r].attempts
        /\ row.resumed = run[r].resumed
    BY <1>1, <2>1 DEF ReportRunRow
  <2> HIDE DEF row
  <2> QED
    BY <1>10, <2>1, <2>2
<1>13. CASE DetectStale(r)
  <2>1. SoundRow(MarkStale(run[r]))
    BY <1>1, StaleRow DEF SoundRow
  <2> QED
    BY <1>1, <1>3, <1>13, <2>1, StaleRow DEF DetectStale
<1>14. CASE LeaseLapse(r) \/ BecomesDue(r)
  <2> DEFINE lapsed == [run[r] EXCEPT !.live = FALSE]
             ready == [run[r] EXCEPT !.due = TRUE, !.dispatchDue = TRUE]
  <2>1. /\ lapsed \in ReportRunRow /\ lapsed.state = run[r].state
        /\ lapsed.lease = run[r].lease /\ lapsed.attempts = run[r].attempts
        /\ lapsed.resumed = run[r].resumed
    BY <1>1 DEF ReportRunRow
  <2>2. /\ ready \in ReportRunRow /\ ready.state = run[r].state
        /\ ready.lease = run[r].lease /\ ready.attempts = run[r].attempts
        /\ ready.resumed = run[r].resumed
    BY <1>1 DEF ReportRunRow
  <2>3. /\ SetRun(r, lapsed) \/ SetRun(r, ready)
        /\ UNCHANGED <<issued, held>>
    BY <1>14 DEF LeaseLapse, BecomesDue, SetRun
  <2>4. Exists(r)
    BY <1>1, <1>14
    DEF SoundRow, Exists, NoRun, DeletedRun, LeaseLapse, BecomesDue
  <2> HIDE DEF lapsed, ready
  <2> QED
    BY <1>10, <2>1, <2>2, <2>3, <2>4
<1> QED
  BY <1>4, <1>5, <1>6, <1>7, <1>8, <1>9, <1>11, <1>12, <1>13, <1>14
  DEF RunStep, Request

LEMMA WorkerStepSound ==
    ASSUME ReportTypeOK, ReportInvariant, NEW w \in Workers, WorkerStep(w)
    PROVE  ReportInvariant'
<1>1. UNCHANGED held \/ Release(w) => WorkKept
  BY DEF WorkKept, Busy, Release, ReportTypeOK
<1>2. ASSUME NEW r \in Runs, Exhaust(w, r) PROVE ReportInvariant'
  <2>1. run[r] \in ReportRunRow
    BY DEF ReportTypeOK
  <2>2. SoundRow(ExhaustRun(run[r]))
    BY <2>1, ExhaustedRow DEF SoundRow
  <2> QED
    BY <1>1, <1>2, <2>1, <2>2, ExhaustedRow, RowStep DEF Exhaust
<1>3. CASE HeartbeatCrash(w)
  <2>1. WorkKept
    BY <1>3, WorkTyped DEF HeartbeatCrash, WorkKept, Busy, ReportTypeOK, Work
  <2> QED
    BY <1>3, <2>1, QuietStep DEF HeartbeatCrash
<1>4. CASE Ask(w)
  <2>1. held[w].run \in Runs /\ run[held[w].run] \in ReportRunRow
    BY <1>4, WorkTyped DEF Ask, Owns
  <2>2. SoundRow(AwaitInput(run[held[w].run]))
    BY <2>1, AskingRow, ReportAttemptsAssumption DEF SoundRow
  <2> QED
    BY <1>1, <1>4, <2>1, <2>2, AskingRow, RowStep DEF Ask
<1>5. ASSUME Busy(w), NEW ir \in 0..issued[held[w].run], Publish(w, ir)
      PROVE  ReportInvariant'
  <2>1. /\ held[w].run \in Runs /\ run[held[w].run] \in ReportRunRow
        /\ ir \in Nat
    BY <1>5, WorkTyped
  <2>2. SoundRow(Succeed(run[held[w].run], ir))
    BY <2>1, SucceededRow DEF SoundRow
  <2> QED
    BY <1>1, <1>5, <2>1, <2>2, SucceededRow, RowStep DEF Publish
<1>6. ASSUME NEW error \in ReportError, Fail(w, error) PROVE ReportInvariant'
  <2> DEFINE r == held[w].run
             row == FailRun(run[r], held[w].attempt, error)
  <2>1. /\ r \in Runs /\ run[r] \in ReportRunRow /\ held[w].attempt \in Nat
        /\ SoundRow(run[r]) /\ run[r].state = "PROCESSING"
    BY <1>6, WorkTyped DEF Fail, Holds, HoldsReportLease, ReportInvariant
  <2>2. /\ row \in ReportRunRow /\ row.state \in {"PENDING", "FAILED"}
        /\ row.lease = NoToken /\ row.resumed = run[r].resumed
    BY <2>1, FailedRow
  <2>3. SetRun(r, row) /\ Release(w) /\ UNCHANGED issued
    BY <1>6 DEF Fail
  <2> HIDE DEF r, row
  <2>4. SoundRow(row)
    BY <2>1, <2>2 DEF SoundRow
  <2> QED
    BY <1>1, <2>1, <2>2, <2>3, <2>4, RowStep
<1>7. CASE LoseLease(w) \/ Crash(w)
  BY <1>1, <1>7, QuietStep DEF LoseLease, Crash
<1> QED
  BY <1>2, <1>3, <1>4, <1>5, <1>6, <1>7, GrantStep DEF WorkerStep

LEMMA ReportInvariantStep ==
    ReportTypeOK /\ ReportInvariant /\ [ReportNext]_reportVars
       => ReportInvariant'
<1> SUFFICES ASSUME ReportTypeOK, ReportInvariant, [ReportNext]_reportVars
             PROVE  ReportInvariant'
  OBVIOUS
<1>1. CASE UNCHANGED reportVars \/ Mishap
  <2>1. WorkKept /\ UNCHANGED <<run, issued>>
    BY <1>1 DEF reportVars, Mishap, unfailedVars, WorkKept, Busy
  <2> QED
    BY <2>1, QuietStep
<1> QED
  BY <1>1, RunStepSound, WorkerStepSound DEF ReportNext

\* For any runs, workers, faults and requests, a token is drawn once and given
\* to one worker, and every row keeps its promise.
THEOREM ReportInvariantHolds == ReportSpec => []ReportInvariant
<1>1. ReportInit => ReportInvariant
  BY ReportInitSound
<1>2. ReportTypeOK /\ ReportInvariant /\ [ReportNext]_reportVars
         => ReportInvariant'
  BY ReportInvariantStep
<1> QED
  BY <1>1, <1>2, ReportTypeCorrect, PTL DEF ReportSpec

-----------------------------------------------------------------------------
(* What follows *)

LEMMA InvariantGivesOneOwner == ReportInvariant => OneReportOwner
  BY DEF ReportInvariant, OneReportOwner, SoundRow, Holds, HoldsReportLease

\* At most one worker can end the attempt of a run, however often leases run
\* out and are taken over.
THEOREM OneReportOwnerHolds == ReportSpec => []OneReportOwner
  BY InvariantGivesOneOwner, ReportInvariantHolds, PTL

LEMMA InvariantGivesAttempt == ReportInvariant => AnsweredRunIsTried
  BY DEF ReportInvariant, AnsweredRunIsTried, SoundRow

\* A run its user has answered always has an attempt left.
THEOREM AnsweredRunIsTriedHolds == ReportSpec => []AnsweredRunIsTried
  BY InvariantGivesAttempt, ReportInvariantHolds, PTL

-----------------------------------------------------------------------------
(* What has ended stays ended. *)

\* How the state of a run may go on.
Continues(r) ==
    run[r].state \in Terminal =>
        \/ run'[r].state = run[r].state
        \/ run'[r].state = "DELETED"
        \/ run'[r].state = "STALE_DOCUMENT" /\ r \in changed
        \/ run[r].state = "FAILED" /\ run'[r].state = "PENDING"

\* Replacing one row lets every run go on if it lets that one.
LEMMA RowContinues ==
    ASSUME ReportTypeOK, NEW r \in Runs, NEW row \in ReportRunRow,
           SetRun(r, row),
           \/ run[r].state \notin Terminal
           \/ row.state \in {run[r].state, "DELETED"}
           \/ row.state = "STALE_DOCUMENT" /\ r \in changed
           \/ run[r].state = "FAILED" /\ row.state = "PENDING"
    PROVE  \A q \in Runs : Continues(q)
  BY SetRunRow DEF Continues

LEMMA RunContinues ==
    ASSUME ReportTypeOK, NEW r \in Runs, RunStep(r)
    PROVE  \A q \in Runs : Continues(q)
<1>1. run[r] \in ReportRunRow
  BY DEF ReportTypeOK
<1>2. CASE Create(r)
  BY <1>2, CreatedRow, RowContinues DEF Create, Terminal
<1>3. CASE Cancel(r)
  BY <1>1, <1>3, CancelledRow, RowContinues DEF Cancel, Terminal
<1>4. CASE Retry(r)
  BY <1>1, <1>4, RetriedRow, RowContinues DEF Retry
<1>5. CASE Resume(r)
  BY <1>1, <1>5, ResumedRow, RowContinues DEF Resume, Terminal
<1>6. CASE DeleteRun(r)
  <2>1. DeletedRun.state = "DELETED"
    BY DEF DeletedRun, NoRun
  <2> QED
    BY <1>6, <2>1, NoRunTyped, RowContinues DEF DeleteRun
<1>7. CASE DetectStale(r)
  BY <1>1, <1>7, StaleRow, RowContinues DEF DetectStale
<1>8. CASE AdmitDelete(r) \/ DocumentChanges(r)
  BY <1>8 DEF AdmitDelete, DocumentChanges, Continues
<1>9. ASSUME NEW row \in ReportRunRow, row.state = run[r].state, SetRun(r, row)
      PROVE  \A q \in Runs : Continues(q)
  BY <1>9, RowContinues
<1>10. CASE OutboxWrites(r)
  <2> DEFINE row == [run[r] EXCEPT !.dispatch = run'[r].dispatch,
                                   !.dispatchDue = run'[r].dispatchDue,
                                   !.ticket = run'[r].ticket,
                                   !.ticketLive = run'[r].ticketLive]
  <2>1. SetRun(r, row) /\ run'[r] \in ReportRunRow
    BY <1>10 DEF OutboxWrites
  <2>2. row \in ReportRunRow /\ row.state = run[r].state
    BY <1>1, <2>1 DEF ReportRunRow
  <2> HIDE DEF row
  <2> QED
    BY <1>9, <2>1, <2>2
<1>11. ASSUME NEW t \in 0..issued[r], AgentWrites(r, t)
       PROVE  \A q \in Runs : Continues(q)
  <2>1. t \in Nat
    BY DEF ReportTypeOK
  <2>2. /\ [run[r] EXCEPT !.draft = t] \in ReportRunRow
        /\ [run[r] EXCEPT !.draft = t].state = run[r].state
        /\ [run[r] EXCEPT !.ir = t] \in ReportRunRow
        /\ [run[r] EXCEPT !.ir = t].state = run[r].state
    BY <1>1, <2>1 DEF ReportRunRow
  <2> QED
    BY <1>9, <1>11, <2>2 DEF AgentWrites
<1>12. CASE LeaseLapse(r) \/ BecomesDue(r)
  <2>1. /\ [run[r] EXCEPT !.live = FALSE] \in ReportRunRow
        /\ [run[r] EXCEPT !.live = FALSE].state = run[r].state
        /\ [run[r] EXCEPT !.due = TRUE, !.dispatchDue = TRUE] \in ReportRunRow
        /\ [run[r] EXCEPT !.due = TRUE, !.dispatchDue = TRUE].state = run[r].state
    BY <1>1 DEF ReportRunRow
  <2> QED
    BY <1>9, <1>12, <2>1 DEF LeaseLapse, BecomesDue, SetRun
<1> QED
  BY <1>2, <1>3, <1>4, <1>5, <1>6, <1>7, <1>8, <1>10, <1>11, <1>12
  DEF RunStep, Request

\* A worker replaces only the row of a run that is PENDING or PROCESSING.
LEMMA WorkerContinues ==
    ASSUME ReportTypeOK, NEW w \in Workers, WorkerStep(w)
    PROVE  \A q \in Runs : Continues(q)
<1>1. ASSUME UNCHANGED run PROVE \A q \in Runs : Continues(q)
  BY <1>1 DEF Continues
<1>2. CASE HeartbeatCrash(w) \/ LoseLease(w) \/ Crash(w)
  BY <1>1, <1>2 DEF HeartbeatCrash, LoseLease, Crash
<1>3. ASSUME NEW r \in Runs, run[r].state \notin Terminal,
             \A q \in Runs : q # r => run'[q] = run[q]
      PROVE  \A q \in Runs : Continues(q)
  BY <1>3 DEF Continues
<1>4. ASSUME NEW r \in Runs, Exhaust(w, r) \/ Grant(w, r)
      PROVE  \A q \in Runs : Continues(q)
  BY <1>3, <1>4
  DEF Exhaust, Grant, ReportClaimable, Terminal, SetRun, ReportTypeOK
<1>5. ASSUME Holds(w), NEW row, SetRun(held[w].run, row)
      PROVE  \A q \in Runs : Continues(q)
  <2>1. held[w].run \in Runs
    BY <1>5, WorkTyped DEF Holds
  <2> QED
    BY <1>3, <1>5, <2>1
    DEF Holds, HoldsReportLease, Terminal, SetRun, ReportTypeOK
<1>6. Owns(w) => Holds(w)
  BY DEF Owns, Holds, OwnsReportLease
<1>7. ASSUME \/ Ask(w) \/ \E ir \in 0..issued[held[w].run] : Publish(w, ir)
             \/ \E error \in ReportError : Fail(w, error)
      PROVE  \A q \in Runs : Continues(q)
  BY <1>5, <1>6, <1>7 DEF Ask, Publish, Fail
<1> QED
  BY <1>2, <1>4, <1>7 DEF WorkerStep

\* What has ended stays ended, whatever workers are still busy with it.
THEOREM TerminalIsFinalHolds == ReportSpec => TerminalIsFinal
<1> DEFINE Final == \A r \in Runs : run[r].state \in Terminal =>
                      \/ run'[r].state = run[r].state
                      \/ run'[r].state = "DELETED"
                      \/ run'[r].state = "STALE_DOCUMENT" /\ r \in changed
                      \/ run[r].state = "FAILED" /\ run'[r].state = "PENDING"
<1>1. ReportTypeOK /\ [ReportNext]_reportVars => [Final]_reportVars
  <2> SUFFICES ASSUME ReportTypeOK, ReportNext
               PROVE  Final \/ UNCHANGED reportVars
    OBVIOUS
  <2>1. CASE Mishap
    BY <2>1 DEF Mishap, unfailedVars
  <2> QED
    BY <2>1, RunContinues, WorkerContinues DEF ReportNext, Continues
<1> QED
  BY <1>1, ReportTypeCorrect, PTL DEF ReportSpec, TerminalIsFinal

=============================================================================
