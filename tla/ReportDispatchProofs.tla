------------------------- MODULE ReportDispatchProofs -------------------------
(***************************************************************************)
(* Proofs about ReportDispatch: with its outbox, broker and callbacks it   *)
(* implements ReportQueue, so the theorems of ReportQueueProofs hold of    *)
(* it, and no active run is forgotten.                                     *)
(***************************************************************************)
EXTENDS ReportDispatch, ReportQueueProofs

OutboxTypeOK ==
    /\ drawn \in [Runs -> Nat]
    /\ sender \in [Dispatchers -> Sender]
    /\ wire \in [Runs -> Nat]
    /\ dead \subseteq Runs
    /\ loop \in [Workers -> Loop]

LEMMA AnyRunIsRun == AnyRun \in Runs
  BY ReportCopiesAssumption DEF AnyRun

LEMMA IdleTyped == IdleSender \in Sender /\ IdleLoop \in Loop
  BY AnyRunIsRun DEF IdleSender, IdleLoop, Sender, Loop, Idle

-----------------------------------------------------------------------------
(* What the outbox does to a row, it does to its outbox columns. *)

\* b is a with other outbox columns.
OutboxColumnsOnly(a, b) ==
    b = [a EXCEPT !.dispatch = b.dispatch, !.dispatchDue = b.dispatchDue,
                  !.ticket = b.ticket, !.ticketLive = b.ticketLive]

LEMMA TicketedRow ==
    ASSUME NEW r \in ReportRunRow, NEW t \in Nat
    PROVE  LET s == TakeReportTicket(r, t) IN
           /\ s \in ReportRunRow /\ OutboxColumnsOnly(r, s)
           /\ s.dispatch = "DISPATCHING" /\ s.ticket = t
  BY DEF TakeReportTicket, OutboxColumnsOnly, ReportRunRow, DispatchState

LEMMA PublishedRow ==
    ASSUME NEW r \in ReportRunRow
    PROVE  LET s == MarkReportPublished(r) IN
           /\ s \in ReportRunRow /\ OutboxColumnsOnly(r, s)
           /\ s.dispatch = "PUBLISHED"
  BY DEF MarkReportPublished, OutboxColumnsOnly, ReportRunRow, DispatchState,
         NoToken

LEMMA PutBackRow ==
    ASSUME NEW r \in ReportRunRow
    PROVE  LET s == ReleaseReport(r) IN
           /\ s \in ReportRunRow /\ OutboxColumnsOnly(r, s)
           /\ s.dispatch = "PENDING" /\ s.dispatchDue = FALSE
  BY DEF ReleaseReport, OutboxColumnsOnly, ReportRunRow, DispatchState, NoToken

LEMMA LapsedTicketRow ==
    ASSUME NEW r \in ReportRunRow
    PROVE  LET s == [r EXCEPT !.ticketLive = FALSE] IN
           /\ s \in ReportRunRow /\ OutboxColumnsOnly(r, s)
           /\ s.dispatch = r.dispatch /\ s.ticket = r.ticket
           /\ s.dispatchDue = r.dispatchDue
  BY DEF OutboxColumnsOnly, ReportRunRow

\* The rest of such a row is what it was.
LEMMA OutboxColumnsKeep ==
    ASSUME NEW a \in ReportRunRow, NEW b \in ReportRunRow,
           OutboxColumnsOnly(a, b)
    PROVE  b.state = a.state /\ b.due = a.due /\ b.lease = a.lease
  BY DEF OutboxColumnsOnly, ReportRunRow

\* Writing such a row is a step of ReportQueue.
LEMMA OutboxWriteIsStep ==
    ASSUME ReportTypeOK, NEW r \in Runs, Exists(r), NEW row \in ReportRunRow,
           SetRun(r, row), OutboxColumnsOnly(run[r], row),
           Fault \/ UNCHANGED faults,
           UNCHANGED <<issued, held, changed, deleting, rounds>>
    PROVE  ReportNext
<1>1. run'[r] = row
  BY SetRunRow
<1>2. OutboxWrites(r)
  BY <1>1 DEF OutboxWrites, OutboxColumnsOnly, SetRun
<1> QED
  BY <1>2 DEF ReportNext, RunStep

\* A row the outbox has a hand in is there.
LEMMA OutboxRowExists ==
    ASSUME ReportTypeOK, ReportInvariant, NEW r \in Runs,
           \/ run[r].dispatch # "CANCELLED" \/ run[r].ticketLive
           \/ run[r].state = "PROCESSING"
    PROVE  Exists(r)
  BY DEF ReportInvariant, SoundRow, Exists, NoRun, DeletedRun

LEMMA SenderTyped ==
    ASSUME OutboxTypeOK, NEW p \in Dispatchers
    PROVE  /\ sender[p] \in Sender /\ sender[p].run \in Runs
           /\ sender[p].ticket \in Nat
  BY DEF OutboxTypeOK, Sender

LEMMA SenderRecord ==
    ASSUME NEW s \in Sender
    PROVE  s = [stage |-> s.stage, run |-> s.run, ticket |-> s.ticket]
  BY DEF Sender

LEMMA LoopTyped ==
    ASSUME OutboxTypeOK, NEW w \in Workers
    PROVE  /\ loop[w] \in Loop /\ loop[w].run \in Runs
           /\ loop[w].tagged \in BOOLEAN
  BY DEF OutboxTypeOK, Loop

-----------------------------------------------------------------------------
(* Every step is one of ReportQueue, or none. *)

LEMMA DispatcherImplements ==
    ASSUME ReportTypeOK, OutboxTypeOK, ReportInvariant, NEW p \in Dispatchers,
           Dispatch(p) \/ SendFails(p) \/ DispatcherCrash(p)
    PROVE  ReportNext \/ UNCHANGED reportVars
<1> DEFINE r == sender[p].run
<1>1. r \in Runs /\ run[r] \in ReportRunRow
  BY SenderTyped DEF ReportTypeOK
<1>2. ASSUME NEW q \in Runs, ClaimReport(p, q) PROVE ReportNext
  <2>1. run[q] \in ReportRunRow /\ drawn[q] + 1 \in Nat
    BY DEF ReportTypeOK, OutboxTypeOK
  <2>2. Exists(q)
    BY <1>2, OutboxRowExists
    DEF ClaimReport, Selected, ReportDispatchable, Abandoned
  <2>3. SetRun(q, TakeReportTicket(run[q], drawn[q] + 1))
    BY <1>2 DEF ClaimReport
  <2> QED
    BY <1>2, <2>1, <2>2, <2>3, TicketedRow, OutboxWriteIsStep DEF ClaimReport
<1>3. ASSUME NEW row \in ReportRunRow, FencedWrite(p, row),
             OutboxColumnsOnly(run[r], row),
             UNCHANGED <<issued, held, changed, deleting, rounds, faults>>
      PROVE  ReportNext \/ UNCHANGED reportVars
  <2>1. CASE HoldsReportTicket(run[r], sender[p].ticket)
    <3>1. SetRun(r, row)
      BY <1>3, <2>1 DEF FencedWrite
    <3>2. Exists(r)
      BY <1>1, <2>1, OutboxRowExists DEF HoldsReportTicket
    <3> QED
      BY <1>1, <1>3, <3>1, <3>2, OutboxWriteIsStep
  <2>2. CASE ~HoldsReportTicket(run[r], sender[p].ticket)
    BY <1>3, <2>2 DEF FencedWrite, reportVars
  <2> QED
    BY <2>1, <2>2
<1>4. CASE ConfirmPublished(p)
  BY <1>1, <1>3, <1>4, PublishedRow DEF ConfirmPublished
<1>5. CASE PutBack(p)
  BY <1>1, <1>3, <1>5, PutBackRow DEF PutBack
<1>6. CASE Send(p)
  BY <1>6 DEF Send
<1>7. CASE SendFails(p) \/ DispatcherCrash(p)
  BY <1>7 DEF SendFails, DispatcherCrash, ReportNext, Mishap
<1> QED
  BY <1>2, <1>4, <1>5, <1>6, <1>7 DEF Dispatch

LEMMA RowImplements ==
    ASSUME ReportTypeOK, ReportInvariant, NEW r \in Runs,
           UserRequest(r) \/ TimePasses(r) \/ TicketLapse(r)
    PROVE  ReportNext
<1>1. CASE UserRequest(r) \/ TimePasses(r)
  BY <1>1 DEF UserRequest, TimePasses, ReportNext, RunStep
<1>2. CASE TicketLapse(r)
  <2>1. run[r] \in ReportRunRow
    BY DEF ReportTypeOK
  <2>2. Exists(r) /\ SetRun(r, [run[r] EXCEPT !.ticketLive = FALSE])
    BY <1>2, OutboxRowExists DEF TicketLapse, SetRun
  <2> QED
    BY <1>2, <2>1, <2>2, LapsedTicketRow, OutboxWriteIsStep DEF TicketLapse
<1> QED
  BY <1>1, <1>2

LEMMA WorkerImplements ==
    ASSUME ReportTypeOK, OutboxTypeOK, ReportInvariant, NEW w \in Workers,
           \/ Consume(w) \/ EndWork(w) \/ HeartbeatRaises(w) \/ CallbackRaises(w)
           \/ NackRequeue(w) \/ ChannelLost(w) \/ WorkerCrash(w)
    PROVE  ReportNext \/ UNCHANGED reportVars
<1>1. loop[w].run \in Runs
  BY LoopTyped
<1>2. WorkerStep(w) \/ RunStep(loop[w].run) \/ Mishap => ReportNext
  BY <1>1 DEF ReportNext
<1>3. CASE \E r \in Runs : Deliver(w, r)
  BY <1>3 DEF Deliver
<1>4. CASE ReadRun(w)
  BY <1>2, <1>4 DEF ReadRun, RunStep
<1>5. CASE ClaimAndWork(w) \/ ClaimRefused(w)
  BY <1>1, <1>2, <1>5 DEF ClaimAndWork, ClaimRefused, WorkerStep
<1>6. CASE DeadLetter(w) \/ Ack(w)
  BY <1>6 DEF DeadLetter, Ack
<1>7. CASE EndWork(w)
  <2>1. Publish(w, held[w].lease) => WorkerStep(w)
    <3> SUFFICES ASSUME Publish(w, held[w].lease)
                 PROVE  WorkerStep(w)
      OBVIOUS
    <3>1. Busy(w)
      BY DEF Publish, Owns
    <3>2. held[w].lease \in 0..issued[held[w].run]
      BY <3>1, WorkTyped DEF ReportInvariant
    <3> QED
      BY <3>1, <3>2 DEF WorkerStep
  <2>2. Fail(w, "RETRYABLE") \/ Fail(w, "FATAL") => WorkerStep(w)
    BY DEF WorkerStep, ReportError
  <2>3. Ask(w) \/ LoseLease(w) => WorkerStep(w)
    BY DEF WorkerStep
  <2> QED
    BY <1>2, <1>7, <2>1, <2>2, <2>3 DEF EndWork
<1>8. CASE HeartbeatRaises(w)
  BY <1>2, <1>8 DEF HeartbeatRaises, WorkerStep
<1>9. Abandon(w) => ReportNext
  BY <1>2 DEF Abandon, WorkerStep, Mishap
<1>10. CASE CallbackRaises(w) \/ WorkerCrash(w)
  BY <1>9, <1>10 DEF CallbackRaises, WorkerCrash
<1>11. CASE NackRequeue(w) \/ ChannelLost(w)
  BY <1>2, <1>11 DEF NackRequeue, ChannelLost, Mishap
<1> QED
  BY <1>3, <1>4, <1>5, <1>6, <1>7, <1>8, <1>10, <1>11 DEF Consume

LEMMA DispatchImplements ==
    ReportTypeOK /\ OutboxTypeOK /\ ReportInvariant /\ [Next]_vars
       => [ReportNext]_reportVars
  BY DispatcherImplements, RowImplements, WorkerImplements DEF Next, vars

-----------------------------------------------------------------------------
(* Types *)

LEMMA OutboxInitTyped == Init => OutboxTypeOK
  BY IdleTyped DEF Init, OutboxTypeOK

LEMMA DispatcherTyped ==
    ASSUME OutboxTypeOK, NEW p \in Dispatchers,
           Dispatch(p) \/ SendFails(p) \/ DispatcherCrash(p)
    PROVE  OutboxTypeOK'
<1>1. sender[p] \in Sender /\ sender[p].run \in Runs
  BY SenderTyped
<1>2. ASSUME NEW r \in Runs, ClaimReport(p, r) PROVE OutboxTypeOK'
  <2>1. [stage |-> "CLAIMED", run |-> r, ticket |-> drawn[r] + 1] \in Sender
    BY DEF OutboxTypeOK, Sender
  <2>2. drawn[r] + 1 \in Nat
    BY DEF OutboxTypeOK
  <2> QED
    BY <1>2, <2>1, <2>2 DEF ClaimReport, SetSender, brokerVars, OutboxTypeOK
<1>3. ASSUME NEW stage \in {"CLAIMED", "SENT", "REFUSED"}
      PROVE  [sender[p] EXCEPT !.stage = stage] \in Sender
  BY <1>1 DEF Sender
<1>4. Put(sender[p].run) => wire' \in [Runs -> Nat]
  BY <1>1 DEF Put, OutboxTypeOK
<1>5. CASE Send(p) \/ SendFails(p)
  BY <1>3, <1>4, <1>5 DEF Send, SendFails, SetSender, OutboxTypeOK
<1>6. CASE ConfirmPublished(p) \/ PutBack(p) \/ DispatcherCrash(p)
  BY <1>6, IdleTyped
  DEF ConfirmPublished, PutBack, DispatcherCrash, SetSender, brokerVars,
      OutboxTypeOK
<1> QED
  BY <1>2, <1>5, <1>6 DEF Dispatch

LEMMA CallbackTyped ==
    ASSUME OutboxTypeOK, NEW w \in Workers,
           \/ Consume(w) \/ EndWork(w) \/ HeartbeatRaises(w) \/ CallbackRaises(w)
           \/ NackRequeue(w) \/ ChannelLost(w) \/ WorkerCrash(w)
    PROVE  OutboxTypeOK'
<1>1. loop[w] \in Loop /\ loop[w].run \in Runs
  BY LoopTyped
<1>2. ASSUME NEW stage \in {"CLAIM", "WORK", "RAISE", "ACK"}, GoTo(w, stage)
      PROVE  loop' \in [Workers -> Loop]
  <2>1. [loop[w] EXCEPT !.stage = stage] \in Loop
    BY <1>1 DEF Loop
  <2> QED
    BY <1>2, <2>1 DEF GoTo, OutboxTypeOK
<1>3. ReturnMessage(w) => wire' \in [Runs -> Nat]
  BY <1>1 DEF ReturnMessage, Put, OutboxTypeOK
<1>4. loop' = [loop EXCEPT ![w] = IdleLoop] => loop' \in [Workers -> Loop]
  BY IdleTyped DEF OutboxTypeOK
<1>5. ASSUME NEW r \in Runs, Deliver(w, r) PROVE OutboxTypeOK'
  <2>1. [stage |-> "READ", run |-> r, tagged |-> TRUE] \in Loop
    BY DEF Loop
  <2>2. wire' \in [Runs -> Nat]
    BY <1>5 DEF Deliver, OutboxTypeOK
  <2> QED
    BY <1>5, <2>1, <2>2 DEF Deliver, outboxVars, OutboxTypeOK
<1>6. CASE ReadRun(w)
  BY <1>2, <1>6 DEF ReadRun, outboxVars, brokerVars, OutboxTypeOK
<1>7. CASE \/ ClaimAndWork(w) \/ ClaimRefused(w) \/ EndWork(w)
           \/ CallbackRaises(w) \/ DeadLetter(w)
  BY <1>1, <1>2, <1>7
  DEF ClaimAndWork, ClaimRefused, EndWork, LeaveClaim, CallbackRaises,
      DeadLetter, outboxVars, brokerVars, OutboxTypeOK
<1>8. CASE Ack(w) \/ HeartbeatRaises(w)
  BY <1>4, <1>8 DEF Ack, HeartbeatRaises, outboxVars, brokerVars, OutboxTypeOK
<1>9. CASE NackRequeue(w) \/ WorkerCrash(w)
  BY <1>3, <1>4, <1>9 DEF NackRequeue, WorkerCrash, outboxVars, OutboxTypeOK
<1>10. CASE ChannelLost(w)
  <2>1. [loop[w] EXCEPT !.tagged = FALSE] \in Loop
    BY <1>1 DEF Loop
  <2> QED
    BY <1>3, <1>10, <2>1 DEF ChannelLost, outboxVars, OutboxTypeOK
<1> QED
  BY <1>5, <1>6, <1>7, <1>8, <1>9, <1>10 DEF Consume

LEMMA OutboxTypeStep == OutboxTypeOK /\ [Next]_vars => OutboxTypeOK'
<1> SUFFICES ASSUME OutboxTypeOK, [Next]_vars
             PROVE  OutboxTypeOK'
  OBVIOUS
<1>1. CASE \/ UNCHANGED vars
           \/ \E r \in Runs : UserRequest(r) \/ TimePasses(r) \/ TicketLapse(r)
  BY <1>1 DEF vars, UserRequest, TimePasses, TicketLapse, outboxVars,
              brokerVars, OutboxTypeOK
<1> QED
  BY <1>1, DispatcherTyped, CallbackTyped DEF Next

\* The outbox with its broker and callbacks keeps its types and the invariant
\* of the rows and leases.
THEOREM ReportDispatchTypeCorrect ==
    Spec => [](ReportDispatchTypeOK /\ ReportInvariant)
<1>1. Init => ReportTypeOK /\ OutboxTypeOK /\ ReportInvariant
  BY ReportInitTyped, ReportInitSound, OutboxInitTyped DEF Init
<1>2. ReportTypeOK /\ OutboxTypeOK /\ ReportInvariant /\ [Next]_vars
         => (ReportTypeOK /\ OutboxTypeOK /\ ReportInvariant)'
  BY DispatchImplements, ReportTypeStep, ReportInvariantStep, OutboxTypeStep
<1>3. ReportTypeOK /\ OutboxTypeOK => ReportDispatchTypeOK
  BY DEF OutboxTypeOK, ReportDispatchTypeOK
<1> QED
  BY <1>1, <1>2, <1>3, PTL DEF Spec

\* For any runs, workers, dispatchers and bounds, the report outbox over the
\* broker is an implementation of ReportQueue.
THEOREM DispatchImplementsReportQueue == Spec => ReportSpec
<1>1. Init => ReportInit
  BY DEF Init
<1>2. ReportDispatchTypeOK /\ ReportInvariant /\ [Next]_vars
         => [ReportNext]_reportVars
  BY DispatchImplements DEF ReportDispatchTypeOK, OutboxTypeOK
<1> QED
  BY <1>1, <1>2, ReportDispatchTypeCorrect, PTL DEF Spec, ReportSpec

-----------------------------------------------------------------------------
(* What requests, workers and time do to the row leaves the outbox its       *)
(* promises and announces nothing.                                           *)

Waiting(row) == row.state = "PENDING" /\ row.dispatch \in {"DISPATCHING", "PUBLISHED"}

\* Whatever is announced of b was announced of a.
AnnouncesNothing(a, b) ==
    Waiting(b) => Waiting(a) /\ a.dispatch = b.dispatch /\ a.ticket = b.ticket

RowsKeepOutbox ==
    \A q \in Runs : OutboxRow(run'[q]) /\ AnnouncesNothing(run[q], run'[q])

LEMMA RowKeepsOutbox ==
    ASSUME ReportTypeOK, OutboxRows, NEW r \in Runs,
           NEW row \in ReportRunRow, SetRun(r, row), OutboxRow(row),
           AnnouncesNothing(run[r], row)
    PROVE  RowsKeepOutbox
<1>1. run'[r] = row /\ \A q \in Runs : q # r => run'[q] = run[q]
  BY SetRunRow
<1>2. ASSUME NEW q \in Runs
      PROVE  OutboxRow(run'[q]) /\ AnnouncesNothing(run[q], run'[q])
  BY <1>1 DEF AnnouncesNothing, OutboxRows
<1> QED
  BY <1>2 DEF RowsKeepOutbox

\* A row that is not waiting for a worker any more.
LEMMA SettledRow ==
    ASSUME NEW a, NEW b, b.state \notin {"PENDING", "PROCESSING", "CANCELLED"}
    PROVE  OutboxRow(b) /\ AnnouncesNothing(a, b)
  BY DEF OutboxRow, AnnouncesNothing, Waiting, Active

\* A row whose message has not been sent.
LEMMA UnsentRow ==
    ASSUME NEW a, NEW b, b.state = "PENDING", b.dispatch = "PENDING",
           b.due \/ ~b.dispatchDue
    PROVE  OutboxRow(b) /\ AnnouncesNothing(a, b)
  BY DEF OutboxRow, AnnouncesNothing, Waiting

LEMMA RequestedRow ==
    ASSUME NEW r \in ReportRunRow
    PROVE  /\ CreatedRun.dispatch = "PENDING" /\ CreatedRun.due
           /\ RetryRun(r).dispatch = "PENDING" /\ RetryRun(r).due
           /\ ResumeRun(r).dispatch = "PENDING" /\ ResumeRun(r).due
           /\ CancelRun(r).dispatch = "CANCELLED"
<1>1. CreatedRun.dispatch = "PENDING" /\ CreatedRun.due
  BY DEF CreatedRun, MarkReportPending, NoRun
<1>2. /\ RetryRun(r).dispatch = "PENDING" /\ RetryRun(r).due
      /\ ResumeRun(r).dispatch = "PENDING" /\ ResumeRun(r).due
  BY DEF RetryRun, ResumeRun, MarkReportPending, ReportRunRow
<1>3. CancelRun(r).dispatch = "CANCELLED"
  BY DEF CancelRun, ReportRunRow
<1> QED
  BY <1>1, <1>2, <1>3

LEMMA FailedRowUnsent ==
    ASSUME NEW r \in ReportRunRow, NEW n \in Nat, NEW error \in ReportError,
           FailRun(r, n, error).state = "PENDING"
    PROVE  /\ FailRun(r, n, error).dispatch = "PENDING"
           /\ FailRun(r, n, error).dispatchDue = FALSE
<1> DEFINE q == [r EXCEPT !.lease = NoToken, !.live = FALSE, !.error = error]
           again == [ReleaseReport(q) EXCEPT !.state = "PENDING", !.due = FALSE]
           failed == [q EXCEPT !.state = "FAILED", !.due = TRUE]
<1>1. q \in ReportRunRow
  BY DEF ReportRunRow, NoToken
<1>2. FailRun(r, n, error) = IF RetriesLeft(n, error) THEN again ELSE failed
  BY DEF FailRun
<1> HIDE DEF q
<1>3. failed.state = "FAILED"
  BY <1>1 DEF ReportRunRow
<1>4. ReleaseReport(q) \in ReportRunRow /\ ReleaseReport(q).dispatch = "PENDING"
      /\ ReleaseReport(q).dispatchDue = FALSE
  BY <1>1, PutBackRow
<1>5. again.dispatch = "PENDING" /\ again.dispatchDue = FALSE
  BY <1>4 DEF ReportRunRow
<1> QED
  BY <1>2, <1>3, <1>5

LEMMA RequestKeepsOutbox ==
    ASSUME ReportTypeOK, OutboxRows, NEW r \in Runs,
           \/ Request(r) \/ Resume(r) \/ DetectStale(r)
           \/ LeaseLapse(r) \/ BecomesDue(r)
    PROVE  RowsKeepOutbox
<1>1. run[r] \in ReportRunRow /\ OutboxRow(run[r])
  BY DEF ReportTypeOK, OutboxRows
<1>2. CASE Create(r)
  BY <1>1, <1>2, CreatedRow, RequestedRow, UnsentRow, RowKeepsOutbox DEF Create
<1>3. CASE Cancel(r)
  <2>1. OutboxRow(CancelRun(run[r])) /\ AnnouncesNothing(run[r], CancelRun(run[r]))
    BY <1>1, CancelledRow, RequestedRow
    DEF OutboxRow, AnnouncesNothing, Waiting, Active
  <2> QED
    BY <1>1, <1>3, <2>1, CancelledRow, RowKeepsOutbox DEF Cancel
<1>4. CASE Retry(r)
  BY <1>1, <1>4, RetriedRow, RequestedRow, UnsentRow, RowKeepsOutbox DEF Retry
<1>5. CASE Resume(r)
  BY <1>1, <1>5, ResumedRow, RequestedRow, UnsentRow, RowKeepsOutbox DEF Resume
<1>6. CASE AdmitDelete(r) \/ DocumentChanges(r)
  BY <1>6 DEF AdmitDelete, DocumentChanges, RowsKeepOutbox, AnnouncesNothing,
              OutboxRows
<1>7. CASE DeleteRun(r)
  <2>1. DeletedRun.state = "DELETED"
    BY DEF DeletedRun, NoRun
  <2> QED
    BY <1>7, <2>1, NoRunTyped, SettledRow, RowKeepsOutbox DEF DeleteRun
<1>8. CASE DetectStale(r)
  BY <1>1, <1>8, StaleRow, SettledRow, RowKeepsOutbox DEF DetectStale
<1>9. CASE LeaseLapse(r)
  <2> DEFINE row == [run[r] EXCEPT !.live = FALSE]
  <2>1. /\ row \in ReportRunRow /\ row.state = run[r].state
        /\ row.due = run[r].due /\ row.dispatch = run[r].dispatch
        /\ row.dispatchDue = run[r].dispatchDue /\ row.ticket = run[r].ticket
    BY <1>1 DEF ReportRunRow
  <2>2. SetRun(r, row)
    BY <1>9 DEF LeaseLapse, SetRun
  <2> HIDE DEF row
  <2>3. OutboxRow(row) /\ AnnouncesNothing(run[r], row)
    BY <1>1, <2>1 DEF OutboxRow, AnnouncesNothing, Waiting
  <2> QED
    BY <2>1, <2>2, <2>3, RowKeepsOutbox
<1>10. CASE BecomesDue(r)
  <2> DEFINE row == [run[r] EXCEPT !.due = TRUE, !.dispatchDue = TRUE]
  <2>1. /\ row \in ReportRunRow /\ row.state = run[r].state
        /\ row.due = TRUE /\ row.dispatch = run[r].dispatch
        /\ row.ticket = run[r].ticket
    BY <1>1 DEF ReportRunRow
  <2>2. SetRun(r, row)
    BY <1>10 DEF BecomesDue, SetRun
  <2> HIDE DEF row
  <2>3. OutboxRow(row) /\ AnnouncesNothing(run[r], row)
    BY <1>1, <2>1 DEF OutboxRow, AnnouncesNothing, Waiting
  <2> QED
    BY <2>1, <2>2, <2>3, RowKeepsOutbox
<1> QED
  BY <1>2, <1>3, <1>4, <1>5, <1>6, <1>7, <1>8, <1>9, <1>10 DEF Request

\* A worker ends the wait of the run it takes, and a run it gives back waits
\* for its delay.
LEMMA WorkKeepsOutbox ==
    ASSUME ReportTypeOK, OutboxRows, NEW w \in Workers,
           \/ \E r \in Runs : Exhaust(w, r) \/ Grant(w, r)
           \/ \E ir \in Nat : Publish(w, ir)
           \/ \E error \in ReportError : Fail(w, error)
           \/ Ask(w)
    PROVE  RowsKeepOutbox
<1>1. ASSUME NEW r \in Runs, Exhaust(w, r) PROVE RowsKeepOutbox
  <2>1. run[r] \in ReportRunRow
    BY DEF ReportTypeOK
  <2> QED
    BY <1>1, <2>1, ExhaustedRow, SettledRow, RowKeepsOutbox DEF Exhaust
<1>2. ASSUME NEW r \in Runs, Grant(w, r) PROVE RowsKeepOutbox
  <2> DEFINE row == TakeReportLease(run[r], issued[r] + 1)
  <2>1. run[r] \in ReportRunRow /\ issued[r] + 1 \in Nat /\ OutboxRow(run[r])
    BY DEF ReportTypeOK, OutboxRows
  <2>2. row \in ReportRunRow /\ row.state = "PROCESSING"
    BY <2>1, LeasedRow
  <2>3. row.dispatch = run[r].dispatch
    BY <2>1 DEF TakeReportLease, ReportRunRow
  <2>4. run[r].state \in Active /\ SetRun(r, row)
    BY <1>2 DEF Grant, ReportClaimable, Active
  <2> HIDE DEF row
  <2>5. OutboxRow(row) /\ AnnouncesNothing(run[r], row)
    BY <2>1, <2>2, <2>3, <2>4 DEF OutboxRow, AnnouncesNothing, Waiting
  <2> QED
    BY <2>2, <2>4, <2>5, RowKeepsOutbox
<1>3. Owns(w) \/ Holds(w) =>
         /\ held[w].run \in Runs /\ run[held[w].run] \in ReportRunRow
         /\ held[w].attempt \in Nat
  BY WorkTyped DEF Owns, Holds
<1>4. ASSUME NEW ir \in Nat, Publish(w, ir) PROVE RowsKeepOutbox
  BY <1>3, <1>4, SucceededRow, SettledRow, RowKeepsOutbox DEF Publish
<1>5. CASE Ask(w)
  BY <1>3, <1>5, AskingRow, SettledRow, RowKeepsOutbox DEF Ask
<1>6. ASSUME NEW error \in ReportError, Fail(w, error) PROVE RowsKeepOutbox
  <2> DEFINE r == held[w].run
             row == FailRun(run[r], held[w].attempt, error)
  <2>1. r \in Runs /\ run[r] \in ReportRunRow /\ held[w].attempt \in Nat
    BY <1>3, <1>6 DEF Fail
  <2>2. row \in ReportRunRow /\ row.state \in {"PENDING", "FAILED"}
    BY <2>1, FailedRow
  <2>3. row.state = "PENDING" => row.dispatch = "PENDING" /\ row.dispatchDue = FALSE
    BY <2>1, FailedRowUnsent
  <2>4. SetRun(r, row)
    BY <1>6 DEF Fail
  <2> HIDE DEF r, row
  <2>5. OutboxRow(row) /\ AnnouncesNothing(run[r], row)
    BY <2>2, <2>3, SettledRow, UnsentRow
  <2> QED
    BY <2>1, <2>2, <2>4, <2>5, RowKeepsOutbox
<1> QED
  BY <1>1, <1>2, <1>4, <1>5, <1>6

-----------------------------------------------------------------------------
(* A message that was sent for a waiting run stays underway.                 *)

LEMMA OutboxInitInvariant == Init => OutboxInvariant
  BY DEF Init, ReportInit, OutboxInvariant, OutboxRows, OutboxRow,
         AnnouncedIsUnderway, Announced, TicketsDrawn, DeadOnErrorOnly, NoRun,
         IdleSender, IdleLoop, Idle, Active, Busy

\* Rows, senders, messages: nothing is announced by the step.
LEMMA NothingAnnounced ==
    ASSUME RowsKeepOutbox, UNCHANGED sender, NEW q \in Runs, Announced(q)'
    PROVE  Announced(q)
  BY DEF RowsKeepOutbox, AnnouncesNothing, Waiting, Announced

\* A row that stays.
LEMMA RowsStay ==
    ASSUME OutboxRows, UNCHANGED run
    PROVE  RowsKeepOutbox
  BY DEF OutboxRows, RowsKeepOutbox, AnnouncesNothing

\* One callback moves: what was underway stays so if its message does.
LEMMA UnderwayStays ==
    ASSUME NEW w \in Workers, NEW q \in Runs, Underway(q),
           \A v \in Workers : v # w => loop'[v] = loop[v],
           dead \subseteq dead',
           wire[q] > 0 => wire'[q] > 0 \/ Carries(w, q)',
           Carries(w, q) => wire'[q] > 0 \/ q \in dead' \/ Carries(w, q)'
    PROVE  Underway(q)'
  BY DEF Underway, Carries

LEMMA DispatcherKeepsMessages ==
    ASSUME ReportTypeOK, OutboxTypeOK, OutboxInvariant, NEW p \in Dispatchers,
           Dispatch(p) \/ SendFails(p) \/ DispatcherCrash(p)
    PROVE  OutboxRows' /\ AnnouncedIsUnderway'
<1> DEFINE s == sender[p]
<1>0. PICK r \in Runs : r = s.run
  BY SenderTyped
<1>1. /\ s \in Sender /\ s.ticket \in Nat
      /\ run[r] \in ReportRunRow /\ OutboxRow(run[r])
  BY SenderTyped DEF ReportTypeOK, OutboxInvariant, OutboxRows
<1>2. /\ OutboxRows /\ TicketsDrawn
      /\ \A q \in Runs : Announced(q) => Underway(q)
  BY DEF OutboxInvariant, AnnouncedIsUnderway
<1>3. ASSUME NEW q \in Runs, ClaimReport(p, q)
      PROVE  OutboxRows' /\ AnnouncedIsUnderway'
  <2> DEFINE t == drawn[q] + 1
             row == TakeReportTicket(run[q], t)
  <2>1. /\ run[q] \in ReportRunRow /\ drawn[q] \in Nat /\ t \in Nat
        /\ t > drawn[q] /\ OutboxRow(run[q])
    BY <1>2 DEF ReportTypeOK, OutboxTypeOK, OutboxRows
  <2>2. /\ row \in ReportRunRow /\ row.dispatch = "DISPATCHING"
        /\ row.ticket = t /\ row.state = run[q].state /\ row.due = run[q].due
    BY <2>1, TicketedRow, OutboxColumnsKeep
  <2>3. /\ SetRun(q, row) /\ s.stage = Idle /\ Selected(run[q])
        /\ sender' = [sender EXCEPT ![p] = [stage |-> "CLAIMED", run |-> q, ticket |-> t]]
        /\ UNCHANGED <<wire, dead, loop>>
    BY <1>3 DEF ClaimReport, SetSender, brokerVars
  <2> HIDE DEF t, row
  <2>4. OutboxRow(row)
    BY <2>1, <2>2, <2>3
    DEF OutboxRow, Selected, ReportDispatchable, Abandoned, Active
  <2>5. run'[q] = row /\ \A e \in Runs : e # q => run'[e] = run[e]
    BY <2>2, <2>3, SetRunRow
  <2>6. \A d \in Dispatchers : sender'[d].stage = "SENT" =>
           d # p /\ sender'[d] = sender[d]
    BY <2>3 DEF OutboxTypeOK
  <2>7. ~Announced(q)'
    <3> SUFFICES ASSUME NEW d \in Dispatchers,
                        sender'[d] = [stage |-> "SENT", run |-> q, ticket |-> t]
                 PROVE  FALSE
      BY <2>2, <2>5 DEF Announced
    <3>1. sender[d].stage = "SENT" /\ sender[d].run = q /\ sender[d].ticket = t
      BY <2>6
    <3> QED
      BY <1>2, <2>1, <3>1 DEF TicketsDrawn, Idle
  <2>8. ASSUME NEW e \in Runs, e # q, Announced(e)' PROVE Announced(e)
    BY <2>5, <2>6, <2>8 DEF Announced
  <2>9. \A e \in Runs : Underway(e) => Underway(e)'
    BY <2>3 DEF Underway, Carries
  <2> QED
    BY <1>2, <2>4, <2>5, <2>7, <2>8, <2>9 DEF OutboxRows, AnnouncedIsUnderway
<1>4. ASSUME NEW q \in Runs, wire' = wire \/ Put(r), UNCHANGED <<dead, loop>>,
             Underway(q)
      PROVE  Underway(q)'
  BY <1>1, <1>4 DEF Underway, Carries, Put, OutboxTypeOK
<1>5. ASSUME UNCHANGED run, wire' = wire \/ Put(r), UNCHANGED <<dead, loop>>,
             \A d \in Dispatchers : sender'[d].stage = "SENT" => sender'[d] = sender[d]
      PROVE  OutboxRows' /\ AnnouncedIsUnderway'
  <2>1. \A q \in Runs : Announced(q)' => Announced(q)
    BY <1>5 DEF Announced
  <2> QED
    BY <1>2, <1>4, <1>5, <2>1 DEF OutboxRows, AnnouncedIsUnderway
<1>6. CASE Send(p)
  <2>1. /\ UNCHANGED <<run, dead, loop>> /\ Put(r)
        /\ sender' = [sender EXCEPT ![p] = [s EXCEPT !.stage = "SENT"]]
    BY <1>0, <1>6 DEF Send, SetSender, reportVars
  <2>2. Underway(r)'
    BY <1>1, <2>1 DEF Underway, Put, OutboxTypeOK
  <2>3. ASSUME NEW q \in Runs, q # r, Announced(q)' PROVE Announced(q)
    BY <1>0, <1>1, <2>1, <2>3 DEF Announced, OutboxTypeOK, Sender
  <2> QED
    BY <1>2, <1>4, <2>1, <2>2, <2>3 DEF OutboxRows, AnnouncedIsUnderway
<1>7. CASE SendFails(p)
  BY <1>0, <1>1, <1>5, <1>7
  DEF SendFails, SetSender, unfailedVars, OutboxTypeOK, Sender
<1>8. sender' = [sender EXCEPT ![p] = IdleSender] =>
         \A d \in Dispatchers : sender'[d].stage = "SENT" => sender'[d] = sender[d]
  BY DEF OutboxTypeOK, IdleSender, Idle
<1>9. CASE DispatcherCrash(p)
  BY <1>5, <1>8, <1>9 DEF DispatcherCrash, SetSender, unfailedVars, brokerVars
<1>10. ASSUME NEW row \in ReportRunRow, FencedWrite(p, row),
              s.stage # Idle, row.state = run[r].state, row.due = run[r].due,
              \/ row.dispatch = "PENDING" /\ ~row.dispatchDue
              \/ row.dispatch = "PUBLISHED" /\ s.stage = "SENT",
              sender' = [sender EXCEPT ![p] = IdleSender],
              UNCHANGED <<wire, dead, loop>>
       PROVE  OutboxRows' /\ AnnouncedIsUnderway'
  <2>1. CASE ~HoldsReportTicket(run[r], s.ticket)
    BY <1>0, <1>5, <1>8, <1>10, <2>1 DEF FencedWrite
  <2>2. CASE HoldsReportTicket(run[r], s.ticket)
    <3>1. run'[r] = row /\ \A e \in Runs : e # r => run'[e] = run[e]
      BY <1>0, <1>1, <1>10, <2>2, SetRunRow DEF FencedWrite
    <3>2. OutboxRow(row)
      BY <1>1, <1>10, <2>2 DEF OutboxRow, HoldsReportTicket
    <3>3. ASSUME NEW e \in Runs, e # r, Announced(e)' PROVE Announced(e)
      BY <1>8, <1>10, <3>1, <3>3 DEF Announced
    <3>4. ASSUME Announced(r)' PROVE Announced(r)
      <4>1. row.state = "PENDING" /\ row.dispatch = "PUBLISHED"
        BY <1>10, <3>1, <3>4 DEF Announced
      <4>2. s.stage = "SENT" /\ s.ticket = run[r].ticket
            /\ run[r].dispatch = "DISPATCHING"
        BY <1>10, <2>2, <4>1 DEF HoldsReportTicket
      <4>3. s = [stage |-> s.stage, run |-> r, ticket |-> s.ticket]
        BY <1>0, <1>1, SenderRecord
      <4>4. sender[p] = [stage |-> "SENT", run |-> r, ticket |-> run[r].ticket]
        BY <4>2, <4>3
      <4> QED
        BY <1>10, <4>1, <4>2, <4>4 DEF Announced
    <3>5. \A e \in Runs : Underway(e) => Underway(e)'
      BY <1>10 DEF Underway, Carries
    <3>6. OutboxRows'
      BY <1>2, <3>1, <3>2 DEF OutboxRows
    <3>7. ASSUME NEW e \in Runs, Announced(e)' PROVE Underway(e)'
      <4>1. Announced(e)
        BY <3>3, <3>4, <3>7
      <4> QED
        BY <1>2, <3>5, <4>1
    <3> QED
      BY <3>6, <3>7 DEF AnnouncedIsUnderway
  <2> QED
    BY <2>1, <2>2
<1>11. CASE ConfirmPublished(p)
  <2>1. /\ MarkReportPublished(run[r]) \in ReportRunRow
        /\ MarkReportPublished(run[r]).dispatch = "PUBLISHED"
        /\ MarkReportPublished(run[r]).state = run[r].state
        /\ MarkReportPublished(run[r]).due = run[r].due
    BY <1>1, PublishedRow, OutboxColumnsKeep
  <2> QED
    BY <1>0, <1>10, <1>11, <2>1 DEF ConfirmPublished, SetSender, brokerVars, Idle
<1>12. CASE PutBack(p)
  <2>1. /\ ReleaseReport(run[r]) \in ReportRunRow
        /\ ReleaseReport(run[r]).dispatch = "PENDING"
        /\ ReleaseReport(run[r]).dispatchDue = FALSE
        /\ ReleaseReport(run[r]).state = run[r].state
        /\ ReleaseReport(run[r]).due = run[r].due
    BY <1>1, PutBackRow, OutboxColumnsKeep
  <2> QED
    BY <1>0, <1>10, <1>12, <2>1 DEF PutBack, SetSender, brokerVars, Idle
<1> QED
  BY <1>3, <1>6, <1>7, <1>9, <1>11, <1>12 DEF Dispatch

LEMMA TimeKeepsMessages ==
    ASSUME ReportTypeOK, OutboxInvariant, NEW r \in Runs,
           UserRequest(r) \/ TimePasses(r) \/ TicketLapse(r)
    PROVE  OutboxRows' /\ AnnouncedIsUnderway'
<1>1. OutboxRows /\ \A q \in Runs : Announced(q) => Underway(q)
  BY DEF OutboxInvariant, AnnouncedIsUnderway
<1>2. UNCHANGED <<sender, wire, dead, loop>>
  BY DEF UserRequest, TimePasses, TicketLapse, outboxVars, brokerVars
<1>3. RowsKeepOutbox
  <2>1. CASE UserRequest(r) \/ TimePasses(r)
    BY <1>1, <2>1, RequestKeepsOutbox DEF UserRequest, TimePasses
  <2>2. CASE TicketLapse(r)
    <3> DEFINE row == [run[r] EXCEPT !.ticketLive = FALSE]
    <3>1. run[r] \in ReportRunRow /\ OutboxRow(run[r])
      BY <1>1 DEF ReportTypeOK, OutboxRows
    <3>2. /\ row \in ReportRunRow /\ row.state = run[r].state
          /\ row.due = run[r].due /\ row.dispatch = run[r].dispatch
          /\ row.dispatchDue = run[r].dispatchDue /\ row.ticket = run[r].ticket
      BY <3>1 DEF ReportRunRow
    <3>3. SetRun(r, row)
      BY <2>2 DEF TicketLapse, SetRun
    <3> HIDE DEF row
    <3>4. OutboxRow(row) /\ AnnouncesNothing(run[r], row)
      BY <3>1, <3>2 DEF OutboxRow, AnnouncesNothing, Waiting
    <3> QED
      BY <1>1, <3>2, <3>3, <3>4, RowKeepsOutbox
  <2> QED
    BY <2>1, <2>2
<1>4. ASSUME NEW q \in Runs, Announced(q)' PROVE Underway(q)'
  <2>1. Underway(q)
    BY <1>1, <1>2, <1>3, <1>4, NothingAnnounced
  <2> QED
    BY <1>2, <2>1 DEF Underway, Carries
<1> QED
  BY <1>3, <1>4 DEF OutboxRows, AnnouncedIsUnderway, RowsKeepOutbox

LEMMA CallbackKeepsMessages ==
    ASSUME ReportTypeOK, OutboxTypeOK, ReportInvariant, OutboxInvariant,
           NEW w \in Workers,
           \/ Consume(w) \/ EndWork(w) \/ HeartbeatRaises(w) \/ CallbackRaises(w)
           \/ NackRequeue(w) \/ ChannelLost(w) \/ WorkerCrash(w)
    PROVE  OutboxRows' /\ AnnouncedIsUnderway'
<1>0. PICK r \in Runs : r = loop[w].run
  BY LoopTyped
<1>1. /\ OutboxRows /\ \A q \in Runs : Announced(q) => Underway(q)
      /\ loop[w] \in Loop /\ wire \in [Runs -> Nat]
  BY LoopTyped DEF OutboxInvariant, AnnouncedIsUnderway, OutboxTypeOK
<1>2. ASSUME RowsKeepOutbox, UNCHANGED sender,
             \A q \in Runs : Announced(q) /\ Announced(q)' /\ Underway(q)
                                => Underway(q)'
      PROVE  OutboxRows' /\ AnnouncedIsUnderway'
  <2>1. ASSUME NEW q \in Runs, Announced(q)' PROVE Underway(q)'
    <3>1. Announced(q)
      BY <1>2, <2>1, NothingAnnounced
    <3> QED
      BY <1>1, <1>2, <2>1, <3>1
  <2> QED
    BY <1>2, <2>1 DEF OutboxRows, AnnouncedIsUnderway, RowsKeepOutbox
<1>3. ASSUME NEW q \in Runs, Underway(q), NEW l \in Loop,
             loop' = [loop EXCEPT ![w] = l],
             dead \subseteq dead',
             wire[q] > 0 => wire'[q] > 0 \/ Carries(w, q)',
             Carries(w, q) => wire'[q] > 0 \/ q \in dead' \/ Carries(w, q)'
      PROVE  Underway(q)'
  BY <1>3, UnderwayStays DEF OutboxTypeOK
\* The callback moves on to a stage that carries its message as before.
<1>4. ASSUME NEW q \in Runs, Underway(q),
             NEW stage \in {"READ", "CLAIM", "WORK", "RAISE", "ACK"},
             GoTo(w, stage), UNCHANGED <<wire, dead>>,
             q = r => stage \in {"CLAIM", "RAISE"} \/ loop[w].stage \in {"WORK", "ACK"}
      PROVE  Underway(q)'
  <2> DEFINE l == [loop[w] EXCEPT !.stage = stage]
  <2>1. /\ l \in Loop /\ l.stage = stage /\ l.run = loop[w].run
        /\ l.tagged = loop[w].tagged
    BY <1>1 DEF Loop
  <2>2. loop' = [loop EXCEPT ![w] = l]
    BY <1>4 DEF GoTo
  <2> HIDE DEF l
  <2>3. loop'[w] = l
    BY <2>2 DEF OutboxTypeOK
  <2>4. Carries(w, q) => Carries(w, q)'
    BY <1>0, <1>4, <2>1, <2>3 DEF Carries
  <2> QED
    BY <1>3, <1>4, <2>1, <2>2, <2>4
<1>5. UNCHANGED run => RowsKeepOutbox
  BY <1>1, RowsStay
<1>6. ASSUME NEW d \in Runs, Deliver(w, d) PROVE OutboxRows' /\ AnnouncedIsUnderway'
  <2> DEFINE l == [stage |-> "READ", run |-> d, tagged |-> TRUE]
  <2>1. /\ UNCHANGED <<run, sender, dead>> /\ loop' = [loop EXCEPT ![w] = l]
        /\ loop[w].stage = Idle /\ wire' = [wire EXCEPT ![d] = @ - 1]
    BY <1>6 DEF Deliver, reportVars, outboxVars
  <2>2. l \in Loop /\ loop'[w] = l
    BY <2>1 DEF Loop, OutboxTypeOK
  <2>3. ASSUME NEW q \in Runs, Underway(q) PROVE Underway(q)'
    <3>1. ~Carries(w, q)
      BY <2>1 DEF Carries, Idle
    <3>2. q = d => Carries(w, q)'
      BY <2>2 DEF Carries
    <3>3. q # d => wire'[q] = wire[q]
      BY <1>1, <2>1
    <3> QED
      BY <1>3, <2>1, <2>2, <2>3, <3>1, <3>2, <3>3
  <2> QED
    BY <1>2, <1>5, <2>1, <2>3
<1>7. CASE ReadRun(w)
  <2>1. UNCHANGED <<sender, wire, dead>> /\ loop[w].stage = "READ"
    BY <1>7 DEF ReadRun, outboxVars, brokerVars
  <2>2. CASE DetectStale(r) /\ GoTo(w, "ACK")
    <3>1. RowsKeepOutbox
      BY <1>1, <2>2, RequestKeepsOutbox
    <3>2. run[r] \in ReportRunRow /\ SetRun(r, MarkStale(run[r]))
      BY <2>2 DEF DetectStale, ReportTypeOK
    <3>3. ~Announced(r)'
      BY <3>2, StaleRow, SetRunRow DEF Announced
    <3> QED
      BY <1>2, <1>4, <2>1, <2>2, <3>1, <3>3
  <2>3. CASE ~Exists(r) /\ GoTo(w, "ACK") /\ UNCHANGED reportVars
    <3>1. ~Announced(r)
      BY <2>3 DEF Announced, Exists
    <3> QED
      BY <1>2, <1>4, <1>5, <2>1, <2>3, <3>1 DEF reportVars
  <2>4. CASE Exists(r) /\ GoTo(w, "CLAIM") /\ UNCHANGED reportVars
    BY <1>2, <1>4, <1>5, <2>1, <2>4 DEF reportVars
  <2> QED
    BY <1>0, <1>7, <2>2, <2>3, <2>4 DEF ReadRun
<1>8. CASE ClaimAndWork(w)
  <2>1. /\ UNCHANGED <<sender, wire, dead>> /\ Grant(w, r) /\ GoTo(w, "WORK")
    BY <1>0, <1>8 DEF ClaimAndWork, outboxVars, brokerVars
  <2>2. RowsKeepOutbox
    BY <1>1, <2>1, WorkKeepsOutbox
  <2>3. /\ run[r] \in ReportRunRow /\ issued[r] + 1 \in Nat
        /\ SetRun(r, TakeReportLease(run[r], issued[r] + 1))
    BY <2>1 DEF Grant, ReportTypeOK
  <2>4. ~Announced(r)'
    BY <2>3, LeasedRow, SetRunRow DEF Announced
  <2> QED
    BY <1>2, <1>4, <2>1, <2>2, <2>4
<1>9. CASE ClaimRefused(w)
  <2>1. UNCHANGED <<sender, wire, dead>> /\ GoTo(w, "ACK")
    BY <1>9 DEF ClaimRefused, outboxVars, brokerVars
  <2>2. CASE Exhaust(w, r)
    <3>1. RowsKeepOutbox
      BY <1>1, <2>2, WorkKeepsOutbox
    <3>2. run[r] \in ReportRunRow /\ SetRun(r, ExhaustRun(run[r]))
      BY <2>2 DEF Exhaust, ReportTypeOK
    <3>3. ~Announced(r)'
      BY <3>2, ExhaustedRow, SetRunRow DEF Announced
    <3> QED
      BY <1>2, <1>4, <2>1, <3>1, <3>3
  <2>3. CASE ~ReportClaimable(run[r]) /\ UNCHANGED reportVars
    <3>1. ~Announced(r)
      BY <1>1, <2>3 DEF OutboxRows, OutboxRow, ReportClaimable, Announced
    <3> QED
      BY <1>2, <1>4, <1>5, <2>1, <2>3, <3>1 DEF reportVars
  <2> QED
    BY <1>0, <1>9, <2>2, <2>3 DEF ClaimRefused
<1>10. CASE EndWork(w)
  <2>1. /\ UNCHANGED <<sender, wire, dead>> /\ loop[w].stage = "WORK"
        /\ GoTo(w, "ACK") \/ GoTo(w, "RAISE")
    BY <1>10 DEF EndWork, LeaveClaim, outboxVars, brokerVars
  <2>2. RowsKeepOutbox
    <3>1. held[w].lease \in Nat \/ ~Busy(w)
      BY WorkTyped
    <3>2. CASE \/ Publish(w, held[w].lease) \/ Ask(w)
               \/ Fail(w, "RETRYABLE") \/ Fail(w, "FATAL")
      BY <1>1, <3>1, <3>2, WorkKeepsOutbox DEF ReportError, Publish, Owns
    <3>3. CASE LoseLease(w)
      BY <1>5, <3>3 DEF LoseLease
    <3> QED
      BY <1>10, <3>2, <3>3 DEF EndWork
  <2> QED
    BY <1>2, <1>4, <2>1, <2>2
<1>11. CASE HeartbeatRaises(w)
  <2>1. UNCHANGED <<run, sender, wire, dead, loop>>
    BY <1>11 DEF HeartbeatRaises, HeartbeatCrash, outboxVars, brokerVars
  <2> QED
    BY <1>2, <1>5, <2>1 DEF Underway, Carries
<1>12. Abandon(w) => UNCHANGED run
  BY DEF Abandon, Crash, unfailedVars
<1>13. CASE CallbackRaises(w)
  <2>1. UNCHANGED <<run, sender, wire, dead>> /\ GoTo(w, "RAISE")
    BY <1>12, <1>13 DEF CallbackRaises, outboxVars, brokerVars
  <2> QED
    BY <1>2, <1>4, <1>5, <2>1
<1>14. CASE DeadLetter(w)
  <2> DEFINE l == [loop[w] EXCEPT !.stage = "ACK"]
  <2>1. /\ UNCHANGED <<run, sender, wire>> /\ dead' = dead \cup {r}
        /\ loop' = [loop EXCEPT ![w] = l]
    BY <1>0, <1>14 DEF DeadLetter, GoTo, reportVars, outboxVars
  <2>2. l \in Loop
    BY <1>1 DEF Loop
  <2> HIDE DEF l
  <2>3. ASSUME NEW q \in Runs, Underway(q) PROVE Underway(q)'
    BY <1>0, <1>3, <2>1, <2>2, <2>3 DEF Carries
  <2> QED
    BY <1>2, <1>5, <2>1, <2>3
\* The callback drops out; the broker has its message again.
<1>15. ASSUME ReturnMessage(w), NEW l \in Loop, loop' = [loop EXCEPT ![w] = l],
              UNCHANGED <<run, sender, dead>>
       PROVE  OutboxRows' /\ AnnouncedIsUnderway'
  <2>1. ASSUME NEW q \in Runs, Underway(q) PROVE Underway(q)'
    <3>1. wire[q] > 0 => wire'[q] > 0
      BY <1>0, <1>1, <1>15 DEF ReturnMessage, Put
    <3>2. Carries(w, q) => wire'[q] > 0
      BY <1>0, <1>1, <1>15 DEF ReturnMessage, Put, Carries
    <3> QED
      BY <1>3, <1>15, <2>1, <3>1, <3>2
  <2> QED
    BY <1>2, <1>5, <1>15, <2>1
<1>16. CASE NackRequeue(w) \/ WorkerCrash(w)
  BY <1>12, <1>15, <1>16, IdleTyped
  DEF NackRequeue, WorkerCrash, reportVars, unfailedVars, outboxVars
<1>17. CASE ChannelLost(w)
  <2>1. [loop[w] EXCEPT !.tagged = FALSE] \in Loop
    BY <1>1 DEF Loop
  <2> QED
    BY <1>15, <1>17, <2>1 DEF ChannelLost, unfailedVars, outboxVars
<1>18. CASE Ack(w)
  <2>1. /\ UNCHANGED <<run, sender, wire, dead>> /\ loop[w].stage = "ACK"
        /\ loop' = [loop EXCEPT ![w] = IdleLoop]
    BY <1>18 DEF Ack, reportVars, outboxVars, brokerVars
  <2>2. ASSUME NEW q \in Runs, Underway(q) PROVE Underway(q)'
    BY <1>3, <2>1, <2>2, IdleTyped DEF Carries
  <2> QED
    BY <1>2, <1>5, <2>1, <2>2
<1> QED
  BY <1>6, <1>7, <1>8, <1>9, <1>10, <1>11, <1>13, <1>14, <1>16, <1>17, <1>18
  DEF Consume

LEMMA TicketsStayDrawn ==
    ASSUME OutboxTypeOK, TicketsDrawn, [Next]_vars
    PROVE  TicketsDrawn'
<1>1. CASE UNCHANGED <<drawn, sender>>
  BY <1>1 DEF TicketsDrawn
<1>2. ASSUME NEW p \in Dispatchers, NEW r \in Runs, ClaimReport(p, r)
      PROVE  TicketsDrawn'
  <2>1. /\ drawn[r] \in Nat /\ drawn' = [drawn EXCEPT ![r] = drawn[r] + 1]
        /\ sender' = [sender EXCEPT ![p] =
                         [stage |-> "CLAIMED", run |-> r, ticket |-> drawn[r] + 1]]
    BY <1>2 DEF ClaimReport, SetSender, OutboxTypeOK
  <2>2. \A q \in Runs : /\ drawn[q] \in Nat /\ drawn'[q] \in Nat
                         /\ drawn[q] <= drawn'[q]
    BY <2>1 DEF OutboxTypeOK
  <2>3. ASSUME NEW d \in Dispatchers, sender'[d].stage # Idle
        PROVE  sender'[d].ticket <= drawn'[sender'[d].run]
    <3>1. CASE d = p
      BY <2>1, <3>1 DEF OutboxTypeOK
    <3>2. CASE d # p
      <4>1. sender'[d] = sender[d] /\ sender[d].run \in Runs /\ sender[d].ticket \in Nat
        BY <2>1, <3>2, SenderTyped DEF OutboxTypeOK
      <4>2. sender[d].ticket <= drawn[sender[d].run]
        BY <2>3, <4>1 DEF TicketsDrawn
      <4> QED
        BY <2>2, <4>1, <4>2
    <3> QED
      BY <3>1, <3>2
  <2> QED
    BY <2>3 DEF TicketsDrawn
<1>3. ASSUME NEW p \in Dispatchers, UNCHANGED drawn, NEW s,
             sender' = [sender EXCEPT ![p] = s],
             s.stage = Idle \/ (sender[p].stage # Idle /\ s.run = sender[p].run
                                   /\ s.ticket = sender[p].ticket)
      PROVE  TicketsDrawn'
  BY <1>3 DEF TicketsDrawn, OutboxTypeOK
<1>4. ASSUME NEW p \in Dispatchers, Send(p) \/ SendFails(p)
      PROVE  TicketsDrawn'
  <2>1. ASSUME NEW stage \in {"SENT", "REFUSED"}
        PROVE  /\ [sender[p] EXCEPT !.stage = stage].run = sender[p].run
               /\ [sender[p] EXCEPT !.stage = stage].ticket = sender[p].ticket
    BY SenderTyped DEF Sender
  <2> QED
    BY <1>3, <1>4, <2>1 DEF Send, SendFails, SetSender, Idle
<1>5. ASSUME NEW p \in Dispatchers,
             ConfirmPublished(p) \/ PutBack(p) \/ DispatcherCrash(p)
      PROVE  TicketsDrawn'
  BY <1>3, <1>5
  DEF ConfirmPublished, PutBack, DispatcherCrash, SetSender, IdleSender
<1>6. CASE UNCHANGED vars \/ \E r \in Runs : \/ UserRequest(r) \/ TimePasses(r)
                                             \/ TicketLapse(r)
  BY <1>1, <1>6 DEF vars, UserRequest, TimePasses, TicketLapse, outboxVars
<1>7. ASSUME NEW w \in Workers,
             \/ Consume(w) \/ EndWork(w) \/ HeartbeatRaises(w) \/ CallbackRaises(w)
             \/ NackRequeue(w) \/ ChannelLost(w) \/ WorkerCrash(w)
      PROVE  TicketsDrawn'
  BY <1>1, <1>7
  DEF Consume, Deliver, ReadRun, ClaimAndWork, ClaimRefused, DeadLetter, Ack,
      EndWork, LeaveClaim, HeartbeatRaises, CallbackRaises, NackRequeue,
      ChannelLost, WorkerCrash, reportVars, outboxVars
<1> QED
  BY <1>2, <1>4, <1>5, <1>6, <1>7 DEF Next, Dispatch

\* Without an error of a session nothing dies but a worker.
LEMMA NoErrorNoDeadLetter ==
    ASSUME ReportTypeOK, OutboxTypeOK, DeadOnErrorOnly, [Next]_vars
    PROVE  DeadOnErrorOnly'
<1> SUFFICES ASSUME ~DatabaseErrors, dead = {},
                    \A w \in Workers : loop[w].stage # "RAISE",
                    \A w \in Workers : Busy(w) => held[w].beating
             PROVE  /\ dead' = {}
                    /\ \A w \in Workers : loop'[w].stage # "RAISE"
                    /\ \A w \in Workers : held'[w] # NoWork => held'[w].beating
  BY DEF DeadOnErrorOnly, Busy
<1>1. UNCHANGED held => \A w \in Workers : held'[w] # NoWork => held'[w].beating
  BY DEF Busy
<1>2. CASE UNCHANGED <<dead, loop, held>>
  BY <1>1, <1>2
<1>3. CASE \/ UNCHANGED vars
           \/ \E r \in Runs : UserRequest(r) \/ TimePasses(r) \/ TicketLapse(r)
  BY <1>2, <1>3
  DEF vars, reportVars, brokerVars, UserRequest, TimePasses, TicketLapse, Request,
      Create, Cancel, Retry, Resume, AdmitDelete, DeleteRun, DocumentChanges,
      LeaseLapse, BecomesDue
<1>4. CASE \E p \in Dispatchers : Dispatch(p) \/ SendFails(p) \/ DispatcherCrash(p)
  BY <1>2, <1>4
  DEF Dispatch, ClaimReport, Send, ConfirmPublished, PutBack, SendFails,
      DispatcherCrash, reportVars, unfailedVars, brokerVars
<1>5. ASSUME NEW w \in Workers,
             \/ Consume(w) \/ EndWork(w) \/ HeartbeatRaises(w) \/ CallbackRaises(w)
             \/ NackRequeue(w) \/ ChannelLost(w) \/ WorkerCrash(w)
      PROVE  /\ dead' = {}
             /\ \A v \in Workers : loop'[v].stage # "RAISE"
             /\ \A v \in Workers : held'[v] # NoWork => held'[v].beating
  <2>1. Release(w) => \A v \in Workers : held'[v] # NoWork => held'[v].beating
    BY DEF Release, Busy, ReportTypeOK
  <2>2. ASSUME NEW stage \in {"READ", "CLAIM", "WORK", "ACK"}, GoTo(w, stage)
        PROVE  \A v \in Workers : loop'[v].stage # "RAISE"
    <3>1. [loop[w] EXCEPT !.stage = stage].stage = stage
      BY LoopTyped DEF Loop
    <3> QED
      BY <2>2, <3>1 DEF GoTo, OutboxTypeOK
  <2>3. loop' = [loop EXCEPT ![w] = IdleLoop]
           => \A v \in Workers : loop'[v].stage # "RAISE"
    BY DEF IdleLoop, Idle, OutboxTypeOK
  <2>4. CASE \E r \in Runs : Deliver(w, r)
    BY <1>1, <2>4 DEF Deliver, reportVars, OutboxTypeOK
  <2>5. CASE ReadRun(w)
    BY <1>1, <2>2, <2>5 DEF ReadRun, DetectStale, reportVars, brokerVars
  <2>6. CASE ClaimAndWork(w)
    <3>1. \A v \in Workers : held'[v] # NoWork => held'[v].beating
      BY <2>6 DEF ClaimAndWork, Grant, Busy, ReportTypeOK
    <3> QED
      BY <2>2, <2>6, <3>1 DEF ClaimAndWork, brokerVars
  <2>7. CASE ClaimRefused(w)
    BY <1>1, <2>2, <2>7 DEF ClaimRefused, Exhaust, reportVars, brokerVars
  <2>8. CASE EndWork(w)
    <3>1. Busy(w) /\ Release(w)
      BY <2>8 DEF EndWork, Publish, Ask, Fail, LoseLease, Owns, Holds
    <3> QED
      BY <2>1, <2>2, <2>8, <3>1 DEF EndWork, LeaveClaim, brokerVars
  <2>9. CASE HeartbeatRaises(w) \/ CallbackRaises(w)
    BY <2>9 DEF HeartbeatRaises, CallbackRaises
  <2>10. CASE DeadLetter(w) \/ NackRequeue(w)
    BY <2>10 DEF DeadLetter, NackRequeue
  <2>11. CASE Ack(w)
    BY <1>1, <2>3, <2>11 DEF Ack, reportVars, brokerVars
  <2>12. CASE ChannelLost(w)
    <3>1. [loop[w] EXCEPT !.tagged = FALSE].stage = loop[w].stage
      BY LoopTyped DEF Loop
    <3> QED
      BY <1>1, <2>12, <3>1 DEF ChannelLost, unfailedVars, OutboxTypeOK
  <2>13. CASE WorkerCrash(w)
    BY <1>1, <2>1, <2>3, <2>13 DEF WorkerCrash, Abandon, Crash, unfailedVars
  <2> QED
    BY <1>5, <2>4, <2>5, <2>6, <2>7, <2>8, <2>9, <2>10, <2>11, <2>12, <2>13
    DEF Consume
<1> QED
  BY <1>3, <1>4, <1>5 DEF Next

LEMMA OutboxInvariantStep ==
    ReportTypeOK /\ OutboxTypeOK /\ ReportInvariant /\ OutboxInvariant
       /\ [Next]_vars => OutboxInvariant'
<1> SUFFICES ASSUME ReportTypeOK, OutboxTypeOK, ReportInvariant,
                    OutboxInvariant, [Next]_vars
             PROVE  OutboxInvariant'
  OBVIOUS
<1>1. TicketsDrawn' /\ DeadOnErrorOnly'
  BY TicketsStayDrawn, NoErrorNoDeadLetter DEF OutboxInvariant
<1>2. CASE UNCHANGED vars
  BY <1>1, <1>2
  DEF vars, reportVars, outboxVars, brokerVars, OutboxInvariant, OutboxRows,
      AnnouncedIsUnderway, Announced, Underway, Carries
<1>3. CASE Next
  BY <1>1, <1>3, DispatcherKeepsMessages, TimeKeepsMessages, CallbackKeepsMessages
  DEF Next, OutboxInvariant
<1> QED
  BY <1>2, <1>3

\* Whatever the runs, workers, dispatchers and bounds, a message that was sent
\* for a waiting run stays underway until somebody starts the run.
THEOREM OutboxInvariantHolds == Spec => []OutboxInvariant
<1>1. Init => OutboxInvariant
  BY OutboxInitInvariant
<1>2. (ReportDispatchTypeOK /\ ReportInvariant) /\ OutboxInvariant /\ [Next]_vars
         => OutboxInvariant'
  BY OutboxInvariantStep DEF ReportDispatchTypeOK, OutboxTypeOK
<1> QED
  BY <1>1, <1>2, ReportDispatchTypeCorrect, PTL DEF Spec

-----------------------------------------------------------------------------
(* What follows *)

\* The outbox, the broker, a callback or the reconciler still has to do with
\* every active run, or a session error dead-lettered its message.
LEMMA NobodyIsStranded ==
    ASSUME ReportDispatchTypeOK, OutboxInvariant
    PROVE  NoStrandedRun
<1> SUFFICES ASSUME NEW r \in Runs, run[r].state \in Active
             PROVE  Carried(r) \/ (DatabaseErrors /\ DeadLettered(r))
  BY DEF NoStrandedRun
<1>1. run[r] \in ReportRunRow /\ OutboxRow(run[r])
  BY DEF ReportDispatchTypeOK, ReportTypeOK, OutboxInvariant, OutboxRows
<1>2. run[r].dispatch \in {"PENDING", "DISPATCHING", "PUBLISHED"}
  BY <1>1 DEF ReportRunRow, DispatchState, OutboxRow
<1>3. CASE run[r].dispatch # "PUBLISHED" \/ run[r].state = "PROCESSING"
  BY <1>2, <1>3 DEF Carried
<1>4. CASE run[r].dispatch = "PUBLISHED" /\ run[r].state = "PENDING"
  <2>1. Underway(r)
    BY <1>4 DEF OutboxInvariant, AnnouncedIsUnderway, Announced
  <2>2. CASE \/ wire[r] > 0
             \/ \E w \in Workers : Carries(w, r) /\ loop[w].stage \in {"READ", "CLAIM"}
    BY <2>2 DEF Carried, Carries
  <2>3. CASE \/ r \in dead
             \/ \E w \in Workers : Carries(w, r) /\ loop[w].stage = "RAISE"
    BY <2>3 DEF DeadLettered, Carries, OutboxInvariant, DeadOnErrorOnly
  <2> QED
    BY <2>1, <2>2, <2>3 DEF Underway, Carries
<1> QED
  BY <1>2, <1>3, <1>4 DEF Active

\* No interleaving of dispatchers, broker, workers, users and crashes leaves an
\* active run that nobody will pick up.
THEOREM NoStrandedRunHolds == Spec => []NoStrandedRun
  BY NobodyIsStranded, OutboxInvariantHolds, ReportDispatchTypeCorrect, PTL

LEMMA CancelledStaysQuiet == OutboxInvariant => CancelledNotRedispatched
  BY DEF OutboxInvariant, OutboxRows, OutboxRow, CancelledNotRedispatched

\* Whoever was sending a run when its user cancelled it, it is not sent again.
THEOREM CancelledNotRedispatchedHolds == Spec => []CancelledNotRedispatched
  BY CancelledStaysQuiet, OutboxInvariantHolds, PTL

\* Under the outbox too, one worker at a time can end the attempt of a run.
THEOREM OneReportOwnerUnderDispatch == Spec => []OneReportOwner
  BY DispatchImplementsReportQueue, OneReportOwnerHolds, PTL

=============================================================================
