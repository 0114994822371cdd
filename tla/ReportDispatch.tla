---------------------------- MODULE ReportDispatch ----------------------------
(***************************************************************************)
(* The outbox of report runs over RabbitMQ: dispatchers claim due runs,    *)
(* publish and confirm (src/app/services/report_dispatch.py), the broker   *)
(* may repeat a message, and report workers consume, acknowledge or        *)
(* dead-letter it (src/app/workers/report_generation_worker.py over        *)
(* src/app/rag/core/mq/), on top of the row and the leases of ReportQueue. *)
(*                                                                         *)
(* A document task sleeps until it is due and a worker retries its message *)
(* itself; a report message is used up by the first worker that reads it,  *)
(* whether or not the run could be claimed.                                *)
(***************************************************************************)
EXTENDS ReportQueue

CONSTANTS Dispatchers,      \* processes running the reconciler or the API
          MaxCopies,        \* bound: messages a reconciler queues for a dead worker
          DatabaseErrors    \* whether a worker's session may raise

ASSUME ReportCopiesAssumption ==
    MaxCopies \in Nat \ {0} /\ DatabaseErrors \in BOOLEAN /\ Runs # {}

VARIABLES drawn,        \* per run, how many outbox tokens were drawn
          sender,       \* per dispatcher, the ReportDispatchClaim it publishes
          wire,         \* per run, copies of its message in the broker queue
          dead,         \* runs with a message in the dead-letter queue
          loop          \* per worker, the message callback it is running

outboxVars == <<drawn, sender>>

brokerVars == <<wire, dead>>

vars == <<reportVars, outboxVars, brokerVars, loop>>

Idle == "IDLE"

Sender == [stage : {Idle, "CLAIMED", "SENT", "REFUSED"}, run : Runs, ticket : Nat]

\* READ looks at run and document, CLAIM claims in a session of its own, WORK
\* runs _process_claim, RAISE has thrown, ACK still has to acknowledge.
Loop == [stage : {Idle, "READ", "CLAIM", "WORK", "RAISE", "ACK"}, run : Runs,
         tagged : BOOLEAN]

AnyRun == CHOOSE r \in Runs : TRUE

IdleSender == [stage |-> Idle, run |-> AnyRun, ticket |-> 0]

IdleLoop == [stage |-> Idle, run |-> AnyRun, tagged |-> FALSE]

Init ==
    /\ ReportInit
    /\ drawn = [r \in Runs |-> 0]
    /\ sender = [p \in Dispatchers |-> IdleSender]
    /\ wire = [r \in Runs |-> 0]
    /\ dead = {}
    /\ loop = [w \in Workers |-> IdleLoop]

Put(r) == wire' = [wire EXCEPT ![r] = @ + 1]

SetSender(p, s) == sender' = [sender EXCEPT ![p] = s]

GoTo(w, stage) == loop' = [loop EXCEPT ![w].stage = stage]

-----------------------------------------------------------------------------
(* Outbox *)

\* _claim_specific and _claim_next.  A run whose worker died is selected in
\* every poll until somebody takes it; MaxCopies bounds the messages that makes.
ClaimReport(p, r) ==
    /\ sender[p].stage = Idle
    /\ Selected(run[r])
    /\ Abandoned(run[r]) => wire[r] < MaxCopies
    /\ LET ticket == drawn[r] + 1 IN
       /\ drawn' = [drawn EXCEPT ![r] = ticket]
       /\ SetRun(r, TakeReportTicket(run[r], ticket))
       /\ SetSender(p, [stage |-> "CLAIMED", run |-> r, ticket |-> ticket])
    /\ UNCHANGED <<issued, held, changed, deleting, rounds, faults, brokerVars,
                   loop>>

\* publisher.send returned: the broker has confirmed one more copy.
Send(p) ==
    /\ sender[p].stage = "CLAIMED"
    /\ Put(sender[p].run)
    /\ SetSender(p, [sender[p] EXCEPT !.stage = "SENT"])
    /\ UNCHANGED <<reportVars, drawn, dead, loop>>

\* The row after a fenced update of p: row while p still holds its ticket.
FencedWrite(p, row) ==
    LET r == sender[p].run
    IN  IF HoldsReportTicket(run[r], sender[p].ticket)
        THEN SetRun(r, row) ELSE UNCHANGED run

\* The update to PUBLISHED, or its rollback when the fence fails.
ConfirmPublished(p) ==
    /\ sender[p].stage = "SENT"
    /\ FencedWrite(p, MarkReportPublished(run[sender[p].run]))
    /\ SetSender(p, IdleSender)
    /\ UNCHANGED <<issued, held, changed, deleting, rounds, faults, drawn,
                   brokerVars, loop>>

\* publisher.send raised, with or without the message having been queued.
SendFails(p) ==
    /\ sender[p].stage = "CLAIMED"
    /\ Fault
    /\ Put(sender[p].run) \/ UNCHANGED wire
    /\ SetSender(p, [sender[p] EXCEPT !.stage = "REFUSED"])
    /\ UNCHANGED <<unfailedVars, drawn, dead, loop>>

\* _release_for_retry puts the row back for the reconciler.
PutBack(p) ==
    /\ sender[p].stage = "REFUSED"
    /\ FencedWrite(p, ReleaseReport(run[sender[p].run]))
    /\ SetSender(p, IdleSender)
    /\ UNCHANGED <<issued, held, changed, deleting, rounds, faults, drawn,
                   brokerVars, loop>>

\* The dispatching process dies between two of its steps.
DispatcherCrash(p) ==
    /\ sender[p].stage # Idle
    /\ Fault
    /\ SetSender(p, IdleSender)
    /\ UNCHANGED <<unfailedVars, drawn, brokerVars, loop>>

TicketAttended(r) ==
    \E p \in Dispatchers : sender[p].stage # Idle /\ sender[p].run = r
                              /\ sender[p].ticket = run[r].ticket

\* dispatch_lease_expires_at passes; under a running dispatcher by a stall.
TicketLapse(r) ==
    /\ run[r].ticketLive
    /\ \/ ~TicketAttended(r) /\ UNCHANGED faults
       \/ TicketAttended(r) /\ Fault
    /\ run' = [run EXCEPT ![r].ticketLive = FALSE]
    /\ UNCHANGED <<issued, held, changed, deleting, rounds, outboxVars,
                   brokerVars, loop>>

-----------------------------------------------------------------------------
(* Broker and message callback *)

Deliver(w, r) ==
    /\ loop[w].stage = Idle
    /\ wire[r] > 0
    /\ wire' = [wire EXCEPT ![r] = @ - 1]
    /\ loop' = [loop EXCEPT ![w] = [stage |-> "READ", run |-> r, tagged |-> TRUE]]
    /\ UNCHANGED <<reportVars, outboxVars, dead>>

\* The first session of process_payload: the run is gone, its document has
\* changed, or it may be claimed.
ReadRun(w) ==
    /\ loop[w].stage = "READ"
    /\ LET r == loop[w].run IN
       \/ /\ DetectStale(r)
          /\ GoTo(w, "ACK")
       \/ /\ ~Exists(r) \/ r \notin changed
          /\ GoTo(w, IF Exists(r) THEN "CLAIM" ELSE "ACK")
          /\ UNCHANGED reportVars
    /\ UNCHANGED <<outboxVars, brokerVars>>

ClaimAndWork(w) ==
    /\ loop[w].stage = "CLAIM"
    /\ Grant(w, loop[w].run)
    /\ GoTo(w, "WORK")
    /\ UNCHANGED <<outboxVars, brokerVars>>

\* claim returned None: the message is done with.
ClaimRefused(w) ==
    /\ loop[w].stage = "CLAIM"
    /\ \/ Exhaust(w, loop[w].run)
       \/ ~ReportClaimable(run[loop[w].run]) /\ UNCHANGED reportVars
    /\ GoTo(w, "ACK")
    /\ UNCHANGED <<outboxVars, brokerVars>>

\* The finally block awaits the heartbeat task: one that died of an exception
\* raises it here, whatever the attempt came to.
LeaveClaim(w) ==
    /\ GoTo(w, IF held[w].beating THEN "ACK" ELSE "RAISE")
    /\ UNCHANGED <<outboxVars, brokerVars>>

EndWork(w) ==
    /\ loop[w].stage = "WORK"
    /\ \/ Publish(w, held[w].lease) \/ Ask(w) \/ LoseLease(w)
       \/ Fail(w, "RETRYABLE") \/ Fail(w, "FATAL")
    /\ LeaveClaim(w)

HeartbeatRaises(w) ==
    /\ DatabaseErrors
    /\ HeartbeatCrash(w)
    /\ UNCHANGED <<outboxVars, brokerVars, loop>>

\* The attempt, if one is running, is abandoned without touching the row.
Abandon(w) ==
    \/ Crash(w)
    \/ ~Busy(w) /\ Fault /\ UNCHANGED unfailedVars

\* A session of the callback, or of fail, raises.
CallbackRaises(w) ==
    /\ DatabaseErrors
    /\ loop[w].stage \in {"READ", "CLAIM", "WORK"}
    /\ Abandon(w)
    /\ GoTo(w, "RAISE")
    /\ UNCHANGED <<outboxVars, brokerVars>>

\* No exception here is a RetriableError: the message is dead-lettered.
DeadLetter(w) ==
    /\ loop[w].stage = "RAISE"
    /\ dead' = dead \cup {loop[w].run}
    /\ GoTo(w, "ACK")
    /\ UNCHANGED <<reportVars, outboxVars, wire>>

\* The broker queues an unacknowledged message again.
ReturnMessage(w) ==
    IF loop[w].tagged THEN Put(loop[w].run) ELSE UNCHANGED wire

\* Publishing to the dead-letter queue failed too: nack with requeue.  The
\* exception before it has been counted as a fault.
NackRequeue(w) ==
    /\ loop[w].stage = "RAISE"
    /\ ReturnMessage(w)
    /\ loop' = [loop EXCEPT ![w] = IdleLoop]
    /\ UNCHANGED <<reportVars, outboxVars, dead>>

Ack(w) ==
    /\ loop[w].stage = "ACK"
    /\ loop' = [loop EXCEPT ![w] = IdleLoop]
    /\ UNCHANGED <<reportVars, outboxVars, brokerVars>>

\* The channel breaks under a callback that keeps running.
ChannelLost(w) ==
    /\ loop[w].tagged
    /\ Fault
    /\ ReturnMessage(w)
    /\ loop' = [loop EXCEPT ![w].tagged = FALSE]
    /\ UNCHANGED <<unfailedVars, outboxVars, dead>>

\* The worker process dies anywhere in the callback.
WorkerCrash(w) ==
    /\ loop[w].stage # Idle
    /\ Abandon(w)
    /\ ReturnMessage(w)
    /\ loop' = [loop EXCEPT ![w] = IdleLoop]
    /\ UNCHANGED <<outboxVars, dead>>

-----------------------------------------------------------------------------

UserRequest(r) ==
    /\ Request(r) \/ Resume(r)
    /\ UNCHANGED <<outboxVars, brokerVars, loop>>

TimePasses(r) ==
    /\ LeaseLapse(r) \/ BecomesDue(r)
    /\ UNCHANGED <<outboxVars, brokerVars, loop>>

\* What a dispatcher does by itself; send need not succeed.
Dispatch(p) ==
    \/ \E r \in Runs : ClaimReport(p, r)
    \/ Send(p) \/ ConfirmPublished(p) \/ PutBack(p)

\* The message callback as it goes when nothing breaks.
Consume(w) ==
    \/ \E r \in Runs : Deliver(w, r)
    \/ ReadRun(w) \/ ClaimAndWork(w) \/ ClaimRefused(w)
    \/ DeadLetter(w) \/ Ack(w)

Next ==
    \/ \E r \in Runs : UserRequest(r) \/ TimePasses(r) \/ TicketLapse(r)
    \/ \E p \in Dispatchers : Dispatch(p) \/ SendFails(p) \/ DispatcherCrash(p)
    \/ \E w \in Workers :
          \/ Consume(w) \/ EndWork(w) \/ HeartbeatRaises(w) \/ CallbackRaises(w)
          \/ NackRequeue(w) \/ ChannelLost(w) \/ WorkerCrash(w)

Spec == Init /\ [][Next]_vars

\* The reconciler polls for ever, consumers keep consuming, an attempt ends
\* (the call of the agent service has a timeout) and time passes.
Fairness ==
    /\ \A p \in Dispatchers : WF_vars(Dispatch(p))
    /\ \A w \in Workers : WF_vars(Consume(w)) /\ WF_vars(EndWork(w))
    /\ \A r \in Runs : WF_vars(TimePasses(r)) /\ WF_vars(TicketLapse(r))

FairSpec == Spec /\ Fairness

-----------------------------------------------------------------------------
(* Properties *)

\* Every variable has its type.
ReportDispatchTypeOK ==
    /\ ReportTypeOK
    /\ drawn \in [Runs -> Nat]
    /\ sender \in [Dispatchers -> Sender]
    /\ wire \in [Runs -> Nat]
    /\ dead \subseteq Runs
    /\ loop \in [Workers -> Loop]

\* Somebody still has to do something about r: the outbox, the broker, a
\* callback whose message the broker would deliver again, or the reconciler
\* once the lease of a delivered run has expired.
Carried(r) ==
    \/ run[r].dispatch \in {"PENDING", "DISPATCHING"}
    \/ run[r].state = "PROCESSING" /\ run[r].dispatch = "PUBLISHED"
    \/ wire[r] > 0
    \/ \E w \in Workers : loop[w].tagged /\ loop[w].run = r
                             /\ loop[w].stage \in {"READ", "CLAIM", "WORK"}

\* A message of r went, or is going, to the dead letters.
DeadLettered(r) ==
    r \in dead \/ \E w \in Workers : loop[w].run = r /\ loop[w].stage = "RAISE"

\* Although the first worker to read a message uses it up, no interleaving of
\* publish, confirm, duplicate, crash, cancel, answer and retry leaves an
\* active run that nobody will pick up, unless a session error dead-lettered
\* its message (comment in _claim_next: "不重新投递的话任务会永远停在 PROCESSING").
NoStrandedRun ==
    \A r \in Runs : run[r].state \in Active =>
        Carried(r) \/ (DatabaseErrors /\ DeadLettered(r))

\* A cancelled run is not handed to the broker again, by whatever dispatcher
\* was sending it when the user cancelled.
CancelledNotRedispatched ==
    \A r \in Runs : run[r].state = "CANCELLED" => run[r].dispatch = "CANCELLED"

\* What a row promises the outbox: a run that waits for its delay is not out,
\* and the outbox leaves alone exactly what has been cancelled.
OutboxRow(row) ==
    /\ row.state = "PENDING" =>
          row.due \/ (row.dispatch = "PENDING" /\ ~row.dispatchDue)
    /\ row.dispatch = "CANCELLED" => row.state \notin Active
    /\ row.state = "CANCELLED" => row.dispatch = "CANCELLED"

\* A message of r has been sent for what the row says now, confirmed or not.
Announced(r) ==
    /\ run[r].state = "PENDING"
    /\ \/ run[r].dispatch = "PUBLISHED"
       \/ /\ run[r].dispatch = "DISPATCHING"
          /\ \E p \in Dispatchers :
                sender[p] = [stage |-> "SENT", run |-> r, ticket |-> run[r].ticket]

\* The callback of w would bring the message of r back if it broke.
Carries(w, r) ==
    /\ loop[w].tagged /\ loop[w].run = r
    /\ loop[w].stage \in {"READ", "CLAIM", "RAISE"}

\* A message of r that nobody has acted on, or one that was dead-lettered.
Underway(r) == wire[r] > 0 \/ r \in dead \/ \E w \in Workers : Carries(w, r)

OutboxRows == \A r \in Runs : OutboxRow(run[r])

AnnouncedIsUnderway == \A r \in Runs : Announced(r) => Underway(r)

TicketsDrawn ==
    \A p \in Dispatchers :
        sender[p].stage # Idle => sender[p].ticket <= drawn[sender[p].run]

DeadOnErrorOnly ==
    ~DatabaseErrors =>
        /\ dead = {}
        /\ \A w \in Workers : /\ loop[w].stage # "RAISE"
                              /\ Busy(w) => held[w].beating

\* The inductive invariant of the outbox: tokens are drawn once, a message that
\* was sent for a waiting run stays underway until somebody starts it, and
\* nothing is dead-lettered while no session raises.
OutboxInvariant ==
    OutboxRows /\ AnnouncedIsUnderway /\ TicketsDrawn /\ DeadOnErrorOnly

\* An active run is eventually finished, given up, waits for its user or is
\* deleted, even when every worker that takes it dies, unless its message was
\* dead-lettered.
ActiveRunsSettle ==
    \A r \in Runs : run[r].state \in Active
                       ~> run[r].state \notin Active \/ r \in dead
=============================================================================
