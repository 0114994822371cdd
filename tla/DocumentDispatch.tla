--------------------------- MODULE DocumentDispatch ---------------------------
(***************************************************************************)
(* The way from a queued row to a worker: the outbox in the document row   *)
(* (src/app/services/document_dispatch.py), RabbitMQ with manual acks and  *)
(* a dead-letter queue (src/app/rag/core/mq), and the message loop of the  *)
(* parse worker (src/app/workers/document_parse_worker.py), on top of the  *)
(* row and the leases of DocumentQueue.                                    *)
(*                                                                         *)
(* A message is the pair of document id and version it was built from.     *)
(***************************************************************************)
EXTENDS DocumentQueue

CONSTANTS Dispatchers,      \* API requests and the reconciler of each process
          MaxMishaps        \* bound: failures outside a running attempt

ASSUME DispatchAssumption == MaxMishaps \in Nat /\ Docs # {}

VARIABLES drawn,        \* per document, how many outbox tokens were drawn
          sender,       \* per dispatcher, the DispatchClaim it is publishing
          wire,         \* per document and version, copies in the broker queue
          dead,         \* messages in the dead-letter queue, each with its cause
          loop,         \* per worker, the message callback it is running
          mishaps       \* failures outside an attempt so far

outboxVars == <<drawn, sender>>

brokerVars == <<wire, dead>>

vars == <<queueVars, outboxVars, brokerVars, loop, mishaps>>

Versions == 1 .. MaxResets + 1

Idle == "IDLE"

\* CLAIMED until send returns (SENT: the broker confirmed) or raises (REFUSED).
Sender == [stage : {Idle, "CLAIMED", "SENT", "REFUSED"}, doc : Docs, version : Nat,
           ticket : Nat]

\* READ is about to take the snapshot, CLAIM sleeps until due and claims,
\* WORK runs _process_claim, ACK still has to acknowledge. REFUSED has thrown the
\* ValueError of a message that does not fit the row, FAILED a database error.
\* tagged: the broker still waits for this callback's ack.
Loop == [stage : {Idle, "READ", "CLAIM", "WORK", "REFUSED", "FAILED", "ACK"}, doc : Docs,
         version : Nat, tagged : BOOLEAN]

AnyDoc == CHOOSE d \in Docs : TRUE

IdleSender == [stage |-> Idle, doc |-> AnyDoc, version |-> 0, ticket |-> 0]

IdleLoop == [stage |-> Idle, doc |-> AnyDoc, version |-> 0, tagged |-> FALSE]

Init ==
    /\ QueueInit
    /\ drawn = [d \in Docs |-> 0]
    /\ sender = [p \in Dispatchers |-> IdleSender]
    /\ wire = [d \in Docs |-> [v \in Versions |-> 0]]
    /\ dead = {}
    /\ loop = [w \in Workers |-> IdleLoop]
    /\ mishaps = 0

Mishap == mishaps < MaxMishaps /\ mishaps' = mishaps + 1

Put(d, v) == wire' = [wire EXCEPT ![d][v] = @ + 1]

SetSender(p, s) == sender' = [sender EXCEPT ![p] = s]

GoTo(w, stage) == loop' = [loop EXCEPT ![w].stage = stage]

-----------------------------------------------------------------------------
(* Outbox *)

\* _claim_specific and _claim_next: lock a due row, draw a fresh token.
ClaimDispatch(p, d) ==
    /\ sender[p].stage = Idle
    /\ Dispatchable(doc[d])
    /\ LET ticket == drawn[d] + 1 IN
       /\ drawn' = [drawn EXCEPT ![d] = ticket]
       /\ SetRow(d, TakeTicket(doc[d], ticket))
       /\ SetSender(p, [stage |-> "CLAIMED", doc |-> d,
                        version |-> doc[d].version, ticket |-> ticket])
    /\ UNCHANGED <<issued, held, resets, faults, brokerVars, loop, mishaps>>

\* publisher.send returned: the broker has confirmed one more copy.
Send(p) ==
    /\ sender[p].stage = "CLAIMED"
    /\ Put(sender[p].doc, sender[p].version)
    /\ SetSender(p, [sender[p] EXCEPT !.stage = "SENT"])
    /\ UNCHANGED <<queueVars, drawn, dead, loop, mishaps>>

StillHoldsTicket(p) ==
    HoldsTicket(doc[sender[p].doc], sender[p].version, sender[p].ticket)

\* The row after a fenced update of p: row r while p still holds its ticket.
FencedWrite(p, r) ==
    IF StillHoldsTicket(p) THEN SetRow(sender[p].doc, r) ELSE UNCHANGED doc

\* The update to PUBLISHED, or its rollback when the fence fails.
ConfirmPublished(p) ==
    /\ sender[p].stage = "SENT"
    /\ FencedWrite(p, MarkPublished(doc[sender[p].doc]))
    /\ SetSender(p, IdleSender)
    /\ UNCHANGED <<issued, held, resets, faults, drawn, brokerVars, loop,
                   mishaps>>

\* publisher.send raised, with or without the message having been queued.
SendFails(p) ==
    /\ sender[p].stage = "CLAIMED"
    /\ Mishap
    /\ \/ Put(sender[p].doc, sender[p].version)
       \/ UNCHANGED wire
    /\ SetSender(p, [sender[p] EXCEPT !.stage = "REFUSED"])
    /\ UNCHANGED <<queueVars, drawn, dead, loop>>

\* _release_for_retry puts the row back for the reconciler.
PutBack(p) ==
    /\ sender[p].stage = "REFUSED"
    /\ FencedWrite(p, ReleaseForRetry(doc[sender[p].doc]))
    /\ SetSender(p, IdleSender)
    /\ UNCHANGED <<issued, held, resets, faults, drawn, brokerVars, loop,
                   mishaps>>

\* The dispatching process dies between two of its steps.
DispatcherCrash(p) ==
    /\ sender[p].stage # Idle
    /\ Mishap
    /\ SetSender(p, IdleSender)
    /\ UNCHANGED <<queueVars, drawn, brokerVars, loop>>

TicketAttended(d) ==
    \E p \in Dispatchers : sender[p].stage # Idle /\ sender[p].doc = d
                              /\ sender[p].ticket = doc[d].ticket

\* dispatch_lease_expires_at passes; under a running dispatcher by a stall.
TicketLapse(d) ==
    /\ doc[d].ticketLive
    /\ \/ ~TicketAttended(d) /\ UNCHANGED mishaps
       \/ TicketAttended(d) /\ Mishap
    /\ doc' = [doc EXCEPT ![d].ticketLive = FALSE]
    /\ UNCHANGED <<issued, held, resets, faults, outboxVars, brokerVars, loop>>

\* dispatch_available_at passes.
DispatchDue(d) ==
    /\ ~doc[d].dispatchDue
    /\ doc' = [doc EXCEPT ![d].dispatchDue = TRUE]
    /\ UNCHANGED <<issued, held, resets, faults, outboxVars, brokerVars, loop,
                   mishaps>>

-----------------------------------------------------------------------------
(* Broker and message loop *)

Deliver(w, d, v) ==
    /\ loop[w].stage = Idle
    /\ wire[d][v] > 0
    /\ wire' = [wire EXCEPT ![d][v] = @ - 1]
    /\ loop' = [loop EXCEPT ![w] = [stage |-> "READ", doc |-> d, version |-> v,
                                    tagged |-> TRUE]]
    /\ UNCHANGED <<queueVars, outboxVars, dead, mishaps>>

\* Bug: leaves a document that somebody else is processing to them.
ReadSnapshotSkipsBusy(w) ==
    /\ loop[w].stage = "READ"
    /\ GoTo(w, IF doc[loop[w].doc].status = "QUEUED" THEN "CLAIM" ELSE "ACK")
    /\ UNCHANGED <<queueVars, outboxVars, brokerVars, mishaps>>

\* Bug: treats a duplicate delivery as an error.
ReadSnapshotRefusesBusy(w) ==
    /\ loop[w].stage = "READ"
    /\ GoTo(w, IF doc[loop[w].doc].status = "QUEUED" THEN "CLAIM"
               ELSE IF doc[loop[w].doc].status = "PROCESSING" THEN "REFUSED"
               ELSE "ACK")
    /\ UNCHANGED <<queueVars, outboxVars, brokerVars, mishaps>>

\* The snapshot decides: raise on another version, return when there is
\* nothing left to do, or sleep until due and claim.
ReadSnapshot(w) ==
    /\ loop[w].stage = "READ"
    /\ LET r == doc[loop[w].doc] IN
       GoTo(w, IF r.status = "DELETED" THEN "ACK"
               ELSE IF r.version # loop[w].version THEN "REFUSED"
               ELSE IF r.status \in {"READY", "FAILED"} THEN "ACK"
               ELSE "CLAIM")
    /\ UNCHANGED <<queueVars, outboxVars, brokerVars, mishaps>>

\* claim_document after the sleep: granted, or None and read again.
ClaimAndWork(w) ==
    /\ loop[w].stage = "CLAIM"
    /\ Grant(w, loop[w].doc)
    /\ GoTo(w, "WORK")
    /\ UNCHANGED <<outboxVars, brokerVars, mishaps>>

ClaimExhausted(w) ==
    /\ loop[w].stage = "CLAIM"
    /\ Exhaust(w, loop[w].doc)
    /\ GoTo(w, "READ")
    /\ UNCHANGED <<outboxVars, brokerVars, mishaps>>

ClaimRefused(w) ==
    /\ loop[w].stage = "CLAIM"
    /\ ~Claimable(doc[loop[w].doc])
    /\ GoTo(w, "READ")
    /\ UNCHANGED <<queueVars, outboxVars, brokerVars, mishaps>>

\* The finally block of _process_claim awaits the heartbeat task: one that
\* died of an exception raises it here, whatever the attempt returned.
LeaveClaim(w, stage) ==
    /\ GoTo(w, IF held[w].pulse = "CRASHED" THEN "FAILED" ELSE stage)
    /\ UNCHANGED <<outboxVars, brokerVars, mishaps>>

WorkSucceeds(w) == Finish(w) /\ LeaveClaim(w, "ACK")

WorkFails(w, retryable) ==
    /\ Fail(w, retryable)
    /\ LeaveClaim(w, IF ShouldRetry(held[w].attempt, retryable)
                     THEN "READ" ELSE "ACK")

\* The lease is gone, or the except branch of ingest could not confirm it.
WorkLosesLease(w) ==
    /\ GiveUpLostLease(w) \/ Crash(w)
    /\ LeaveClaim(w, "READ")

WorkerBeats(w) ==
    /\ Heartbeat(w) \/ HeartbeatCrash(w)
    /\ UNCHANGED <<outboxVars, brokerVars, loop, mishaps>>

\* The attempt, if one is running, is abandoned without touching the row.
Abandon(w) ==
    \/ Crash(w) /\ UNCHANGED mishaps
    \/ ~Working(w) /\ Mishap /\ UNCHANGED queueVars

\* A session of snapshot, claim_document or fail_or_retry raises.
CallbackRaises(w) ==
    /\ loop[w].stage \in {"READ", "CLAIM", "WORK"}
    /\ Abandon(w)
    /\ GoTo(w, "FAILED")
    /\ UNCHANGED <<outboxVars, brokerVars>>

Raised(w) == loop[w].stage \in {"REFUSED", "FAILED"}

\* Neither ValueError nor a driver error is a RetriableError, so
\* dispatch_with_retry publishes the message to the dead-letter queue.
DeadLetter(w) ==
    /\ Raised(w)
    /\ dead' = dead \cup {<<loop[w].doc, loop[w].version, loop[w].stage>>}
    /\ GoTo(w, "ACK")
    /\ UNCHANGED <<queueVars, outboxVars, wire, mishaps>>

\* The broker queues an unacknowledged message again.
ReturnMessage(w) ==
    IF loop[w].tagged THEN Put(loop[w].doc, loop[w].version)
                      ELSE UNCHANGED wire

\* Publishing to the dead-letter queue failed too: nack with requeue.
NackRequeue(w) ==
    /\ Raised(w)
    /\ Mishap
    /\ ReturnMessage(w)
    /\ loop' = [loop EXCEPT ![w] = IdleLoop]
    /\ UNCHANGED <<queueVars, outboxVars, dead>>

Ack(w) ==
    /\ loop[w].stage = "ACK"
    /\ loop' = [loop EXCEPT ![w] = IdleLoop]
    /\ UNCHANGED <<queueVars, outboxVars, brokerVars, mishaps>>

\* The channel breaks under a callback that keeps running.
ChannelLost(w) ==
    /\ loop[w].tagged
    /\ Mishap
    /\ ReturnMessage(w)
    /\ loop' = [loop EXCEPT ![w].tagged = FALSE]
    /\ UNCHANGED <<queueVars, outboxVars, dead>>

\* The worker process dies anywhere in the callback.
WorkerCrash(w) ==
    /\ loop[w].stage # Idle
    /\ Abandon(w)
    /\ ReturnMessage(w)
    /\ loop' = [loop EXCEPT ![w] = IdleLoop]
    /\ UNCHANGED <<outboxVars, dead>>

-----------------------------------------------------------------------------

UserRequest(d) ==
    /\ Request(d)
    /\ UNCHANGED <<outboxVars, brokerVars, loop, mishaps>>

ParseTimePasses(d) ==
    /\ LeaseLapse(d) \/ RetryDue(d)
    /\ UNCHANGED <<outboxVars, brokerVars, loop, mishaps>>

\* What a dispatcher does by itself; send need not succeed.
Publish(p) ==
    \/ \E d \in Docs : ClaimDispatch(p, d)
    \/ Send(p) \/ ConfirmPublished(p) \/ PutBack(p)

\* The message loop as it goes when nothing breaks.
Consume(w) ==
    \/ \E d \in Docs : \E v \in Versions : Deliver(w, d, v)
    \/ ReadSnapshot(w) \/ ClaimAndWork(w) \/ ClaimExhausted(w)
    \/ ClaimRefused(w) \/ DeadLetter(w) \/ Ack(w)

\* How an attempt ends.
EndWork(w) ==
    \/ WorkSucceeds(w) \/ WorkFails(w, TRUE) \/ WorkFails(w, FALSE)
    \/ WorkLosesLease(w)

Next ==
    \/ \E d \in Docs : UserRequest(d) \/ ParseTimePasses(d)
                          \/ TicketLapse(d) \/ DispatchDue(d)
    \/ \E p \in Dispatchers : Publish(p) \/ SendFails(p) \/ DispatcherCrash(p)
    \/ \E w \in Workers :
          \/ Consume(w) \/ EndWork(w) \/ WorkerBeats(w) \/ CallbackRaises(w)
          \/ NackRequeue(w) \/ ChannelLost(w) \/ WorkerCrash(w)

Spec == Init /\ [][Next]_vars

\* The reconciler polls for ever, consumers keep consuming, an attempt ends
\* (parsers and stores have timeouts) and time passes.
Fairness ==
    /\ \A p \in Dispatchers : WF_vars(Publish(p))
    /\ \A w \in Workers : WF_vars(Consume(w)) /\ WF_vars(EndWork(w))
    /\ \A d \in Docs : /\ WF_vars(ParseTimePasses(d))
                       /\ WF_vars(TicketLapse(d)) /\ WF_vars(DispatchDue(d))

FairSpec == Spec /\ Fairness

-----------------------------------------------------------------------------
(* Properties *)

InFlight(w, d) ==
    loop[w].tagged /\ loop[w].doc = d /\ loop[w].version = doc[d].version

\* Somebody still has to do something about d: the outbox, the broker, or a
\* callback whose message the broker would deliver again.
Carried(d) ==
    \/ doc[d].dispatch \in {"PENDING", "DISPATCHING"}
    \/ doc[d].version \in Versions /\ wire[d][doc[d].version] > 0
    \/ \E w \in Workers :
          InFlight(w, d) /\ loop[w].stage \in {"READ", "CLAIM", "WORK"}

\* A database error sent the message of the current version to the dead
\* letters, or is about to.
DeadLettered(d) ==
    \/ <<d, doc[d].version, "FAILED">> \in dead
    \/ \E w \in Workers : InFlight(w, d) /\ loop[w].stage = "FAILED"

Unsettled(d) == doc[d].status \in {"QUEUED", "PROCESSING"}

\* No interleaving of publish, confirm, duplicate delivery, crash, retry and
\* reparse leaves a queued or processing document that nobody will pick up,
\* unless a database error dead-lettered its message (README: crashes before
\* or after the broker's confirm "都能恢复").
NoStrandedDocument ==
    \A d \in Docs : Unsettled(d) => Carried(d) \/ DeadLettered(d)

\* However often a publish stalls, fails or is taken over, at most one
\* dispatcher can still move the outbox state of a document.
SingleTicketHolder ==
    \A p, q \in Dispatchers :
        /\ sender[p].stage # Idle /\ sender[q].stage # Idle
        /\ sender[p].doc = sender[q].doc
        /\ StillHoldsTicket(p) /\ StillHoldsTicket(q)
        => p = q

\* Whatever crashes, stalls or is delivered twice, a queued document is
\* eventually parsed, given up or deleted, unless a database error sent its
\* only message to the dead letters.
QueuedDocumentsSettle ==
    \A d \in Docs : Unsettled(d) ~> ~Unsettled(d) \/ DeadLettered(d)

\* A task whose attempt failed and was put back is taken up again (README:
\* "失败任务按 DOCUMENT_QUEUE_RETRY_DELAYS_SECONDS 退避").
FailedAttemptsAreRetried ==
    \A d \in Docs : doc[d].status = "QUEUED" /\ doc[d].error = "RETRYABLE"
                       ~> doc[d].status # "QUEUED"

\* However late or often a message is delivered, the worker refuses only
\* messages the row has left behind: one of its current version is never
\* dead-lettered as not matching.
OnlyOutdatedDeadLettered ==
    \A d \in Docs : <<d, doc[d].version, "REFUSED">> \notin dead
=============================================================================
