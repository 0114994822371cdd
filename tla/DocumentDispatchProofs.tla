------------------------ MODULE DocumentDispatchProofs ------------------------
(***************************************************************************)
(* Proofs about DocumentDispatch: under the outbox, the broker and the     *)
(* message loop the rows and leases keep the invariant of DocumentQueue,   *)
(* one dispatcher at a time can move the outbox of a row, a message is     *)
(* only refused when its row has left it behind, and no queued document is *)
(* forgotten.                                                              *)
(***************************************************************************)
EXTENDS DocumentDispatch, DocumentQueueProofs

\* Outbox, broker and message loop have their types.
OutboxTypeOK ==
    /\ drawn \in [Docs -> Nat]
    /\ sender \in [Dispatchers -> Sender]
    /\ wire \in [Docs -> [Versions -> Nat]]
    /\ dead \subseteq Docs \X Nat \X {"REFUSED", "FAILED"}
    /\ loop \in [Workers -> Loop]
    /\ mishaps \in Nat

LEMMA AnyDocIsDoc == AnyDoc \in Docs
  BY DispatchAssumption DEF AnyDoc

LEMMA IdleTyped == IdleSender \in Sender /\ IdleLoop \in Loop
  BY AnyDocIsDoc DEF IdleSender, IdleLoop, Sender, Loop, Idle

LEMMA SenderTyped ==
    ASSUME OutboxTypeOK, NEW p \in Dispatchers
    PROVE  /\ sender[p] \in Sender /\ sender[p].doc \in Docs
           /\ sender[p].version \in Nat /\ sender[p].ticket \in Nat
  BY DEF OutboxTypeOK, Sender

LEMMA LoopTyped ==
    ASSUME OutboxTypeOK, NEW w \in Workers
    PROVE  /\ loop[w] \in Loop /\ loop[w].doc \in Docs
           /\ loop[w].version \in Nat /\ loop[w].tagged \in BOOLEAN
  BY DEF OutboxTypeOK, Loop

LEMMA SetRowOne ==
    ASSUME TypeOK, NEW d \in Docs, NEW r, SetRow(d, r)
    PROVE  doc'[d] = r /\ \A e \in Docs : e # d => doc'[e] = doc[e]
  BY DEF SetRow, TypeOK

-----------------------------------------------------------------------------
(* What the outbox writes to a row leaves the parse columns alone. *)

ParseColumnsKept(a, b) ==
    /\ b.status = a.status /\ b.version = a.version
    /\ b.attempts = a.attempts /\ b.lease = a.lease /\ b.live = a.live
    /\ b.reparse = a.reparse /\ b.error = a.error
    /\ b.parsed = a.parsed /\ b.chunks = a.chunks

LEMMA TicketedRow ==
    ASSUME NEW r \in Row, NEW t \in Nat
    PROVE  LET s == TakeTicket(r, t) IN
           /\ s \in Row /\ ParseColumnsKept(r, s)
           /\ s.dispatch = "DISPATCHING" /\ s.ticket = t
  BY DEF TakeTicket, ParseColumnsKept, Row, DispatchStatus

LEMMA PublishedRow ==
    ASSUME NEW r \in Row
    PROVE  LET s == MarkPublished(r) IN
           /\ s \in Row /\ ParseColumnsKept(r, s) /\ s.dispatch = "PUBLISHED"
  BY DEF MarkPublished, ParseColumnsKept, Row, DispatchStatus, NoToken

LEMMA PutBackRow ==
    ASSUME NEW r \in Row
    PROVE  LET s == ReleaseForRetry(r) IN
           /\ s \in Row /\ ParseColumnsKept(r, s) /\ s.dispatch = "PENDING"
  BY DEF ReleaseForRetry, ParseColumnsKept, Row, DispatchStatus, NoToken

LEMMA TimedRow ==
    ASSUME NEW r \in Row,
           NEW s \in {[r EXCEPT !.ticketLive = FALSE], [r EXCEPT !.dispatchDue = TRUE]}
    PROVE  /\ s \in Row /\ ParseColumnsKept(r, s)
           /\ s.dispatch = r.dispatch /\ s.ticket = r.ticket
  BY DEF ParseColumnsKept, Row

\* A step of the outbox writes such a row, and nothing else of DocumentQueue.
OutboxWrite(d, row) ==
    /\ SetRow(d, row)
    /\ ParseColumnsKept(doc[d], row)
    /\ UNCHANGED <<issued, held, resets, faults>>

LEMMA OutboxWriteKeeps ==
    ASSUME TypeOK, NEW d \in Docs, NEW row \in Row, OutboxWrite(d, row)
    PROVE  /\ TypeOK'
           /\ QueueInvariant => QueueInvariant'
           /\ LostForever
           /\ UNCHANGED Lifecycle!lifecycleVars
<1>1. /\ SetRow(d, row) /\ UNCHANGED <<issued, held, resets, faults>>
      /\ ParseColumnsKept(doc[d], row)
  BY DEF OutboxWrite
<1>2. doc'[d] = row /\ \A e \in Docs : e # d => doc'[e] = doc[e]
  BY <1>1, SetRowOne
<1>3. \A e \in Docs : ParseColumnsKept(doc[e], doc'[e])
  BY <1>1, <1>2 DEF ParseColumnsKept
<1>4. TypeOK'
  BY <1>1, SetRowTyped DEF TypeOK
<1>5. Quiet /\ ClaimsKept
  BY <1>1, <1>3 DEF Quiet, ClaimsKept, Working, ParseColumnsKept
<1>6. QueueInvariant => QueueInvariant'
  BY <1>1, <1>5, QuietStep
<1>7. LostForever
  <2> SUFFICES ASSUME NEW w \in Workers, Working(w), ~Owns(w)
               PROVE  ~Owns(w)'
    BY DEF LostForever
  <2>1. held[w].doc \in Docs /\ held' = held
    BY <1>1, HeldTyped
  <2> QED
    BY <1>3, <2>1 DEF Owns, OwnsLease, ParseColumnsKept, Working
<1>8. UNCHANGED Lifecycle!lifecycleVars
  BY <1>3, SameIsStutter DEF ParseColumnsKept, Keeps
<1> QED
  BY <1>4, <1>6, <1>7, <1>8

-----------------------------------------------------------------------------
(* Every step is one of DocumentQueue, or an outbox write, or neither. *)

DispatcherStep(p) == Publish(p) \/ SendFails(p) \/ DispatcherCrash(p)

CallbackStep(w) ==
    \/ Consume(w) \/ EndWork(w) \/ WorkerBeats(w) \/ CallbackRaises(w)
    \/ NackRequeue(w) \/ ChannelLost(w) \/ WorkerCrash(w)

RowStep(d) ==
    UserRequest(d) \/ ParseTimePasses(d) \/ TicketLapse(d) \/ DispatchDue(d)

Quietly == \E d \in Docs, row \in Row : OutboxWrite(d, row)

LEMMA NextSteps ==
    Next <=> \/ \E d \in Docs : RowStep(d)
             \/ \E p \in Dispatchers : DispatcherStep(p)
             \/ \E w \in Workers : CallbackStep(w)
  BY DEF Next, RowStep, DispatcherStep, CallbackStep

LEMMA FencedWriteKind ==
    ASSUME TypeOK, OutboxTypeOK, NEW p \in Dispatchers, NEW row \in Row,
           ParseColumnsKept(doc[sender[p].doc], row), FencedWrite(p, row),
           UNCHANGED <<issued, held, resets, faults>>
    PROVE  Quietly \/ UNCHANGED queueVars
  BY SenderTyped DEF FencedWrite, OutboxWrite, Quietly, queueVars

LEMMA DispatcherKind ==
    ASSUME TypeOK, OutboxTypeOK, NEW p \in Dispatchers, DispatcherStep(p)
    PROVE  Quietly \/ UNCHANGED queueVars
<1>1. sender[p].doc \in Docs /\ doc[sender[p].doc] \in Row
  BY SenderTyped DEF TypeOK
<1>2. ASSUME NEW d \in Docs, ClaimDispatch(p, d) PROVE Quietly
  <2>1. doc[d] \in Row /\ drawn[d] + 1 \in Nat
    BY DEF TypeOK, OutboxTypeOK
  <2>2. SetRow(d, TakeTicket(doc[d], drawn[d] + 1))
    BY <1>2 DEF ClaimDispatch
  <2> QED
    BY <1>2, <2>1, <2>2, TicketedRow DEF ClaimDispatch, OutboxWrite, Quietly
<1>3. CASE ConfirmPublished(p)
  BY <1>1, <1>3, PublishedRow, FencedWriteKind DEF ConfirmPublished
<1>4. CASE PutBack(p)
  BY <1>1, <1>4, PutBackRow, FencedWriteKind DEF PutBack
<1>5. CASE Send(p) \/ SendFails(p) \/ DispatcherCrash(p)
  BY <1>5 DEF Send, SendFails, DispatcherCrash
<1> QED
  BY <1>2, <1>3, <1>4, <1>5 DEF DispatcherStep, Publish

LEMMA RowKind ==
    ASSUME TypeOK, NEW d \in Docs, RowStep(d)
    PROVE  QueueNext \/ Quietly
<1>1. CASE UserRequest(d) \/ ParseTimePasses(d)
  BY <1>1 DEF UserRequest, ParseTimePasses, QueueNext
<1>2. doc[d] \in Row
  BY DEF TypeOK
<1>3. CASE TicketLapse(d)
  <2>1. SetRow(d, [doc[d] EXCEPT !.ticketLive = FALSE])
    BY <1>3 DEF TicketLapse, SetRow
  <2> QED
    BY <1>2, <1>3, <2>1, TimedRow DEF TicketLapse, OutboxWrite, Quietly
<1>4. CASE DispatchDue(d)
  <2>1. SetRow(d, [doc[d] EXCEPT !.dispatchDue = TRUE])
    BY <1>4 DEF DispatchDue, SetRow
  <2> QED
    BY <1>2, <1>4, <2>1, TimedRow DEF DispatchDue, OutboxWrite, Quietly
<1> QED
  BY <1>1, <1>3, <1>4 DEF RowStep

LEMMA CallbackKind ==
    ASSUME OutboxTypeOK, NEW w \in Workers, CallbackStep(w)
    PROVE  WorkerStep(w) \/ UNCHANGED queueVars
<1>1. loop[w].doc \in Docs
  BY LoopTyped
<1>2. CASE ClaimAndWork(w) \/ ClaimExhausted(w)
  BY <1>1, <1>2 DEF ClaimAndWork, ClaimExhausted, WorkerStep
<1>3. CASE \/ \E d \in Docs, v \in Versions : Deliver(w, d, v)
           \/ ReadSnapshot(w) \/ ClaimRefused(w) \/ DeadLetter(w) \/ Ack(w)
           \/ NackRequeue(w) \/ ChannelLost(w)
  BY <1>3 DEF Deliver, ReadSnapshot, ClaimRefused, DeadLetter, Ack,
              NackRequeue, ChannelLost
<1>4. CASE EndWork(w) \/ WorkerBeats(w)
  BY <1>4 DEF EndWork, WorkSucceeds, WorkFails, WorkLosesLease, WorkerBeats,
              WorkerStep
<1>5. CASE CallbackRaises(w) \/ WorkerCrash(w)
  BY <1>5 DEF CallbackRaises, WorkerCrash, Abandon, WorkerStep
<1> QED
  BY <1>2, <1>3, <1>4, <1>5 DEF CallbackStep, Consume

\* A step of the whole takes a step of the queue, writes outbox columns, or
\* leaves rows and leases alone.
LEMMA StepKinds ==
    ASSUME TypeOK, OutboxTypeOK, [Next]_vars
    PROVE  Quietly \/ [QueueNext]_queueVars
  BY NextSteps, DispatcherKind, RowKind, CallbackKind
  DEF vars, QueueNext

LEMMA QueueFactsStep ==
    ASSUME TypeOK, QueueInvariant, OutboxTypeOK, [Next]_vars
    PROVE  /\ TypeOK' /\ QueueInvariant' /\ LostForever
           /\ [Lifecycle!LifecycleNext]_(Lifecycle!lifecycleVars)
<1>1. CASE Quietly
  BY <1>1, OutboxWriteKeeps DEF Quietly
<1>2. CASE [QueueNext]_queueVars
  BY <1>2, TypeStep, InvariantStep, LostStep, StepRefines
<1> QED
  BY <1>1, <1>2, StepKinds

-----------------------------------------------------------------------------
(* Types *)

LEMMA PutTyped ==
    ASSUME OutboxTypeOK, NEW d \in Docs, NEW v, Put(d, v)
    PROVE  wire' \in [Docs -> [Versions -> Nat]]
<1> DEFINE row == [wire[d] EXCEPT ![v] = @ + 1]
<1>0. wire[d] \in [Versions -> Nat]
  BY DEF OutboxTypeOK
<1>1. row \in [Versions -> Nat]
  <2>1. ASSUME NEW u \in Versions PROVE row[u] \in Nat
    BY <1>0
  <2>2. row = [u \in Versions |-> row[u]]
    BY <1>0
  <2> QED
    BY <2>1, <2>2
<1> QED
  BY <1>1 DEF Put, OutboxTypeOK

LEMMA DispatcherTyped ==
    ASSUME TypeOK, OutboxTypeOK, NEW p \in Dispatchers, DispatcherStep(p)
    PROVE  OutboxTypeOK'
<1>1. sender[p] \in Sender /\ sender[p].doc \in Docs
  BY SenderTyped
<1>2. ASSUME NEW d \in Docs, ClaimDispatch(p, d) PROVE OutboxTypeOK'
  <2>1. doc[d].version \in Nat /\ drawn[d] + 1 \in Nat
    BY DEF TypeOK, OutboxTypeOK, Row
  <2>2. [stage |-> "CLAIMED", doc |-> d, version |-> doc[d].version,
         ticket |-> drawn[d] + 1] \in Sender
    BY <2>1 DEF Sender
  <2> QED
    BY <1>2, <2>1, <2>2 DEF ClaimDispatch, SetSender, brokerVars, OutboxTypeOK
<1>3. ASSUME NEW stage \in {"CLAIMED", "SENT", "REFUSED"}
      PROVE  [sender[p] EXCEPT !.stage = stage] \in Sender
  BY <1>1 DEF Sender
<1>4. CASE Send(p) \/ SendFails(p)
  <2>1. wire' \in [Docs -> [Versions -> Nat]]
    BY <1>1, <1>4, PutTyped DEF Send, SendFails, OutboxTypeOK
  <2>2. PICK stage \in {"SENT", "REFUSED"} :
           sender' = [sender EXCEPT ![p] = [sender[p] EXCEPT !.stage = stage]]
    BY <1>4 DEF Send, SendFails, SetSender
  <2>3. sender' \in [Dispatchers -> Sender]
    BY <1>3, <2>2 DEF OutboxTypeOK
  <2> QED
    BY <1>4, <2>1, <2>3 DEF Send, SendFails, Mishap, OutboxTypeOK
<1>5. CASE ConfirmPublished(p) \/ PutBack(p) \/ DispatcherCrash(p)
  BY <1>5, IdleTyped
  DEF ConfirmPublished, PutBack, DispatcherCrash, SetSender, Mishap, brokerVars,
      OutboxTypeOK
<1> QED
  BY <1>2, <1>4, <1>5 DEF DispatcherStep, Publish

LEMMA CallbackTyped ==
    ASSUME OutboxTypeOK, NEW w \in Workers, CallbackStep(w)
    PROVE  OutboxTypeOK'
<1>1. loop[w] \in Loop /\ loop[w].doc \in Docs /\ loop[w].version \in Nat
  BY LoopTyped
<1>2. ASSUME NEW stage \in {"READ", "CLAIM", "WORK", "REFUSED", "FAILED", "ACK"},
             GoTo(w, stage)
      PROVE  loop' \in [Workers -> Loop]
  <2>1. [loop[w] EXCEPT !.stage = stage] \in Loop
    BY <1>1 DEF Loop
  <2> QED
    BY <1>2, <2>1 DEF GoTo, OutboxTypeOK
<1>3. ReturnMessage(w) => wire' \in [Docs -> [Versions -> Nat]]
  BY <1>1, PutTyped DEF ReturnMessage, OutboxTypeOK
<1>4. loop' = [loop EXCEPT ![w] = IdleLoop] => loop' \in [Workers -> Loop]
  BY IdleTyped DEF OutboxTypeOK
<1>5. Abandon(w) => mishaps' \in Nat
  BY DEF Abandon, Mishap, OutboxTypeOK
<1>6. ASSUME NEW d \in Docs, NEW v \in Versions, Deliver(w, d, v)
      PROVE  OutboxTypeOK'
  <2>1. [stage |-> "READ", doc |-> d, version |-> v, tagged |-> TRUE] \in Loop
    BY BoundsAssumption DEF Loop, Versions
  <2>2. [wire[d] EXCEPT ![v] = @ - 1] \in [Versions -> Nat]
    BY <1>6 DEF Deliver, OutboxTypeOK
  <2>3. wire' \in [Docs -> [Versions -> Nat]]
    BY <1>6, <2>2 DEF Deliver, OutboxTypeOK
  <2> QED
    BY <1>6, <2>1, <2>3 DEF Deliver, outboxVars, OutboxTypeOK
<1>7. CASE \/ ReadSnapshot(w) \/ ClaimAndWork(w) \/ ClaimExhausted(w)
           \/ ClaimRefused(w)
  BY <1>2, <1>7
  DEF ReadSnapshot, ClaimAndWork, ClaimExhausted, ClaimRefused, outboxVars,
      brokerVars, OutboxTypeOK
<1>8. CASE EndWork(w) \/ WorkerBeats(w) \/ CallbackRaises(w)
  BY <1>2, <1>5, <1>8
  DEF EndWork, WorkSucceeds, WorkFails, WorkLosesLease, LeaveClaim, WorkerBeats,
      CallbackRaises, outboxVars, brokerVars, OutboxTypeOK
<1>9. CASE DeadLetter(w)
  <2>1. <<loop[w].doc, loop[w].version, loop[w].stage>>
           \in Docs \X Nat \X {"REFUSED", "FAILED"}
    BY <1>1, <1>9 DEF DeadLetter, Raised
  <2> QED
    BY <1>2, <1>9, <2>1 DEF DeadLetter, outboxVars, OutboxTypeOK
<1>10. CASE Ack(w)
  BY <1>4, <1>10 DEF Ack, outboxVars, brokerVars, OutboxTypeOK
<1>11. CASE NackRequeue(w) \/ WorkerCrash(w)
  BY <1>3, <1>4, <1>5, <1>11
  DEF NackRequeue, WorkerCrash, Mishap, outboxVars, OutboxTypeOK
<1>12. CASE ChannelLost(w)
  <2>1. [loop[w] EXCEPT !.tagged = FALSE] \in Loop
    BY <1>1 DEF Loop
  <2> QED
    BY <1>3, <1>12, <2>1 DEF ChannelLost, Mishap, outboxVars, OutboxTypeOK
<1> QED
  BY <1>6, <1>7, <1>8, <1>9, <1>10, <1>11, <1>12 DEF CallbackStep, Consume

LEMMA OutboxTypeStep ==
    ASSUME TypeOK, OutboxTypeOK, [Next]_vars
    PROVE  OutboxTypeOK'
<1>1. CASE UNCHANGED vars
  BY <1>1 DEF vars, outboxVars, brokerVars, OutboxTypeOK
<1>2. ASSUME NEW d \in Docs, RowStep(d) PROVE OutboxTypeOK'
  BY <1>2 DEF RowStep, UserRequest, ParseTimePasses, TicketLapse, DispatchDue,
              Mishap, outboxVars, brokerVars, OutboxTypeOK
<1> QED
  BY <1>1, <1>2, NextSteps, DispatcherTyped, CallbackTyped

LEMMA OutboxInitTyped == Init => OutboxTypeOK
  BY IdleTyped DEF Init, OutboxTypeOK

\* Under outbox, broker and message loop the rows and leases keep their types
\* and the inductive invariant of the queue.
THEOREM DispatchTypeCorrect == Spec => [](TypeOK /\ OutboxTypeOK /\ QueueInvariant)
<1>1. Init => TypeOK /\ OutboxTypeOK /\ QueueInvariant
  BY InitTyped, InitInvariant, OutboxInitTyped DEF Init
<1>2. TypeOK /\ OutboxTypeOK /\ QueueInvariant /\ [Next]_vars
         => (TypeOK /\ OutboxTypeOK /\ QueueInvariant)'
  BY QueueFactsStep, OutboxTypeStep
<1> QED
  BY <1>1, <1>2, PTL DEF Spec

\* What users see of the queue with its outbox, broker and crashing callbacks
\* is still the plain lifecycle.
THEOREM DispatchImplementsLifecycle == Spec => LifecycleImplemented
<1>1. Init => Lifecycle!LifecycleInit
  BY InitRefines DEF Init
<1>2. TypeOK /\ OutboxTypeOK /\ QueueInvariant /\ [Next]_vars
         => [Lifecycle!LifecycleNext]_(Lifecycle!lifecycleVars)
  BY QueueFactsStep
<1> QED
  BY <1>1, <1>2, DispatchTypeCorrect, PTL
  DEF Spec, LifecycleImplemented, Lifecycle!LifecycleSpec
-----------------------------------------------------------------------------
(* How a row moves on under the queue: versions only grow, until the row is  *)
(* deleted, and a row waits for a worker with its outbox where it was.       *)

Pending(r) == r.status \in {"QUEUED", "PROCESSING"}

Uploaded(r) == r.status \notin {"ABSENT", "DELETED"}

\* Row r after n resets.
OutboxRow(r, n) ==
    /\ n <= MaxResets
    /\ Uploaded(r) => r.version \in 1 .. n + 1
    /\ ~Uploaded(r) => r.version = 0 /\ r.dispatch = "IDLE"
    /\ Pending(r) => r.dispatch # "IDLE"

OutboxRows == \A d \in Docs : OutboxRow(doc[d], resets[d])

MovesOn(a, b) ==
    b.status = "DELETED" \/ (a.status # "DELETED" /\ a.version <= b.version)

\* Whatever the outbox has taken up or announced of b, it had of a.
AnnouncesNothing(a, b) ==
    Pending(b) /\ b.dispatch \in {"DISPATCHING", "PUBLISHED"} =>
        /\ Pending(a) /\ a.version = b.version
        /\ a.dispatch = b.dispatch /\ a.ticket = b.ticket

RowsMoveOn ==
    \A d \in Docs : /\ OutboxRow(doc'[d], resets'[d])
                    /\ MovesOn(doc[d], doc'[d])

RowsKeepOutbox ==
    RowsMoveOn /\ \A d \in Docs : AnnouncesNothing(doc[d], doc'[d])

\* One row moves on, the others stay.
LEMMA OneRowMoves ==
    ASSUME TypeOK, OutboxRows, NEW d \in Docs, NEW row \in Row, SetRow(d, row),
           \A e \in Docs : e # d => resets'[e] = resets[e],
           OutboxRow(row, resets'[d]), MovesOn(doc[d], row),
           AnnouncesNothing(doc[d], row)
    PROVE  RowsKeepOutbox
<1>1. doc'[d] = row /\ \A e \in Docs : e # d => doc'[e] = doc[e]
  BY SetRowOne
<1>2. \A e \in Docs : doc[e].version \in Nat
  BY DEF TypeOK, Row
<1>3. ASSUME NEW e \in Docs
      PROVE  /\ OutboxRow(doc'[e], resets'[e]) /\ MovesOn(doc[e], doc'[e])
             /\ AnnouncesNothing(doc[e], doc'[e])
  <2>1. CASE e = d
    BY <1>1, <2>1
  <2>2. CASE e # d
    BY <1>1, <1>2, <2>2 DEF OutboxRows, MovesOn, AnnouncesNothing
  <2> QED
    BY <2>1, <2>2
<1> QED
  BY <1>3 DEF RowsKeepOutbox, RowsMoveOn

LEMMA NoRowMoves ==
    ASSUME TypeOK, OutboxRows, UNCHANGED <<doc, resets>>
    PROVE  RowsKeepOutbox
<1>1. \A e \in Docs : doc[e].version \in Nat
  BY DEF TypeOK, Row
<1> QED
  BY <1>1 DEF RowsKeepOutbox, RowsMoveOn, OutboxRows, MovesOn, AnnouncesNothing

\* A row that keeps its version and outbox, and was pending if it is.
LEMMA SameOutbox ==
    ASSUME NEW a \in Row, NEW b \in Row, NEW n, OutboxRow(a, n),
           b.version = a.version, b.dispatch = a.dispatch, b.ticket = a.ticket,
           \/ b.status = a.status
           \/ Uploaded(a) /\ Uploaded(b) /\ (Pending(b) => Pending(a))
    PROVE  OutboxRow(b, n) /\ MovesOn(a, b) /\ AnnouncesNothing(a, b)
<1>1. a.version \in Nat /\ (Pending(b) => Pending(a)) /\ (Uploaded(a) <=> Uploaded(b))
  BY DEF Pending, Uploaded, Row
<1>2. OutboxRow(b, n)
  BY <1>1 DEF OutboxRow
<1>3. a.status = "DELETED" => b.status = "DELETED"
  BY DEF Uploaded
<1> QED
  BY <1>1, <1>2, <1>3 DEF MovesOn, AnnouncesNothing

\* A row nobody waits for, or whose message is still to be sent.
LEMMA FreshOutbox ==
    ASSUME NEW a \in Row, NEW b \in Row, NEW n \in Nat, NEW m \in Nat,
           OutboxRow(a, n), m <= MaxResets, a.status # "DELETED",
           \/ b.status = "DELETED" /\ b.version = 0 /\ b.dispatch = "IDLE"
           \/ /\ Uploaded(b) /\ b.version \in 1 .. m + 1 /\ a.version <= b.version
              /\ Pending(b) => b.dispatch = "PENDING"
    PROVE  OutboxRow(b, m) /\ MovesOn(a, b) /\ AnnouncesNothing(a, b)
  BY DEF OutboxRow, MovesOn, AnnouncesNothing, Pending, Uploaded

LEMMA InsertedOutbox ==
    ASSUME NEW b \in BOOLEAN
    PROVE  InsertedRow(b).status = "QUEUED" => InsertedRow(b).dispatch = "PENDING"
  BY DEF InsertedRow, MarkDispatchPending, NoRow

LEMMA ResetOutbox ==
    ASSUME NEW r \in Row, NEW b \in BOOLEAN
    PROVE  ResetForQueue(r, b).dispatch = "PENDING"
  BY DEF ResetForQueue, MarkDispatchPending, Row

LEMMA RequestKeepsOutbox ==
    ASSUME TypeOK, OutboxRows, NEW d \in Docs, Request(d)
    PROVE  RowsKeepOutbox
<1>1. /\ doc[d] \in Row /\ resets[d] \in Nat /\ MaxResets \in Nat
      /\ OutboxRow(doc[d], resets[d]) /\ resets[d] <= MaxResets
      /\ doc[d].version \in Nat
      /\ Uploaded(doc[d]) => doc[d].version \in 1 .. resets[d] + 1
  BY BoundsAssumption DEF TypeOK, OutboxRows, OutboxRow, Row
<1>2. ASSUME NEW b \in BOOLEAN, Upload(d, b) PROVE RowsKeepOutbox
  <2> DEFINE r == InsertedRow(b)
  <2>1. /\ r \in Row /\ r.version = 1 /\ r.status \in {"QUEUED", "PENDING_REVIEW"}
        /\ r.status = "QUEUED" => r.dispatch = "PENDING"
    BY InsertFields, InsertedOutbox, RowOperationsTyped
  <2>2. SetRow(d, r) /\ UNCHANGED resets /\ doc[d].status = "ABSENT"
    BY <1>2 DEF Upload
  <2> HIDE DEF r
  <2>3. doc[d].version = 0 /\ 1 \in 1 .. resets[d] + 1
    BY <1>1, <2>2 DEF OutboxRow, Uploaded
  <2>4. OutboxRow(r, resets[d]) /\ MovesOn(doc[d], r) /\ AnnouncesNothing(doc[d], r)
    BY <1>1, <2>1, <2>2, <2>3, FreshOutbox DEF Uploaded, Pending
  <2> QED
    BY <2>1, <2>2, <2>4, OneRowMoves
<1>3. ASSUME NEW r \in Row, SetRow(d, r), r.status = "QUEUED",
             r.dispatch = "PENDING", doc[d].version <= r.version,
             Uploaded(doc[d]), resets'[d] \in Nat, resets'[d] <= MaxResets,
             r.version <= resets'[d] + 1,
             \A e \in Docs : e # d => resets'[e] = resets[e]
      PROVE  RowsKeepOutbox
  <2>1. r.version \in 1 .. resets'[d] + 1 /\ Uploaded(r) /\ doc[d].status # "DELETED"
    BY <1>1, <1>3 DEF Uploaded, Row
  <2>2. /\ OutboxRow(r, resets'[d]) /\ MovesOn(doc[d], r)
        /\ AnnouncesNothing(doc[d], r)
    BY <1>1, <1>3, <2>1, FreshOutbox
  <2> QED
    BY <1>3, <2>2, OneRowMoves
<1>4. ASSUME NEW b \in BOOLEAN
      PROVE  LET r == ResetForQueue(doc[d], b) IN
             /\ r \in Row /\ r.status = "QUEUED" /\ r.dispatch = "PENDING"
             /\ r.version = IF b THEN doc[d].version + 1 ELSE doc[d].version
  BY <1>1, ResetFields, ResetOutbox, RowOperationsTyped
<1>5. CASE Approve(d) \/ Retry(d)
  <2>1. Uploaded(doc[d]) /\ SetRow(d, ResetForQueue(doc[d], FALSE))
    BY <1>5 DEF Approve, Retry, ExpiredProcessing, Uploaded
  <2>2. /\ resets'[d] \in {resets[d], resets[d] + 1} /\ resets'[d] <= MaxResets
        /\ \A e \in Docs : e # d => resets'[e] = resets[e]
    <3>1. UNCHANGED resets \/ CountReset(d)
      BY <1>5 DEF Approve, Retry
    <3>2. resets \in [Docs -> Nat]
      BY DEF TypeOK
    <3> QED
      BY <1>1, <3>1, <3>2 DEF CountReset
  <2>3. resets'[d] \in Nat /\ doc[d].version <= resets'[d] + 1
    BY <1>1, <2>1, <2>2
  <2>4. LET r == ResetForQueue(doc[d], FALSE) IN
        /\ r \in Row /\ r.status = "QUEUED" /\ r.dispatch = "PENDING"
        /\ r.version = doc[d].version
    BY <1>4
  <2>5. doc[d].version <= doc[d].version
    BY <1>1
  <2> QED
    BY <1>3, <2>1, <2>2, <2>3, <2>4, <2>5
<1>6. CASE Reparse(d)
  <2>1. Uploaded(doc[d]) /\ SetRow(d, ResetForQueue(doc[d], TRUE))
    BY <1>6 DEF Reparse, Uploaded
  <2>2. /\ resets'[d] = resets[d] + 1 /\ resets'[d] <= MaxResets
        /\ \A e \in Docs : e # d => resets'[e] = resets[e]
    BY <1>1, <1>6 DEF Reparse, CountReset, TypeOK
  <2>3. /\ resets'[d] \in Nat /\ doc[d].version + 1 <= resets'[d] + 1
        /\ doc[d].version <= doc[d].version + 1
    BY <1>1, <2>1, <2>2
  <2> QED
    BY <1>3, <1>4, <2>1, <2>2, <2>3
<1>7. CASE Reject(d)
  <2> DEFINE q == [doc[d] EXCEPT !.status = "REJECTED"]
             r == MarkDispatchIdle(q)
  <2>1. q \in Row /\ q.status = "REJECTED" /\ q.version = doc[d].version
    BY <1>1 DEF Row, Status
  <2>2. r \in Row /\ r.status = "REJECTED" /\ r.version = doc[d].version
    <3> HIDE DEF q
    <3> QED BY <2>1, RowOperationsTyped DEF MarkDispatchIdle, Row
  <2>3. SetRow(d, r) /\ UNCHANGED resets /\ Uploaded(doc[d])
    BY <1>7 DEF Reject, Uploaded
  <2> HIDE DEF r
  <2>4. OutboxRow(r, resets[d]) /\ MovesOn(doc[d], r) /\ AnnouncesNothing(doc[d], r)
    BY <1>1, <2>2, <2>3, FreshOutbox DEF Uploaded, Pending
  <2> QED
    BY <2>2, <2>3, <2>4, OneRowMoves
<1>8. CASE Delete(d)
  <2>1. SetRow(d, DeletedRow) /\ UNCHANGED resets /\ doc[d].status # "DELETED"
    BY <1>8 DEF Delete, Deletable
  <2>2. /\ DeletedRow \in Row /\ DeletedRow.status = "DELETED"
        /\ DeletedRow.version = 0 /\ DeletedRow.dispatch = "IDLE"
    BY RowOperationsTyped DEF DeletedRow, NoRow
  <2>3. /\ OutboxRow(DeletedRow, resets[d]) /\ MovesOn(doc[d], DeletedRow)
        /\ AnnouncesNothing(doc[d], DeletedRow)
    BY <1>1, <2>1, <2>2, FreshOutbox
  <2> QED
    BY <2>1, <2>2, <2>3, OneRowMoves
<1> QED
  BY <1>2, <1>5, <1>6, <1>7, <1>8 DEF Request

OutboxColumnsKept(a, b) ==
    b.version = a.version /\ b.dispatch = a.dispatch /\ b.ticket = a.ticket

LEMMA ParsingKeepsOutbox ==
    ASSUME NEW r \in Row
    PROVE  /\ OutboxColumnsKept(r, ExhaustAttempts(r))
           /\ ExhaustAttempts(r).status = "FAILED"
           /\ OutboxColumnsKept(r, RenewLease(r))
           /\ RenewLease(r).status = r.status
           /\ \A t \in Nat : /\ OutboxColumnsKept(r, TakeLease(r, t))
                             /\ TakeLease(r, t).status = "PROCESSING"
           /\ \A t, v \in Nat : /\ OutboxColumnsKept(r, MarkReady(r, t, v))
                                /\ MarkReady(r, t, v).status = "READY"
           /\ \A n \in Nat, b \in BOOLEAN :
                 /\ OutboxColumnsKept(r, FailOrRetry(r, n, b))
                 /\ FailOrRetry(r, n, b).status \in {"QUEUED", "FAILED"}
<1>1. /\ OutboxColumnsKept(r, ExhaustAttempts(r))
      /\ ExhaustAttempts(r).status = "FAILED"
  BY DEF OutboxColumnsKept, ExhaustAttempts, Row
<1>2. OutboxColumnsKept(r, RenewLease(r)) /\ RenewLease(r).status = r.status
  BY DEF OutboxColumnsKept, RenewLease, Row
<1>3. ASSUME NEW t \in Nat
      PROVE  /\ OutboxColumnsKept(r, TakeLease(r, t))
             /\ TakeLease(r, t).status = "PROCESSING"
  BY DEF OutboxColumnsKept, TakeLease, Row
<1>4. ASSUME NEW t \in Nat, NEW v \in Nat
      PROVE  /\ OutboxColumnsKept(r, MarkReady(r, t, v))
             /\ MarkReady(r, t, v).status = "READY"
  BY DEF OutboxColumnsKept, MarkReady, Row
<1>5. ASSUME NEW n \in Nat, NEW b \in BOOLEAN
      PROVE  /\ OutboxColumnsKept(r, FailOrRetry(r, n, b))
             /\ FailOrRetry(r, n, b).status \in {"QUEUED", "FAILED"}
  BY DEF OutboxColumnsKept, FailOrRetry, Row
<1> QED
  BY <1>1, <1>2, <1>3, <1>4, <1>5

LEMMA WorkerKeepsOutbox ==
    ASSUME TypeOK, QueueInvariant, OutboxRows, NEW w \in Workers, WorkerStep(w)
    PROVE  RowsKeepOutbox
<1>0. UNCHANGED resets
  BY DEF WorkerStep, Exhaust, Grant, Heartbeat, HeartbeatCrash, Finish, Fail,
         GiveUpLostLease, Crash
<1>1. ASSUME NEW d \in Docs, NEW row \in Row, SetRow(d, row),
             OutboxColumnsKept(doc[d], row), Pending(doc[d]), Uploaded(row)
      PROVE  RowsKeepOutbox
  <2>1. doc[d] \in Row /\ OutboxRow(doc[d], resets[d]) /\ Uploaded(doc[d])
    BY <1>1 DEF TypeOK, OutboxRows, Pending, Uploaded
  <2>2. /\ OutboxRow(row, resets[d]) /\ MovesOn(doc[d], row)
        /\ AnnouncesNothing(doc[d], row)
    BY <1>1, <2>1, SameOutbox DEF OutboxColumnsKept
  <2> QED
    BY <1>0, <1>1, <2>2, OneRowMoves
<1>2. ASSUME NEW d \in Docs, Exhaust(w, d) PROVE RowsKeepOutbox
  <2>1. doc[d] \in Row /\ Pending(doc[d]) /\ SetRow(d, ExhaustAttempts(doc[d]))
    BY <1>2 DEF Exhaust, Claimable, ExpiredProcessing, Pending, TypeOK
  <2> QED
    BY <1>1, <2>1, ParsingKeepsOutbox, RowOperationsTyped DEF Uploaded
<1>3. ASSUME NEW d \in Docs, Grant(w, d) PROVE RowsKeepOutbox
  <2>1. /\ doc[d] \in Row /\ Pending(doc[d]) /\ issued[d] + 1 \in Nat
        /\ SetRow(d, TakeLease(doc[d], issued[d] + 1))
    BY <1>3 DEF Grant, Claimable, ExpiredProcessing, Pending, TypeOK
  <2> QED
    BY <1>1, <2>1, ParsingKeepsOutbox, RowOperationsTyped DEF Uploaded
<1>4. Owns(w) => /\ held[w].doc \in Docs /\ doc[held[w].doc] \in Row
                 /\ Pending(doc[held[w].doc])
                 /\ doc[held[w].doc].status = "PROCESSING"
                 /\ held[w].lease \in Nat /\ held[w].attempt \in Nat
                 /\ held[w].version \in Nat
  BY OwnerFacts DEF Pending
<1>5. CASE Owns(w) /\ SetRow(held[w].doc, RenewLease(doc[held[w].doc]))
  BY <1>1, <1>4, <1>5, ParsingKeepsOutbox, RowOperationsTyped DEF Uploaded
<1>6. CASE Finish(w)
  BY <1>1, <1>4, <1>6, ParsingKeepsOutbox, RowOperationsTyped DEF Finish, Uploaded
<1>7. ASSUME NEW b \in BOOLEAN, Fail(w, b) PROVE RowsKeepOutbox
  BY <1>1, <1>4, <1>7, ParsingKeepsOutbox, RowOperationsTyped DEF Fail, Uploaded
<1>8. CASE UNCHANGED doc
  BY <1>0, <1>8, NoRowMoves
<1> QED
  BY <1>2, <1>3, <1>5, <1>6, <1>7, <1>8
  DEF WorkerStep, Heartbeat, HeartbeatCrash, GiveUpLostLease, Crash

LEMMA TimeKeepsOutbox ==
    ASSUME TypeOK, OutboxRows, NEW d \in Docs, LeaseLapse(d) \/ RetryDue(d)
    PROVE  RowsKeepOutbox
<1>1. PICK row \in {[doc[d] EXCEPT !.live = FALSE], [doc[d] EXCEPT !.due = TRUE]} :
         SetRow(d, row)
  BY DEF LeaseLapse, RetryDue, SetRow
<1>2. doc[d] \in Row /\ OutboxRow(doc[d], resets[d]) /\ UNCHANGED resets
  BY DEF TypeOK, OutboxRows, LeaseLapse, RetryDue
<1>3. /\ row \in Row /\ row.status = doc[d].status
      /\ row.version = doc[d].version /\ row.dispatch = doc[d].dispatch
      /\ row.ticket = doc[d].ticket
  BY <1>1, <1>2 DEF Row
<1>4. /\ OutboxRow(row, resets[d]) /\ MovesOn(doc[d], row)
      /\ AnnouncesNothing(doc[d], row)
  BY <1>2, <1>3, SameOutbox
<1> QED
  BY <1>1, <1>2, <1>3, <1>4, OneRowMoves

LEMMA QueueKeepsOutbox ==
    ASSUME TypeOK, QueueInvariant, OutboxRows, [QueueNext]_queueVars
    PROVE  RowsKeepOutbox
<1>1. CASE UNCHANGED queueVars
  BY <1>1, NoRowMoves DEF queueVars
<1> QED
  BY <1>1, RequestKeepsOutbox, WorkerKeepsOutbox, TimeKeepsOutbox DEF QueueNext

\* The outbox itself keeps the version, and gives an uploaded row an outbox
\* state other than IDLE.
LEMMA OutboxWriteMoves ==
    ASSUME TypeOK, OutboxRows, NEW d \in Docs, NEW row \in Row,
           OutboxWrite(d, row),
           \/ row.dispatch = doc[d].dispatch
           \/ row.dispatch # "IDLE" /\ doc[d].dispatch # "IDLE"
    PROVE  RowsMoveOn
<1>1. doc'[d] = row /\ \A e \in Docs : e # d => doc'[e] = doc[e]
  BY SetRowOne DEF OutboxWrite
<1>2. ParseColumnsKept(doc[d], row) /\ UNCHANGED resets
  BY DEF OutboxWrite
<1>3. \A e \in Docs : doc[e].version \in Nat /\ OutboxRow(doc[e], resets[e])
  BY DEF TypeOK, Row, OutboxRows
<1>4. OutboxRow(row, resets[d]) /\ MovesOn(doc[d], row)
  BY <1>2, <1>3 DEF ParseColumnsKept, OutboxRow, MovesOn, Uploaded, Pending
<1> QED
  BY <1>1, <1>2, <1>3, <1>4 DEF RowsMoveOn, MovesOn
LEMMA FencedWriteMoves ==
    ASSUME TypeOK, OutboxTypeOK, OutboxRows, NEW p \in Dispatchers,
           NEW row \in Row, ParseColumnsKept(doc[sender[p].doc], row),
           row.dispatch # "IDLE", FencedWrite(p, row),
           UNCHANGED <<issued, held, resets, faults>>
    PROVE  RowsMoveOn
<1>1. sender[p].doc \in Docs
  BY SenderTyped
<1>2. CASE StillHoldsTicket(p)
  BY <1>1, <1>2, OutboxWriteMoves
  DEF FencedWrite, OutboxWrite, StillHoldsTicket, HoldsTicket
<1>3. CASE ~StillHoldsTicket(p)
  BY <1>3, NoRowMoves DEF FencedWrite, RowsKeepOutbox
<1> QED
  BY <1>2, <1>3

LEMMA DispatcherMoves ==
    ASSUME TypeOK, OutboxTypeOK, OutboxRows, NEW p \in Dispatchers,
           DispatcherStep(p)
    PROVE  RowsMoveOn
<1>1. doc[sender[p].doc] \in Row
  BY SenderTyped DEF TypeOK
<1>2. ASSUME NEW d \in Docs, ClaimDispatch(p, d) PROVE RowsMoveOn
  <2>1. doc[d] \in Row /\ drawn[d] + 1 \in Nat
    BY DEF TypeOK, OutboxTypeOK
  <2>2. /\ SetRow(d, TakeTicket(doc[d], drawn[d] + 1)) /\ doc[d].dispatch # "IDLE"
        /\ UNCHANGED <<issued, held, resets, faults>>
    BY <1>2 DEF ClaimDispatch, Dispatchable
  <2> QED
    BY <2>1, <2>2, TicketedRow, OutboxWriteMoves DEF OutboxWrite
<1>3. CASE ConfirmPublished(p)
  BY <1>1, <1>3, PublishedRow, FencedWriteMoves DEF ConfirmPublished
<1>4. CASE PutBack(p)
  BY <1>1, <1>4, PutBackRow, FencedWriteMoves DEF PutBack
<1>5. CASE Send(p) \/ SendFails(p) \/ DispatcherCrash(p)
  <2>1. UNCHANGED <<doc, resets>>
    BY <1>5 DEF Send, SendFails, DispatcherCrash, queueVars
  <2> QED
    BY <2>1, NoRowMoves DEF RowsKeepOutbox
<1> QED
  BY <1>2, <1>3, <1>4, <1>5 DEF DispatcherStep, Publish

LEMMA RowStepKeepsOutbox ==
    ASSUME TypeOK, OutboxRows, NEW d \in Docs, RowStep(d)
    PROVE  RowsKeepOutbox
<1>1. CASE UserRequest(d) \/ ParseTimePasses(d)
  BY <1>1, RequestKeepsOutbox, TimeKeepsOutbox DEF UserRequest, ParseTimePasses
<1>2. CASE TicketLapse(d) \/ DispatchDue(d)
  <2>1. PICK row \in {[doc[d] EXCEPT !.ticketLive = FALSE],
                      [doc[d] EXCEPT !.dispatchDue = TRUE]} : SetRow(d, row)
    BY <1>2 DEF TicketLapse, DispatchDue, SetRow
  <2>2. doc[d] \in Row /\ OutboxRow(doc[d], resets[d]) /\ UNCHANGED resets
    BY <1>2 DEF TypeOK, OutboxRows, TicketLapse, DispatchDue
  <2>3. /\ row \in Row /\ ParseColumnsKept(doc[d], row)
        /\ row.dispatch = doc[d].dispatch /\ row.ticket = doc[d].ticket
    BY <2>1, <2>2, TimedRow
  <2>4. /\ OutboxRow(row, resets[d]) /\ MovesOn(doc[d], row)
        /\ AnnouncesNothing(doc[d], row)
    BY <2>2, <2>3, SameOutbox DEF ParseColumnsKept
  <2> QED
    BY <2>1, <2>2, <2>3, <2>4, OneRowMoves
<1> QED
  BY <1>1, <1>2 DEF RowStep

LEMMA CallbackKeepsOutbox ==
    ASSUME TypeOK, QueueInvariant, OutboxTypeOK, OutboxRows, NEW w \in Workers,
           CallbackStep(w)
    PROVE  RowsKeepOutbox
  BY CallbackKind, WorkerKeepsOutbox, NoRowMoves DEF queueVars

-----------------------------------------------------------------------------
(* The inductive invariant of outbox, broker and message loop.               *)

\* A message of version v of d is none the row has still to reach.
NotAhead(d, v) ==
    v \in Versions /\ (doc[d].status = "DELETED" \/ v <= doc[d].version)

\* The row has left the message behind.
Outdated(d, v) ==
    v \in Versions /\ (doc[d].status = "DELETED" \/ v < doc[d].version)

MessagesNotAhead ==
    /\ \A d \in Docs, v \in Versions : wire[d][v] > 0 => NotAhead(d, v)
    /\ \A p \in Dispatchers : sender[p].stage # Idle
                                 => NotAhead(sender[p].doc, sender[p].version)
    /\ \A w \in Workers : loop[w].stage # Idle
                             => NotAhead(loop[w].doc, loop[w].version)

RefusedOutdated ==
    /\ \A w \in Workers : loop[w].stage = "REFUSED"
                             => Outdated(loop[w].doc, loop[w].version)
    /\ \A d \in Docs, v \in Nat : <<d, v, "REFUSED">> \in dead => Outdated(d, v)

\* A callback holds a claim exactly while it works, on its own document, and
\* an idle one has no message to return.
CallbacksMatch ==
    \A w \in Workers : /\ Working(w) <=> loop[w].stage = "WORK"
                       /\ Working(w) => held[w].doc = loop[w].doc
                       /\ loop[w].tagged => loop[w].stage # Idle

\* No two publishes of a document carry the same token.
TicketsDistinct ==
    /\ \A p \in Dispatchers : sender[p].stage # Idle
                                 => sender[p].ticket <= drawn[sender[p].doc]
    /\ \A p, q \in Dispatchers :
          /\ sender[p].stage # Idle /\ sender[q].stage # Idle
          /\ sender[p].doc = sender[q].doc /\ sender[p].ticket = sender[q].ticket
          => p = q

\* The broker has confirmed a message for d, and its dispatcher may still say so.
Announced(d) ==
    /\ Unsettled(d)
    /\ \/ doc[d].dispatch = "PUBLISHED"
       \/ \E p \in Dispatchers :
             sender[p].stage = "SENT" /\ sender[p].doc = d /\ StillHoldsTicket(p)

Carries(w, d) ==
    InFlight(w, d) /\ loop[w].stage \in {"READ", "CLAIM", "WORK", "FAILED"}

\* The message of its current version is queued, with a callback, or was
\* dead-lettered on a database error.
Underway(d) ==
    \/ doc[d].version \in Versions /\ wire[d][doc[d].version] > 0
    \/ <<d, doc[d].version, "FAILED">> \in dead
    \/ \E w \in Workers : Carries(w, d)

AnnouncedIsUnderway == \A d \in Docs : Announced(d) => Underway(d)

DispatchInvariant ==
    /\ OutboxRows
    /\ MessagesNotAhead
    /\ RefusedOutdated
    /\ CallbacksMatch
    /\ TicketsDistinct
    /\ AnnouncedIsUnderway

LEMMA DispatchInitInvariant == Init => DispatchInvariant
<1> SUFFICES ASSUME Init PROVE DispatchInvariant
  OBVIOUS
<1> USE DEF Init, QueueInit
<1>1. OutboxRows
  BY BoundsAssumption DEF OutboxRows, OutboxRow, NoRow, Uploaded, Pending
<1>2. MessagesNotAhead
  BY DEF MessagesNotAhead, IdleSender, IdleLoop
<1>3. RefusedOutdated
  BY DEF RefusedOutdated, IdleLoop, Idle
<1>4. CallbacksMatch
  BY DEF CallbacksMatch, Working, IdleLoop, Idle
<1>5. TicketsDistinct
  BY DEF TicketsDistinct, IdleSender
<1>6. AnnouncedIsUnderway
  BY DEF AnnouncedIsUnderway, Announced, Unsettled, NoRow
<1> QED
  BY <1>1, <1>2, <1>3, <1>4, <1>5, <1>6 DEF DispatchInvariant

\* What the row has reached or left behind stays so.
LEMMA StaysBehind ==
    ASSUME TypeOK, TypeOK', RowsMoveOn, NEW d \in Docs, NEW v
    PROVE  /\ NotAhead(d, v) => NotAhead(d, v)'
           /\ Outdated(d, v) => Outdated(d, v)'
<1>1. doc[d].version \in Nat /\ doc'[d].version \in Nat
  BY DEF TypeOK, Row
<1>2. v \in Versions => v \in Nat
  BY BoundsAssumption DEF Versions
<1>3. MovesOn(doc[d], doc'[d])
  BY DEF RowsMoveOn
<1> QED
  BY <1>1, <1>2, <1>3 DEF NotAhead, Outdated, MovesOn

LEMMA MessagesKept ==
    ASSUME TypeOK, TypeOK', OutboxTypeOK', MessagesNotAhead, RefusedOutdated,
           RowsMoveOn,
           \A d \in Docs, v \in Versions :
              wire'[d][v] > 0 => wire[d][v] > 0 \/ NotAhead(d, v),
           \A p \in Dispatchers :
              sender'[p].stage # Idle
                 => NotAhead(sender'[p].doc, sender'[p].version),
           \A w \in Workers :
              loop'[w].stage # Idle => NotAhead(loop'[w].doc, loop'[w].version),
           \A w \in Workers :
              loop'[w].stage = "REFUSED"
                 => Outdated(loop'[w].doc, loop'[w].version),
           \A d \in Docs, v \in Nat :
              <<d, v, "REFUSED">> \in dead'
                 => <<d, v, "REFUSED">> \in dead \/ Outdated(d, v)
    PROVE  MessagesNotAhead' /\ RefusedOutdated'
<1>1. \A p \in Dispatchers : sender'[p].doc \in Docs
  BY DEF OutboxTypeOK, Sender
<1>2. \A w \in Workers : loop'[w].doc \in Docs
  BY DEF OutboxTypeOK, Loop
<1>3. \A d \in Docs : \A v : (NotAhead(d, v) => NotAhead(d, v)')
                             /\ (Outdated(d, v) => Outdated(d, v)')
  BY StaysBehind
<1>4. ASSUME NEW d \in Docs, NEW v \in Versions, wire'[d][v] > 0
      PROVE  NotAhead(d, v)'
  BY <1>3, <1>4 DEF MessagesNotAhead
<1>5. ASSUME NEW p \in Dispatchers, sender'[p].stage # Idle
      PROVE  NotAhead(sender[p].doc, sender[p].version)'
  <2>1. NotAhead(sender'[p].doc, sender'[p].version)
    BY <1>5
  <2> QED
    BY <1>1, <2>1, StaysBehind DEF NotAhead
<1>6. ASSUME NEW w \in Workers, loop'[w].stage # Idle
      PROVE  NotAhead(loop[w].doc, loop[w].version)'
  <2>1. NotAhead(loop'[w].doc, loop'[w].version)
    BY <1>6
  <2> QED
    BY <1>2, <2>1, StaysBehind DEF NotAhead
<1>7. ASSUME NEW w \in Workers, loop'[w].stage = "REFUSED"
      PROVE  Outdated(loop[w].doc, loop[w].version)'
  <2>1. Outdated(loop'[w].doc, loop'[w].version)
    BY <1>7
  <2> QED
    BY <1>2, <2>1, StaysBehind DEF Outdated
<1>8. ASSUME NEW d \in Docs, NEW v \in Nat, <<d, v, "REFUSED">> \in dead'
      PROVE  Outdated(d, v)'
  BY <1>3, <1>8 DEF RefusedOutdated
<1> QED
  BY <1>4, <1>5, <1>6, <1>7, <1>8 DEF MessagesNotAhead, RefusedOutdated

\* A message returned to the broker, or confirmed by it, was already about.
LEMMA PutAdds ==
    ASSUME OutboxTypeOK, NEW d \in Docs, NEW v \in Versions, Put(d, v)
    PROVE  /\ wire'[d][v] > 0
           /\ \A e \in Docs, u \in Versions : wire[e][u] > 0 => wire'[e][u] > 0
           /\ \A e \in Docs, u \in Versions :
                 wire'[e][u] > 0 => wire[e][u] > 0 \/ (e = d /\ u = v)
<1>1. \A e \in Docs : wire[e] \in [Versions -> Nat]
  BY DEF OutboxTypeOK
<1>2. wire'[d][v] = wire[d][v] + 1
  BY <1>1 DEF Put, OutboxTypeOK
<1>3. \A e \in Docs, u \in Versions : ~(e = d /\ u = v) => wire'[e][u] = wire[e][u]
  BY <1>1 DEF Put, OutboxTypeOK
<1> QED
  BY <1>1, <1>2, <1>3

\* One dispatcher moves: the broker gets no message but its own.
LEMMA SenderMessages ==
    ASSUME TypeOK, TypeOK', OutboxTypeOK, OutboxTypeOK', MessagesNotAhead,
           RefusedOutdated, RowsMoveOn, NEW p \in Dispatchers, NEW s,
           sender' = [sender EXCEPT ![p] = s],
           s.stage = Idle \/ NotAhead(s.doc, s.version),
           \/ UNCHANGED wire
           \/ sender[p].stage # Idle /\ Put(sender[p].doc, sender[p].version),
           UNCHANGED <<dead, loop>>
    PROVE  MessagesNotAhead' /\ RefusedOutdated'
<1>1. \A q \in Dispatchers : sender'[q].stage # Idle
                                => NotAhead(sender'[q].doc, sender'[q].version)
  BY DEF OutboxTypeOK, MessagesNotAhead
<1>2. sender[p].stage # Idle => /\ sender[p].doc \in Docs
                                /\ sender[p].version \in Versions
                                /\ NotAhead(sender[p].doc, sender[p].version)
  BY SenderTyped DEF MessagesNotAhead, NotAhead
<1>3. \A d \in Docs, v \in Versions :
         wire'[d][v] > 0 => wire[d][v] > 0 \/ NotAhead(d, v)
  BY <1>2, PutAdds
<1>4. /\ \A w \in Workers :
            loop'[w].stage # Idle => NotAhead(loop'[w].doc, loop'[w].version)
      /\ \A w \in Workers : loop'[w].stage = "REFUSED"
                               => Outdated(loop'[w].doc, loop'[w].version)
  BY DEF MessagesNotAhead, RefusedOutdated
<1> QED
  BY <1>1, <1>3, <1>4, MessagesKept

LEMMA DispatcherMessages ==
    ASSUME TypeOK, TypeOK', OutboxTypeOK, OutboxTypeOK', DispatchInvariant,
           NEW p \in Dispatchers, DispatcherStep(p)
    PROVE  MessagesNotAhead' /\ RefusedOutdated'
<1>1. RowsMoveOn /\ MessagesNotAhead /\ RefusedOutdated /\ OutboxRows
  BY DispatcherMoves DEF DispatchInvariant
<1>2. sender[p] \in Sender
  BY SenderTyped
<1>3. ASSUME NEW d \in Docs, ClaimDispatch(p, d)
      PROVE  MessagesNotAhead' /\ RefusedOutdated'
  <2> DEFINE s == [stage |-> "CLAIMED", doc |-> d, version |-> doc[d].version,
                   ticket |-> drawn[d] + 1]
  <2>1. /\ sender' = [sender EXCEPT ![p] = s] /\ UNCHANGED <<wire, dead, loop>>
        /\ doc[d].dispatch # "IDLE"
    BY <1>3 DEF ClaimDispatch, SetSender, Dispatchable, brokerVars
  <2>2. /\ doc[d].version \in Nat /\ resets[d] \in Nat /\ MaxResets \in Nat
        /\ OutboxRow(doc[d], resets[d])
    BY <1>1, BoundsAssumption DEF TypeOK, Row, OutboxRows
  <2>3. NotAhead(d, doc[d].version)
    BY <2>1, <2>2 DEF NotAhead, OutboxRow, Versions
  <2>4. s.doc = d /\ s.version = doc[d].version
    OBVIOUS
  <2> HIDE DEF s
  <2> QED
    BY <1>1, <2>1, <2>3, <2>4, SenderMessages
<1>4. CASE Send(p) \/ SendFails(p)
  <2>1. PICK stage \in {"SENT", "REFUSED"} :
           sender' = [sender EXCEPT ![p] = [sender[p] EXCEPT !.stage = stage]]
    BY <1>4 DEF Send, SendFails, SetSender
  <2> DEFINE s == [sender[p] EXCEPT !.stage = stage]
  <2>2. s.doc = sender[p].doc /\ s.version = sender[p].version
    BY <1>2 DEF Sender
  <2>3. /\ UNCHANGED <<dead, loop>> /\ sender[p].stage # Idle
        /\ UNCHANGED wire \/ Put(sender[p].doc, sender[p].version)
    BY <1>4 DEF Send, SendFails, Idle
  <2> HIDE DEF s
  <2>4. NotAhead(s.doc, s.version)
    BY <1>1, <2>2, <2>3 DEF MessagesNotAhead
  <2> QED
    BY <1>1, <2>1, <2>3, <2>4, SenderMessages DEF s
<1>5. CASE ConfirmPublished(p) \/ PutBack(p) \/ DispatcherCrash(p)
  <2>1. /\ sender' = [sender EXCEPT ![p] = IdleSender]
        /\ UNCHANGED <<wire, dead, loop>>
    BY <1>5 DEF ConfirmPublished, PutBack, DispatcherCrash, SetSender, brokerVars
  <2> QED
    BY <1>1, <2>1, SenderMessages DEF IdleSender
<1> QED
  BY <1>3, <1>4, <1>5 DEF DispatcherStep, Publish

\* One callback moves.
LEMMA LoopMessages ==
    ASSUME TypeOK, TypeOK', OutboxTypeOK, OutboxTypeOK', MessagesNotAhead,
           RefusedOutdated, RowsMoveOn, NEW w \in Workers, NEW l,
           loop' = [loop EXCEPT ![w] = l],
           l.stage = Idle \/ NotAhead(l.doc, l.version),
           l.stage = "REFUSED" => Outdated(l.doc, l.version),
           UNCHANGED sender,
           \A d \in Docs, v \in Versions :
              wire'[d][v] > 0 => wire[d][v] > 0 \/ NotAhead(d, v),
           \A d \in Docs, v \in Nat :
              <<d, v, "REFUSED">> \in dead'
                 => <<d, v, "REFUSED">> \in dead \/ Outdated(d, v)
    PROVE  MessagesNotAhead' /\ RefusedOutdated'
<1>1. /\ \A v \in Workers :
            loop'[v].stage # Idle => NotAhead(loop'[v].doc, loop'[v].version)
      /\ \A v \in Workers : loop'[v].stage = "REFUSED"
                               => Outdated(loop'[v].doc, loop'[v].version)
  BY DEF OutboxTypeOK, MessagesNotAhead, RefusedOutdated
<1>2. \A q \in Dispatchers : sender'[q].stage # Idle
                                => NotAhead(sender'[q].doc, sender'[q].version)
  BY DEF MessagesNotAhead
<1> QED
  BY <1>1, <1>2, MessagesKept

\* Returning the message of a callback brings no new one about.
LEMMA ReturnedMessage ==
    ASSUME OutboxTypeOK, MessagesNotAhead, NEW w \in Workers,
           loop[w].stage # Idle, ReturnMessage(w)
    PROVE  \A d \in Docs, v \in Versions :
              wire'[d][v] > 0 => wire[d][v] > 0 \/ NotAhead(d, v)
<1>1. /\ loop[w].doc \in Docs /\ loop[w].version \in Versions
      /\ NotAhead(loop[w].doc, loop[w].version)
  BY LoopTyped DEF MessagesNotAhead, NotAhead
<1> QED
  BY <1>1, PutAdds DEF ReturnMessage

LEMMA CallbackMessages ==
    ASSUME TypeOK, TypeOK', QueueInvariant, OutboxTypeOK, OutboxTypeOK',
           DispatchInvariant, NEW w \in Workers, CallbackStep(w)
    PROVE  MessagesNotAhead' /\ RefusedOutdated'
<1>1. /\ RowsMoveOn /\ MessagesNotAhead /\ RefusedOutdated /\ OutboxRows
      /\ CallbacksMatch
  BY CallbackKeepsOutbox DEF DispatchInvariant, RowsKeepOutbox
<1>2. /\ loop[w] \in Loop /\ loop[w].doc \in Docs /\ loop[w].version \in Nat
      /\ loop[w].stage # Idle => NotAhead(loop[w].doc, loop[w].version)
      /\ loop[w].stage = "REFUSED" => Outdated(loop[w].doc, loop[w].version)
  BY <1>1, LoopTyped DEF MessagesNotAhead, RefusedOutdated
\* The callback goes on with its message.
<1>3. ASSUME NEW l \in Loop, loop' = [loop EXCEPT ![w] = l],
             l.doc = loop[w].doc, l.version = loop[w].version,
             l.stage = "REFUSED" => Outdated(l.doc, l.version),
             loop[w].stage # Idle,
             UNCHANGED sender, UNCHANGED wire \/ ReturnMessage(w),
             \A d \in Docs, v \in Nat :
                <<d, v, "REFUSED">> \in dead'
                   => <<d, v, "REFUSED">> \in dead \/ Outdated(d, v)
      PROVE  MessagesNotAhead' /\ RefusedOutdated'
  <2>1. \A d \in Docs, v \in Versions :
           wire'[d][v] > 0 => wire[d][v] > 0 \/ NotAhead(d, v)
    BY <1>1, <1>3, ReturnedMessage
  <2> QED
    BY <1>1, <1>2, <1>3, <2>1, LoopMessages
<1>4. ASSUME NEW stage \in {"READ", "CLAIM", "WORK", "REFUSED", "FAILED", "ACK"},
             GoTo(w, stage), loop[w].stage # Idle,
             stage = "REFUSED" => Outdated(loop[w].doc, loop[w].version),
             UNCHANGED <<sender, wire>>,
             \A d \in Docs, v \in Nat :
                <<d, v, "REFUSED">> \in dead'
                   => <<d, v, "REFUSED">> \in dead \/ Outdated(d, v)
      PROVE  MessagesNotAhead' /\ RefusedOutdated'
  <2> DEFINE l == [loop[w] EXCEPT !.stage = stage]
  <2>1. /\ l \in Loop /\ l.stage = stage /\ l.doc = loop[w].doc
        /\ l.version = loop[w].version
    BY <1>2 DEF Loop
  <2>2. loop' = [loop EXCEPT ![w] = l]
    BY <1>4 DEF GoTo
  <2> HIDE DEF l
  <2> QED
    BY <1>3, <1>4, <2>1, <2>2
\* The callback ends, its message acknowledged or returned.
<1>5. ASSUME loop' = [loop EXCEPT ![w] = IdleLoop], loop[w].stage # Idle,
             UNCHANGED <<sender, dead>>, UNCHANGED wire \/ ReturnMessage(w)
      PROVE  MessagesNotAhead' /\ RefusedOutdated'
  <2>1. \A d \in Docs, v \in Versions :
           wire'[d][v] > 0 => wire[d][v] > 0 \/ NotAhead(d, v)
    BY <1>1, <1>5, ReturnedMessage
  <2> QED
    BY <1>1, <1>5, <2>1, LoopMessages DEF IdleLoop, Idle
<1>6. ASSUME NEW d \in Docs, NEW v \in Versions, Deliver(w, d, v)
      PROVE  MessagesNotAhead' /\ RefusedOutdated'
  <2> DEFINE l == [stage |-> "READ", doc |-> d, version |-> v, tagged |-> TRUE]
  <2>1. /\ loop' = [loop EXCEPT ![w] = l] /\ wire[d][v] > 0
        /\ wire' = [wire EXCEPT ![d][v] = @ - 1] /\ UNCHANGED <<sender, dead>>
    BY <1>6 DEF Deliver, outboxVars
  <2>2. l.stage = "READ" /\ l.doc = d /\ l.version = v
    OBVIOUS
  <2>3. NotAhead(d, v)
    BY <1>1, <2>1 DEF MessagesNotAhead
  <2>4. \A e \in Docs, u \in Versions :
           wire'[e][u] > 0 => wire[e][u] > 0 \/ NotAhead(e, u)
    BY <2>1, <2>3 DEF OutboxTypeOK
  <2> HIDE DEF l
  <2> QED
    BY <1>1, <2>1, <2>2, <2>3, <2>4, LoopMessages
<1>7. CASE ReadSnapshot(w)
  <2> DEFINE r == doc[loop[w].doc]
             stage == IF r.status = "DELETED" THEN "ACK"
                      ELSE IF r.version # loop[w].version THEN "REFUSED"
                      ELSE IF r.status \in {"READY", "FAILED"} THEN "ACK"
                      ELSE "CLAIM"
  <2>1. /\ GoTo(w, stage) /\ loop[w].stage = "READ"
        /\ UNCHANGED <<sender, wire, dead>>
    BY <1>7 DEF ReadSnapshot, outboxVars, brokerVars
  <2>2. r.version \in Nat /\ NotAhead(loop[w].doc, loop[w].version)
    BY <1>2, <2>1 DEF TypeOK, Row, Idle
  <2>3. stage = "REFUSED" => Outdated(loop[w].doc, loop[w].version)
    BY <1>2, <2>2 DEF NotAhead, Outdated
  <2>4. stage \in {"ACK", "REFUSED", "CLAIM"}
    OBVIOUS
  <2> HIDE DEF stage
  <2> QED
    BY <1>4, <2>1, <2>3, <2>4 DEF Idle
<1>8. CASE ClaimAndWork(w) \/ ClaimExhausted(w) \/ ClaimRefused(w)
  BY <1>4, <1>8
  DEF ClaimAndWork, ClaimExhausted, ClaimRefused, outboxVars, brokerVars, Idle
<1>9. CASE EndWork(w)
  <2>1. Working(w)
    BY <1>9 DEF EndWork, WorkSucceeds, WorkFails, WorkLosesLease, Finish, Fail,
                GiveUpLostLease, Crash, Owns
  <2>2. PICK stage \in {"READ", "FAILED", "ACK"} :
           GoTo(w, stage) /\ UNCHANGED <<sender, wire, dead>>
    BY <1>9 DEF EndWork, WorkSucceeds, WorkFails, WorkLosesLease, LeaveClaim,
                outboxVars, brokerVars
  <2> QED
    BY <1>1, <1>4, <2>1, <2>2 DEF CallbacksMatch, Idle
<1>10. CASE WorkerBeats(w)
  <2>1. UNCHANGED <<sender, wire, dead, loop>>
    BY <1>10 DEF WorkerBeats, outboxVars, brokerVars
  <2> QED
    BY <1>1, <2>1, MessagesKept DEF MessagesNotAhead, RefusedOutdated
<1>11. CASE CallbackRaises(w)
  BY <1>4, <1>11 DEF CallbackRaises, outboxVars, brokerVars, Idle
<1>12. CASE DeadLetter(w)
  <2>1. /\ GoTo(w, "ACK") /\ UNCHANGED <<sender, wire>> /\ Raised(w)
        /\ dead' = dead \cup {<<loop[w].doc, loop[w].version, loop[w].stage>>}
    BY <1>12 DEF DeadLetter, outboxVars
  <2>2. \A d \in Docs, v \in Nat :
           <<d, v, "REFUSED">> \in dead'
              => <<d, v, "REFUSED">> \in dead \/ Outdated(d, v)
    BY <1>2, <2>1
  <2> QED
    BY <1>4, <2>1, <2>2 DEF Raised, Idle
<1>13. CASE NackRequeue(w) \/ WorkerCrash(w) \/ Ack(w)
  BY <1>5, <1>13
  DEF NackRequeue, WorkerCrash, Ack, Raised, outboxVars, brokerVars, Idle
<1>14. CASE ChannelLost(w)
  <2> DEFINE l == [loop[w] EXCEPT !.tagged = FALSE]
  <2>1. /\ l \in Loop /\ l.stage = loop[w].stage /\ l.doc = loop[w].doc
        /\ l.version = loop[w].version
    BY <1>2 DEF Loop
  <2>2. /\ loop' = [loop EXCEPT ![w] = l] /\ loop[w].stage # Idle
        /\ UNCHANGED <<sender, dead>> /\ ReturnMessage(w)
    BY <1>1, <1>14 DEF ChannelLost, CallbacksMatch, outboxVars
  <2> HIDE DEF l
  <2> QED
    BY <1>2, <1>3, <2>1, <2>2
<1> QED
  BY <1>6, <1>7, <1>8, <1>9, <1>10, <1>11, <1>12, <1>13, <1>14
  DEF CallbackStep, Consume

LEMMA MessagesStep ==
    ASSUME TypeOK, TypeOK', QueueInvariant, OutboxTypeOK, OutboxTypeOK',
           DispatchInvariant, Next
    PROVE  MessagesNotAhead' /\ RefusedOutdated'
<1>1. ASSUME NEW d \in Docs, RowStep(d)
      PROVE  MessagesNotAhead' /\ RefusedOutdated'
  <2>1. UNCHANGED <<sender, wire, dead, loop>>
    BY <1>1 DEF RowStep, UserRequest, ParseTimePasses, TicketLapse, DispatchDue,
                outboxVars, brokerVars
  <2>2. RowsMoveOn
    BY <1>1, RowStepKeepsOutbox DEF DispatchInvariant, RowsKeepOutbox
  <2> QED
    BY <2>1, <2>2, MessagesKept DEF DispatchInvariant, MessagesNotAhead,
                                    RefusedOutdated
<1> QED
  BY <1>1, DispatcherMessages, CallbackMessages, NextSteps

-----------------------------------------------------------------------------
(* Claims and callbacks, tickets *)

LEMMA CallbackMatchStep ==
    ASSUME TypeOK, OutboxTypeOK, CallbacksMatch, NEW w \in Workers,
           CallbackStep(w)
    PROVE  CallbacksMatch'
<1>1. /\ loop[w] \in Loop /\ (Working(w) <=> loop[w].stage = "WORK")
      /\ Working(w) => held[w].doc = loop[w].doc
      /\ loop[w].tagged => loop[w].stage # Idle
  BY LoopTyped DEF CallbacksMatch
<1>2. ASSUME NEW l \in Loop, loop' = [loop EXCEPT ![w] = l],
             NEW c, held' = [held EXCEPT ![w] = c],
             c # NoClaim <=> l.stage = "WORK", c # NoClaim => c.doc = l.doc,
             l.tagged => l.stage # Idle
      PROVE  CallbacksMatch'
  BY <1>2 DEF CallbacksMatch, Working, TypeOK, OutboxTypeOK
<1>3. UNCHANGED held => held' = [held EXCEPT ![w] = held[w]]
  BY DEF TypeOK
<1>4. ASSUME NEW stage \in {"READ", "CLAIM", "WORK", "REFUSED", "FAILED", "ACK"},
             GoTo(w, stage)
      PROVE  \E l \in Loop : /\ loop' = [loop EXCEPT ![w] = l]
                             /\ l.stage = stage /\ l.doc = loop[w].doc
                             /\ l.stage # Idle
  <2>1. LET l == [loop[w] EXCEPT !.stage = stage] IN
        l \in Loop /\ l.stage = stage /\ l.doc = loop[w].doc
    BY <1>1 DEF Loop
  <2> QED
    BY <1>4, <2>1 DEF GoTo, Idle
\* No claim before, and none after.
<1>5. ASSUME NEW l \in Loop, loop' = [loop EXCEPT ![w] = l], l.stage # "WORK",
             l.tagged => l.stage # Idle,
             \/ Release(w)
             \/ loop[w].stage # "WORK" /\ UNCHANGED held
      PROVE  CallbacksMatch'
  <2>1. held' = [held EXCEPT ![w] = NoClaim]
    BY <1>1, <1>3, <1>5 DEF Release, Working
  <2> QED
    BY <1>2, <1>5, <2>1
<1>6. ASSUME NEW stage \in {"READ", "CLAIM", "REFUSED", "FAILED", "ACK"},
             GoTo(w, stage),
             \/ Release(w)
             \/ loop[w].stage # "WORK" /\ UNCHANGED held
      PROVE  CallbacksMatch'
  BY <1>4, <1>5, <1>6
<1>7. ASSUME NEW d \in Docs, NEW v \in Versions, Deliver(w, d, v)
      PROVE  CallbacksMatch'
  <2> DEFINE l == [stage |-> "READ", doc |-> d, version |-> v, tagged |-> TRUE]
  <2>1. l \in Loop /\ l.stage = "READ"
    BY BoundsAssumption DEF Loop, Versions
  <2>2. /\ loop' = [loop EXCEPT ![w] = l] /\ loop[w].stage = Idle
        /\ UNCHANGED held
    BY <1>7 DEF Deliver, queueVars
  <2> HIDE DEF l
  <2> QED
    BY <1>5, <2>1, <2>2 DEF Idle
<1>8. CASE ReadSnapshot(w)
  <2>1. \E stage \in {"CLAIM", "REFUSED", "ACK"} : GoTo(w, stage)
    BY <1>8 DEF ReadSnapshot
  <2>2. UNCHANGED held /\ loop[w].stage = "READ"
    BY <1>8 DEF ReadSnapshot, queueVars
  <2> QED
    BY <1>6, <2>1, <2>2
<1>9. CASE ClaimAndWork(w)
  <2> DEFINE d == loop[w].doc
             c == [doc |-> d, lease |-> issued[d] + 1,
                   attempt |-> doc[d].attempts + 1, replace |-> doc[d].reparse,
                   version |-> doc[d].version, pulse |-> "BEATING"]
  <2>1. held' = [held EXCEPT ![w] = c] /\ GoTo(w, "WORK")
    BY <1>9 DEF ClaimAndWork, Grant
  <2>2. c \in Claim
    <3>1. d \in Docs /\ doc[d] \in Row /\ issued[d] \in Nat
      BY LoopTyped DEF TypeOK
    <3> QED
      BY <3>1 DEF Claim, Pulse, Row
  <2>3. c # NoClaim /\ c.doc = loop[w].doc
    BY <2>2, NoClaimAssumption
  <2> HIDE DEF c, d
  <2> QED
    BY <1>2, <1>4, <2>1, <2>3
<1>10. CASE ClaimExhausted(w) \/ ClaimRefused(w)
  BY <1>6, <1>10 DEF ClaimExhausted, ClaimRefused, Exhaust, queueVars
<1>11. CASE EndWork(w)
  <2>1. Release(w)
    BY <1>11 DEF EndWork, WorkSucceeds, WorkFails, WorkLosesLease, Finish, Fail,
                 GiveUpLostLease, Crash
  <2>2. \E stage \in {"READ", "FAILED", "ACK"} : GoTo(w, stage)
    BY <1>11 DEF EndWork, WorkSucceeds, WorkFails, WorkLosesLease, LeaveClaim
  <2> QED
    BY <1>6, <2>1, <2>2
<1>12. CASE WorkerBeats(w)
  <2>1. loop' = [loop EXCEPT ![w] = loop[w]] /\ Working(w)
    BY <1>12 DEF WorkerBeats, Heartbeat, HeartbeatCrash, OutboxTypeOK
  <2>2. held[w] \in Claim
    BY <2>1, HeldTyped
  <2>3. PICK p \in Pulse : \/ held' = [held EXCEPT ![w].pulse = p]
                           \/ UNCHANGED held
    BY <1>12 DEF WorkerBeats, Heartbeat, HeartbeatCrash, Pulse
  <2> DEFINE c == [held[w] EXCEPT !.pulse = p]
  <2>4. c \in Claim /\ c.doc = held[w].doc
    BY <2>2 DEF Claim
  <2>5. c # NoClaim
    BY <2>4, NoClaimAssumption
  <2>6. held' = [held EXCEPT ![w] = c] \/ held' = [held EXCEPT ![w] = held[w]]
    BY <1>3, <2>3
  <2> HIDE DEF c
  <2> QED
    BY <1>1, <1>2, <2>1, <2>4, <2>5, <2>6 DEF Working
<1>13. Abandon(w) => Release(w) \/ (loop[w].stage # "WORK" /\ UNCHANGED held)
  BY <1>1 DEF Abandon, Crash, queueVars
<1>14. CASE CallbackRaises(w)
  BY <1>6, <1>13, <1>14 DEF CallbackRaises
<1>15. CASE DeadLetter(w)
  BY <1>6, <1>15 DEF DeadLetter, Raised, queueVars
<1>16. CASE NackRequeue(w) \/ Ack(w) \/ WorkerCrash(w)
  BY <1>5, <1>13, <1>16, IdleTyped
  DEF NackRequeue, Ack, WorkerCrash, Raised, queueVars, IdleLoop, Idle
<1>17. CASE ChannelLost(w)
  <2> DEFINE l == [loop[w] EXCEPT !.tagged = FALSE]
  <2>1. /\ l \in Loop /\ l.stage = loop[w].stage /\ l.doc = loop[w].doc
        /\ ~l.tagged
    BY <1>1 DEF Loop
  <2>2. loop' = [loop EXCEPT ![w] = l] /\ UNCHANGED held
    BY <1>17 DEF ChannelLost, queueVars
  <2> HIDE DEF l
  <2> QED
    BY <1>1, <1>2, <1>3, <2>1, <2>2 DEF Working
<1> QED
  BY <1>7, <1>8, <1>9, <1>10, <1>11, <1>12, <1>14, <1>15, <1>16, <1>17
  DEF CallbackStep, Consume

LEMMA CallbacksMatchStep ==
    ASSUME TypeOK, OutboxTypeOK, CallbacksMatch, Next
    PROVE  CallbacksMatch'
<1>1. ASSUME UNCHANGED <<held, loop>> PROVE CallbacksMatch'
  BY <1>1 DEF CallbacksMatch, Working
<1>2. ASSUME NEW d \in Docs, RowStep(d) PROVE CallbacksMatch'
  BY <1>1, <1>2
  DEF RowStep, UserRequest, ParseTimePasses, TicketLapse, DispatchDue, Request,
      Upload, Approve, Reject, Retry, Reparse, Delete, LeaseLapse, RetryDue
<1>3. ASSUME NEW p \in Dispatchers, DispatcherStep(p) PROVE CallbacksMatch'
  BY <1>1, <1>3
  DEF DispatcherStep, Publish, ClaimDispatch, Send, ConfirmPublished, PutBack,
      SendFails, DispatcherCrash, queueVars
<1> QED
  BY <1>2, <1>3, CallbackMatchStep, NextSteps

LEMMA TicketsStep ==
    ASSUME OutboxTypeOK, TicketsDistinct, Next
    PROVE  TicketsDistinct'
<1>1. CASE UNCHANGED <<drawn, sender>>
  BY <1>1 DEF TicketsDistinct
<1>2. ASSUME NEW p \in Dispatchers, NEW d \in Docs, ClaimDispatch(p, d)
      PROVE  TicketsDistinct'
  <2> DEFINE t == drawn[d] + 1
             s == [stage |-> "CLAIMED", doc |-> d, version |-> doc[d].version,
                   ticket |-> t]
  <2>1. /\ drawn[d] \in Nat /\ drawn' = [drawn EXCEPT ![d] = t]
        /\ sender' = [sender EXCEPT ![p] = s]
    BY <1>2 DEF ClaimDispatch, SetSender, OutboxTypeOK
  <2>2. s.doc = d /\ s.ticket = t
    OBVIOUS
  <2> HIDE DEF s
  <2>3. sender'[p] = s /\ \A q \in Dispatchers : q # p => sender'[q] = sender[q]
    BY <2>1 DEF OutboxTypeOK
  <2>4. \A e \in Docs : /\ drawn[e] \in Nat /\ drawn'[e] \in Nat
                        /\ drawn[e] <= drawn'[e] /\ drawn'[d] = t
    BY <2>1 DEF OutboxTypeOK
  <2>5. ASSUME NEW q \in Dispatchers, q # p, sender[q].stage # Idle
        PROVE  /\ sender[q].ticket <= drawn'[sender[q].doc]
               /\ sender[q].doc = d => sender[q].ticket < t
    <3>1. sender[q].doc \in Docs /\ sender[q].ticket \in Nat
      BY SenderTyped
    <3>2. sender[q].ticket <= drawn[sender[q].doc]
      BY <2>5 DEF TicketsDistinct
    <3> QED
      BY <2>1, <2>4, <3>1, <3>2
  <2>6. ASSUME NEW q \in Dispatchers, sender'[q].stage # Idle
        PROVE  sender'[q].ticket <= drawn'[sender'[q].doc]
    <3>1. t <= drawn'[d]
      BY <2>1, <2>4
    <3> QED
      BY <2>2, <2>3, <2>5, <2>6, <3>1
  <2>7. ASSUME NEW q \in Dispatchers, NEW r \in Dispatchers,
               sender'[q].stage # Idle, sender'[r].stage # Idle,
               sender'[q].doc = sender'[r].doc,
               sender'[q].ticket = sender'[r].ticket
        PROVE  q = r
    <3>1. ASSUME NEW u \in Dispatchers, u # p, sender'[u].stage # Idle,
                 sender'[u].doc = d
          PROVE  sender'[u].ticket # t
      BY <2>1, <2>3, <2>5, <3>1, SenderTyped
    <3>2. CASE q # p /\ r # p
      BY <2>3, <2>7, <3>2 DEF TicketsDistinct
    <3> QED
      BY <2>2, <2>3, <2>7, <3>1, <3>2
  <2> QED
    BY <2>6, <2>7 DEF TicketsDistinct
<1>3. ASSUME NEW p \in Dispatchers, UNCHANGED drawn, NEW s,
             sender' = [sender EXCEPT ![p] = s],
             \/ s.stage = Idle
             \/ /\ sender[p].stage # Idle /\ s.doc = sender[p].doc
                /\ s.ticket = sender[p].ticket
      PROVE  TicketsDistinct'
  BY <1>3 DEF TicketsDistinct, OutboxTypeOK
<1>4. ASSUME NEW p \in Dispatchers, DispatcherStep(p) PROVE TicketsDistinct'
  <2>1. CASE Send(p) \/ SendFails(p)
    <3>1. PICK stage \in {"SENT", "REFUSED"} :
             sender' = [sender EXCEPT ![p] = [sender[p] EXCEPT !.stage = stage]]
      BY <2>1 DEF Send, SendFails, SetSender
    <3> DEFINE s == [sender[p] EXCEPT !.stage = stage]
    <3>2. s.doc = sender[p].doc /\ s.ticket = sender[p].ticket
      BY SenderTyped DEF Sender
    <3>3. UNCHANGED drawn /\ sender[p].stage # Idle
      BY <2>1 DEF Send, SendFails, Idle
    <3> HIDE DEF s
    <3> QED
      BY <1>3, <3>1, <3>2, <3>3 DEF s
  <2>2. CASE ConfirmPublished(p) \/ PutBack(p) \/ DispatcherCrash(p)
    BY <1>3, <2>2
    DEF ConfirmPublished, PutBack, DispatcherCrash, SetSender, IdleSender
  <2> QED
    BY <1>2, <1>4, <2>1, <2>2 DEF DispatcherStep, Publish
<1>5. ASSUME NEW d \in Docs, RowStep(d) PROVE TicketsDistinct'
  BY <1>1, <1>5 DEF RowStep, UserRequest, ParseTimePasses, TicketLapse,
                    DispatchDue, outboxVars
<1>6. ASSUME NEW w \in Workers, CallbackStep(w) PROVE TicketsDistinct'
  BY <1>1, <1>6
  DEF CallbackStep, Consume, Deliver, ReadSnapshot, ClaimAndWork, ClaimExhausted,
      ClaimRefused, DeadLetter, Ack, EndWork, WorkSucceeds, WorkFails,
      WorkLosesLease, LeaveClaim, WorkerBeats, CallbackRaises, NackRequeue,
      ChannelLost, WorkerCrash, outboxVars
<1> QED
  BY <1>4, <1>5, <1>6, NextSteps

-----------------------------------------------------------------------------
(* A message that was sent for a pending document stays underway.            *)

\* A step that neither confirms nor publishes announces nothing.
LEMMA NothingAnnounced ==
    ASSUME RowsKeepOutbox, NEW d \in Docs, Announced(d)',
           \A p \in Dispatchers : sender'[p].stage = "SENT" => sender'[p] = sender[p]
    PROVE  Announced(d) /\ doc'[d].version = doc[d].version
<1>1. AnnouncesNothing(doc[d], doc'[d])
  BY DEF RowsKeepOutbox
<1>2. Pending(doc'[d]) /\ doc'[d].dispatch \in {"DISPATCHING", "PUBLISHED"}
  BY DEF Announced, Unsettled, Pending, StillHoldsTicket, HoldsTicket
<1>3. /\ Unsettled(d) /\ doc[d].version = doc'[d].version
      /\ doc[d].dispatch = doc'[d].dispatch /\ doc[d].ticket = doc'[d].ticket
  BY <1>1, <1>2 DEF AnnouncesNothing, Pending, Unsettled
<1> QED
  BY <1>3 DEF Announced, StillHoldsTicket, HoldsTicket

\* A message stays underway while the broker keeps it, nothing is taken out of
\* the dead letters, and the one callback that moves still has it or left it.
LEMMA UnderwayStays ==
    ASSUME NEW w \in Workers, NEW d \in Docs, Underway(d),
           doc'[d].version = doc[d].version,
           \A v \in Workers : v # w => loop'[v] = loop[v],
           dead \subseteq dead',
           LET v == doc[d].version IN
           /\ v \in Versions /\ wire[d][v] > 0 => wire'[d][v] > 0 \/ Carries(w, d)'
           /\ Carries(w, d) => \/ v \in Versions /\ wire'[d][v] > 0
                               \/ <<d, v, "FAILED">> \in dead'
                               \/ Carries(w, d)'
    PROVE  Underway(d)'
<1>1. CASE \E u \in Workers : u # w /\ Carries(u, d)
  BY <1>1 DEF Underway, Carries, InFlight
<1>2. CASE Carries(w, d)
  BY <1>2 DEF Underway
<1>3. CASE \/ doc[d].version \in Versions /\ wire[d][doc[d].version] > 0
           \/ <<d, doc[d].version, "FAILED">> \in dead
  BY <1>3 DEF Underway
<1> QED
  BY <1>1, <1>2, <1>3 DEF Underway

LEMMA UnderwayGrows ==
    ASSUME NEW d \in Docs, Underway(d), doc'[d].version = doc[d].version,
           UNCHANGED <<dead, loop>>,
           \A v \in Versions : wire[d][v] > 0 => wire'[d][v] > 0
    PROVE  Underway(d)'
  BY DEF Underway, Carries, InFlight

LEMMA RowStepKeepsMessages ==
    ASSUME TypeOK, OutboxTypeOK, DispatchInvariant, NEW d \in Docs, RowStep(d)
    PROVE  AnnouncedIsUnderway'
<1>1. RowsKeepOutbox
  BY RowStepKeepsOutbox DEF DispatchInvariant
<1>2. UNCHANGED <<sender, wire, dead, loop>>
  BY DEF RowStep, UserRequest, ParseTimePasses, TicketLapse, DispatchDue,
         outboxVars, brokerVars
<1>3. ASSUME NEW e \in Docs, Announced(e)' PROVE Underway(e)'
  <2>1. Announced(e) /\ doc'[e].version = doc[e].version
    BY <1>1, <1>2, <1>3, NothingAnnounced
  <2>2. Underway(e)
    BY <2>1 DEF DispatchInvariant, AnnouncedIsUnderway
  <2> QED
    BY <1>2, <2>1, <2>2, UnderwayGrows
<1> QED
  BY <1>3 DEF AnnouncedIsUnderway

LEMMA DispatcherKeepsMessages ==
    ASSUME TypeOK, OutboxTypeOK, DispatchInvariant, NEW p \in Dispatchers,
           DispatcherStep(p)
    PROVE  AnnouncedIsUnderway'
<1> DEFINE s == sender[p]
<1>0. PICK e \in Docs : e = s.doc
  BY SenderTyped
<1>1. /\ s \in Sender /\ s.version \in Nat /\ s.ticket \in Nat /\ doc[e] \in Row
      /\ OutboxRow(doc[e], resets[e]) /\ OutboxRows
      /\ s.stage # Idle => NotAhead(e, s.version)
  BY <1>0, SenderTyped DEF TypeOK, DispatchInvariant, OutboxRows, MessagesNotAhead
<1>2. \A d \in Docs : Announced(d) => Underway(d)
  BY DEF DispatchInvariant, AnnouncedIsUnderway
<1>3. ASSUME NEW d \in Docs, NEW t, t = drawn[d] + 1, ClaimDispatch(p, d)
      PROVE  AnnouncedIsUnderway'
  <2> DEFINE row == TakeTicket(doc[d], t)
  <2>1. doc[d] \in Row /\ drawn[d] \in Nat /\ t \in Nat /\ t > drawn[d]
    BY <1>3 DEF TypeOK, OutboxTypeOK
  <2>2. /\ row \in Row /\ row.dispatch = "DISPATCHING" /\ row.ticket = t
        /\ row.version = doc[d].version
    BY <2>1, TicketedRow DEF ParseColumnsKept
  <2>3. /\ SetRow(d, row) /\ UNCHANGED <<wire, dead, loop>>
        /\ sender' = [sender EXCEPT ![p] =
                        [stage |-> "CLAIMED", doc |-> d,
                         version |-> doc[d].version, ticket |-> t]]
    BY <1>3 DEF ClaimDispatch, SetSender, brokerVars
  <2> HIDE DEF row
  <2>4. doc'[d] = row /\ \A c \in Docs : c # d => doc'[c] = doc[c]
    BY <2>3, SetRowOne
  <2>5. \A q \in Dispatchers : sender'[q].stage = "SENT" =>
           sender'[q] = sender[q]
    BY <2>3 DEF OutboxTypeOK
  <2>6. ~Announced(d)'
    <3> SUFFICES ASSUME NEW q \in Dispatchers, sender'[q].stage = "SENT",
                        sender'[q].doc = d, sender'[q].ticket = t
                 PROVE  FALSE
      BY <2>2, <2>4 DEF Announced, StillHoldsTicket, HoldsTicket
    <3>1. sender[q].stage = "SENT" /\ sender[q].doc = d /\ sender[q].ticket = t
      BY <2>5
    <3>2. t <= drawn[d]
      BY <3>1 DEF DispatchInvariant, TicketsDistinct, Idle
    <3> QED
      BY <2>1, <3>2
  <2>7. ASSUME NEW c \in Docs, Announced(c)' PROVE Underway(c)'
    <3>1. c # d /\ doc'[c] = doc[c]
      BY <2>4, <2>6, <2>7
    <3>2. Announced(c)
      BY <2>5, <2>7, <3>1 DEF Announced, Unsettled, StillHoldsTicket
    <3> QED
      BY <1>2, <2>3, <3>1, <3>2, UnderwayGrows
  <2> QED
    BY <2>7 DEF AnnouncedIsUnderway
\* The sender is silent from now on.
<1>4. ASSUME NEW n, sender' = [sender EXCEPT ![p] = n], n.stage # "SENT",
             RowsKeepOutbox, UNCHANGED <<dead, loop>>,
             \A c \in Docs, v \in Versions : wire[c][v] > 0 => wire'[c][v] > 0
      PROVE  AnnouncedIsUnderway'
  <2>1. \A q \in Dispatchers : sender'[q].stage = "SENT" => sender'[q] = sender[q]
    BY <1>4 DEF OutboxTypeOK
  <2>2. ASSUME NEW c \in Docs, Announced(c)' PROVE Underway(c)'
    <3>1. Announced(c) /\ doc'[c].version = doc[c].version
      BY <1>4, <2>1, <2>2, NothingAnnounced
    <3> QED
      BY <1>2, <1>4, <3>1, UnderwayGrows
  <2> QED
    BY <2>2 DEF AnnouncedIsUnderway
<1>5. CASE Send(p)
  <2>1. /\ UNCHANGED <<doc, dead, loop>> /\ Put(e, s.version) /\ s.stage = "CLAIMED"
        /\ sender' = [sender EXCEPT ![p] = [s EXCEPT !.stage = "SENT"]]
    BY <1>0, <1>5 DEF Send, SetSender, queueVars
  <2>2. s.version \in Versions
    BY <1>1, <2>1 DEF NotAhead, Idle
  <2>3. /\ wire'[e][s.version] > 0
        /\ \A c \in Docs, v \in Versions : wire[c][v] > 0 => wire'[c][v] > 0
    BY <2>1, <2>2, PutAdds
  <2>4. /\ sender'[p].doc = e /\ sender'[p].version = s.version
        /\ \A q \in Dispatchers : q # p => sender'[q] = sender[q]
    BY <1>0, <1>1, <2>1 DEF OutboxTypeOK, Sender
  <2>5. ASSUME NEW c \in Docs, Announced(c)' PROVE Underway(c)'
    <3>1. CASE c = e /\ doc[e].version = s.version
      BY <2>1, <2>2, <2>3, <3>1 DEF Underway
    <3>2. CASE ~(c = e /\ doc[e].version = s.version)
      <4>1. Announced(c)
        BY <2>1, <2>4, <2>5, <3>2
        DEF Announced, Unsettled, StillHoldsTicket, HoldsTicket
      <4> QED
        BY <1>2, <2>1, <2>3, <4>1, UnderwayGrows
    <3> QED
      BY <3>1, <3>2
  <2> QED
    BY <2>5 DEF AnnouncedIsUnderway
<1>6. CASE SendFails(p) \/ DispatcherCrash(p)
  <2>1. RowsKeepOutbox
    <3>1. UNCHANGED <<doc, resets>>
      BY <1>6 DEF SendFails, DispatcherCrash, queueVars
    <3> QED
      BY <1>1, <3>1, NoRowMoves
  <2>2. \A c \in Docs, v \in Versions : wire[c][v] > 0 => wire'[c][v] > 0
    <3>1. UNCHANGED wire \/ (NotAhead(e, s.version) /\ Put(e, s.version))
      BY <1>0, <1>1, <1>6 DEF SendFails, DispatcherCrash, brokerVars, Idle
    <3> QED
      BY <3>1, PutAdds DEF NotAhead
  <2>3. UNCHANGED <<dead, loop>>
    BY <1>6 DEF SendFails, DispatcherCrash, brokerVars
  <2>4. [s EXCEPT !.stage = "REFUSED"].stage # "SENT" /\ IdleSender.stage # "SENT"
    BY <1>1 DEF Sender, IdleSender, Idle
  <2> QED
    BY <1>4, <1>6, <2>1, <2>2, <2>3, <2>4 DEF SendFails, DispatcherCrash, SetSender
<1>7. IdleSender.stage # "SENT"
  BY DEF IdleSender, Idle
<1>8. CASE PutBack(p)
  <2>1. RowsKeepOutbox
    <3> DEFINE row == ReleaseForRetry(doc[e])
    <3>1. row \in Row /\ ParseColumnsKept(doc[e], row) /\ row.dispatch = "PENDING"
      BY <1>1, PutBackRow
    <3>2. FencedWrite(p, row) /\ UNCHANGED resets
      BY <1>0, <1>8 DEF PutBack
    <3> HIDE DEF row
    <3>3. CASE StillHoldsTicket(p)
      <4>1. SetRow(e, row) /\ doc[e].dispatch = "DISPATCHING"
        BY <1>0, <3>2, <3>3 DEF FencedWrite, StillHoldsTicket, HoldsTicket
      <4>2. /\ OutboxRow(row, resets'[e]) /\ MovesOn(doc[e], row)
            /\ AnnouncesNothing(doc[e], row)
        BY <1>1, <3>1, <3>2, <4>1
        DEF OutboxRow, MovesOn, AnnouncesNothing, ParseColumnsKept, Uploaded,
            Pending, Row
      <4> QED
        BY <1>1, <3>1, <3>2, <4>1, <4>2, OneRowMoves
    <3>4. CASE ~StillHoldsTicket(p)
      BY <1>1, <3>2, <3>4, NoRowMoves DEF FencedWrite
    <3> QED
      BY <3>3, <3>4
  <2> QED
    BY <1>4, <1>7, <1>8, <2>1 DEF PutBack, SetSender, brokerVars
<1>9. CASE ConfirmPublished(p)
  <2> DEFINE row == MarkPublished(doc[e])
  <2>1. row \in Row /\ ParseColumnsKept(doc[e], row)
    BY <1>1, PublishedRow
  <2>2. /\ FencedWrite(p, row) /\ UNCHANGED <<resets, wire, dead, loop>>
        /\ s.stage = "SENT" /\ sender' = [sender EXCEPT ![p] = IdleSender]
    BY <1>0, <1>9 DEF ConfirmPublished, SetSender, brokerVars
  <2> HIDE DEF row
  <2>3. CASE ~StillHoldsTicket(p)
    <3>1. RowsKeepOutbox
      BY <1>1, <2>2, <2>3, NoRowMoves DEF FencedWrite
    <3> QED
      BY <1>4, <1>7, <2>2, <3>1
  <2>4. CASE StillHoldsTicket(p)
    <3>1. doc'[e] = row /\ \A c \in Docs : c # e => doc'[c] = doc[c]
      BY <1>0, <2>2, <2>4, SetRowOne DEF FencedWrite
    <3>2. \A q \in Dispatchers : sender'[q].stage = "SENT" => sender'[q] = sender[q]
      BY <1>7, <2>2 DEF OutboxTypeOK
    <3>3. ASSUME NEW c \in Docs, Announced(c)'
          PROVE  Announced(c) /\ doc'[c].version = doc[c].version
      <4>1. CASE c = e
        <5>1. doc'[c].status = doc[e].status /\ doc'[c].version = doc[e].version
          BY <2>1, <3>1, <4>1 DEF ParseColumnsKept
        <5>2. Unsettled(e)
          BY <3>3, <4>1, <5>1 DEF Announced, Unsettled
        <5> QED
          BY <1>0, <2>2, <2>4, <4>1, <5>1, <5>2 DEF Announced
      <4>2. CASE c # e
        BY <3>1, <3>2, <3>3, <4>2 DEF Announced, Unsettled, StillHoldsTicket
      <4> QED
        BY <4>1, <4>2
    <3>4. ASSUME NEW c \in Docs, Announced(c)' PROVE Underway(c)'
      BY <1>2, <2>2, <3>3, <3>4, UnderwayGrows
    <3> QED
      BY <3>4 DEF AnnouncedIsUnderway
  <2> QED
    BY <2>3, <2>4
<1> QED
  BY <1>3, <1>5, <1>6, <1>8, <1>9 DEF DispatcherStep, Publish

LEMMA CallbackKeepsMessages ==
    ASSUME TypeOK, TypeOK', QueueInvariant, OutboxTypeOK, DispatchInvariant,
           NEW w \in Workers, CallbackStep(w)
    PROVE  AnnouncedIsUnderway'
<1>0. PICK d \in Docs : d = loop[w].doc
  BY LoopTyped
<1>1. /\ loop[w] \in Loop /\ CallbacksMatch /\ OutboxRows
      /\ \A q \in Docs : Announced(q) => Underway(q)
      /\ loop[w].stage # Idle => NotAhead(d, loop[w].version)
  BY <1>0, LoopTyped DEF DispatchInvariant, AnnouncedIsUnderway, MessagesNotAhead
<1>2. RowsKeepOutbox /\ UNCHANGED sender
  BY CallbackKeepsOutbox
  DEF DispatchInvariant, CallbackStep, Consume, Deliver, ReadSnapshot,
      ClaimAndWork, ClaimExhausted, ClaimRefused, DeadLetter, Ack, EndWork,
      WorkSucceeds, WorkFails, WorkLosesLease, LeaveClaim, WorkerBeats,
      CallbackRaises, NackRequeue, ChannelLost, WorkerCrash, outboxVars
<1>3. ASSUME \A q \in Docs : /\ Announced(q) /\ Announced(q)' /\ Underway(q)
                             /\ doc'[q].version = doc[q].version
                             => Underway(q)'
      PROVE  AnnouncedIsUnderway'
  <2>1. ASSUME NEW q \in Docs, Announced(q)' PROVE Underway(q)'
    <3>1. Announced(q) /\ doc'[q].version = doc[q].version
      BY <1>2, <2>1, NothingAnnounced
    <3> QED
      BY <1>1, <1>3, <2>1, <3>1
  <2> QED
    BY <2>1 DEF AnnouncedIsUnderway
<1>4. ASSUME NEW q \in Docs, Underway(q), doc'[q].version = doc[q].version,
             NEW l, loop' = [loop EXCEPT ![w] = l],
             dead \subseteq dead',
             LET v == doc[q].version IN
             /\ v \in Versions /\ wire[q][v] > 0 => wire'[q][v] > 0 \/ Carries(w, q)'
             /\ Carries(w, q) => \/ v \in Versions /\ wire'[q][v] > 0
                                 \/ <<q, v, "FAILED">> \in dead'
                                 \/ Carries(w, q)'
      PROVE  Underway(q)'
  BY <1>4, UnderwayStays DEF OutboxTypeOK
\* The callback moves on to a stage that carries its message as before.
<1>5. ASSUME NEW q \in Docs, Underway(q), doc'[q].version = doc[q].version,
             NEW stage \in {"READ", "CLAIM", "WORK", "REFUSED", "FAILED", "ACK"},
             GoTo(w, stage), UNCHANGED <<wire, dead>>,
             Carries(w, q) => stage \in {"READ", "CLAIM", "WORK", "FAILED"}
      PROVE  Underway(q)'
  <2> DEFINE l == [loop[w] EXCEPT !.stage = stage]
  <2>1. /\ l.stage = stage /\ l.doc = loop[w].doc /\ l.version = loop[w].version
        /\ l.tagged = loop[w].tagged
    BY <1>1 DEF Loop
  <2>2. loop' = [loop EXCEPT ![w] = l]
    BY <1>5 DEF GoTo
  <2> HIDE DEF l
  <2>3. loop'[w] = l
    BY <2>2 DEF OutboxTypeOK
  <2>4. Carries(w, q) => Carries(w, q)'
    BY <1>5, <2>1, <2>3 DEF Carries, InFlight
  <2> QED
    BY <1>4, <1>5, <2>2, <2>4
<1>6. ASSUME NEW stage \in {"READ", "CLAIM", "WORK", "REFUSED", "FAILED", "ACK"},
             GoTo(w, stage), UNCHANGED <<wire, dead>>,
             \/ stage \in {"READ", "CLAIM", "WORK", "FAILED"}
             \/ ~Unsettled(d)'
             \/ loop[w].version # doc[d].version
      PROVE  AnnouncedIsUnderway'
  <2>1. ASSUME NEW q \in Docs, Announced(q)', Carries(w, q)
        PROVE  stage \in {"READ", "CLAIM", "WORK", "FAILED"}
    BY <1>0, <1>6, <2>1 DEF Announced, Carries, InFlight
  <2> QED
    BY <1>3, <1>5, <1>6, <2>1
<1>7. ASSUME NEW q \in Docs, NEW v \in Versions, Deliver(w, q, v)
      PROVE  AnnouncedIsUnderway'
  <2> DEFINE l == [stage |-> "READ", doc |-> q, version |-> v, tagged |-> TRUE]
  <2>1. /\ loop' = [loop EXCEPT ![w] = l] /\ loop[w].stage = Idle
        /\ wire' = [wire EXCEPT ![q][v] = @ - 1] /\ UNCHANGED <<doc, dead>>
    BY <1>7 DEF Deliver, queueVars
  <2>2. /\ l.stage = "READ" /\ l.doc = q /\ l.version = v /\ l.tagged = TRUE
        /\ loop'[w] = l
    BY <2>1 DEF OutboxTypeOK
  <2> HIDE DEF l
  <2>3. ASSUME NEW e \in Docs, Underway(e) PROVE Underway(e)'
    <3>1. ~Carries(w, e)
      BY <2>1 DEF Carries, Idle
    <3>2. CASE e = q /\ doc[e].version = v
      <4>1. Carries(w, e)'
        BY <2>1, <2>2, <3>2 DEF Carries, InFlight
      <4> QED
        BY <4>1 DEF Underway
    <3>3. CASE ~(e = q /\ doc[e].version = v)
      <4>1. doc[e].version \in Versions
               => wire'[e][doc[e].version] = wire[e][doc[e].version]
        BY <2>1, <3>3 DEF OutboxTypeOK
      <4> QED
        BY <1>4, <2>1, <2>3, <3>1, <4>1
    <3> QED
      BY <3>2, <3>3
  <2> QED
    BY <1>3, <2>3
<1>8. CASE ReadSnapshot(w)
  <2> DEFINE r == doc[d]
  <2>1. /\ UNCHANGED <<doc, wire, dead>>
        /\ GoTo(w, IF r.status = "DELETED" THEN "ACK"
                   ELSE IF r.version # loop[w].version THEN "REFUSED"
                   ELSE IF r.status \in {"READY", "FAILED"} THEN "ACK"
                   ELSE "CLAIM")
    BY <1>0, <1>8 DEF ReadSnapshot, queueVars, brokerVars
  <2>2. CASE r.status \in {"DELETED", "READY", "FAILED"}
    <3>1. ~Unsettled(d)'
      BY <2>1, <2>2 DEF Unsettled
    <3>2. \E stage \in {"ACK", "REFUSED"} : GoTo(w, stage)
      BY <2>1, <2>2
    <3> QED
      BY <1>6, <2>1, <3>1, <3>2
  <2>3. CASE r.status \notin {"DELETED", "READY", "FAILED"} /\ r.version # loop[w].version
    BY <1>6, <2>1, <2>3
  <2>4. CASE r.status \notin {"DELETED", "READY", "FAILED"} /\ r.version = loop[w].version
    BY <1>6, <2>1, <2>4
  <2> QED
    BY <2>2, <2>3, <2>4
<1>9. CASE ClaimAndWork(w) \/ ClaimExhausted(w) \/ ClaimRefused(w)
  <2>1. \E stage \in {"READ", "WORK"} : GoTo(w, stage) /\ UNCHANGED <<wire, dead>>
    BY <1>9 DEF ClaimAndWork, ClaimExhausted, ClaimRefused, brokerVars
  <2> QED
    BY <1>6, <2>1
<1>10. CASE EndWork(w)
  <2>1. UNCHANGED <<wire, dead>>
    BY <1>10 DEF EndWork, WorkSucceeds, WorkFails, WorkLosesLease, LeaveClaim,
                 brokerVars
  <2>2. Owns(w) => /\ held[w].doc = d /\ doc[d] \in Row
                   /\ held[w].attempt \in Nat
    BY <1>0, <1>1, HeldTyped DEF Owns, CallbacksMatch
  <2>3. CASE WorkSucceeds(w)
    <3>1. SetRow(d, MarkReady(doc[d], held[w].lease, held[w].version))
      BY <2>2, <2>3 DEF WorkSucceeds, Finish
    <3>2. doc'[d].status = "READY"
      BY <2>2, <2>3, <3>1, SetRowOne, ParsingKeepsOutbox, HeldTyped
      DEF WorkSucceeds, Finish, Owns
    <3>3. \E stage \in {"FAILED", "ACK"} : GoTo(w, stage)
      BY <2>3 DEF WorkSucceeds, LeaveClaim
    <3> QED
      BY <1>6, <2>1, <3>2, <3>3 DEF Unsettled
  <2>4. ASSUME NEW b \in BOOLEAN, WorkFails(w, b) PROVE AnnouncedIsUnderway'
    <3>1. CASE GoTo(w, "READ") \/ GoTo(w, "FAILED")
      BY <1>6, <2>1, <3>1
    <3>2. CASE ~ShouldRetry(held[w].attempt, b) /\ GoTo(w, "ACK")
      <4>1. doc'[d] = FailOrRetry(doc[d], held[w].attempt, b)
        BY <2>2, <2>4, SetRowOne DEF WorkFails, Fail
      <4>2. Owns(w)
        BY <2>4 DEF WorkFails, Fail
      <4>3. FailOrRetry(doc[d], held[w].attempt, b).status = "FAILED"
        BY <2>2, <3>2, <4>2 DEF FailOrRetry, Row
      <4> QED
        BY <1>6, <2>1, <3>2, <4>1, <4>3 DEF Unsettled
    <3> QED
      BY <2>4, <3>1, <3>2 DEF WorkFails, LeaveClaim
  <2>5. CASE WorkLosesLease(w)
    BY <1>6, <2>1, <2>5 DEF WorkLosesLease, LeaveClaim
  <2> QED
    BY <1>10, <2>3, <2>4, <2>5 DEF EndWork
<1>11. CASE WorkerBeats(w)
  <2>1. UNCHANGED <<wire, dead, loop>>
    BY <1>11 DEF WorkerBeats, brokerVars
  <2> QED
    BY <1>3, <2>1, UnderwayGrows
<1>12. CASE CallbackRaises(w)
  BY <1>6, <1>12 DEF CallbackRaises, brokerVars
<1>13. CASE DeadLetter(w)
  <2> DEFINE l == [loop[w] EXCEPT !.stage = "ACK"]
  <2>1. /\ UNCHANGED wire /\ loop' = [loop EXCEPT ![w] = l]
        /\ dead' = dead \cup {<<d, loop[w].version, loop[w].stage>>}
        /\ loop[w].stage \in {"REFUSED", "FAILED"}
    BY <1>0, <1>13 DEF DeadLetter, GoTo, Raised
  <2> HIDE DEF l
  <2>2. ASSUME NEW q \in Docs, Underway(q), doc'[q].version = doc[q].version
        PROVE  Underway(q)'
    <3>1. Carries(w, q) => <<q, doc[q].version, "FAILED">> \in dead'
      BY <1>0, <2>1 DEF Carries, InFlight
    <3> QED
      BY <1>4, <2>1, <2>2, <3>1
  <2> QED
    BY <1>3, <2>2
\* The callback drops out; the broker has its message again.
<1>14. ASSUME ReturnMessage(w), NEW l, loop' = [loop EXCEPT ![w] = l],
              loop[w].stage # Idle, UNCHANGED dead
       PROVE  AnnouncedIsUnderway'
  <2>1. loop[w].version \in Versions
    BY <1>1, <1>14 DEF NotAhead
  <2>2. /\ loop[w].tagged => wire'[d][loop[w].version] > 0
        /\ \A e \in Docs, u \in Versions : wire[e][u] > 0 => wire'[e][u] > 0
    BY <1>0, <1>14, <2>1, PutAdds DEF ReturnMessage
  <2>3. ASSUME NEW q \in Docs, Underway(q), doc'[q].version = doc[q].version
        PROVE  Underway(q)'
    <3>1. Carries(w, q) => /\ doc[q].version \in Versions
                           /\ wire'[q][doc[q].version] > 0
      BY <1>0, <2>1, <2>2 DEF Carries, InFlight
    <3> QED
      BY <1>4, <1>14, <2>2, <2>3, <3>1
  <2> QED
    BY <1>3, <2>3
<1>15. CASE NackRequeue(w) \/ WorkerCrash(w)
  BY <1>14, <1>15 DEF NackRequeue, WorkerCrash, Raised, outboxVars, Idle
<1>16. CASE ChannelLost(w)
  <2>1. loop[w].stage # Idle
    BY <1>1, <1>16 DEF ChannelLost, CallbacksMatch
  <2> QED
    BY <1>14, <1>16, <2>1 DEF ChannelLost
<1>17. CASE Ack(w)
  <2>1. /\ UNCHANGED <<wire, dead>> /\ loop[w].stage = "ACK"
        /\ loop' = [loop EXCEPT ![w] = IdleLoop]
    BY <1>17 DEF Ack, brokerVars
  <2>2. \A q \in Docs : ~Carries(w, q)
    BY <2>1 DEF Carries
  <2>3. ASSUME NEW q \in Docs, Underway(q), doc'[q].version = doc[q].version
        PROVE  Underway(q)'
    BY <1>4, <2>1, <2>2, <2>3
  <2> QED
    BY <1>3, <2>3
<1> QED
  BY <1>7, <1>8, <1>9, <1>10, <1>11, <1>12, <1>13, <1>15, <1>16, <1>17
  DEF CallbackStep, Consume

LEMMA DispatchInvariantStep ==
    ASSUME TypeOK, TypeOK', QueueInvariant, OutboxTypeOK, OutboxTypeOK',
           DispatchInvariant, [Next]_vars
    PROVE  DispatchInvariant'
<1>1. CASE UNCHANGED vars
  BY <1>1
  DEF vars, queueVars, outboxVars, brokerVars, DispatchInvariant, OutboxRows,
      MessagesNotAhead, RefusedOutdated, CallbacksMatch, TicketsDistinct,
      AnnouncedIsUnderway, NotAhead, Outdated, Working, Announced, Unsettled,
      StillHoldsTicket, Underway, Carries, InFlight
<1>2. CASE Next
  <2>1. RowsMoveOn
    BY <1>2, NextSteps, RowStepKeepsOutbox, DispatcherMoves, CallbackKeepsOutbox
    DEF DispatchInvariant, RowsKeepOutbox
  <2>2. OutboxRows'
    BY <2>1 DEF RowsMoveOn, OutboxRows
  <2>3. MessagesNotAhead' /\ RefusedOutdated'
    BY <1>2, MessagesStep
  <2>4. CallbacksMatch' /\ TicketsDistinct'
    BY <1>2, CallbacksMatchStep, TicketsStep DEF DispatchInvariant
  <2>5. AnnouncedIsUnderway'
    BY <1>2, NextSteps, RowStepKeepsMessages, DispatcherKeepsMessages,
       CallbackKeepsMessages
  <2> QED
    BY <2>2, <2>3, <2>4, <2>5 DEF DispatchInvariant
<1> QED
  BY <1>1, <1>2

\* Whatever the documents, workers, dispatchers and bounds, a message that was
\* sent for a pending document stays underway until the document is settled,
\* and no message, ticket or claim gets ahead of its row.
THEOREM DispatchInvariantHolds == Spec => []DispatchInvariant
<1>1. Init => DispatchInvariant
  BY DispatchInitInvariant
<1>2. /\ TypeOK /\ OutboxTypeOK /\ QueueInvariant /\ DispatchInvariant /\ [Next]_vars
      /\ (TypeOK /\ OutboxTypeOK /\ QueueInvariant)'
      => DispatchInvariant'
  BY DispatchInvariantStep
<1> QED
  BY <1>1, <1>2, DispatchTypeCorrect, PTL DEF Spec

-----------------------------------------------------------------------------
(* What follows *)

LEMMA NobodyIsStranded ==
    ASSUME TypeOK, OutboxTypeOK, DispatchInvariant
    PROVE  NoStrandedDocument
<1> SUFFICES ASSUME NEW d \in Docs, Unsettled(d), doc[d].dispatch = "PUBLISHED"
             PROVE  Carried(d) \/ DeadLettered(d)
  <2>1. \A d \in Docs : Unsettled(d) =>
           doc[d].dispatch \in {"PENDING", "DISPATCHING", "PUBLISHED"}
    BY DEF TypeOK, Row, DispatchStatus, DispatchInvariant, OutboxRows, OutboxRow,
           Pending, Unsettled
  <2> QED
    BY <2>1 DEF NoStrandedDocument, Carried
<1>1. Underway(d)
  BY DEF DispatchInvariant, AnnouncedIsUnderway, Announced
<1> QED
  BY <1>1 DEF Underway, Carries, Carried, DeadLettered

\* No interleaving of publishes, confirms, duplicate deliveries, crashes,
\* retries and reparses leaves a queued or processing document to nobody.
THEOREM NoStrandedDocumentHolds == Spec => []NoStrandedDocument
  BY NobodyIsStranded, DispatchTypeCorrect, DispatchInvariantHolds, PTL

LEMMA OneTicketHolder == DispatchInvariant => SingleTicketHolder
  BY DEF DispatchInvariant, TicketsDistinct, SingleTicketHolder, StillHoldsTicket,
         HoldsTicket

\* However often a publish stalls, fails or is taken over, one dispatcher at
\* most can still move the outbox of a document.
THEOREM SingleTicketHolderHolds == Spec => []SingleTicketHolder
  BY OneTicketHolder, DispatchInvariantHolds, PTL

LEMMA CurrentNeverRefused ==
    ASSUME TypeOK, DispatchInvariant
    PROVE  OnlyOutdatedDeadLettered
<1> SUFFICES ASSUME NEW d \in Docs, <<d, doc[d].version, "REFUSED">> \in dead
             PROVE  FALSE
  BY DEF OnlyOutdatedDeadLettered
<1>1. doc[d].version \in Nat /\ OutboxRow(doc[d], resets[d])
  BY DEF TypeOK, Row, DispatchInvariant, OutboxRows
<1>2. Outdated(d, doc[d].version)
  BY <1>1 DEF DispatchInvariant, RefusedOutdated
<1>3. doc[d].version # 0
  BY <1>2, BoundsAssumption DEF Outdated, Versions
<1> QED
  BY <1>1, <1>2, <1>3 DEF Outdated, OutboxRow, Uploaded

\* Only messages their row has left behind are ever refused.
THEOREM OnlyOutdatedDeadLetteredHolds == Spec => []OnlyOutdatedDeadLettered
  BY CurrentNeverRefused, DispatchTypeCorrect, DispatchInvariantHolds, PTL

\* Under outbox and broker, too, one worker at a time passes the lease fence.
THEOREM SingleOwnerUnderDispatch == Spec => []SingleOwner
<1>1. TypeOK /\ QueueInvariant => SingleOwner
  BY OneOwner
<1> QED
  BY <1>1, DispatchTypeCorrect, PTL

\* A lost lease stays lost, however the messages of its document travel.
THEOREM LostLeasesStayLostUnderDispatch == Spec => LostLeaseStaysLost
<1>1. /\ TypeOK /\ OutboxTypeOK /\ QueueInvariant /\ [Next]_vars
      => [LostForever]_queueVars
  BY QueueFactsStep
<1> QED
  BY <1>1, DispatchTypeCorrect, PTL DEF Spec, LostLeaseStaysLost

===============================================================================
