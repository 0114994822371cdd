------------------------- MODULE DocumentQueueProofs -------------------------
(***************************************************************************)
(* Proofs about DocumentQueue: for any documents, workers and bounds, the  *)
(* lease protocol keeps its types, its inductive invariant and the safety  *)
(* properties that follow, and implements DocumentLifecycle.               *)
(***************************************************************************)
EXTENDS DocumentQueue, TLAPS

-----------------------------------------------------------------------------
(* What the row operations return. *)

\* Any row an operation returns is a row.
LEMMA RowOperationsTyped ==
    /\ \A r \in Row : /\ MarkDispatchPending(r) \in Row
                      /\ MarkDispatchIdle(r) \in Row
                      /\ ExhaustAttempts(r) \in Row
                      /\ RenewLease(r) \in Row
    /\ \A b \in BOOLEAN : InsertedRow(b) \in Row
    /\ \A r \in Row, b \in BOOLEAN : ResetForQueue(r, b) \in Row
    /\ \A r \in Row, t \in Nat : TakeLease(r, t) \in Row
    /\ \A r \in Row, n \in Nat, b \in BOOLEAN : FailOrRetry(r, n, b) \in Row
    /\ \A r \in Row, t, v \in Nat : MarkReady(r, t, v) \in Row
    /\ NoRow \in Row /\ DeletedRow \in Row
<1> USE DEF Row
<1>a. /\ {"ABSENT", "DELETED", "QUEUED", "PENDING_REVIEW", "PROCESSING", "READY",
           "FAILED"} \subseteq Status
      /\ {"IDLE", "PENDING"} \subseteq DispatchStatus
      /\ {"NONE", "RETRYABLE", "TERMINAL", "MAX_ATTEMPTS_EXCEEDED"}
             \subseteq ErrorCode
      /\ NoToken \in Nat
  BY DEF Status, DispatchStatus, ErrorCode, NoToken
<1>1. NoRow \in Row /\ DeletedRow \in Row
  BY <1>a DEF NoRow, DeletedRow
<1>2. \A r \in Row : MarkDispatchPending(r) \in Row /\ MarkDispatchIdle(r) \in Row
  <2> SUFFICES ASSUME NEW r \in Row
               PROVE  MarkDispatchPending(r) \in Row /\ MarkDispatchIdle(r) \in Row
    OBVIOUS
  <2>1. MarkDispatchPending(r) \in Row
    BY <1>a DEF MarkDispatchPending
  <2>2. MarkDispatchIdle(r) \in Row
    BY <1>a DEF MarkDispatchIdle
  <2> QED
    BY <2>1, <2>2
<1>3. \A r \in Row : ExhaustAttempts(r) \in Row /\ RenewLease(r) \in Row
  <2> SUFFICES ASSUME NEW r \in Row
               PROVE  ExhaustAttempts(r) \in Row /\ RenewLease(r) \in Row
    OBVIOUS
  <2>1. ExhaustAttempts(r) \in Row
    BY <1>a DEF ExhaustAttempts
  <2>2. RenewLease(r) \in Row
    BY <1>a DEF RenewLease
  <2> QED
    BY <2>1, <2>2
<1>4. \A b \in BOOLEAN : InsertedRow(b) \in Row
  <2> SUFFICES ASSUME NEW b \in BOOLEAN
               PROVE  InsertedRow(b) \in Row
    OBVIOUS
  <2>1. CASE b
    BY <2>1, <1>1, <1>a DEF InsertedRow
  <2>2. CASE ~b
    <3> DEFINE row == [NoRow EXCEPT !.version = 1, !.status = "QUEUED"]
    <3>1. row \in Row
      BY <1>1, <1>a
    <3>2. InsertedRow(b) = MarkDispatchPending(row)
      BY <2>2 DEF InsertedRow
    <3> QED
      BY <3>1, <3>2, <1>2
  <2> QED
    BY <2>1, <2>2
<1>5. \A r \in Row, b \in BOOLEAN : ResetForQueue(r, b) \in Row
  <2> SUFFICES ASSUME NEW r \in Row, NEW b \in BOOLEAN
               PROVE  ResetForQueue(r, b) \in Row
    OBVIOUS
  <2> DEFINE v == IF b THEN r.version + 1 ELSE r.version
             reset == [r EXCEPT !.status = "QUEUED", !.attempts = 0,
                         !.due = TRUE, !.lease = NoToken, !.live = FALSE,
                         !.error = "NONE", !.version = v,
                         !.reparse = b \/ r.reparse]
  <2>1. v \in Nat /\ (b \/ r.reparse) \in BOOLEAN
    OBVIOUS
  <2>2. reset \in Row
    <3> HIDE DEF v
    <3> QED BY <2>1, <1>a
  <2>3. ResetForQueue(r, b) = MarkDispatchPending(reset)
    BY DEF ResetForQueue
  <2> HIDE DEF reset
  <2> QED
    BY <2>2, <2>3, <1>2
<1>6. \A r \in Row, t \in Nat : TakeLease(r, t) \in Row
  <2> SUFFICES ASSUME NEW r \in Row, NEW t \in Nat
               PROVE  TakeLease(r, t) \in Row
    OBVIOUS
  <2>1. r.attempts + 1 \in Nat
    OBVIOUS
  <2> QED
    BY <2>1, <1>a DEF TakeLease
<1>7. \A r \in Row, n \in Nat, b \in BOOLEAN : FailOrRetry(r, n, b) \in Row
  <2> SUFFICES ASSUME NEW r \in Row, NEW n \in Nat, NEW b \in BOOLEAN
               PROVE  FailOrRetry(r, n, b) \in Row
    OBVIOUS
  <2>1. CASE ShouldRetry(n, b)
    BY <2>1, <1>a DEF FailOrRetry
  <2>2. CASE ~ShouldRetry(n, b)
    BY <2>2, <1>a DEF FailOrRetry
  <2> QED
    BY <2>1, <2>2
<1>8. \A r \in Row, t, v \in Nat : MarkReady(r, t, v) \in Row
  <2> SUFFICES ASSUME NEW r \in Row, NEW t \in Nat, NEW v \in Nat
               PROVE  MarkReady(r, t, v) \in Row
    OBVIOUS
  <2> QED
    BY <1>a DEF MarkReady
<1> QED
  BY <1>1, <1>2, <1>3, <1>4, <1>5, <1>6, <1>7, <1>8

\* The fields of the row a reset leaves that the parse protocol looks at.
LEMMA ResetFields ==
    ASSUME NEW r \in Row, NEW b \in BOOLEAN
    PROVE  LET s == ResetForQueue(r, b) IN
           /\ s.status = "QUEUED" /\ s.lease = NoToken /\ s.live = FALSE
           /\ s.attempts = 0 /\ s.error = "NONE"
           /\ s.version = IF b THEN r.version + 1 ELSE r.version
           /\ b \/ r.reparse => s.reparse
           /\ s.parsed = r.parsed /\ s.chunks = r.chunks
  BY DEF ResetForQueue, MarkDispatchPending, Row

LEMMA InsertFields ==
    ASSUME NEW b \in BOOLEAN
    PROVE  LET s == InsertedRow(b) IN
           /\ s.status \in {"QUEUED", "PENDING_REVIEW"}
           /\ s.lease = NoToken /\ s.live = FALSE
           /\ s.attempts = 0 /\ s.error = "NONE" /\ s.version = 1
           /\ s.parsed = NoToken /\ s.chunks = 0
  BY DEF InsertedRow, MarkDispatchPending, NoRow

LEMMA DeletedFields ==
    /\ DeletedRow.status = "DELETED" /\ DeletedRow.lease = NoToken
    /\ DeletedRow.live = FALSE /\ DeletedRow.attempts = 0
    /\ DeletedRow.error = "NONE" /\ DeletedRow.version = 0
    /\ DeletedRow.chunks = 0
  BY DEF DeletedRow, NoRow

LEMMA ExhaustFields ==
    ASSUME NEW r \in Row
    PROVE  LET s == ExhaustAttempts(r) IN
           /\ s.status = "FAILED" /\ s.lease = NoToken /\ s.live = FALSE
           /\ s.attempts = r.attempts
           /\ s.version = r.version /\ s.reparse = r.reparse
           /\ s.parsed = r.parsed /\ s.chunks = r.chunks
  BY DEF ExhaustAttempts, Row

-----------------------------------------------------------------------------
(* Types *)

LEMMA InitTyped == QueueInit => TypeOK
  BY RowOperationsTyped DEF QueueInit, TypeOK

\* Replacing one row by a row keeps the table typed.
LEMMA SetRowTyped ==
    ASSUME doc \in [Docs -> Row], NEW d \in Docs, NEW r \in Row, SetRow(d, r)
    PROVE  doc' \in [Docs -> Row]
  BY DEF SetRow

LEMMA HeldTyped ==
    ASSUME TypeOK, NEW w \in Workers, Working(w)
    PROVE  /\ held[w] \in Claim /\ held[w].doc \in Docs
           /\ held[w].lease \in Nat /\ held[w].attempt \in Nat
           /\ held[w].version \in Nat /\ held[w].replace \in BOOLEAN
           /\ doc[held[w].doc] \in Row
  BY DEF TypeOK, Working, Claim

LEMMA RequestTyped ==
    ASSUME TypeOK, NEW d \in Docs, Request(d)
    PROVE  TypeOK'
<1> USE DEF TypeOK
<1>1. doc[d] \in Row
  OBVIOUS
<1>2. CASE Upload(d, TRUE) \/ Upload(d, FALSE)
  BY <1>2, SetRowTyped, RowOperationsTyped DEF Upload
<1>3. CASE Approve(d)
  BY <1>1, <1>3, SetRowTyped, RowOperationsTyped DEF Approve
<1>4. CASE Reject(d)
  <2>1. [doc[d] EXCEPT !.status = "REJECTED"] \in Row
    BY <1>1 DEF Row, Status
  <2> QED
    BY <2>1, <1>4, SetRowTyped, RowOperationsTyped DEF Reject
<1>5. ASSUME CountReset(d), NEW b \in BOOLEAN,
             SetRow(d, ResetForQueue(doc[d], b)), UNCHANGED <<issued, held, faults>>
      PROVE  TypeOK'
  <2>1. resets' \in [Docs -> Nat]
    BY <1>5 DEF CountReset
  <2>2. doc' \in [Docs -> Row]
    BY <1>1, <1>5, SetRowTyped, RowOperationsTyped
  <2> QED
    BY <1>5, <2>1, <2>2
<1>6. CASE Retry(d) \/ Reparse(d)
  BY <1>5, <1>6 DEF Retry, Reparse
<1>7. CASE Delete(d)
  BY <1>7, SetRowTyped, RowOperationsTyped DEF Delete
<1> QED
  BY <1>2, <1>3, <1>4, <1>6, <1>7 DEF Request

LEMMA WorkerTyped ==
    ASSUME TypeOK, NEW w \in Workers, WorkerStep(w)
    PROVE  TypeOK'
<1>1. ASSUME NEW d \in Docs, Exhaust(w, d) PROVE TypeOK'
  BY <1>1, SetRowTyped, RowOperationsTyped DEF Exhaust, TypeOK
<1>2. ASSUME NEW d \in Docs, Grant(w, d) PROVE TypeOK'
  <2> DEFINE c == [doc |-> d, lease |-> issued[d] + 1,
                   attempt |-> doc[d].attempts + 1, replace |-> doc[d].reparse,
                   version |-> doc[d].version, pulse |-> "BEATING"]
  <2>1. doc[d] \in Row /\ issued[d] + 1 \in Nat
    BY DEF TypeOK
  <2>2. c \in Claim
    BY <2>1 DEF Claim, Pulse, Row
  <2>3. doc' \in [Docs -> Row]
    BY <1>2, <2>1, SetRowTyped, RowOperationsTyped DEF Grant, TypeOK
  <2>4. held' = [held EXCEPT ![w] = c] /\ issued' = [issued EXCEPT ![d] = @ + 1]
    BY <1>2 DEF Grant
  <2> QED
    BY <1>2, <2>1, <2>2, <2>3, <2>4 DEF Grant, TypeOK
<1>3. CASE Heartbeat(w)
  <2>1. held[w] \in Claim /\ doc[held[w].doc] \in Row /\ held[w].doc \in Docs
    BY <1>3, HeldTyped DEF Heartbeat
  <2>2. [held[w] EXCEPT !.pulse = "STOPPED"] \in Claim
    BY <2>1 DEF Claim, Pulse
  <2> QED
    BY <1>3, <2>1, <2>2, SetRowTyped, RowOperationsTyped DEF Heartbeat, TypeOK
<1>4. CASE HeartbeatCrash(w)
  <2>1. [held[w] EXCEPT !.pulse = "CRASHED"] \in Claim
    BY <1>4, HeldTyped DEF HeartbeatCrash, Claim, Pulse
  <2> QED
    BY <1>4, <2>1 DEF HeartbeatCrash, Fault, TypeOK
<1>5. CASE Finish(w)
  <2>1. /\ held[w].lease \in Nat /\ held[w].version \in Nat
        /\ doc[held[w].doc] \in Row /\ held[w].doc \in Docs
    BY <1>5, HeldTyped DEF Finish, Owns
  <2> QED
    BY <1>5, <2>1, SetRowTyped, RowOperationsTyped DEF Finish, Release, TypeOK
<1>6. ASSUME NEW b \in BOOLEAN, Fail(w, b) PROVE TypeOK'
  <2>1. /\ held[w].attempt \in Nat
        /\ doc[held[w].doc] \in Row /\ held[w].doc \in Docs
    BY <1>6, HeldTyped DEF Fail, Owns
  <2> QED
    BY <1>6, <2>1, SetRowTyped, RowOperationsTyped DEF Fail, Release, TypeOK
<1>7. CASE GiveUpLostLease(w)
  BY <1>7 DEF GiveUpLostLease, Release, TypeOK
<1>8. CASE Crash(w)
  BY <1>8 DEF Crash, Fault, Release, TypeOK
<1> QED
  BY <1>1, <1>2, <1>3, <1>4, <1>5, <1>6, <1>7, <1>8 DEF WorkerStep

LEMMA TimeTyped ==
    ASSUME TypeOK, NEW d \in Docs, LeaseLapse(d) \/ RetryDue(d)
    PROVE  TypeOK'
<1>1. /\ [doc[d] EXCEPT !.live = FALSE] \in Row
      /\ [doc[d] EXCEPT !.due = TRUE] \in Row
  <2>1. doc[d] \in Row
    BY DEF TypeOK
  <2> QED
    BY <2>1 DEF Row
<1>2. doc' \in [Docs -> Row]
  BY <1>1 DEF LeaseLapse, RetryDue, TypeOK
<1>3. faults' \in Nat
  BY DEF LeaseLapse, RetryDue, Fault, TypeOK
<1> QED
  BY <1>2, <1>3 DEF LeaseLapse, RetryDue, TypeOK

\* Every step keeps the types.
LEMMA TypeStep == TypeOK /\ [QueueNext]_queueVars => TypeOK'
<1> SUFFICES ASSUME TypeOK, [QueueNext]_queueVars
             PROVE  TypeOK'
  OBVIOUS
<1>1. CASE UNCHANGED queueVars
  BY <1>1 DEF queueVars, TypeOK
<1>2. CASE QueueNext
  BY <1>2, RequestTyped, WorkerTyped, TimeTyped DEF QueueNext
<1> QED
  BY <1>1, <1>2

\* Whatever the documents, workers and bounds, rows, claims and counters stay
\* well-formed.
THEOREM TypeCorrect == QueueSpec => []TypeOK
<1>1. QueueInit => TypeOK
  BY InitTyped
<1>2. TypeOK /\ [QueueNext]_queueVars => TypeOK'
  BY TypeStep
<1> QED
  BY <1>1, <1>2, PTL DEF QueueSpec

-----------------------------------------------------------------------------
(* The inductive invariant.  A step either settles one row (it ends with no  *)
(* lease on it), grants a lease, or changes nothing but timestamps and       *)
(* heartbeats; one lemma for each.                                           *)

\* Every claim that survives the step is the one the worker had.
ClaimsKept ==
    \A w \in Workers :
        \/ held'[w] = NoClaim
        \/ /\ Working(w)
           /\ held'[w].doc = held[w].doc /\ held'[w].lease = held[w].lease
           /\ held'[w].attempt = held[w].attempt
           /\ held'[w].version = held[w].version
           /\ held'[w].replace = held[w].replace

\* What a row without a lease has to satisfy.
SettledRow(d, r) ==
    /\ r.status \notin {"PROCESSING", "ABSENT"}
    /\ r.lease = NoToken /\ ~r.live
    /\ r.attempts <= MaxAttempts
    /\ r.status = "QUEUED" => r.attempts < MaxAttempts
    /\ r.chunks # 0 /\ r.status # "READY" => r.reparse
    /\ r.status = "READY" => r.parsed = issued[d] /\ r.chunks = r.version
    /\ r.status = "FAILED" /\ r.error \in {"RETRYABLE", "MAX_ATTEMPTS_EXCEEDED"}
          => r.attempts = MaxAttempts

LEMMA InitInvariant == QueueInit => QueueInvariant
  BY MaxAttemptsAssumption
  DEF QueueInit, QueueInvariant, RowLease, ClaimFresh, DistinctTokens,
      AttemptsBounded, ChunksNeedReparse, AbsentIsEmpty,
      ReadyServesLatestAttempt,
      NotGivenUpEarly, Working, NoRow, NoToken

\* Surviving claims still carry distinct tokens.
LEMMA TokensStayDistinct ==
    ASSUME QueueInvariant, ClaimsKept
    PROVE  DistinctTokens'
  BY DEF QueueInvariant, DistinctTokens, ClaimsKept, Working

LEMMA SettleStep ==
    ASSUME TypeOK, QueueInvariant, NEW d \in Docs, NEW r \in Row,
           SetRow(d, r), SettledRow(d, r), ClaimsKept, UNCHANGED issued
    PROVE  QueueInvariant'
<1>1. doc'[d] = r /\ \A e \in Docs : e # d => doc'[e] = doc[e]
  BY DEF SetRow, TypeOK
<1>2. \A e \in Docs : RowLease(e)'
  BY <1>1 DEF SettledRow, RowLease, QueueInvariant
<1>3. ASSUME NEW w \in Workers PROVE ClaimFresh(w)'
  <2> SUFFICES ASSUME Working(w)'
               PROVE  ClaimFresh(w)'
    BY DEF ClaimFresh
  <2>1. /\ Working(w) /\ ClaimFresh(w) /\ held[w].doc \in Docs
        /\ held'[w].doc = held[w].doc /\ held'[w].lease = held[w].lease
        /\ held'[w].attempt = held[w].attempt
        /\ held'[w].version = held[w].version
        /\ held'[w].replace = held[w].replace
    BY HeldTyped DEF ClaimsKept, Working, QueueInvariant
  <2>2. CASE held[w].doc = d
    BY <1>1, <2>1, <2>2 DEF ClaimFresh, SettledRow
  <2>3. CASE held[w].doc # d
    BY <1>1, <2>1, <2>3 DEF ClaimFresh
  <2> QED
    BY <2>2, <2>3
<1>4. DistinctTokens'
  BY TokensStayDistinct
<1>5. AttemptsBounded' /\ ChunksNeedReparse' /\ AbsentIsEmpty'
  BY <1>1 DEF AttemptsBounded, ChunksNeedReparse, AbsentIsEmpty, SettledRow,
              QueueInvariant
<1>6. ReadyServesLatestAttempt' /\ NotGivenUpEarly'
  BY <1>1 DEF ReadyServesLatestAttempt, NotGivenUpEarly, SettledRow,
              QueueInvariant
<1> QED
  BY <1>2, <1>3, <1>4, <1>5, <1>6 DEF QueueInvariant

\* Nothing the invariant speaks of changes, except that a lease may run out
\* and that the lease of a PROCESSING row may be renewed.
Quiet ==
    \A e \in Docs :
        /\ doc'[e].status = doc[e].status /\ doc'[e].lease = doc[e].lease
        /\ doc'[e].attempts = doc[e].attempts /\ doc'[e].error = doc[e].error
        /\ doc'[e].version = doc[e].version /\ doc'[e].reparse = doc[e].reparse
        /\ doc'[e].parsed = doc[e].parsed /\ doc'[e].chunks = doc[e].chunks
        /\ doc'[e].live => doc[e].live \/ doc[e].status = "PROCESSING"

LEMMA QuietStep ==
    ASSUME TypeOK, QueueInvariant, Quiet, ClaimsKept, UNCHANGED issued
    PROVE  QueueInvariant'
<1>1. \A e \in Docs : RowLease(e)'
  BY DEF Quiet, RowLease, QueueInvariant
<1>2. ASSUME NEW w \in Workers PROVE ClaimFresh(w)'
  <2> SUFFICES ASSUME Working(w)'
               PROVE  ClaimFresh(w)'
    BY DEF ClaimFresh
  <2>1. Working(w) /\ ClaimFresh(w) /\ held[w].doc \in Docs
    BY HeldTyped DEF ClaimsKept, Working, QueueInvariant
  <2> QED
    BY <2>1 DEF ClaimFresh, Quiet, ClaimsKept, Working
<1>3. DistinctTokens'
  BY TokensStayDistinct
<1>4. AttemptsBounded' /\ ChunksNeedReparse' /\ AbsentIsEmpty'
  BY DEF AttemptsBounded, ChunksNeedReparse, AbsentIsEmpty, Quiet,
         QueueInvariant
<1>5. ReadyServesLatestAttempt' /\ NotGivenUpEarly'
  BY DEF ReadyServesLatestAttempt, NotGivenUpEarly, Quiet, QueueInvariant
<1> QED
  BY <1>1, <1>2, <1>3, <1>4, <1>5 DEF QueueInvariant

LEMMA RequestInvariant ==
    ASSUME TypeOK, QueueInvariant, NEW d \in Docs, Request(d)
    PROVE  QueueInvariant'
<1>1. doc[d] \in Row
  BY DEF TypeOK
<1>2. /\ RowLease(d) /\ doc[d].attempts <= MaxAttempts
      /\ doc[d].chunks # 0 /\ doc[d].status # "READY" => doc[d].reparse
      /\ 0 <= MaxAttempts /\ 0 < MaxAttempts
  BY MaxAttemptsAssumption
  DEF QueueInvariant, AttemptsBounded, ChunksNeedReparse
<1>3. ASSUME UNCHANGED held PROVE ClaimsKept
  BY <1>3 DEF ClaimsKept, Working
<1>4. ASSUME NEW b \in BOOLEAN, Upload(d, b) PROVE QueueInvariant'
  <2> DEFINE r == InsertedRow(b)
  <2>1. /\ r.status \in {"QUEUED", "PENDING_REVIEW"}
        /\ r.lease = NoToken /\ r.live = FALSE
        /\ r.attempts = 0 /\ r.error = "NONE" /\ r.chunks = 0
    BY InsertFields
  <2>2. r \in Row /\ SetRow(d, r) /\ UNCHANGED <<issued, held>>
    BY <1>4, RowOperationsTyped DEF Upload
  <2> HIDE DEF r
  <2>3. SettledRow(d, r)
    BY <1>2, <2>1 DEF SettledRow
  <2> QED
    BY <1>3, <2>2, <2>3, SettleStep
<1>5. ASSUME NEW b \in BOOLEAN, UNCHANGED <<issued, held>>,
             SetRow(d, ResetForQueue(doc[d], b)),
             doc[d].chunks # 0 => b \/ doc[d].reparse
      PROVE  QueueInvariant'
  <2> DEFINE r == ResetForQueue(doc[d], b)
  <2>1. /\ r.status = "QUEUED" /\ r.lease = NoToken /\ r.live = FALSE
        /\ r.attempts = 0 /\ r.error = "NONE"
        /\ b \/ doc[d].reparse => r.reparse
        /\ r.chunks = doc[d].chunks
    BY <1>1, ResetFields
  <2>2. r \in Row /\ SetRow(d, r)
    BY <1>1, <1>5, RowOperationsTyped
  <2> HIDE DEF r
  <2>3. SettledRow(d, r)
    BY <1>2, <1>5, <2>1 DEF SettledRow
  <2> QED
    BY <1>3, <1>5, <2>2, <2>3, SettleStep
<1>6. CASE Approve(d)
  BY <1>2, <1>5, <1>6 DEF Approve
<1>7. CASE Retry(d)
  BY <1>2, <1>5, <1>7 DEF Retry, ExpiredProcessing
<1>8. CASE Reparse(d)
  BY <1>5, <1>8 DEF Reparse
<1>9. CASE Reject(d)
  <2> DEFINE r == MarkDispatchIdle([doc[d] EXCEPT !.status = "REJECTED"])
  <2>1. r \in Row
    BY <1>1, RowOperationsTyped DEF Row, Status
  <2>2. SettledRow(d, r)
    BY <1>1, <1>2, <1>9
    DEF SettledRow, MarkDispatchIdle, Reject, RowLease, Row
  <2>3. SetRow(d, r)
    BY <1>9 DEF Reject
  <2> HIDE DEF r
  <2> QED
    BY <1>3, <1>9, <2>1, <2>2, <2>3, SettleStep DEF Reject
<1>10. CASE Delete(d)
  <2>1. SettledRow(d, DeletedRow)
    BY <1>2, DeletedFields DEF SettledRow
  <2> QED
    BY <1>3, <1>10, <2>1, SettleStep, RowOperationsTyped DEF Delete
<1> QED
  BY <1>4, <1>6, <1>7, <1>8, <1>9, <1>10 DEF Request

\* A grant draws a token above every token a worker holds for the document.
LEMMA GrantInvariant ==
    ASSUME TypeOK, QueueInvariant, NEW w \in Workers, NEW d \in Docs,
           Grant(w, d)
    PROVE  QueueInvariant'
<1> DEFINE token == issued[d] + 1
           r == TakeLease(doc[d], token)
           c == [doc |-> d, lease |-> token, attempt |-> doc[d].attempts + 1,
                 replace |-> doc[d].reparse, version |-> doc[d].version,
                 pulse |-> "BEATING"]
<1>1. /\ doc[d] \in Row /\ issued[d] \in Nat /\ token \in Nat
      /\ doc[d].attempts \in Nat /\ MaxAttempts \in Nat
      /\ doc[d].attempts + 1 <= MaxAttempts
  BY MaxAttemptsAssumption DEF TypeOK, Row, Grant
<1>2. /\ r.status = "PROCESSING" /\ r.lease = token /\ r.live = TRUE
      /\ r.attempts = doc[d].attempts + 1 /\ r.error = "NONE"
      /\ r.version = doc[d].version /\ r.reparse = doc[d].reparse
      /\ r.parsed = doc[d].parsed /\ r.chunks = doc[d].chunks
  BY <1>1 DEF TakeLease, Row
<1>3. /\ doc'[d] = r /\ issued'[d] = token /\ held'[w] = c
      /\ \A e \in Docs : e # d => doc'[e] = doc[e] /\ issued'[e] = issued[e]
      /\ \A v \in Workers : v # w => held'[v] = held[v]
  BY DEF Grant, SetRow, TypeOK
<1>4. /\ Claimable(doc[d]) /\ doc[d].status # "READY"
      /\ doc[d].chunks # 0 => doc[d].reparse
  BY DEF Grant, Claimable, ExpiredProcessing, QueueInvariant, ChunksNeedReparse
<1>5. ASSUME NEW v \in Workers, v # w, Working(v)'
      PROVE  /\ Working(v) /\ held'[v] = held[v] /\ ClaimFresh(v)
             /\ held[v].doc \in Docs /\ held[v].lease \in Nat
             /\ held[v].lease # NoToken
             /\ held[v].lease <= issued[held[v].doc]
  BY <1>3, <1>5, HeldTyped DEF Working, QueueInvariant, ClaimFresh
<1>6. c.doc = d /\ c.lease = token /\ c.attempt = doc[d].attempts + 1
      /\ c.version = doc[d].version /\ c.replace = doc[d].reparse
  OBVIOUS
<1>7. token # 0 /\ token > issued[d]
  BY <1>1
<1> HIDE DEF token, r, c
<1>8. \A e \in Docs : RowLease(e)'
  BY <1>2, <1>3, <1>7 DEF RowLease, QueueInvariant
<1>9. ASSUME NEW v \in Workers PROVE ClaimFresh(v)'
  <2>1. CASE v = w
    BY <1>1, <1>2, <1>3, <1>6, <1>7, <2>1 DEF ClaimFresh, NoToken
  <2>2. CASE v # w
    <3> SUFFICES ASSUME Working(v)'
                 PROVE  ClaimFresh(v)'
      BY DEF ClaimFresh
    <3>1. CASE held[v].doc = d
      <4>1. /\ held'[v].lease # NoToken /\ held'[v].lease <= issued'[d]
            /\ held'[v].lease # doc'[d].lease
        BY <1>1, <1>2, <1>3, <1>5, <1>7, <2>2, <3>1
      <4> QED
        BY <1>5, <2>2, <3>1, <4>1 DEF ClaimFresh
    <3>2. CASE held[v].doc # d
      BY <1>3, <1>5, <2>2, <3>2 DEF ClaimFresh
    <3> QED
      BY <3>1, <3>2
  <2> QED
    BY <2>1, <2>2
<1>10. DistinctTokens'
  <2>1. ASSUME NEW v \in Workers, v # w, Working(v)', held'[v].doc = d
        PROVE  held'[v].lease # token
    BY <1>1, <1>5, <1>7, <2>1
  <2>2. ASSUME NEW u \in Workers, NEW v \in Workers, u # w, v # w,
               Working(u)', Working(v)', held'[u].doc = held'[v].doc,
               held'[u].lease = held'[v].lease
        PROVE  u = v
    BY <1>5, <2>2 DEF QueueInvariant, DistinctTokens
  <2> QED
    BY <1>3, <1>6, <2>1, <2>2 DEF DistinctTokens
<1>11. AttemptsBounded' /\ ChunksNeedReparse' /\ AbsentIsEmpty'
  BY <1>1, <1>2, <1>3, <1>4
  DEF AttemptsBounded, ChunksNeedReparse, AbsentIsEmpty, QueueInvariant
<1>12. ReadyServesLatestAttempt' /\ NotGivenUpEarly'
  BY <1>2, <1>3 DEF ReadyServesLatestAttempt, NotGivenUpEarly, QueueInvariant
<1> QED
  BY <1>8, <1>9, <1>10, <1>11, <1>12 DEF QueueInvariant

\* A worker that passes the fence knows exactly what the row says.
LEMMA OwnerFacts ==
    ASSUME TypeOK, QueueInvariant, NEW w \in Workers, Owns(w)
    PROVE  LET c == held[w]
               r == doc[c.doc]
           IN  /\ c.doc \in Docs /\ r \in Row
               /\ c.lease \in Nat /\ c.attempt \in Nat /\ c.version \in Nat
               /\ r.status = "PROCESSING" /\ r.lease = c.lease
               /\ c.lease = issued[c.doc] /\ c.attempt = r.attempts
               /\ c.version = r.version /\ c.replace = r.reparse
               /\ r.chunks # 0 => r.reparse
               /\ r.attempts <= MaxAttempts
<1>1. /\ held[w].doc \in Docs /\ doc[held[w].doc] \in Row
      /\ held[w].lease \in Nat /\ held[w].attempt \in Nat
      /\ held[w].version \in Nat
  BY HeldTyped DEF Owns
<1>2. /\ doc[held[w].doc].status = "PROCESSING"
      /\ doc[held[w].doc].lease = held[w].lease
  BY DEF Owns, OwnsLease
<1>3. RowLease(held[w].doc) /\ ClaimFresh(w) /\ Working(w)
  BY <1>1 DEF QueueInvariant, Owns
<1>4. /\ doc[held[w].doc].chunks # 0 => doc[held[w].doc].reparse
      /\ doc[held[w].doc].attempts <= MaxAttempts
  BY <1>1, <1>2 DEF QueueInvariant, ChunksNeedReparse, AttemptsBounded
<1> QED
  BY <1>1, <1>2, <1>3, <1>4 DEF RowLease, ClaimFresh

\* Dropping a claim leaves the others as they were.
LEMMA ReleaseKeepsClaims ==
    ASSUME TypeOK, NEW w \in Workers, Release(w)
    PROVE  ClaimsKept
  BY DEF ClaimsKept, Release, TypeOK, Working

LEMMA ExhaustInvariant ==
    ASSUME TypeOK, QueueInvariant, NEW w \in Workers, NEW d \in Docs,
           Exhaust(w, d)
    PROVE  QueueInvariant'
<1> DEFINE r == ExhaustAttempts(doc[d])
<1>1. doc[d] \in Row /\ doc[d].attempts \in Nat /\ MaxAttempts \in Nat
  BY MaxAttemptsAssumption DEF TypeOK, Row
<1>2. doc[d].attempts <= MaxAttempts /\ doc[d].attempts >= MaxAttempts
  BY DEF QueueInvariant, AttemptsBounded, Exhaust
<1>3. doc[d].attempts = MaxAttempts
  BY <1>1, <1>2
<1>4. doc[d].chunks # 0 => doc[d].reparse
  BY DEF QueueInvariant, ChunksNeedReparse, Exhaust, Claimable,
         ExpiredProcessing
<1>5. /\ r.status = "FAILED" /\ r.lease = NoToken /\ r.live = FALSE
      /\ r.attempts = doc[d].attempts /\ r.reparse = doc[d].reparse
      /\ r.chunks = doc[d].chunks
  BY <1>1, ExhaustFields
<1>6. r \in Row /\ SetRow(d, r) /\ UNCHANGED <<issued, held>>
  BY <1>1, RowOperationsTyped DEF Exhaust
<1>7. ClaimsKept
  BY <1>6 DEF ClaimsKept, Working
<1> HIDE DEF r
<1>8. SettledRow(d, r)
  BY <1>2, <1>3, <1>4, <1>5 DEF SettledRow
<1> QED
  BY <1>6, <1>7, <1>8, SettleStep

LEMMA FinishInvariant ==
    ASSUME TypeOK, QueueInvariant, NEW w \in Workers, Finish(w)
    PROVE  QueueInvariant'
<1> DEFINE d == held[w].doc
           r == MarkReady(doc[d], held[w].lease, held[w].version)
<1>1. /\ d \in Docs /\ doc[d] \in Row
      /\ held[w].lease \in Nat /\ held[w].version \in Nat
      /\ held[w].lease = issued[d] /\ held[w].version = doc[d].version
      /\ doc[d].attempts <= MaxAttempts
  BY OwnerFacts DEF Finish
<1>2. /\ r.status = "READY" /\ r.lease = NoToken /\ r.live = FALSE
      /\ r.attempts = doc[d].attempts /\ r.version = doc[d].version
      /\ r.parsed = held[w].lease /\ r.chunks = held[w].version
  BY <1>1 DEF MarkReady, Row
<1>3. r \in Row /\ SetRow(d, r) /\ UNCHANGED issued
  BY <1>1, RowOperationsTyped DEF Finish
<1>4. ClaimsKept
  BY ReleaseKeepsClaims DEF Finish
<1> HIDE DEF r, d
<1>5. SettledRow(d, r)
  BY <1>1, <1>2 DEF SettledRow
<1> QED
  BY <1>1, <1>3, <1>4, <1>5, SettleStep

LEMMA FailInvariant ==
    ASSUME TypeOK, QueueInvariant, NEW w \in Workers, NEW b \in BOOLEAN,
           Fail(w, b)
    PROVE  QueueInvariant'
<1> DEFINE d == held[w].doc
           n == held[w].attempt
           r == FailOrRetry(doc[d], n, b)
<1>1. /\ d \in Docs /\ doc[d] \in Row /\ n \in Nat
      /\ doc[d].chunks # 0 => doc[d].reparse
      /\ doc[d].attempts = n /\ n <= MaxAttempts
  BY OwnerFacts DEF Fail
<1>2. /\ r.status = IF ShouldRetry(n, b) THEN "QUEUED" ELSE "FAILED"
      /\ r.error = IF b THEN "RETRYABLE" ELSE "TERMINAL"
      /\ r.lease = NoToken /\ r.live = FALSE
      /\ r.attempts = doc[d].attempts /\ r.reparse = doc[d].reparse
      /\ r.chunks = doc[d].chunks
  BY <1>1 DEF FailOrRetry, Row
<1>3. r \in Row /\ SetRow(d, r) /\ UNCHANGED issued
  BY <1>1, RowOperationsTyped DEF Fail
<1>4. ClaimsKept
  BY ReleaseKeepsClaims DEF Fail
<1>5. MaxAttempts \in Nat
  BY MaxAttemptsAssumption
<1>6. /\ b /\ ~ShouldRetry(n, b) => n = MaxAttempts
      /\ ShouldRetry(n, b) => n < MaxAttempts
  BY <1>1, <1>5 DEF ShouldRetry
<1>7. /\ r.status \in {"QUEUED", "FAILED"}
      /\ r.status = "FAILED" /\ r.error \in {"RETRYABLE", "MAX_ATTEMPTS_EXCEEDED"}
            => n = MaxAttempts
      /\ r.status = "QUEUED" => n < MaxAttempts
  BY <1>2, <1>6
<1> HIDE DEF r, d, n
<1>8. SettledRow(d, r)
  BY <1>1, <1>2, <1>7 DEF SettledRow
<1> QED
  BY <1>1, <1>3, <1>4, <1>8, SettleStep

\* Heartbeats, lost leases, crashes and the passing of time are quiet.
LEMMA WorkerQuiet ==
    ASSUME TypeOK, QueueInvariant, NEW w \in Workers,
           \/ Heartbeat(w) \/ HeartbeatCrash(w)
           \/ GiveUpLostLease(w) \/ Crash(w)
    PROVE  QueueInvariant'
<1>1. ASSUME UNCHANGED doc PROVE Quiet
  BY <1>1 DEF Quiet
<1>2. ASSUME NEW p \in Pulse, Working(w), held' = [held EXCEPT ![w].pulse = p]
      PROVE  ClaimsKept
  <2>1. held[w] \in Claim
    BY <1>2, HeldTyped
  <2> QED
    BY <1>2, <2>1 DEF ClaimsKept, TypeOK, Working, Claim
<1>3. CASE Heartbeat(w) /\ Owns(w)
  <2> DEFINE d == held[w].doc
  <2>1. d \in Docs /\ doc[d] \in Row /\ doc[d].status = "PROCESSING"
    BY <1>3, OwnerFacts
  <2>2. /\ SetRow(d, RenewLease(doc[d])) \/ UNCHANGED doc
        /\ UNCHANGED issued
    BY <1>3 DEF Heartbeat
  <2>3. Quiet
    BY <1>1, <2>1, <2>2 DEF Quiet, SetRow, RenewLease, TypeOK, Row
  <2>4. ClaimsKept
    BY <1>3, <1>2 DEF Heartbeat, ClaimsKept, Working, Pulse
  <2> QED
    BY <2>2, <2>3, <2>4, QuietStep
<1>4. CASE Heartbeat(w) /\ ~Owns(w)
  <2>1. ClaimsKept
    BY <1>2, <1>4 DEF Heartbeat, Pulse
  <2> QED
    BY <1>1, <1>4, <2>1, QuietStep DEF Heartbeat
<1>5. CASE HeartbeatCrash(w)
  <2>1. ClaimsKept
    BY <1>2, <1>5 DEF HeartbeatCrash, Pulse
  <2> QED
    BY <1>1, <1>5, <2>1, QuietStep DEF HeartbeatCrash
<1>6. CASE GiveUpLostLease(w) \/ Crash(w)
  BY <1>1, <1>6, ReleaseKeepsClaims, QuietStep DEF GiveUpLostLease, Crash
<1> QED
  BY <1>3, <1>4, <1>5, <1>6

LEMMA TimeQuiet ==
    ASSUME TypeOK, QueueInvariant, NEW d \in Docs, LeaseLapse(d) \/ RetryDue(d)
    PROVE  QueueInvariant'
<1>1. Quiet
  BY DEF Quiet, LeaseLapse, RetryDue, TypeOK, Row
<1>2. ClaimsKept /\ UNCHANGED issued
  BY DEF LeaseLapse, RetryDue, ClaimsKept, Working
<1> QED
  BY <1>1, <1>2, QuietStep

\* Every step keeps the inductive invariant.
LEMMA InvariantStep ==
    TypeOK /\ QueueInvariant /\ [QueueNext]_queueVars => QueueInvariant'
<1> SUFFICES ASSUME TypeOK, QueueInvariant, [QueueNext]_queueVars
             PROVE  QueueInvariant'
  OBVIOUS
<1>1. CASE UNCHANGED queueVars
  <2>1. Quiet /\ ClaimsKept /\ UNCHANGED issued
    BY <1>1 DEF queueVars, Quiet, ClaimsKept, Working
  <2> QED
    BY <2>1, QuietStep
<1>2. ASSUME NEW d \in Docs, Request(d) \/ LeaseLapse(d) \/ RetryDue(d)
      PROVE  QueueInvariant'
  BY <1>2, RequestInvariant, TimeQuiet
<1>3. ASSUME NEW w \in Workers, WorkerStep(w)
      PROVE  QueueInvariant'
  BY <1>3, ExhaustInvariant, GrantInvariant, FinishInvariant, FailInvariant,
     WorkerQuiet DEF WorkerStep
<1> QED
  BY <1>1, <1>2, <1>3 DEF QueueNext

\* The inductive invariant holds of every reachable state, for any number of
\* documents, workers, resets and faults.
THEOREM InvariantHolds == QueueSpec => []QueueInvariant
<1>1. QueueInit => QueueInvariant
  BY InitInvariant
<1>2. TypeOK /\ QueueInvariant /\ [QueueNext]_queueVars => QueueInvariant'
  BY InvariantStep
<1> QED
  BY <1>1, <1>2, TypeCorrect, PTL DEF QueueSpec

-----------------------------------------------------------------------------
(* What follows from the inductive invariant. *)

LEMMA OneOwner == TypeOK /\ QueueInvariant => SingleOwner
<1> SUFFICES ASSUME TypeOK, QueueInvariant, NEW v \in Workers,
                    NEW w \in Workers, Owns(v), Owns(w),
                    held[v].doc = held[w].doc
             PROVE  v = w
  BY DEF SingleOwner
<1>1. held[v].lease = held[w].lease
  BY OwnerFacts
<1> QED
  BY <1>1 DEF QueueInvariant, DistinctTokens, Owns

\* However often a document is reset, taken over or its workers stall and die,
\* no two workers pass its lease fence.
THEOREM SingleOwnerHolds == QueueSpec => []SingleOwner
  BY OneOwner, TypeCorrect, InvariantHolds, PTL

\* A READY document always serves the newest attempt and its own version.
THEOREM ReadyIsLatest == QueueSpec => []ReadyServesLatestAttempt
<1>1. QueueInvariant => ReadyServesLatestAttempt
  BY DEF QueueInvariant
<1> QED
  BY <1>1, InvariantHolds, PTL

\* Whoever owns a document that has chunks has been told to replace them.
THEOREM OverwriteAlwaysRequested == QueueSpec => []OverwriteIsRequested
<1>1. TypeOK /\ QueueInvariant => OverwriteIsRequested
  <2> SUFFICES ASSUME TypeOK, QueueInvariant
               PROVE  OverwriteIsRequested
    OBVIOUS
  <2>1. ChunksNeedReparse
    BY DEF QueueInvariant
  <2>2. ASSUME NEW w \in Workers, Owns(w), doc[held[w].doc].chunks # 0
        PROVE  held[w].replace
    BY <2>2, OwnerFacts
  <2> QED
    BY <2>1, <2>2 DEF OverwriteIsRequested
<1> QED
  BY <1>1, TypeCorrect, InvariantHolds, PTL

\* Every attempt the configuration allows is made before giving up.
THEOREM AllAttemptsMade == QueueSpec => []NotGivenUpEarly
<1>1. QueueInvariant => NotGivenUpEarly
  BY DEF QueueInvariant
<1> QED
  BY <1>1, InvariantHolds, PTL

\* No step of anyone gives a worker its lost lease back.
LEMMA LostStep ==
    TypeOK /\ QueueInvariant /\ [QueueNext]_queueVars => LostForever
<1> SUFFICES ASSUME TypeOK, QueueInvariant, [QueueNext]_queueVars,
                    NEW w \in Workers, Working(w), ~Owns(w),
                    held'[w] # NoClaim
             PROVE  ~Owns(w)'
  BY DEF LostForever
<1>1. /\ held[w].doc \in Docs /\ held[w].lease \in Nat
      /\ held[w].lease # NoToken /\ held[w].lease <= issued[held[w].doc]
  BY HeldTyped DEF QueueInvariant, ClaimFresh
<1>2. ASSUME held'[w].doc = held[w].doc, held'[w].lease = held[w].lease,
             doc'[held[w].doc].status # "PROCESSING"
      PROVE  ~Owns(w)'
  BY <1>2 DEF Owns, OwnsLease
<1>3. ASSUME held'[w].doc = held[w].doc, held'[w].lease = held[w].lease,
             OwnsLease(doc'[held[w].doc], held[w].lease)
                => OwnsLease(doc[held[w].doc], held[w].lease)
      PROVE  ~Owns(w)'
  BY <1>3 DEF Owns
<1>4. CASE UNCHANGED queueVars
  BY <1>3, <1>4 DEF queueVars
<1>5. ASSUME NEW d \in Docs, Request(d) PROVE ~Owns(w)'
  <2>1. UNCHANGED held
    BY <1>5 DEF Request, Upload, Approve, Reject, Retry, Reparse, Delete
  <2>2. PICK r : SetRow(d, r)
    BY <1>5 DEF Request, Upload, Approve, Reject, Retry, Reparse, Delete
  <2>3. CASE held[w].doc # d
    BY <1>3, <2>1, <2>2, <2>3 DEF SetRow, TypeOK
  <2>4. CASE held[w].doc = d
    <3>1. doc[d] \in Row
      BY DEF TypeOK
    <3>2. doc'[d].status # "PROCESSING"
      <4>1. ASSUME NEW b \in BOOLEAN PROVE ResetForQueue(doc[d], b).status = "QUEUED"
        BY <3>1, ResetFields
      <4>2. ASSUME NEW b \in BOOLEAN PROVE InsertedRow(b).status # "PROCESSING"
        BY InsertFields
      <4>3. MarkDispatchIdle([doc[d] EXCEPT !.status = "REJECTED"]).status
               = "REJECTED"
        BY <3>1 DEF MarkDispatchIdle, Row
      <4> QED
        BY <1>5, <4>1, <4>2, <4>3, DeletedFields
        DEF Request, Upload, Approve, Reject, Retry, Reparse, Delete, SetRow,
            TypeOK
    <3> QED
      BY <1>2, <2>1, <2>4, <3>2
  <2> QED
    BY <2>3, <2>4
<1>6. ASSUME NEW d \in Docs, LeaseLapse(d) \/ RetryDue(d) PROVE ~Owns(w)'
  <2>1. UNCHANGED held
    BY <1>6 DEF LeaseLapse, RetryDue
  <2>2. OwnsLease(doc'[held[w].doc], held[w].lease)
           => OwnsLease(doc[held[w].doc], held[w].lease)
    BY <1>1, <1>6 DEF OwnsLease, LeaseLapse, RetryDue, TypeOK, Row
  <2> QED
    BY <1>3, <2>1, <2>2
<1>7. ASSUME NEW v \in Workers, v # w, WorkerStep(v) PROVE ~Owns(w)'
  <2>1. held'[w] = held[w]
    BY <1>7 DEF WorkerStep, Exhaust, Grant, Heartbeat, HeartbeatCrash, Finish,
               Fail, GiveUpLostLease, Crash, Release, TypeOK
  <2>2. CASE UNCHANGED doc
    BY <1>3, <2>1, <2>2
  <2>3. ASSUME NEW d \in Docs, Exhaust(v, d) PROVE ~Owns(w)'
    <3>1. doc'[d] = ExhaustAttempts(doc[d])
          /\ \A e \in Docs : e # d => doc'[e] = doc[e]
      BY <2>3 DEF Exhaust, SetRow, TypeOK
    <3>2. doc[d] \in Row
      BY DEF TypeOK
    <3>3. doc'[d].status = "FAILED"
      BY <3>1, <3>2 DEF ExhaustAttempts, Row
    <3> QED
      BY <1>1, <1>2, <1>3, <2>1, <3>1, <3>3
  <2>4. ASSUME NEW d \in Docs, Grant(v, d) PROVE ~Owns(w)'
    <3>1. doc[d] \in Row /\ issued[d] \in Nat /\ issued[d] + 1 \in Nat
      BY DEF TypeOK
    <3>2. doc'[d] = TakeLease(doc[d], issued[d] + 1)
          /\ \A e \in Docs : e # d => doc'[e] = doc[e]
      BY <2>4 DEF Grant, SetRow, TypeOK
    <3>3. doc'[d].lease = issued[d] + 1
      BY <3>1, <3>2 DEF TakeLease, Row
    <3>4. CASE held[w].doc = d
      <4>1. held[w].lease # doc'[d].lease
        BY <1>1, <3>1, <3>3, <3>4
      <4> QED
        BY <2>1, <3>4, <4>1 DEF Owns, OwnsLease
    <3>5. CASE held[w].doc # d
      BY <1>1, <1>3, <2>1, <3>2, <3>5
    <3> QED
      BY <3>4, <3>5
  <2>5. ASSUME Owns(v) PROVE held[v].doc = held[w].doc
                             => held[w].lease # doc[held[v].doc].lease
    BY <1>7, <2>5 DEF Owns, OwnsLease, QueueInvariant, DistinctTokens
  <2>6. ASSUME Owns(v), NEW r, SetRow(held[v].doc, r),
               r.status # "PROCESSING" \/ r.lease = doc[held[v].doc].lease
        PROVE  ~Owns(w)'
    <3>1. /\ held[v].doc \in Docs /\ doc'[held[v].doc] = r
          /\ \A e \in Docs : e # held[v].doc => doc'[e] = doc[e]
      BY <2>6, OwnerFacts DEF SetRow, TypeOK
    <3>2. CASE held[w].doc = held[v].doc
      BY <2>1, <2>5, <2>6, <3>1, <3>2 DEF Owns, OwnsLease
    <3>3. CASE held[w].doc # held[v].doc
      BY <1>1, <1>3, <2>1, <3>1, <3>3
    <3> QED
      BY <3>2, <3>3
  <2>7. CASE Heartbeat(v)
    <3>1. CASE Owns(v)
      <4>1. doc[held[v].doc] \in Row
        BY <3>1, OwnerFacts
      <4>2. RenewLease(doc[held[v].doc]).lease = doc[held[v].doc].lease
        BY <4>1 DEF RenewLease, Row
      <4> QED
        BY <2>2, <2>6, <2>7, <3>1, <4>2 DEF Heartbeat
    <3> QED
      BY <2>2, <2>7, <3>1 DEF Heartbeat
  <2>8. CASE Finish(v)
    <3>1. doc[held[v].doc] \in Row
      BY <2>8, OwnerFacts DEF Finish
    <3>2. MarkReady(doc[held[v].doc], held[v].lease, held[v].version).status
             = "READY"
      BY <3>1 DEF MarkReady, Row
    <3> QED
      BY <2>6, <2>8, <3>2 DEF Finish
  <2>9. ASSUME NEW b \in BOOLEAN, Fail(v, b) PROVE ~Owns(w)'
    <3>1. FailOrRetry(doc[held[v].doc], held[v].attempt, b).status
             # "PROCESSING"
      BY <2>9, OwnerFacts DEF FailOrRetry, Row, Fail
    <3> QED
      BY <2>6, <2>9, <3>1 DEF Fail
  <2>10. CASE HeartbeatCrash(v) \/ GiveUpLostLease(v) \/ Crash(v)
    BY <2>2, <2>10 DEF HeartbeatCrash, GiveUpLostLease, Crash
  <2> QED
    BY <1>7, <2>3, <2>4, <2>7, <2>8, <2>9, <2>10 DEF WorkerStep
<1>8. CASE WorkerStep(w)
  <2>1. CASE Heartbeat(w) \/ HeartbeatCrash(w)
    <3>1. PICK p \in Pulse : held' = [held EXCEPT ![w].pulse = p]
      BY <2>1 DEF Heartbeat, HeartbeatCrash, Pulse
    <3>2. held[w] \in Claim /\ UNCHANGED doc
      BY <2>1, HeldTyped DEF Heartbeat, HeartbeatCrash
    <3>3. held'[w].doc = held[w].doc /\ held'[w].lease = held[w].lease
      BY <3>1, <3>2 DEF TypeOK, Claim
    <3> QED
      BY <1>3, <3>2, <3>3
  <2>2. CASE GiveUpLostLease(w) \/ Crash(w)
    BY <2>2 DEF GiveUpLostLease, Crash, Release, TypeOK
  <2> QED
    BY <1>8, <2>1, <2>2 DEF WorkerStep, Exhaust, Grant, Finish, Fail
<1> QED
  BY <1>4, <1>5, <1>6, <1>7, <1>8 DEF QueueNext

\* A claim that has failed the fence once fails it for good.
THEOREM LostLeasesStayLost == QueueSpec => LostLeaseStaysLost
<1>1. TypeOK /\ QueueInvariant /\ [QueueNext]_queueVars
         => [LostForever]_queueVars
  BY LostStep
<1> QED
  BY <1>1, TypeCorrect, InvariantHolds, PTL DEF QueueSpec, LostLeaseStaysLost

-----------------------------------------------------------------------------
(* The queue implements DocumentLifecycle.  A step of the queue replaces   *)
(* one row; Moves says which pairs of rows are lifecycle steps, and each   *)
(* action is shown to replace a row by one it moves to, or by one with the *)
(* same status, version and chunks.                                        *)

Keeps(a, b) == b.version = a.version /\ b.chunks = a.chunks

Moves(a, b) ==
    \/ /\ a.status = "ABSENT" /\ b.status \in {"QUEUED", "PENDING_REVIEW"}
       /\ b.version = 1 /\ b.chunks = a.chunks
    \/ /\ a.status = "PENDING_REVIEW" /\ b.status \in {"QUEUED", "REJECTED"}
       /\ Keeps(a, b)
    \/ /\ a.status \in {"QUEUED", "PROCESSING"} /\ b.status = "PROCESSING"
       /\ Keeps(a, b)
    \/ /\ a.status = "PROCESSING" /\ b.status = "READY"
       /\ b.version = a.version /\ b.chunks = a.version
    \/ /\ a.status = "PROCESSING" /\ b.status \in {"QUEUED", "FAILED"}
       /\ Keeps(a, b)
    \/ /\ a.status = "FAILED" /\ b.status = "QUEUED" /\ Keeps(a, b)
    \/ /\ a.status \in {"READY", "FAILED"} /\ b.status = "QUEUED"
       /\ b.version = a.version + 1 /\ b.chunks = a.chunks
    \/ /\ a.status \in {"READY", "FAILED", "PENDING_REVIEW", "REJECTED"}
       /\ b.status = "DELETED" /\ b.version = 0 /\ b.chunks = 0

\* Replacing a row by one it moves to is a step of the lifecycle.
LEMMA MoveIsStep ==
    ASSUME TypeOK, NEW d \in Docs, NEW r \in Row, SetRow(d, r),
           Moves(doc[d], r)
    PROVE  Lifecycle!LifecycleNext
<1> DEFINE phase == [e \in Docs |-> doc[e].status]
           edition == [e \in Docs |-> doc[e].version]
           served == [e \in Docs |-> doc[e].chunks]
<1>1. doc'[d] = r /\ \A e \in Docs : e # d => doc'[e] = doc[e]
  BY DEF SetRow, TypeOK
<1>2. phase' = [phase EXCEPT ![d] = r.status]
  BY <1>1
<1>3. edition' = [edition EXCEPT ![d] = r.version]
  BY <1>1
<1>4. served' = [served EXCEPT ![d] = r.chunks]
  BY <1>1
<1>5. r.version = doc[d].version => UNCHANGED edition
  BY <1>1
<1>6. r.chunks = doc[d].chunks => UNCHANGED served
  BY <1>1
<1>7. /\ phase[d] = doc[d].status /\ edition[d] = doc[d].version
      /\ served[d] = doc[d].chunks
  OBVIOUS
<1> USE DEF Lifecycle!Become, Keeps
<1>8. ASSUME NEW p \in {"QUEUED", "PENDING_REVIEW"},
             doc[d].status = "ABSENT", r.status = p,
             r.version = 1, r.chunks = doc[d].chunks
      PROVE  Lifecycle!Admit(d, p)
  BY <1>2, <1>3, <1>6, <1>7, <1>8 DEF Lifecycle!Admit
<1>9. ASSUME NEW p \in {"QUEUED", "REJECTED"},
             doc[d].status = "PENDING_REVIEW", r.status = p, Keeps(doc[d], r)
      PROVE  Lifecycle!Review(d, p)
  BY <1>2, <1>5, <1>6, <1>7, <1>9 DEF Lifecycle!Review
<1>10. ASSUME doc[d].status \in {"QUEUED", "PROCESSING"},
              r.status = "PROCESSING", Keeps(doc[d], r)
       PROVE  Lifecycle!Start(d)
  BY <1>2, <1>5, <1>6, <1>7, <1>10 DEF Lifecycle!Start, Lifecycle!Active
<1>11. ASSUME doc[d].status = "PROCESSING", r.status = "READY",
              r.version = doc[d].version, r.chunks = doc[d].version
       PROVE  Lifecycle!Publish(d)
  BY <1>2, <1>4, <1>5, <1>7, <1>11 DEF Lifecycle!Publish
<1>12. ASSUME doc[d].status = "PROCESSING", r.status = "QUEUED",
              Keeps(doc[d], r)
       PROVE  Lifecycle!PutBack(d)
  BY <1>2, <1>5, <1>6, <1>7, <1>12 DEF Lifecycle!PutBack
<1>13. ASSUME doc[d].status = "PROCESSING", r.status = "FAILED",
              Keeps(doc[d], r)
       PROVE  Lifecycle!GiveUp(d)
  BY <1>2, <1>5, <1>6, <1>7, <1>13 DEF Lifecycle!GiveUp
<1>14. ASSUME doc[d].status = "FAILED", r.status = "QUEUED", Keeps(doc[d], r)
       PROVE  Lifecycle!Resubmit(d)
  BY <1>2, <1>5, <1>6, <1>7, <1>14 DEF Lifecycle!Resubmit
<1>15. ASSUME doc[d].status \in {"READY", "FAILED"}, r.status = "QUEUED",
              r.version = doc[d].version + 1, r.chunks = doc[d].chunks
       PROVE  Lifecycle!NewEdition(d)
  BY <1>2, <1>3, <1>6, <1>7, <1>15 DEF Lifecycle!NewEdition
<1>16. ASSUME doc[d].status
                 \in {"READY", "FAILED", "PENDING_REVIEW", "REJECTED"},
              r.status = "DELETED", r.version = 0, r.chunks = 0
       PROVE  Lifecycle!Remove(d)
  BY <1>2, <1>3, <1>4, <1>7, <1>16 DEF Lifecycle!Remove
<1>17. Lifecycle!LifecycleStep(d)
  <2>1. {"QUEUED", "PENDING_REVIEW", "REJECTED"} \subseteq Lifecycle!Phase
    BY DEF Lifecycle!Phase
  <2> QED
    BY <1>8, <1>9, <1>10, <1>11, <1>12, <1>13, <1>14, <1>15, <1>16, <2>1
    DEF Moves, Lifecycle!LifecycleStep
<1> QED
  BY <1>17 DEF Lifecycle!LifecycleNext

\* A row with the same status, version and chunks is no step at all.
LEMMA SameIsStutter ==
    ASSUME TypeOK,
           \A e \in Docs : doc'[e].status = doc[e].status
                              /\ Keeps(doc[e], doc'[e])
    PROVE  UNCHANGED Lifecycle!lifecycleVars
  BY DEF Keeps, Lifecycle!lifecycleVars

LEMMA RequestRefines ==
    ASSUME TypeOK, QueueInvariant, NEW d \in Docs, Request(d)
    PROVE  Lifecycle!LifecycleNext
<1>1. doc[d] \in Row
  BY DEF TypeOK
<1>2. ASSUME NEW b \in BOOLEAN, Upload(d, b) PROVE Lifecycle!LifecycleNext
  <2> DEFINE r == InsertedRow(b)
  <2>1. r.status \in {"QUEUED", "PENDING_REVIEW"}
        /\ r.version = 1 /\ r.chunks = 0
    BY InsertFields
  <2>2. r \in Row
    BY RowOperationsTyped
  <2>3. SetRow(d, r) /\ doc[d].status = "ABSENT"
    BY <1>2 DEF Upload
  <2>4. doc[d].chunks = 0
    BY <2>3 DEF QueueInvariant, AbsentIsEmpty
  <2> HIDE DEF r
  <2>5. Moves(doc[d], r)
    BY <2>1, <2>3, <2>4 DEF Moves
  <2> QED
    BY <2>2, <2>3, <2>5, MoveIsStep
<1>3. ASSUME NEW b \in BOOLEAN, SetRow(d, ResetForQueue(doc[d], b)),
             doc[d].status = "PENDING_REVIEW" => ~b,
             doc[d].status = "PROCESSING" => ~b,
             doc[d].status = "READY" => b,
             doc[d].status \in {"PENDING_REVIEW", "PROCESSING", "READY", "FAILED"}
      PROVE  Lifecycle!LifecycleNext
  <2> DEFINE r == ResetForQueue(doc[d], b)
  <2>1. /\ r.status = "QUEUED" /\ r.chunks = doc[d].chunks
        /\ r.version = IF b THEN doc[d].version + 1 ELSE doc[d].version
    BY <1>1, ResetFields
  <2>2. r \in Row /\ SetRow(d, r)
    BY <1>1, <1>3, RowOperationsTyped
  <2> HIDE DEF r
  <2>3. Moves(doc[d], r)
    BY <1>3, <2>1 DEF Moves, Keeps
  <2> QED
    BY <2>2, <2>3, MoveIsStep
<1>4. CASE Approve(d)
  BY <1>3, <1>4 DEF Approve
<1>5. CASE Retry(d)
  BY <1>3, <1>5 DEF Retry, ExpiredProcessing
<1>6. CASE Reparse(d)
  BY <1>3, <1>6 DEF Reparse
<1>7. CASE Reject(d)
  <2> DEFINE r == MarkDispatchIdle([doc[d] EXCEPT !.status = "REJECTED"])
  <2>1. r \in Row
    BY <1>1, RowOperationsTyped DEF Row, Status
  <2>2. r.status = "REJECTED" /\ Keeps(doc[d], r)
    BY <1>1 DEF MarkDispatchIdle, Row, Keeps
  <2>3. SetRow(d, r) /\ doc[d].status = "PENDING_REVIEW"
    BY <1>7 DEF Reject
  <2> HIDE DEF r
  <2>4. Moves(doc[d], r)
    BY <2>2, <2>3 DEF Moves
  <2> QED
    BY <2>1, <2>3, <2>4, MoveIsStep
<1>8. CASE Delete(d)
  <2>1. Moves(doc[d], DeletedRow)
    BY <1>8, DeletedFields DEF Delete, Deletable, Moves
  <2> QED
    BY <1>8, <2>1, MoveIsStep, RowOperationsTyped DEF Delete
<1> QED
  BY <1>2, <1>4, <1>5, <1>6, <1>7, <1>8 DEF Request

LEMMA WorkerRefines ==
    ASSUME TypeOK, QueueInvariant, NEW w \in Workers, WorkerStep(w)
    PROVE  Lifecycle!LifecycleNext \/ UNCHANGED Lifecycle!lifecycleVars
<1>1. ASSUME NEW d \in Docs, Exhaust(w, d) PROVE Lifecycle!LifecycleNext
  <2> DEFINE r == ExhaustAttempts(doc[d])
  <2>1. doc[d] \in Row /\ doc[d].attempts \in Nat /\ MaxAttempts \in Nat
    BY MaxAttemptsAssumption DEF TypeOK, Row
  <2>2. doc[d].attempts >= MaxAttempts /\ Claimable(doc[d]) /\ SetRow(d, r)
    BY <1>1 DEF Exhaust
  <2>3. doc[d].status # "QUEUED"
    BY <2>1, <2>2 DEF QueueInvariant, AttemptsBounded
  <2>4. doc[d].status = "PROCESSING"
    BY <2>2, <2>3 DEF Claimable, ExpiredProcessing
  <2>5. r \in Row /\ r.status = "FAILED" /\ Keeps(doc[d], r)
    BY <2>1, RowOperationsTyped, ExhaustFields DEF Keeps
  <2> HIDE DEF r
  <2> QED
    BY <2>2, <2>4, <2>5, MoveIsStep DEF Moves
<1>2. ASSUME NEW d \in Docs, Grant(w, d) PROVE Lifecycle!LifecycleNext
  <2> DEFINE r == TakeLease(doc[d], issued[d] + 1)
  <2>1. doc[d] \in Row /\ issued[d] + 1 \in Nat
    BY DEF TypeOK
  <2>2. r \in Row
    BY <2>1, RowOperationsTyped
  <2>3. r.status = "PROCESSING" /\ Keeps(doc[d], r)
    BY <2>1 DEF TakeLease, Row, Keeps
  <2>4. SetRow(d, r) /\ doc[d].status \in {"QUEUED", "PROCESSING"}
    BY <1>2 DEF Grant, Claimable, ExpiredProcessing
  <2> HIDE DEF r
  <2>5. Moves(doc[d], r)
    BY <2>3, <2>4 DEF Moves
  <2> QED
    BY <2>2, <2>4, <2>5, MoveIsStep
<1>3. CASE Finish(w)
  <2> DEFINE d == held[w].doc
             r == MarkReady(doc[d], held[w].lease, held[w].version)
  <2>1. /\ d \in Docs /\ doc[d] \in Row /\ doc[d].status = "PROCESSING"
        /\ held[w].lease \in Nat /\ held[w].version \in Nat
        /\ held[w].version = doc[d].version
    BY <1>3, OwnerFacts DEF Finish
  <2>2. r \in Row /\ SetRow(d, r)
    BY <1>3, <2>1, RowOperationsTyped DEF Finish
  <2>3. /\ r.status = "READY" /\ r.version = doc[d].version
        /\ r.chunks = held[w].version
    BY <2>1 DEF MarkReady, Row
  <2> HIDE DEF r, d
  <2>4. Moves(doc[d], r)
    BY <2>1, <2>3 DEF Moves
  <2> QED
    BY <2>1, <2>2, <2>4, MoveIsStep
<1>4. ASSUME NEW b \in BOOLEAN, Fail(w, b) PROVE Lifecycle!LifecycleNext
  <2> DEFINE d == held[w].doc
             n == held[w].attempt
             r == FailOrRetry(doc[d], n, b)
  <2>1. /\ d \in Docs /\ doc[d] \in Row /\ n \in Nat
        /\ doc[d].status = "PROCESSING"
    BY <1>4, OwnerFacts DEF Fail
  <2>2. r \in Row /\ SetRow(d, r)
    BY <1>4, <2>1, RowOperationsTyped DEF Fail
  <2>3. r.status \in {"QUEUED", "FAILED"} /\ Keeps(doc[d], r)
    BY <2>1 DEF FailOrRetry, Row, Keeps
  <2> HIDE DEF r, d, n
  <2>4. Moves(doc[d], r)
    BY <2>1, <2>3 DEF Moves
  <2> QED
    BY <2>1, <2>2, <2>4, MoveIsStep
<1>5. CASE Heartbeat(w) /\ Owns(w)
  <2> DEFINE d == held[w].doc
  <2>1. d \in Docs /\ doc[d] \in Row
    BY <1>5, OwnerFacts
  <2>2. SetRow(d, RenewLease(doc[d])) \/ UNCHANGED doc
    BY <1>5 DEF Heartbeat
  <2>3. RenewLease(doc[d]).status = doc[d].status
        /\ Keeps(doc[d], RenewLease(doc[d]))
    BY <2>1 DEF RenewLease, Row, Keeps
  <2>4. \A e \in Docs : doc'[e].status = doc[e].status
                           /\ Keeps(doc[e], doc'[e])
    BY <2>1, <2>2, <2>3 DEF SetRow, TypeOK, Keeps
  <2> QED
    BY <2>4, SameIsStutter
<1>6. CASE UNCHANGED doc
  <2>1. \A e \in Docs : doc'[e].status = doc[e].status
                           /\ Keeps(doc[e], doc'[e])
    BY <1>6 DEF Keeps
  <2> QED
    BY <2>1, SameIsStutter
<1>7. CASE \/ Heartbeat(w) /\ ~Owns(w)
           \/ HeartbeatCrash(w) \/ GiveUpLostLease(w) \/ Crash(w)
  BY <1>6, <1>7 DEF Heartbeat, HeartbeatCrash, GiveUpLostLease, Crash
<1> QED
  BY <1>1, <1>2, <1>3, <1>4, <1>5, <1>7 DEF WorkerStep

\* Time passing over a row does not show in the lifecycle.
LEMMA TimeRefines ==
    ASSUME TypeOK, NEW d \in Docs, LeaseLapse(d) \/ RetryDue(d)
    PROVE  UNCHANGED Lifecycle!lifecycleVars
<1>1. \A e \in Docs : doc'[e].status = doc[e].status /\ Keeps(doc[e], doc'[e])
  BY DEF LeaseLapse, RetryDue, TypeOK, Row, Keeps
<1> QED
  BY <1>1, SameIsStutter

LEMMA InitRefines == QueueInit => Lifecycle!LifecycleInit
  BY DEF QueueInit, Lifecycle!LifecycleInit, NoRow

LEMMA StepRefines ==
    TypeOK /\ QueueInvariant /\ [QueueNext]_queueVars
       => [Lifecycle!LifecycleNext]_(Lifecycle!lifecycleVars)
<1> SUFFICES ASSUME TypeOK, QueueInvariant, [QueueNext]_queueVars
             PROVE  \/ Lifecycle!LifecycleNext
                    \/ UNCHANGED Lifecycle!lifecycleVars
  OBVIOUS
<1>1. CASE UNCHANGED queueVars
  BY <1>1, SameIsStutter DEF queueVars, Keeps
<1>2. CASE QueueNext
  BY <1>2, RequestRefines, WorkerRefines, TimeRefines DEF QueueNext
<1> QED
  BY <1>1, <1>2

\* For any documents, workers and bounds, what users see of the queue with its
\* leases, takeovers and crashes is a behaviour of the plain lifecycle.
THEOREM QueueImplementsLifecycle == QueueSpec => LifecycleImplemented
<1>1. QueueInit => Lifecycle!LifecycleInit
  BY InitRefines
<1>2. TypeOK /\ QueueInvariant /\ [QueueNext]_queueVars
         => [Lifecycle!LifecycleNext]_(Lifecycle!lifecycleVars)
  BY StepRefines
<1> QED
  BY <1>1, <1>2, TypeCorrect, InvariantHolds, PTL
  DEF QueueSpec, LifecycleImplemented, Lifecycle!LifecycleSpec

=============================================================================
