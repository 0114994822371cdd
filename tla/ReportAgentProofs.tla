-------------------------- MODULE ReportAgentProofs --------------------------
(***************************************************************************)
(* Proofs about ReportAgent: an attempt with its agent session, late       *)
(* calls, users and deletions implements ReportQueue, and whatever is not  *)
(* written by an attempt that had lost its lease stays consistent.         *)
(***************************************************************************)
EXTENDS ReportAgent, ReportQueueProofs

AgentTypeOK ==
    /\ job \in [Workers -> Job]
    /\ session \in [Runs -> Session]
    /\ calls \subseteq Call
    /\ question \in [Runs -> [Fields -> QuestionStatus]]
    /\ artifact \in [Runs -> Artifact]
    /\ purging \in [Runs -> Nat]
    /\ answering \in [Requests -> Answering \cup {NoRequest}]
    /\ marks \in [Runs -> SUBSET Accident]

LEMMA AgentRecordsTyped ==
    /\ NoJob \in Job /\ NewJob \in Job
    /\ \A t \in Nat : NewSession(t) \in Session
    /\ NoArtifact \in Artifact /\ NoQuestions \in [Fields -> QuestionStatus]
    /\ NoToken \in Nat
<1>1. NewJob \in Job
  BY DEF NewJob, Job, ReportError
<1>2. NoJob \in Job
  BY <1>1 DEF NoJob, Job
<1>3. \A t \in Nat : NewSession(t) \in Session
  BY DEF NewSession, Session
<1>4. NoArtifact \in Artifact /\ NoQuestions \in [Fields -> QuestionStatus]
  BY DEF NoArtifact, Artifact, NoQuestions, QuestionStatus
<1> QED
  BY <1>1, <1>2, <1>3, <1>4 DEF NoToken

LEMMA AgentInitTyped == Init => AgentTypeOK
  BY AgentRecordsTyped DEF Init, AgentTypeOK

LEMMA JobTyped ==
    ASSUME AgentTypeOK, NEW w \in Workers
    PROVE  /\ job[w] \in Job /\ job[w].ir \in Nat /\ job[w].seen \in Nat
           /\ job[w].dropped \in BOOLEAN /\ job[w].error \in ReportError
  BY DEF AgentTypeOK, Job

LEMMA CallTyped ==
    ASSUME AgentTypeOK, NEW c \in calls
    PROVE  /\ c \in Call /\ c.run \in Runs /\ c.token \in Nat /\ c.draft \in Nat
           /\ session[c.run] \in Session
  BY DEF AgentTypeOK, Call

\* What an action does to a job, a session, the marks or the artifacts.
LEMMA JobMoves ==
    ASSUME AgentTypeOK, NEW w \in Workers, NEW j \in Job, SetJob(w, j)
    PROVE  /\ job' \in [Workers -> Job] /\ job'[w] = j
           /\ \A v \in Workers : v # w => job'[v] = job[v]
  BY DEF SetJob, AgentTypeOK

LEMMA RaisedJob ==
    ASSUME AgentTypeOK, NEW w \in Workers, NEW error \in ReportError,
           Raise(w, error)
    PROVE  /\ job' \in [Workers -> Job]
           /\ job'[w].stage = "ERROR" /\ job'[w].error = error
           /\ job'[w].ir = job[w].ir /\ job'[w].dropped = job[w].dropped
           /\ \A v \in Workers : v # w => job'[v] = job[v]
<1>1. job[w] \in Job
  BY JobTyped
<1> DEFINE j == [job[w] EXCEPT !.stage = "ERROR", !.error = error]
<1>2. /\ j \in Job /\ j.stage = "ERROR" /\ j.error = error /\ j.ir = job[w].ir
      /\ j.dropped = job[w].dropped
  BY <1>1 DEF Job
<1>3. SetJob(w, j)
  BY DEF Raise
<1> HIDE DEF j
<1> QED
  BY <1>2, <1>3, JobMoves

LEMMA StagedJob ==
    ASSUME AgentTypeOK, NEW w \in Workers,
           NEW stage \in {"CALL", "WAIT", "COMPLETE"},
           SetJob(w, [job[w] EXCEPT !.stage = stage])
    PROVE  /\ job' \in [Workers -> Job]
           /\ job'[w].stage = stage /\ job'[w].ir = job[w].ir
           /\ job'[w].dropped = job[w].dropped
           /\ \A v \in Workers : v # w => job'[v] = job[v]
<1>1. job[w] \in Job
  BY JobTyped
<1> DEFINE j == [job[w] EXCEPT !.stage = stage]
<1>2. /\ j \in Job /\ j.stage = stage /\ j.ir = job[w].ir
      /\ j.dropped = job[w].dropped
  BY <1>1 DEF Job
<1>3. SetJob(w, j)
  OBVIOUS
<1> HIDE DEF j
<1> QED
  BY <1>2, <1>3, JobMoves

\* Marks are only ever added.
MarksGrow == \A r \in Runs : marks[r] \subseteq marks'[r]

LEMMA MarkTyped ==
    ASSUME AgentTypeOK, NEW r \in Runs, NEW accident \in Accident,
           Mark(r, accident)
    PROVE  /\ marks' \in [Runs -> SUBSET Accident]
           /\ MarksGrow /\ accident \in marks'[r]
<1>1. marks \in [Runs -> SUBSET Accident]
  BY DEF AgentTypeOK
<1>2. marks' = [marks EXCEPT ![r] = marks[r] \cup {accident}]
  BY DEF Mark
<1>3. marks[r] \cup {accident} \in SUBSET Accident
  BY <1>1
<1>4. marks' \in [Runs -> SUBSET Accident] /\ accident \in marks'[r]
  BY <1>1, <1>2, <1>3
<1>5. MarksGrow
  BY <1>1, <1>2 DEF MarksGrow
<1> QED
  BY <1>4, <1>5

LEMMA MarksStay ==
    ASSUME AgentTypeOK, UNCHANGED marks
    PROVE  marks' \in [Runs -> SUBSET Accident] /\ MarksGrow
  BY DEF AgentTypeOK, MarksGrow

LEMMA LateMarked ==
    ASSUME AgentTypeOK, NEW r \in Runs, NEW t, MarkLate(r, t)
    PROVE  /\ marks' \in [Runs -> SUBSET Accident] /\ MarksGrow
           /\ HoldsReportLease(run[r], t) \/ "LATE" \in marks'[r]
           /\ HoldsReportLease(run[r], t) => UNCHANGED marks
<1>1. CASE HoldsReportLease(run[r], t)
  <2>1. UNCHANGED marks
    BY <1>1 DEF MarkLate
  <2> QED
    BY <1>1, <2>1, MarksStay
<1>2. CASE ~HoldsReportLease(run[r], t)
  <2>1. Mark(r, "LATE") /\ "LATE" \in Accident
    BY <1>2 DEF MarkLate, Accident
  <2> QED
    BY <1>2, <2>1, MarkTyped
<1> QED
  BY <1>1, <1>2

LEMMA AccidentMarked ==
    ASSUME AgentTypeOK, NEW r \in Runs, NEW accident \in Accident,
           NEW happened, MarkAccident(r, accident, happened)
    PROVE  /\ marks' \in [Runs -> SUBSET Accident] /\ MarksGrow
           /\ happened => accident \in marks'[r]
<1>1. CASE happened
  BY <1>1, MarkTyped DEF MarkAccident
<1>2. CASE ~happened
  BY <1>2, MarksStay DEF MarkAccident
<1> QED
  BY <1>1, <1>2

-----------------------------------------------------------------------------
(* Types *)

LEMMA AttemptTyped ==
    ASSUME ReportTypeOK, AgentTypeOK, NEW w \in Workers, Attempt(w)
    PROVE  AgentTypeOK'
<1> USE AgentRecordsTyped
<1>1. ASSUME UNCHANGED <<session, calls, question, artifact, purging, answering, marks>>,
             job' \in [Workers -> Job]
      PROVE  AgentTypeOK'
  BY <1>1 DEF AgentTypeOK
<1>2. EndAttempt(w) => job' \in [Workers -> Job]
  BY JobMoves DEF EndAttempt
<1>3. ASSUME NEW r \in Runs, StartAttempt(w, r) PROVE AgentTypeOK'
  BY <1>1, <1>3, JobMoves DEF StartAttempt
<1>4. CASE Prepare(w)
  BY <1>1, <1>4, StagedJob, RaisedJob DEF Prepare, ReportError
<1>5. Busy(w) => /\ held[w].run \in Runs /\ held[w].lease \in Nat
                 /\ run[held[w].run] \in ReportRunRow
                 /\ artifact[held[w].run] \in Artifact
  BY WorkTyped DEF AgentTypeOK
<1>6. CASE CallAgent(w)
  <2>1. job' \in [Workers -> Job]
    BY <1>6, StagedJob, RaisedJob DEF CallAgent, ReportError
  <2>2. session' \in [Runs -> Session]
    BY <1>5, <1>6 DEF CallAgent, At, AgentTypeOK
  <2> QED
    BY <1>6, <2>1, <2>2 DEF CallAgent, AgentTypeOK
<1>7. CASE CallBreaks(w)
  BY <1>1, <1>7, RaisedJob DEF CallBreaks, ReportError
<1>8. CASE ReadReport(w)
  <2>1. /\ held[w].run \in Runs /\ run[held[w].run].ir \in Nat
        /\ artifact[held[w].run].by \in Nat
    BY <1>5, <1>8 DEF ReadReport, At, ReportRunRow, Artifact
  <2>2. [job[w] EXCEPT !.stage = "RENDER", !.ir = run[held[w].run].ir,
                       !.seen = artifact[held[w].run].by] \in Job
    BY <2>1, JobTyped DEF Job
  <2> QED
    BY <1>1, <1>8, <2>2, JobMoves, RaisedJob DEF ReadReport, ReportError
<1>9. CASE Persist(w)
  <2>1. [by |-> held[w].lease, ir |-> job[w].ir] \in Artifact
    BY <1>5, <1>9, JobTyped DEF Persist, At, Artifact
  <2>2. artifact' \in [Runs -> Artifact]
    BY <1>9, <2>1 DEF Persist, AgentTypeOK
  <2>3. marks' \in [Runs -> SUBSET Accident]
    BY <1>5, <1>9, LateMarked DEF Persist, At, AgentTypeOK
  <2>4. job' \in [Workers -> Job]
    BY <1>9, StagedJob, RaisedJob DEF Persist, ReportError
  <2> QED
    BY <1>9, <2>2, <2>3, <2>4 DEF Persist, AgentTypeOK
<1>10. CASE PersistFails(w)
  <2>1. [job[w] EXCEPT !.stage = "COMPLETE", !.dropped = TRUE] \in Job
    BY JobTyped DEF Job
  <2> QED
    BY <1>1, <1>10, <2>1, JobMoves DEF PersistFails
<1>11. CASE CompleteReport(w)
  <2>1. artifact' \in [Runs -> Artifact]
    BY <1>11 DEF CompleteReport, WithoutSeen, AgentTypeOK
  <2> QED
    BY <1>2, <1>11, <2>1 DEF CompleteReport, AgentTypeOK
<1>12. CASE CompleteAsk(w) \/ FailAttempt(w) \/ AttemptIsOver(w) \/ WorkerDies(w)
  BY <1>1, <1>2, <1>12 DEF CompleteAsk, FailAttempt, AttemptIsOver, WorkerDies
<1> QED
  BY <1>3, <1>4, <1>6, <1>7, <1>8, <1>9, <1>10, <1>11, <1>12 DEF Attempt

\* The agent service and its calls.
LEMMA AgentTyped ==
    ASSUME ReportTypeOK, AgentTypeOK, Agent
    PROVE  AgentTypeOK'
<1>1. ASSUME NEW c \in calls, NEW s \in Session, Reply(c, s)
      PROVE  session' \in [Runs -> Session]
  <2>1. c.run \in Runs /\ session \in [Runs -> Session]
    BY CallTyped DEF AgentTypeOK
  <2> QED
    BY <1>1, <2>1 DEF Reply
<1>2. ASSUME NEW r \in Runs, NEW outcome \in {"ASK", "READ", "ERROR"},
             SessionEnds(r, outcome)
      PROVE  AgentTypeOK'
  <2>1. NewSession(NoToken) \in Session
    BY AgentRecordsTyped
  <2>2. session' \in [Runs -> Session]
    BY <1>2, <2>1 DEF SessionEnds, AgentTypeOK
  <2>3. \A w \in Workers :
           [job[w] EXCEPT !.stage = outcome,
                          !.error = IF outcome = "ERROR" THEN "RETRYABLE" ELSE "NONE"]
              \in Job
    BY JobTyped DEF Job, ReportError
  <2>4. job' \in [Workers -> Job]
    BY <1>2, <2>3, JobTyped DEF SessionEnds
  <2> QED
    BY <1>2, <2>2, <2>4 DEF SessionEnds, AgentTypeOK
<1>3. ASSUME NEW r \in Runs, NEW op \in {"DRAFT", "PATCH", "CLARIFY", "SUBMIT"},
             NEW asks \in SUBSET Fields, Authorize(r, op, asks)
      PROVE  AgentTypeOK'
  <2>1. session[r].token \in Nat /\ run[r].draft \in Nat
    BY DEF ReportTypeOK, ReportRunRow, AgentTypeOK, Session
  <2>2. [run |-> r, token |-> session[r].token, op |-> op,
         draft |-> IF op = "DRAFT" THEN session[r].token ELSE run[r].draft,
         asks |-> asks, known |-> {f \in Fields : question[r][f] # "NONE"}] \in Call
    BY <2>1 DEF Call
  <2>3. calls' \subseteq Call
    BY <1>3, <2>2 DEF Authorize, AgentTypeOK
  <2> QED
    BY <1>3, <2>3 DEF Authorize, AgentTypeOK
<1>4. ASSUME NEW c \in calls, CommitDraft(c) \/ CommitSubmit(c)
      PROVE  AgentTypeOK'
  <2>1. marks' \in [Runs -> SUBSET Accident]
    BY <1>4, CallTyped, LateMarked DEF CommitDraft, CommitSubmit
  <2>2. /\ [session[c.run] EXCEPT !.saved = TRUE] \in Session
        /\ [session[c.run] EXCEPT !.submitted = TRUE] \in Session
    BY CallTyped DEF Session
  <2>3. session' \in [Runs -> Session]
    BY <1>1, <1>4, <2>2 DEF CommitDraft, CommitSubmit
  <2> QED
    BY <1>4, <2>1, <2>3 DEF CommitDraft, CommitSubmit, AgentTypeOK
<1>5. ASSUME NEW c \in calls, CommitClarify(c) PROVE AgentTypeOK'
  <2>1. marks' \in [Runs -> SUBSET Accident]
    BY <1>5, CallTyped, LateMarked DEF CommitClarify
  <2>2. \A b \in BOOLEAN : [session[c.run] EXCEPT !.asked = b] \in Session
    BY CallTyped DEF Session
  <2>3. session[c.run].asked \in BOOLEAN
    BY CallTyped DEF Session
  <2>4. session' \in [Runs -> Session]
    BY <1>1, <1>5, <2>2, <2>3 DEF CommitClarify
  <2>5. [f \in Fields |-> IF f \in c.asks \ c.known THEN "OPEN"
                           ELSE question[c.run][f]] \in [Fields -> QuestionStatus]
    BY CallTyped DEF AgentTypeOK, QuestionStatus
  <2>6. question' \in [Runs -> [Fields -> QuestionStatus]]
    BY <1>5, <2>5 DEF CommitClarify, AgentTypeOK
  <2> QED
    BY <1>5, <2>1, <2>4, <2>6 DEF CommitClarify, AgentTypeOK
<1>6. ASSUME NEW c \in calls, CallFails(c) PROVE AgentTypeOK'
  BY <1>6 DEF CallFails, AgentTypeOK
<1> QED
  BY <1>2, <1>3, <1>4, <1>5, <1>6 DEF Agent

LEMMA UserTyped ==
    ASSUME ReportTypeOK, AgentTypeOK, User
    PROVE  AgentTypeOK'
<1>1. NoRequest \in Answering \cup {NoRequest}
  OBVIOUS
<1>2. ASSUME NEW u \in Requests, NEW r \in Runs, OpenAnswer(u, r)
      PROVE  AgentTypeOK'
  <2>1. [run |-> r, open |-> Open(r)] \in Answering
    BY DEF Answering, Open
  <2>2. answering' \in [Requests -> Answering \cup {NoRequest}]
    BY <1>2, <2>1 DEF OpenAnswer, AgentTypeOK
  <2> QED
    BY <1>2, <2>2 DEF OpenAnswer, AgentTypeOK
<1>3. ASSUME NEW u \in Requests, NEW answers \in SUBSET Fields, Answer(u, answers)
      PROVE  AgentTypeOK'
  <2>1. answering[u] \in Answering /\ answering[u].run \in Runs
    BY <1>3 DEF Answer, AgentTypeOK, Answering
  <2>2. PICK r \in Runs : r = answering[u].run
    BY <2>1
  <2>3. [f \in Fields |-> IF f \in answers THEN "ANSWERED" ELSE question[r][f]]
           \in [Fields -> QuestionStatus]
    BY DEF AgentTypeOK, QuestionStatus
  <2>4. question' \in [Runs -> [Fields -> QuestionStatus]]
    BY <1>3, <2>2, <2>3 DEF Answer, AgentTypeOK
  <2>5. marks' \in [Runs -> SUBSET Accident]
    BY <1>3, <2>2, AccidentMarked DEF Answer, Accident
  <2>6. answering' \in [Requests -> Answering \cup {NoRequest}]
    BY <1>1, <1>3 DEF Answer, AgentTypeOK
  <2> QED
    BY <1>3, <2>4, <2>5, <2>6 DEF Answer, AgentTypeOK
<1>4. ASSUME NEW u \in Requests, AnswerRefused(u) PROVE AgentTypeOK'
  <2>1. answering' \in [Requests -> Answering \cup {NoRequest}]
    BY <1>1, <1>4 DEF AnswerRefused, AgentTypeOK
  <2> QED
    BY <1>4, <2>1 DEF AnswerRefused, AgentTypeOK
<1>5. ASSUME NEW r \in Runs, RetryAgain(r) PROVE AgentTypeOK'
  <2>1. marks' \in [Runs -> SUBSET Accident]
    BY <1>5, AccidentMarked DEF RetryAgain, Accident
  <2> QED
    BY <1>5, <2>1 DEF RetryAgain, AgentTypeOK
<1>6. ASSUME NEW r \in Runs, BeginDelete(r) PROVE AgentTypeOK'
  <2>1. purging' \in [Runs -> Nat]
    BY <1>6 DEF BeginDelete, AgentTypeOK, Artifact
  <2> QED
    BY <1>6, <2>1 DEF BeginDelete, AgentTypeOK
<1>7. ASSUME NEW r \in Runs, FinishDelete(r) PROVE AgentTypeOK'
  <2>1. WithoutSeen(r, purging[r]) \in Artifact /\ NoQuestions \in [Fields -> QuestionStatus]
    BY AgentRecordsTyped DEF WithoutSeen, AgentTypeOK
  <2>2. /\ artifact' \in [Runs -> Artifact] /\ purging' \in [Runs -> Nat]
        /\ question' \in [Runs -> [Fields -> QuestionStatus]]
    BY <1>7, <2>1 DEF FinishDelete, AgentTypeOK
  <2> QED
    BY <1>7, <2>2 DEF FinishDelete, AgentTypeOK
<1> QED
  BY <1>2, <1>3, <1>4, <1>5, <1>6, <1>7 DEF User

LEMMA AgentTypeStep ==
    ReportTypeOK /\ AgentTypeOK /\ [Next]_vars => AgentTypeOK'
<1> SUFFICES ASSUME ReportTypeOK, AgentTypeOK, [Next]_vars PROVE AgentTypeOK'
  OBVIOUS
<1>1. CASE UNCHANGED agentVars
  BY <1>1 DEF agentVars, AgentTypeOK
<1> QED
  BY <1>1, AttemptTyped, AgentTyped, UserTyped DEF Next, Elsewhere, vars

-----------------------------------------------------------------------------
(* Every step of an attempt, its agent and its users is one of ReportQueue. *)

LEMMA AttemptIsReportStep ==
    ASSUME ReportTypeOK, AgentTypeOK, AgentBounds, NEW w \in Workers, Attempt(w)
    PROVE  ReportNext \/ UNCHANGED reportVars
<1>1. WorkerStep(w) => ReportNext
  BY DEF ReportNext
<1>2. ASSUME NEW r \in Runs, StartAttempt(w, r) PROVE WorkerStep(w)
  BY <1>2 DEF StartAttempt, WorkerStep
<1>3. CASE CallBreaks(w) \/ PersistFails(w)
  BY <1>3 DEF CallBreaks, PersistFails, ReportNext, Mishap
<1>4. CASE Prepare(w) \/ CallAgent(w) \/ ReadReport(w) \/ Persist(w)
  BY <1>4 DEF Prepare, CallAgent, ReadReport, Persist
<1>5. CASE CompleteReport(w)
  <2>1. Busy(w) /\ job[w].ir \in Nat /\ job[w].ir <= issued[held[w].run]
    BY <1>5, JobTyped DEF CompleteReport, At, AgentBounds, JobBounds
  <2>2. job[w].ir \in 0..issued[held[w].run]
    BY <2>1, WorkTyped
  <2> QED
    BY <1>1, <1>5, <2>1, <2>2 DEF CompleteReport, WorkerStep
<1>6. CASE FailAttempt(w)
  <2>1. job[w].error \in ReportError \ {"NONE", "MAX_ATTEMPTS_EXCEEDED"}
    BY <1>6 DEF FailAttempt, At, AgentBounds, JobBounds, ReportError
  <2> QED
    BY <1>1, <1>6, <2>1 DEF FailAttempt, WorkerStep
<1>7. CASE CompleteAsk(w) \/ AttemptIsOver(w) \/ WorkerDies(w)
  BY <1>1, <1>7 DEF CompleteAsk, AttemptIsOver, WorkerDies, WorkerStep
<1> QED
  BY <1>1, <1>2, <1>3, <1>4, <1>5, <1>6, <1>7 DEF Attempt

LEMMA AgentIsReportStep ==
    ASSUME ReportTypeOK, AgentTypeOK, AgentBounds, Agent
    PROVE  ReportNext \/ UNCHANGED reportVars
<1>1. ASSUME NEW r \in Runs, NEW outcome, SessionEnds(r, outcome)
      PROVE  UNCHANGED reportVars
  BY <1>1 DEF SessionEnds
<1>2. ASSUME NEW r \in Runs, NEW op, NEW asks, Authorize(r, op, asks)
      PROVE  UNCHANGED reportVars
  BY <1>2 DEF Authorize
<1>3. ASSUME NEW c \in calls, CommitDraft(c) \/ CommitSubmit(c)
      PROVE  ReportNext
  <2>1. PICK r \in Runs : r = c.run
    BY CallTyped
  <2>2. c.draft \in Nat /\ c.draft <= issued[r] /\ issued[r] \in Nat
    BY <2>1, CallTyped DEF AgentBounds, CallBounds, ReportTypeOK
  <2>3. c.draft \in 0..issued[r] /\ AgentWrites(r, c.draft)
    BY <1>3, <2>1, <2>2 DEF CommitDraft, CommitSubmit
  <2>4. RunStep(r)
    BY <2>3 DEF RunStep
  <2> QED
    BY <2>4 DEF ReportNext
<1>4. ASSUME NEW c \in calls, CommitClarify(c) \/ CallFails(c)
      PROVE  UNCHANGED reportVars
  BY <1>4 DEF CommitClarify, CallFails
<1> QED
  BY <1>1, <1>2, <1>3, <1>4 DEF Agent

LEMMA UserIsReportStep ==
    ASSUME ReportTypeOK, AgentTypeOK, User
    PROVE  ReportNext \/ UNCHANGED reportVars
<1>1. \A r \in Runs : RunStep(r) => ReportNext
  BY DEF ReportNext
<1>2. ASSUME NEW u \in Requests, NEW r \in Runs, OpenAnswer(u, r)
      PROVE  UNCHANGED reportVars
  BY <1>2 DEF OpenAnswer
<1>3. ASSUME NEW u \in Requests, AnswerRefused(u) PROVE UNCHANGED reportVars
  BY <1>3 DEF AnswerRefused
<1>4. ASSUME NEW u \in Requests, NEW answers, Answer(u, answers)
      PROVE  ReportNext \/ UNCHANGED reportVars
  <2>1. answering[u].run \in Runs
    BY <1>4 DEF Answer, AgentTypeOK, Answering
  <2> QED
    BY <1>1, <1>4, <2>1 DEF Answer, RunStep
<1>5. ASSUME NEW r \in Runs, RetryAgain(r) \/ BeginDelete(r) \/ FinishDelete(r)
      PROVE  ReportNext
  BY <1>1, <1>5 DEF RetryAgain, BeginDelete, FinishDelete, RunStep, Request
<1> QED
  BY <1>2, <1>3, <1>4, <1>5 DEF User

LEMMA AgentStepSimulates ==
    ReportTypeOK /\ AgentTypeOK /\ AgentBounds /\ [Next]_vars
       => [ReportNext]_reportVars
<1> SUFFICES ASSUME ReportTypeOK, AgentTypeOK, AgentBounds, [Next]_vars
             PROVE  ReportNext \/ UNCHANGED reportVars
  OBVIOUS
<1>1. CASE Elsewhere
  BY <1>1 DEF Elsewhere, ReportNext, RunStep, Request, WorkerStep
<1> QED
  BY <1>1, AttemptIsReportStep, AgentIsReportStep, UserIsReportStep DEF Next, vars

-----------------------------------------------------------------------------
(* What the steps of ReportQueue leave of a report *)

SameReport(r, s) == s.draft = r.draft /\ s.ir = r.ir /\ s.manifest = r.manifest

LEMMA SimpleRowsKeepReport ==
    ASSUME NEW r \in ReportRunRow
    PROVE  /\ SameReport(r, CancelRun(r)) /\ SameReport(r, MarkStale(r))
           /\ SameReport(r, ExhaustRun(r)) /\ SameReport(r, MarkReportPending(r))
           /\ SameReport(r, ReleaseReport(r))
           /\ SameReport(r, [r EXCEPT !.live = FALSE])
           /\ SameReport(r, [r EXCEPT !.due = TRUE, !.dispatchDue = TRUE])
<1>1. SameReport(r, CancelRun(r)) /\ SameReport(r, MarkStale(r))
  BY DEF SameReport, CancelRun, MarkStale, ReportRunRow
<1>2. SameReport(r, ExhaustRun(r)) /\ SameReport(r, MarkReportPending(r))
  BY DEF SameReport, ExhaustRun, MarkReportPending, ReportRunRow
<1>3. /\ SameReport(r, ReleaseReport(r))
      /\ SameReport(r, [r EXCEPT !.live = FALSE])
      /\ SameReport(r, [r EXCEPT !.due = TRUE, !.dispatchDue = TRUE])
  BY DEF SameReport, ReleaseReport, ReportRunRow
<1> QED
  BY <1>1, <1>2, <1>3

LEMMA RestartsKeepReport ==
    ASSUME NEW r \in ReportRunRow
    PROVE  SameReport(r, RetryRun(r)) /\ SameReport(r, ResumeRun(r))
<1> DEFINE a == [r EXCEPT !.state = "PENDING", !.attempts = 0, !.due = TRUE,
                          !.error = "NONE", !.resumed = FALSE]
           b == [r EXCEPT !.state = "PENDING", !.due = TRUE, !.error = "NONE",
                          !.resumed = TRUE]
<1>1. a \in ReportRunRow /\ SameReport(r, a)
  BY DEF SameReport, ReportRunRow, State, ReportError
<1>2. b \in ReportRunRow /\ SameReport(r, b)
  BY DEF SameReport, ReportRunRow, State, ReportError
<1>3. RetryRun(r) = MarkReportPending(a) /\ ResumeRun(r) = MarkReportPending(b)
  BY DEF RetryRun, ResumeRun
<1> HIDE DEF a, b
<1> QED
  BY <1>1, <1>2, <1>3, SimpleRowsKeepReport DEF SameReport

LEMMA FailureKeepsReport ==
    ASSUME NEW r \in ReportRunRow, NEW n \in Nat, NEW error \in ReportError
    PROVE  SameReport(r, FailRun(r, n, error))
<1> DEFINE failed == [r EXCEPT !.lease = NoToken, !.live = FALSE, !.error = error]
           Ended(p, state, due) == [p EXCEPT !.state = state, !.due = due]
<1>1. failed \in ReportRunRow /\ SameReport(r, failed)
  BY DEF SameReport, ReportRunRow, NoToken
<1>2. FailRun(r, n, error) \in {Ended(ReleaseReport(failed), "PENDING", FALSE),
                                Ended(failed, "FAILED", TRUE)}
  BY DEF FailRun
<1> HIDE DEF failed
<1>3. \A p \in ReportRunRow, state \in State, due \in BOOLEAN :
         SameReport(p, Ended(p, state, due))
  BY DEF SameReport, ReportRunRow
<1>4. ReleaseReport(failed) \in ReportRunRow /\ SameReport(failed, ReleaseReport(failed))
  BY <1>1, ReleasedRow, SimpleRowsKeepReport
<1> HIDE DEF Ended
<1>5. SameReport(ReleaseReport(failed), Ended(ReleaseReport(failed), "PENDING", FALSE))
  BY <1>3, <1>4 DEF State
<1>6. SameReport(failed, Ended(failed, "FAILED", TRUE))
  BY <1>1, <1>3 DEF State
<1>7. CASE FailRun(r, n, error) = Ended(ReleaseReport(failed), "PENDING", FALSE)
  BY <1>1, <1>4, <1>5, <1>7 DEF SameReport
<1>8. CASE FailRun(r, n, error) = Ended(failed, "FAILED", TRUE)
  BY <1>1, <1>6, <1>8 DEF SameReport
<1> QED
  BY <1>2, <1>7, <1>8

LEMMA EndedReports ==
    ASSUME NEW r \in ReportRunRow, NEW t \in Nat
    PROVE  /\ TakeReportLease(r, t).draft = NoToken
           /\ TakeReportLease(r, t).ir = r.ir
           /\ Succeed(r, t).draft = r.draft
           /\ Succeed(r, t).ir = t /\ Succeed(r, t).manifest = t
           /\ AwaitInput(r).draft = r.draft /\ AwaitInput(r).ir = NoToken
<1>1. /\ TakeReportLease(r, t).draft = NoToken
      /\ TakeReportLease(r, t).ir = r.ir
  BY DEF TakeReportLease, ReportRunRow
<1>2. /\ Succeed(r, t).draft = r.draft
      /\ Succeed(r, t).ir = t /\ Succeed(r, t).manifest = t
      /\ AwaitInput(r).draft = r.draft /\ AwaitInput(r).ir = NoToken
  BY DEF Succeed, AwaitInput, ReportRunRow
<1> QED
  BY <1>1, <1>2

\* No report belongs to a run that is not there.
LEMMA NoReportOfNoRun ==
    /\ NoRun.draft = NoToken /\ NoRun.ir = NoToken /\ NoRun.manifest = NoToken
    /\ SameReport(NoRun, DeletedRun) /\ SameReport(NoRun, CreatedRun)
<1>1. SameReport(NoRun, DeletedRun)
  BY DEF SameReport, NoRun, DeletedRun
<1>2. SameReport(NoRun, CreatedRun)
  BY DEF SameReport, NoRun, CreatedRun, MarkReportPending
<1> QED
  BY <1>1, <1>2 DEF NoRun

-----------------------------------------------------------------------------
(* Most steps are calm: they bring no run nearer to being published, asked   *)
(* about or deleted, and no attempt nearer to its end.                       *)

CalmState(q) ==
    /\ run'[q].state = "PROCESSING" =>
          run[q].state = "PROCESSING" /\ run'[q].lease = run[q].lease
    /\ run'[q].state \in {"SUCCEEDED", "NEEDS_INPUT", "DELETED"} =>
          run'[q].state = run[q].state
    /\ Exists(q) => run'[q].state \notin {"ABSENT", "DELETED"}
    /\ run'[q].state \in Active => \/ run[q].state \in Active
                                   \/ q \notin deleting
                                   \/ "REACTIVATED" \in marks'[q]

StatesCalm == \A q \in Runs : CalmState(q)

ReportsKept == \A q \in Runs : SameReport(run[q], run'[q])

IssuedGrows == \A q \in Runs : issued[q] <= issued'[q]

SessionCalm(q) ==
    \/ /\ session'[q].token = session[q].token
       /\ session'[q].submitted => session[q].submitted
       /\ session'[q].asked => session[q].asked
    \/ /\ session'[q].token \in 0..issued'[q]
       /\ ~session'[q].submitted /\ ~session'[q].asked

SessionsCalm == \A q \in Runs : SessionCalm(q)

JobCalm(v) ==
    \/ held'[v] = held[v] /\ job'[v] = job[v]
    \/ held'[v] = NoWork /\ job'[v] = NoJob
    \/ /\ held'[v] = held[v] /\ job'[v].ir = job[v].ir /\ ~job'[v].dropped
       /\ \/ job'[v].stage \in {"CALL", "WAIT"}
          \/ /\ job'[v].stage = "ERROR"
             /\ job'[v].error \in {"RETRYABLE", "FATAL", "AGENT_BUSY"}

JobsCalm == \A v \in Workers : JobCalm(v)

\* A lease that is in force after a calm step was in force before it.
LEMMA LeaseWasInForce ==
    ASSUME StatesCalm, NEW q \in Runs, NEW t, HoldsReportLease(run'[q], t)
    PROVE  HoldsReportLease(run[q], t)
  BY DEF StatesCalm, CalmState, HoldsReportLease

LEMMA ClaimWasInForce ==
    ASSUME ReportTypeOK, StatesCalm, NEW w \in Workers,
           held'[w] = held[w], Holds(w)'
    PROVE  Holds(w) /\ held[w].run \in Runs
<1>1. Busy(w) /\ HoldsReportLease(run'[held[w].run], held[w].lease)
  BY DEF Holds, Busy
<1>2. held[w].run \in Runs
  BY <1>1, WorkTyped
<1> QED
  BY <1>1, <1>2, LeaseWasInForce DEF Holds

LEMMA JobsStayBounded ==
    ASSUME ReportTypeOK, AgentTypeOK, JobBounds, IssuedGrows, ReportTypeOK', JobsCalm
    PROVE  JobBounds'
<1> SUFFICES ASSUME NEW v \in Workers
             PROVE  /\ held'[v] # NoWork => job'[v].ir <= issued'[held'[v].run]
                    /\ job'[v].stage = "ERROR" =>
                          job'[v].error \in {"RETRYABLE", "FATAL", "AGENT_BUSY"}
                    /\ job'[v].dropped => job'[v].stage = "COMPLETE"
  BY DEF JobBounds, Busy
<1>1. CASE held'[v] = NoWork /\ job'[v] = NoJob
  BY <1>1 DEF NoJob, NewJob
<1>2. CASE held'[v] = held[v] /\ job'[v].ir = job[v].ir
  <2>1. held'[v] # NoWork => job'[v].ir <= issued'[held'[v].run]
    <3> SUFFICES ASSUME held[v] # NoWork
                 PROVE  job[v].ir <= issued'[held[v].run]
      BY <1>2
    <3>1. PICK q \in Runs : q = held[v].run
      BY WorkTyped DEF Busy
    <3>2. job[v].ir <= issued[q] /\ issued[q] <= issued'[q]
      BY <3>1 DEF JobBounds, Busy, IssuedGrows
    <3>3. job[v].ir \in Nat /\ issued[q] \in Nat /\ issued'[q] \in Nat
      BY JobTyped DEF ReportTypeOK
    <3> QED
      BY <3>1, <3>2, <3>3
  <2>2. CASE job'[v] = job[v]
    BY <2>1, <2>2 DEF JobBounds
  <2>3. CASE /\ ~job'[v].dropped
             /\ job'[v].stage = "ERROR" =>
                   job'[v].error \in {"RETRYABLE", "FATAL", "AGENT_BUSY"}
    BY <2>1, <2>3
  <2>4. CASE job'[v] = NoJob
    BY <2>1, <2>4 DEF NoJob, NewJob
  <2> QED
    BY <2>2, <2>3, <2>4 DEF JobsCalm, JobCalm
<1> QED
  BY <1>1, <1>2 DEF JobsCalm, JobCalm

LEMMA CallsStayBounded ==
    ASSUME ReportTypeOK, ReportTypeOK', AgentTypeOK, CallBounds, IssuedGrows,
           calls' \subseteq calls
    PROVE  CallBounds'
<1> SUFFICES ASSUME NEW c \in calls'
             PROVE  /\ c.token # NoToken /\ c.token <= issued'[c.run]
                    /\ c.draft <= issued'[c.run]
  BY DEF CallBounds
<1>1. c \in calls
  OBVIOUS
<1>2. PICK r \in Runs : r = c.run
  BY <1>1, CallTyped
<1>3. /\ c.token \in Nat /\ c.draft \in Nat /\ issued[r] \in Nat /\ issued'[r] \in Nat
  BY <1>1, CallTyped DEF ReportTypeOK
<1>4. /\ c.token # NoToken /\ c.token <= issued[r] /\ c.draft <= issued[r]
      /\ issued[r] <= issued'[r]
  BY <1>1, <1>2 DEF CallBounds, IssuedGrows
<1> QED
  BY <1>2, <1>3, <1>4

LEMMA RunsStayBounded ==
    ASSUME ReportTypeOK, ReportTypeOK', AgentTypeOK, RunBounds, IssuedGrows,
           SessionsCalm,
           \A q \in Runs : /\ run'[q].draft = run[q].draft \/ run'[q].draft <= issued[q]
                           /\ run'[q].ir = run[q].ir \/ run'[q].ir <= issued[q]
    PROVE  RunBounds'
<1> SUFFICES ASSUME NEW q \in Runs
             PROVE  /\ session'[q].token <= issued'[q]
                    /\ run'[q].draft <= issued'[q] /\ run'[q].ir <= issued'[q]
  BY DEF RunBounds
<1>1. /\ issued[q] \in Nat /\ issued'[q] \in Nat /\ issued[q] <= issued'[q]
      /\ run'[q].draft \in Nat /\ run'[q].ir \in Nat /\ session[q].token \in Nat
  BY DEF ReportTypeOK, ReportRunRow, IssuedGrows, AgentTypeOK, Session
<1>2. /\ run'[q].draft <= issued[q] /\ run'[q].ir <= issued[q]
  BY DEF RunBounds
<1>3. session'[q].token <= issued'[q]
  <2>1. SessionCalm(q) /\ session[q].token <= issued[q]
    BY DEF SessionsCalm, RunBounds
  <2> QED
    BY <1>1, <2>1 DEF SessionCalm
<1> QED
  BY <1>1, <1>2, <1>3

\* What a calm step keeps, part by part.
LEMMA OwnWorkKept ==
    ASSUME ReportTypeOK, AgentTypeOK, OwnWork, StatesCalm, ReportsKept, MarksGrow,
           SessionsCalm, calls' \subseteq calls
    PROVE  OwnWork'
<1>1. \A q \in Runs : "LATE" \notin marks'[q] => "LATE" \notin marks[q]
  BY DEF MarksGrow
<1>2. DraftOfThisAttempt'
  BY <1>1 DEF OwnWork, DraftOfThisAttempt, StatesCalm, CalmState, ReportsKept, SameReport
<1>3. \A c \in calls' : c.op # "CLARIFY" /\ InTime(c.run)' => c.draft = c.token
  BY <1>1, CallTyped DEF OwnWork, InTime
<1>4. ASSUME NEW q \in Runs, HoldsReportLease(run'[q], session'[q].token),
             session'[q].submitted, InTime(q)'
      PROVE  run'[q].ir = session'[q].token
  <2>1. HoldsReportLease(run[q], session'[q].token) /\ InTime(q)
    BY <1>1, <1>4, LeaseWasInForce DEF InTime
  <2>2. session'[q].token = session[q].token /\ session[q].submitted
    BY <1>4 DEF SessionsCalm, SessionCalm
  <2>3. run[q].ir = session[q].token
    BY <1>4, <2>1, <2>2 DEF OwnWork
  <2> QED
    BY <2>2, <2>3 DEF ReportsKept, SameReport
<1> QED
  BY <1>2, <1>3, <1>4 DEF OwnWork

LEMMA OwnReportKept ==
    ASSUME ReportTypeOK, AgentTypeOK, OwnReport, StatesCalm, MarksGrow, JobsCalm,
           \A q \in Runs : run'[q].ir = run[q].ir /\ run'[q].manifest = run[q].manifest,
           UNCHANGED artifact
    PROVE  OwnReport'
<1>1. \A q \in Runs : "LATE" \notin marks'[q] => "LATE" \notin marks[q]
  BY DEF MarksGrow
<1>2. PublishedReportConsistent'
  BY <1>1 DEF OwnReport, PublishedReportConsistent, StatesCalm, CalmState
<1>3. ASSUME NEW v \in Workers, Holds(v)', "LATE" \notin marks'[held'[v].run]
      PROVE  /\ job'[v].stage = "READ" => run'[held'[v].run].ir = held'[v].lease
             /\ job'[v].stage \in {"RENDER", "COMPLETE"} => job'[v].ir = held'[v].lease
             /\ job'[v].stage = "RENDER" => artifact'[held'[v].run].by = job'[v].seen
             /\ job'[v].stage = "COMPLETE" =>
                   IF job'[v].dropped THEN artifact'[held'[v].run].by = job'[v].seen
                                      ELSE artifact'[held'[v].run].ir = job'[v].ir
  <2>1. held'[v] # NoWork
    BY <1>3 DEF Holds, Busy
  <2>2. CASE job'[v] = job[v] /\ held'[v] = held[v]
    <3>1. Holds(v) /\ held[v].run \in Runs
      BY <1>3, <2>2, ClaimWasInForce
    <3>2. PICK r \in Runs : r = held[v].run
      BY <3>1
    <3>3. InTime(r)
      BY <1>1, <1>3, <2>2, <3>2 DEF InTime
    <3>4. run'[r].ir = run[r].ir /\ artifact' = artifact
      OBVIOUS
    <3> QED
      BY <2>2, <3>1, <3>2, <3>3, <3>4 DEF OwnReport
  <2>3. CASE job'[v].stage \in {"CALL", "WAIT", "ERROR"}
    BY <2>3
  <2> QED
    BY <2>1, <2>2, <2>3 DEF JobsCalm, JobCalm
<1> QED
  BY <1>2, <1>3 DEF OwnReport, InTime

\* A run keeps having something to ask for as long as it can matter.
LEMMA AskedKept ==
    ASSUME ReportTypeOK, AgentTypeOK, AskedIsOpen, StatesCalm, MarksGrow,
           SessionsCalm,
           \A v \in Workers : \/ job'[v].stage # "ASK"
                              \/ held'[v] = held[v] /\ job'[v] = job[v],
           \A q \in Runs : \/ run'[q].state \notin {"PROCESSING", "NEEDS_INPUT"}
                           \/ Open(q) # {} => Open(q)' # {}
    PROVE  AskedIsOpen'
<1>1. WaitingRunHasQuestion'
  <2> SUFFICES ASSUME NEW q \in Runs, run'[q].state = "NEEDS_INPUT",
                      "OVERLAP" \notin marks'[q]
               PROVE  Open(q)' # {}
    BY DEF WaitingRunHasQuestion
  <2>1. run[q].state = "NEEDS_INPUT" /\ "OVERLAP" \notin marks[q]
    BY DEF StatesCalm, CalmState, MarksGrow
  <2> QED
    BY <2>1 DEF AskedIsOpen, WaitingRunHasQuestion
<1>2. ASSUME NEW q \in Runs, HoldsReportLease(run'[q], session'[q].token),
             session'[q].asked
      PROVE  Open(q)' # {}
  <2>1. session'[q].token = session[q].token /\ session[q].asked
    BY <1>2 DEF SessionsCalm, SessionCalm
  <2>2. HoldsReportLease(run[q], session[q].token)
    BY <1>2, <2>1, LeaseWasInForce
  <2>3. Open(q) # {} /\ run'[q].state = "PROCESSING"
    BY <1>2, <2>1, <2>2 DEF AskedIsOpen, HoldsReportLease
  <2> QED
    BY <2>3
<1>3. ASSUME NEW v \in Workers, Holds(v)', job'[v].stage = "ASK"
      PROVE  {f \in Fields : question'[held'[v].run][f] = "OPEN"} # {}
  <2>1. held'[v] = held[v] /\ job'[v] = job[v]
    BY <1>3
  <2>2. Holds(v) /\ held[v].run \in Runs
    BY <1>3, <2>1, ClaimWasInForce
  <2>3. PICK r \in Runs : r = held[v].run
    BY <2>2
  <2>4. Open(r) # {}
    BY <1>3, <2>1, <2>2, <2>3 DEF AskedIsOpen
  <2>5. run'[r].state = "PROCESSING"
    BY <1>3, <2>1, <2>3 DEF Holds, HoldsReportLease
  <2>6. Open(r)' # {}
    BY <2>4, <2>5
  <2> QED
    BY <2>1, <2>3, <2>6 DEF Open
<1> QED
  BY <1>1, <1>2, <1>3 DEF AskedIsOpen, Open

LEMMA DeletionKept ==
    ASSUME ReportTypeOK, AgentTypeOK, DeletionComplete, StatesCalm, MarksGrow,
           UNCHANGED <<deleting, purging, artifact>>,
           \A q \in Runs : run'[q].state # "DELETED" \/ question'[q] = question[q]
    PROVE  DeletionComplete'
<1>1. \A q \in Runs : marks'[q] \subseteq {"OVERLAP"} => marks[q] \subseteq {"OVERLAP"}
  BY DEF MarksGrow
<1>2. DeletedLeavesNothing'
  BY <1>1 DEF DeletionComplete, DeletedLeavesNothing, StatesCalm, CalmState
<1>3. ASSUME NEW q \in deleting
      PROVE  /\ run'[q].state \notin {"ABSENT", "DELETED"}
             /\ marks'[q] \subseteq {"OVERLAP"} =>
                   run'[q].state \notin Active /\ artifact[q].by = purging[q]
  <2>1. q \in Runs /\ Exists(q)
    BY DEF DeletionComplete, ReportTypeOK
  <2>2. marks[q] \subseteq {"OVERLAP"} =>
           run[q].state \notin Active /\ artifact[q].by = purging[q]
    BY DEF DeletionComplete
  <2> QED
    BY <1>1, <2>1, <2>2 DEF StatesCalm, CalmState
<1> QED
  BY <1>2, <1>3 DEF DeletionComplete, Exists

CalmStep ==
    /\ StatesCalm /\ ReportsKept /\ IssuedGrows /\ MarksGrow
    /\ SessionsCalm /\ JobsCalm /\ calls' \subseteq calls
    /\ UNCHANGED <<deleting, purging, artifact, question>>

LEMMA CalmStepKeeps ==
    ASSUME ReportTypeOK, AgentTypeOK, ReportTypeOK', AgentInvariant, CalmStep
    PROVE  AgentInvariant'
<1>1. AgentBounds'
  BY RunsStayBounded, CallsStayBounded, JobsStayBounded
  DEF CalmStep, AgentInvariant, AgentBounds, ReportsKept, SameReport
<1>2. OwnWork'
  BY OwnWorkKept DEF CalmStep, AgentInvariant
<1>3. OwnReport'
  BY OwnReportKept DEF CalmStep, AgentInvariant, ReportsKept, SameReport
<1>4. AskedIsOpen'
  <2>1. \A v \in Workers : \/ job'[v].stage # "ASK"
                           \/ held'[v] = held[v] /\ job'[v] = job[v]
    BY DEF CalmStep, JobsCalm, JobCalm, NoJob, NewJob
  <2>2. \A q \in Runs : Open(q)' = Open(q)
    BY DEF CalmStep, Open
  <2> QED
    BY <2>1, <2>2, AskedKept DEF CalmStep, AgentInvariant
<1>5. DeletionComplete'
  BY DeletionKept DEF CalmStep, AgentInvariant
<1> QED
  BY <1>1, <1>2, <1>3, <1>4, <1>5 DEF AgentInvariant

\* A step that leaves the runs, or the sessions and the jobs, alone.
LEMMA QuietRuns ==
    ASSUME UNCHANGED run
    PROVE  StatesCalm /\ ReportsKept
  BY DEF StatesCalm, CalmState, ReportsKept, SameReport, Exists

LEMMA QuietTokens ==
    ASSUME ReportTypeOK, UNCHANGED issued
    PROVE  IssuedGrows
  BY DEF ReportTypeOK, IssuedGrows

LEMMA QuietAgent ==
    ASSUME AgentTypeOK
    PROVE  /\ UNCHANGED session => SessionsCalm
           /\ UNCHANGED <<held, job>> => JobsCalm
           /\ UNCHANGED marks => MarksGrow
  BY MarksStay DEF SessionsCalm, SessionCalm, JobsCalm, JobCalm

LEMMA CalmRow ==
    ASSUME ReportTypeOK, NEW r \in Runs, NEW row \in ReportRunRow, SetRun(r, row),
           SameReport(run[r], row),
           \/ row.state = run[r].state /\ row.lease = run[r].lease
           \/ /\ row.state \in {"PENDING", "FAILED", "CANCELLED", "STALE_DOCUMENT"}
              /\ row.state = "PENDING" => \/ run[r].state \in Active \/ r \notin deleting
                                          \/ "REACTIVATED" \in marks'[r]
    PROVE  StatesCalm /\ ReportsKept
<1>1. run'[r] = row /\ \A q \in Runs : q # r => run'[q] = run[q]
  BY SetRunRow
<1>2. CalmState(r) /\ SameReport(run[r], run'[r])
  BY <1>1 DEF CalmState, Exists, Active
<1>3. ASSUME NEW q \in Runs, q # r
      PROVE  CalmState(q) /\ SameReport(run[q], run'[q])
  BY <1>1, <1>3 DEF CalmState, Exists, SameReport
<1> QED
  BY <1>2, <1>3 DEF StatesCalm, ReportsKept

\* Creating, cancelling, retrying and losing a run, and the passing of time.
LEMMA RequestsAreCalm ==
    ASSUME ReportTypeOK, ReportInvariant, AgentTypeOK, DeletionComplete,
           NEW r \in Runs, MarksGrow,
           \/ Create(r) \/ Cancel(r) \/ DocumentChanges(r) \/ DetectStale(r)
           \/ LeaseLapse(r) \/ BecomesDue(r)
           \/ (Retry(r) \/ Resume(r))
                 /\ (r \in deleting => "REACTIVATED" \in marks'[r])
    PROVE  StatesCalm /\ ReportsKept
<1>1. run[r] \in ReportRunRow
  BY DEF ReportTypeOK
<1>2. CASE Create(r)
  <2>1. r \notin deleting
    BY <1>2 DEF Create, DeletionComplete, Exists
  <2>2. run[r] \in {NoRun, DeletedRun}
    BY <1>2 DEF Create, ReportInvariant, SoundRow
  <2>3. SameReport(run[r], CreatedRun)
    BY <2>2, NoReportOfNoRun DEF SameReport
  <2> QED
    BY <1>2, <2>1, <2>3, CreatedRow, CalmRow DEF Create
<1>3. CASE Cancel(r)
  BY <1>1, <1>3, CancelledRow, SimpleRowsKeepReport, CalmRow DEF Cancel
<1>4. CASE DetectStale(r)
  BY <1>1, <1>4, StaleRow, SimpleRowsKeepReport, CalmRow DEF DetectStale
<1>5. CASE DocumentChanges(r)
  BY <1>5, QuietRuns DEF DocumentChanges
<1>6. CASE LeaseLapse(r) \/ BecomesDue(r)
  <2>1. /\ [run[r] EXCEPT !.live = FALSE] \in ReportRunRow
        /\ [run[r] EXCEPT !.live = FALSE].state = run[r].state
        /\ [run[r] EXCEPT !.live = FALSE].lease = run[r].lease
    BY <1>1 DEF ReportRunRow
  <2>2. /\ [run[r] EXCEPT !.due = TRUE, !.dispatchDue = TRUE] \in ReportRunRow
        /\ [run[r] EXCEPT !.due = TRUE, !.dispatchDue = TRUE].state = run[r].state
        /\ [run[r] EXCEPT !.due = TRUE, !.dispatchDue = TRUE].lease = run[r].lease
    BY <1>1 DEF ReportRunRow
  <2>3. CASE LeaseLapse(r)
    BY <1>1, <2>1, <2>3, SimpleRowsKeepReport, CalmRow DEF LeaseLapse, SetRun
  <2>4. CASE BecomesDue(r)
    <3>1. SetRun(r, [run[r] EXCEPT !.due = TRUE, !.dispatchDue = TRUE])
      BY <2>4 DEF BecomesDue, SetRun, ReportTypeOK
    <3> QED
      BY <1>1, <2>2, <3>1, SimpleRowsKeepReport, CalmRow
  <2> QED
    BY <1>6, <2>3, <2>4
<1>7. CASE (Retry(r) \/ Resume(r)) /\ (r \in deleting => "REACTIVATED" \in marks'[r])
  BY <1>1, <1>7, RetriedRow, ResumedRow, RestartsKeepReport, CalmRow DEF Retry, Resume
<1> QED
  BY <1>2, <1>3, <1>4, <1>5, <1>6, <1>7

\* What becomes of the jobs when an attempt goes on, fails or is over.
LEMMA StagedCalm ==
    ASSUME AgentTypeOK, JobBounds, NEW w \in Workers, job[w].stage # "COMPLETE",
           NEW stage \in {"CALL", "WAIT"},
           SetJob(w, [job[w] EXCEPT !.stage = stage]), UNCHANGED held
    PROVE  JobsCalm
<1>1. /\ job'[w].stage = stage /\ job'[w].ir = job[w].ir
      /\ job'[w].dropped = job[w].dropped
      /\ \A v \in Workers : v # w => job'[v] = job[v]
  BY StagedJob
<1>2. ~job[w].dropped
  BY DEF JobBounds
<1>3. JobCalm(w)
  BY <1>1, <1>2 DEF JobCalm
<1> QED
  BY <1>1, <1>3 DEF JobsCalm, JobCalm

LEMMA RaisedCalm ==
    ASSUME AgentTypeOK, JobBounds, NEW w \in Workers, job[w].stage # "COMPLETE",
           NEW error \in {"RETRYABLE", "FATAL", "AGENT_BUSY"},
           Raise(w, error), UNCHANGED held
    PROVE  JobsCalm
<1>1. error \in ReportError
  BY DEF ReportError
<1>2. /\ job'[w].stage = "ERROR" /\ job'[w].error = error /\ job'[w].ir = job[w].ir
      /\ job'[w].dropped = job[w].dropped
      /\ \A v \in Workers : v # w => job'[v] = job[v]
  BY <1>1, RaisedJob
<1>3. ~job[w].dropped
  BY DEF JobBounds
<1>4. JobCalm(w)
  BY <1>2, <1>3 DEF JobCalm
<1> QED
  BY <1>2, <1>4 DEF JobsCalm, JobCalm

LEMMA EndedCalm ==
    ASSUME ReportTypeOK, AgentTypeOK, NEW w \in Workers, Release(w), EndAttempt(w)
    PROVE  JobsCalm
  BY DEF Release, EndAttempt, SetJob, ReportTypeOK, AgentTypeOK, JobsCalm, JobCalm

LEMMA EndKeepsClaims ==
    ASSUME ReportTypeOK, NEW w \in Workers, Release(w)
    PROVE  held'[w] = NoWork /\ \A v \in Workers : v # w => held'[v] = held[v]
  BY DEF Release, ReportTypeOK

-----------------------------------------------------------------------------
(* Every step keeps the invariant. *)

LEMMA ElsewhereKeeps ==
    ASSUME ReportTypeOK, ReportInvariant, AgentTypeOK, ReportTypeOK',
           AgentInvariant, Elsewhere
    PROVE  AgentInvariant'
<1>1. UNCHANGED agentVars /\ DeletionComplete
  BY DEF Elsewhere, AgentInvariant
<1>2. /\ SessionsCalm /\ MarksGrow /\ UNCHANGED <<calls, purging, artifact, question, job>>
  BY <1>1, QuietAgent DEF agentVars
<1>3. ASSUME NEW r \in Runs,
             \/ Create(r) \/ Cancel(r) \/ DocumentChanges(r) \/ DetectStale(r)
             \/ LeaseLapse(r) \/ BecomesDue(r)
      PROVE  CalmStep
  <2>1. StatesCalm /\ ReportsKept
    BY <1>1, <1>2, <1>3, RequestsAreCalm
  <2>2. UNCHANGED <<issued, held, deleting>>
    BY <1>3 DEF Create, Cancel, DocumentChanges, DetectStale, LeaseLapse, BecomesDue
  <2>3. IssuedGrows /\ JobsCalm
    BY <1>2, <2>2, QuietTokens, QuietAgent
  <2> QED
    BY <1>2, <2>1, <2>2, <2>3 DEF CalmStep
<1>4. ASSUME NEW w \in Workers, NEW r \in Runs, Exhaust(w, r)
      PROVE  CalmStep
  <2>1. run[r] \in ReportRunRow
    BY DEF ReportTypeOK
  <2>2. StatesCalm /\ ReportsKept
    BY <1>4, <2>1, ExhaustedRow, SimpleRowsKeepReport, CalmRow DEF Exhaust
  <2>3. UNCHANGED <<issued, held, deleting>>
    BY <1>4 DEF Exhaust
  <2>4. IssuedGrows /\ JobsCalm
    BY <1>2, <2>3, QuietTokens, QuietAgent
  <2> QED
    BY <1>2, <2>2, <2>3, <2>4 DEF CalmStep
<1> QED
  BY <1>3, <1>4, CalmStepKeeps DEF Elsewhere

LEMMA CalmAttemptKeeps ==
    ASSUME ReportTypeOK, ReportInvariant, AgentTypeOK, ReportTypeOK',
           AgentInvariant, NEW w \in Workers,
           \/ Prepare(w) \/ CallAgent(w) \/ CallBreaks(w)
           \/ FailAttempt(w) \/ AttemptIsOver(w) \/ WorkerDies(w)
    PROVE  AgentInvariant'
<1>1. JobBounds
  BY DEF AgentInvariant, AgentBounds
<1>2. ASSUME UNCHANGED <<run, issued, deleting, session, calls, question, artifact,
                        purging, marks>>, JobsCalm
      PROVE  AgentInvariant'
  <2>1. CalmStep
    BY <1>2, QuietRuns, QuietTokens, QuietAgent DEF CalmStep
  <2> QED
    BY <2>1, CalmStepKeeps
<1>3. CASE Prepare(w)
  <2>1. JobsCalm
    BY <1>1, <1>3, StagedCalm, RaisedCalm DEF Prepare, At, reportVars
  <2> QED
    BY <1>2, <1>3, <2>1 DEF Prepare, reportVars
<1>4. CASE CallBreaks(w)
  <2>1. JobsCalm
    BY <1>1, <1>4, RaisedCalm DEF CallBreaks, At, unfailedVars
  <2> QED
    BY <1>2, <1>4, <2>1 DEF CallBreaks, unfailedVars
<1>5. CASE CallAgent(w)
  <2>1. Busy(w) /\ UNCHANGED <<run, issued, deleting, calls, question, artifact, purging, marks>>
    BY <1>5 DEF CallAgent, At, reportVars
  <2>2. JobsCalm
    BY <1>1, <1>5, StagedCalm, RaisedCalm DEF CallAgent, At, reportVars
  <2>3. PICK r \in Runs : r = held[w].run
    BY <2>1, WorkTyped
  <2>4. held[w].lease \in 0..issued'[r]
    BY <2>1, <2>3, WorkTyped DEF ReportInvariant
  <2>5. /\ NewSession(held[w].lease).token = held[w].lease
        /\ ~NewSession(held[w].lease).submitted /\ ~NewSession(held[w].lease).asked
    BY DEF NewSession
  <2>6. SessionsCalm
    <3>1. CASE UNCHANGED session
      BY <3>1, QuietAgent
    <3>2. CASE session' = [session EXCEPT ![r] = NewSession(held[w].lease)]
      BY <2>4, <2>5, <3>2 DEF SessionsCalm, SessionCalm, AgentTypeOK
    <3> QED
      BY <1>5, <2>3, <3>1, <3>2 DEF CallAgent
  <2>7. CalmStep
    BY <2>1, <2>2, <2>6, QuietRuns, QuietTokens, QuietAgent DEF CalmStep
  <2> QED
    BY <2>7, CalmStepKeeps
<1>6. CASE AttemptIsOver(w) \/ WorkerDies(w)
  <2>1. JobsCalm
    BY <1>6, EndedCalm DEF AttemptIsOver, LoseLease, WorkerDies, Crash
  <2> QED
    BY <1>2, <1>6, <2>1 DEF AttemptIsOver, LoseLease, WorkerDies, Crash
<1>7. CASE FailAttempt(w)
  <2>1. /\ Holds(w) /\ Busy(w) /\ Release(w) /\ EndAttempt(w)
        /\ UNCHANGED <<issued, deleting, session, calls, question, artifact, purging, marks>>
        /\ SetRun(held[w].run, FailRun(run[held[w].run], held[w].attempt, job[w].error))
    BY <1>7 DEF FailAttempt, Fail, Holds
  <2>2. PICK r \in Runs : r = held[w].run
    BY <2>1, WorkTyped
  <2>3. /\ run[r] \in ReportRunRow /\ run[r].state = "PROCESSING"
        /\ held[w].attempt \in Nat /\ job[w].error \in ReportError
    BY <2>1, <2>2, WorkTyped, JobTyped DEF Holds, HoldsReportLease
  <2>4. StatesCalm /\ ReportsKept
    BY <2>1, <2>2, <2>3, FailedRow, FailureKeepsReport, CalmRow DEF Active
  <2>5. CalmStep
    BY <2>1, <2>4, EndedCalm, QuietTokens, QuietAgent DEF CalmStep
  <2> QED
    BY <2>5, CalmStepKeeps
<1> QED
  BY <1>3, <1>4, <1>5, <1>6, <1>7

\* A new lease: no session and no worker had its token before.
LEMMA StartKeeps ==
    ASSUME ReportTypeOK, ReportInvariant, AgentTypeOK, ReportTypeOK',
           AgentInvariant, NEW w \in Workers, NEW r \in Runs, StartAttempt(w, r)
    PROVE  AgentInvariant'
<1> DEFINE t == issued[r] + 1
           row == TakeReportLease(run[r], t)
           c == [run |-> r, lease |-> t, attempt |-> run[r].attempts + 1,
                 beating |-> TRUE]
<1>1. /\ run[r] \in ReportRunRow /\ issued[r] \in Nat /\ t \in Nat /\ issued[r] < t
      /\ run[r].state \in Active
  BY DEF ReportTypeOK, StartAttempt, Grant, ReportClaimable, Active
<1>2. /\ row.state = "PROCESSING" /\ row.lease = t /\ row.draft = NoToken
      /\ row.ir = run[r].ir /\ row \in ReportRunRow
  BY <1>1, LeasedRow, EndedReports
<1>3. SetRun(r, row) /\ issued' = [issued EXCEPT ![r] = t] /\ held' = [held EXCEPT ![w] = c]
  BY DEF StartAttempt, Grant
<1>4. /\ SetJob(w, NewJob)
      /\ UNCHANGED <<deleting, session, calls, question, artifact, purging, answering, marks>>
  BY DEF StartAttempt, Grant
<1>5. c.run = r /\ c.lease = t
  OBVIOUS
<1> HIDE DEF row, c
<1>6. run'[r] = row /\ \A q \in Runs : q # r => run'[q] = run[q]
  BY <1>2, <1>3, SetRunRow
<1>7. /\ held'[w] = c /\ job'[w] = NewJob
      /\ \A v \in Workers : v # w => held'[v] = held[v] /\ job'[v] = job[v]
  BY <1>3, <1>4, AgentRecordsTyped, JobMoves DEF ReportTypeOK
<1>8. /\ issued'[r] = t /\ \A q \in Runs : q # r => issued'[q] = issued[q]
      /\ IssuedGrows
  BY <1>1, <1>3 DEF ReportTypeOK, IssuedGrows
<1>9. /\ NewJob.stage = "PREPARE" /\ NewJob.ir = 0 /\ ~NewJob.dropped
  BY DEF NewJob
\* Who held a lease of the run before does not hold the new one.
<1>10. \A q \in Runs, u \in Nat : HoldsReportLease(run'[q], u) /\ u <= issued[q]
          => q # r /\ HoldsReportLease(run[q], u)
  BY <1>1, <1>2, <1>6 DEF HoldsReportLease
<1>11. AgentBounds'
  <2>1. RunBounds'
    <3>1. \A q \in Runs : /\ run'[q].draft = run[q].draft \/ run'[q].draft <= issued[q]
                          /\ run'[q].ir = run[q].ir \/ run'[q].ir <= issued[q]
      BY <1>1, <1>2, <1>6 DEF NoToken
    <3>2. SessionsCalm
      BY <1>4, QuietAgent
    <3> QED
      BY <1>8, <3>1, <3>2, RunsStayBounded DEF AgentInvariant, AgentBounds
  <2>2. CallBounds'
    BY <1>4, <1>8, CallsStayBounded DEF AgentInvariant, AgentBounds
  <2>3. JobBounds'
    <3>1. /\ 0 <= issued'[r]
          /\ JobBounds
      BY <1>1, <1>8 DEF AgentInvariant, AgentBounds
    <3>2. ASSUME NEW v \in Workers, v # w, held[v] # NoWork
          PROVE  job[v].ir <= issued'[held[v].run]
      <4>1. PICK q \in Runs : q = held[v].run
        BY <3>2, WorkTyped DEF Busy
      <4>2. job[v].ir <= issued[q] /\ issued[q] <= issued'[q]
        BY <1>8, <3>1, <3>2, <4>1 DEF JobBounds, Busy, IssuedGrows
      <4>3. job[v].ir \in Nat /\ issued[q] \in Nat /\ issued'[q] \in Nat
        BY JobTyped DEF ReportTypeOK
      <4> QED
        BY <4>1, <4>2, <4>3
    <3> QED
      BY <1>5, <1>7, <1>9, <3>1, <3>2 DEF JobBounds, Busy
  <2> QED
    BY <2>1, <2>2, <2>3 DEF AgentBounds
<1>12. \A q \in Runs : session[q].token \in Nat /\ session[q].token <= issued[q]
  BY DEF AgentTypeOK, Session, AgentInvariant, AgentBounds, RunBounds
<1>13. OwnWork'
  <2>1. DraftOfThisAttempt'
    BY <1>2, <1>4, <1>6 DEF AgentInvariant, OwnWork, DraftOfThisAttempt
  <2>2. \A d \in calls' : d.op # "CLARIFY" /\ InTime(d.run)' => d.draft = d.token
    BY <1>4 DEF AgentInvariant, OwnWork, InTime
  <2>3. \A q \in Runs : HoldsReportLease(run'[q], session'[q].token)
                           /\ session'[q].submitted /\ InTime(q)'
                        => run'[q].ir = session'[q].token
    BY <1>4, <1>6, <1>10, <1>12 DEF AgentInvariant, OwnWork, InTime
  <2> QED
    BY <2>1, <2>2, <2>3 DEF OwnWork
\* Another worker in time is at another run.
<1>14. \A v \in Workers : Holds(v)' /\ v # w =>
          /\ Holds(v) /\ held[v].run \in Runs /\ held[v].run # r
          /\ run'[held[v].run] = run[held[v].run]
          /\ held'[v] = held[v] /\ job'[v] = job[v]
  <2> SUFFICES ASSUME NEW v \in Workers, Holds(v)', v # w
               PROVE  /\ Holds(v) /\ held[v].run \in Runs /\ held[v].run # r
                      /\ run'[held[v].run] = run[held[v].run]
    BY <1>7
  <2>1. Busy(v) /\ HoldsReportLease(run'[held[v].run], held[v].lease)
    BY <1>7 DEF Holds, Busy
  <2>2. /\ held[v].run \in Runs /\ held[v].lease \in Nat
        /\ held[v].lease <= issued[held[v].run]
    BY <2>1, WorkTyped DEF ReportInvariant
  <2> QED
    BY <1>6, <1>10, <2>1, <2>2 DEF Holds
<1>15. OwnReport'
  <2>1. PublishedReportConsistent'
    BY <1>2, <1>4, <1>6 DEF AgentInvariant, OwnReport, PublishedReportConsistent
  <2>2. ASSUME NEW v \in Workers, Holds(v)', "LATE" \notin marks'[held'[v].run]
        PROVE  /\ job'[v].stage = "READ" => run'[held'[v].run].ir = held'[v].lease
               /\ job'[v].stage \in {"RENDER", "COMPLETE"} => job'[v].ir = held'[v].lease
               /\ job'[v].stage = "RENDER" => artifact'[held'[v].run].by = job'[v].seen
               /\ job'[v].stage = "COMPLETE" =>
                     IF job'[v].dropped THEN artifact'[held'[v].run].by = job'[v].seen
                                        ELSE artifact'[held'[v].run].ir = job'[v].ir
    <3>1. CASE v = w
      BY <1>7, <1>9, <3>1
    <3>2. CASE v # w
      <4>1. PICK q \in Runs : q = held[v].run /\ q = held'[v].run
        BY <1>14, <2>2, <3>2
      <4>2. Holds(v) /\ InTime(q) /\ run'[q] = run[q] /\ held'[v] = held[v] /\ job'[v] = job[v]
        BY <1>4, <1>14, <2>2, <3>2, <4>1 DEF InTime
      <4> QED
        BY <1>4, <4>1, <4>2 DEF AgentInvariant, OwnReport
    <3> QED
      BY <3>1, <3>2
  <2> QED
    BY <2>1, <2>2 DEF OwnReport, InTime
<1>16. AskedIsOpen'
  <2>1. WaitingRunHasQuestion'
    BY <1>2, <1>4, <1>6 DEF AgentInvariant, AskedIsOpen, WaitingRunHasQuestion, Open
  <2>2. \A q \in Runs : HoldsReportLease(run'[q], session'[q].token)
                           /\ session'[q].asked => Open(q)' # {}
    BY <1>4, <1>10, <1>12 DEF AgentInvariant, AskedIsOpen, Open
  <2>3. ASSUME NEW v \in Workers, Holds(v)', job'[v].stage = "ASK"
        PROVE  {f \in Fields : question'[held'[v].run][f] = "OPEN"} # {}
    <3>1. v # w
      BY <1>7, <1>9, <2>3
    <3> QED
      BY <1>4, <1>14, <2>3, <3>1 DEF AgentInvariant, AskedIsOpen, Open
  <2> QED
    BY <2>1, <2>2, <2>3 DEF AskedIsOpen, Open
<1>17. DeletionComplete'
  <2>1. DeletedLeavesNothing'
    BY <1>2, <1>4, <1>6 DEF AgentInvariant, DeletionComplete, DeletedLeavesNothing
  <2>2. ASSUME NEW q \in deleting
        PROVE  /\ run'[q].state \notin {"ABSENT", "DELETED"}
               /\ marks[q] \subseteq {"OVERLAP"} =>
                     run'[q].state \notin Active /\ artifact[q].by = purging[q]
    BY <1>1, <1>2, <1>6 DEF AgentInvariant, DeletionComplete, Exists, ReportTypeOK
  <2> QED
    BY <1>4, <2>1, <2>2 DEF DeletionComplete, Exists
<1> QED
  BY <1>11, <1>13, <1>15, <1>16, <1>17 DEF AgentInvariant

\* The answer of a session that submitted, or asked, in the lease it was given.
LEMMA SessionEndsKeeps ==
    ASSUME ReportTypeOK, ReportInvariant, AgentTypeOK, ReportTypeOK', AgentTypeOK',
           AgentInvariant, NEW r \in Runs, NEW outcome \in {"ASK", "READ", "ERROR"},
           SessionEnds(r, outcome)
    PROVE  AgentInvariant'
<1> DEFINE Answered(v) == /\ At(v, "WAIT")
                          /\ held[v].run = r /\ held[v].lease = session[r].token
           After(v) == [job[v] EXCEPT
                          !.stage = outcome,
                          !.error = IF outcome = "ERROR" THEN "RETRYABLE" ELSE "NONE"]
<1>1. /\ UNCHANGED <<run, issued, held, deleting, calls, question, artifact, purging, marks>>
      /\ outcome \in Outcome(session[r])
      /\ session' = [session EXCEPT ![r] = NewSession(NoToken)]
  BY DEF SessionEnds, reportVars
<1>2. \A v \in Workers : IF Answered(v) THEN job'[v] = After(v) ELSE job'[v] = job[v]
  BY DEF SessionEnds
<1>3. \A v \in Workers : /\ After(v).stage = outcome /\ After(v).ir = job[v].ir
                         /\ After(v).dropped = job[v].dropped
                         /\ outcome = "ERROR" => After(v).error = "RETRYABLE"
  BY JobTyped DEF Job
<1>4. \A v \in Workers : Answered(v) => ~job[v].dropped /\ Busy(v)
  BY DEF At, AgentInvariant, AgentBounds, JobBounds
<1> HIDE DEF After
<1>5. \A v \in Workers :
         \/ ~Answered(v) /\ job'[v] = job[v]
         \/ /\ Answered(v) /\ job'[v].stage = outcome /\ job'[v].ir = job[v].ir
            /\ ~job'[v].dropped
            /\ outcome = "ERROR" => job'[v].error = "RETRYABLE"
  <2> SUFFICES ASSUME NEW v \in Workers, Answered(v)
               PROVE  /\ job'[v].stage = outcome /\ job'[v].ir = job[v].ir
                      /\ ~job'[v].dropped
                      /\ outcome = "ERROR" => job'[v].error = "RETRYABLE"
    BY <1>2
  <2>1. job'[v] = After(v)
    BY <1>2
  <2> QED
    BY <1>3, <1>4, <2>1
<1>6. StatesCalm /\ ReportsKept /\ IssuedGrows /\ MarksGrow
  BY <1>1, QuietRuns, QuietTokens, QuietAgent
<1>7. SessionsCalm
  <2>1. /\ NewSession(NoToken).token = 0
        /\ ~NewSession(NoToken).submitted /\ ~NewSession(NoToken).asked
    BY DEF NewSession, NoToken
  <2>2. 0 \in 0..issued'[r]
    BY DEF ReportTypeOK
  <2> QED
    BY <1>1, <2>1, <2>2 DEF SessionsCalm, SessionCalm, AgentTypeOK
<1>8. AgentBounds'
  <2>1. RunBounds' /\ CallBounds'
    BY <1>1, <1>6, <1>7, RunsStayBounded, CallsStayBounded
    DEF AgentInvariant, AgentBounds, ReportsKept, SameReport
  <2>2. JobBounds'
    <3> SUFFICES ASSUME NEW v \in Workers
                 PROVE  /\ held[v] # NoWork => job'[v].ir <= issued[held[v].run]
                        /\ job'[v].stage = "ERROR" =>
                              job'[v].error \in {"RETRYABLE", "FATAL", "AGENT_BUSY"}
                        /\ job'[v].dropped => job'[v].stage = "COMPLETE"
      BY <1>1 DEF JobBounds, Busy
    <3>1. CASE job'[v] = job[v]
      BY <3>1 DEF AgentInvariant, AgentBounds, JobBounds, Busy
    <3>2. CASE Answered(v)
      <4>1. job[v].ir <= issued[held[v].run]
        BY <1>4, <3>2 DEF AgentInvariant, AgentBounds, JobBounds
      <4> HIDE DEF Answered
      <4> QED
        BY <1>5, <3>2, <4>1
    <3> QED
      BY <1>5, <3>1, <3>2
  <2> QED
    BY <2>1, <2>2 DEF AgentBounds
<1>9. OwnWork'
  BY <1>1, <1>6, <1>7, OwnWorkKept DEF AgentInvariant
\* An answered worker has the lease of the session.
<1>10. ASSUME NEW v \in Workers, Answered(v), Holds(v)
       PROVE  held[v].run = r /\ HoldsReportLease(run[r], session[r].token)
  BY <1>10 DEF Holds
<1>11. OwnReport'
  <2>1. PublishedReportConsistent'
    BY <1>1 DEF AgentInvariant, OwnReport, PublishedReportConsistent
  <2>2. ASSUME NEW v \in Workers, Holds(v), "LATE" \notin marks[held[v].run]
        PROVE  /\ job'[v].stage = "READ" => run[held[v].run].ir = held[v].lease
               /\ job'[v].stage \in {"RENDER", "COMPLETE"} => job'[v].ir = held[v].lease
               /\ job'[v].stage = "RENDER" => artifact[held[v].run].by = job'[v].seen
               /\ job'[v].stage = "COMPLETE" =>
                     IF job'[v].dropped THEN artifact[held[v].run].by = job'[v].seen
                                        ELSE artifact[held[v].run].ir = job'[v].ir
    <3>1. CASE job'[v] = job[v]
      BY <2>2, <3>1 DEF AgentInvariant, OwnReport, InTime
    <3>2. CASE Answered(v)
      <4>1. job'[v].stage = outcome
        BY <1>5, <3>2
      <4>2. CASE outcome = "READ"
        <5>1. session[r].submitted
          BY <1>1, <4>2 DEF Outcome
        <5>2. run[r].ir = session[r].token
          BY <1>10, <2>2, <3>2, <5>1 DEF AgentInvariant, OwnWork, InTime
        <5> QED
          BY <3>2, <4>1, <4>2, <5>2
      <4> QED
        BY <4>1, <4>2
    <3> QED
      BY <1>5, <3>1, <3>2
  <2>3. \A v \in Workers : Holds(v)' <=> Holds(v)
    BY <1>1 DEF Holds, Busy
  <2> HIDE DEF Answered
  <2> QED
    BY <1>1, <2>1, <2>2, <2>3 DEF OwnReport, InTime
<1>12. AskedIsOpen'
  <2>1. WaitingRunHasQuestion' /\ \A q \in Runs : Open(q)' = Open(q)
    BY <1>1 DEF AgentInvariant, AskedIsOpen, WaitingRunHasQuestion, Open
  <2>2. \A q \in Runs : HoldsReportLease(run'[q], session'[q].token)
                           /\ session'[q].asked => Open(q) # {}
    BY <1>1, <1>7 DEF AgentInvariant, AskedIsOpen, SessionsCalm, SessionCalm
  <2>3. ASSUME NEW v \in Workers, Holds(v), job'[v].stage = "ASK"
        PROVE  Open(held[v].run) # {}
    <3>1. CASE job'[v] = job[v]
      BY <2>3, <3>1 DEF AgentInvariant, AskedIsOpen
    <3>2. CASE Answered(v)
      <4>1. outcome = "ASK" /\ session[r].asked
        <5>1. job'[v].stage = outcome
          BY <1>5, <3>2
        <5> QED
          BY <1>1, <2>3, <5>1 DEF Outcome
      <4> QED
        BY <1>10, <2>3, <3>2, <4>1 DEF AgentInvariant, AskedIsOpen
    <3> QED
      BY <1>5, <3>1, <3>2
  <2>4. \A v \in Workers : Holds(v)' <=> Holds(v)
    BY <1>1 DEF Holds, Busy
  <2> HIDE DEF Answered
  <2> QED
    BY <1>1, <2>1, <2>2, <2>3, <2>4 DEF AskedIsOpen, Open
<1>13. DeletionComplete'
  BY <1>1, <1>6, DeletionKept DEF AgentInvariant
<1> QED
  BY <1>8, <1>9, <1>11, <1>12, <1>13 DEF AgentInvariant

\* A call is authorised by the lease in force and takes up its own draft.
LEMMA AuthorizeKeeps ==
    ASSUME ReportTypeOK, ReportInvariant, AgentTypeOK, ReportTypeOK', AgentTypeOK',
           AgentInvariant, NEW r \in Runs, NEW op, NEW asks, Authorize(r, op, asks),
           op \in {"DRAFT", "PATCH", "CLARIFY", "SUBMIT"}
    PROVE  AgentInvariant'
<1> DEFINE draft == IF op = "DRAFT" THEN session[r].token ELSE run[r].draft
           c == [run |-> r, token |-> session[r].token, op |-> op, draft |-> draft,
                 asks |-> asks, known |-> {f \in Fields : question[r][f] # "NONE"}]
<1>1. /\ UNCHANGED <<run, issued, held, deleting, job, session, question, artifact,
                     purging, marks>>
      /\ calls' = calls \cup {c}
      /\ session[r].token # NoToken /\ HoldsReportLease(run[r], session[r].token)
  BY DEF Authorize, OwnsReportLease, reportVars
<1>2. op \in {"PATCH", "SUBMIT"} => run[r].draft # NoToken
  BY DEF Authorize
<1>3. c.run = r /\ c.token = session[r].token /\ c.draft = draft /\ c.op = op
  OBVIOUS
<1>4. op # "CLARIFY" /\ InTime(r) => draft = session[r].token
  BY <1>1, <1>2
  DEF HoldsReportLease, AgentInvariant, OwnWork, DraftOfThisAttempt, InTime
<1> HIDE DEF c
<1>5. StatesCalm /\ ReportsKept /\ IssuedGrows /\ MarksGrow /\ SessionsCalm /\ JobsCalm
  BY <1>1, QuietRuns, QuietTokens, QuietAgent
<1>6. AgentBounds'
  <2>1. RunBounds' /\ JobBounds'
    BY <1>5, RunsStayBounded, JobsStayBounded
    DEF AgentInvariant, AgentBounds, ReportsKept, SameReport
  <2>2. session[r].token <= issued[r] /\ draft <= issued[r]
    BY DEF AgentInvariant, AgentBounds, RunBounds
  <2>3. CallBounds'
    BY <1>1, <1>3, <2>2 DEF AgentInvariant, AgentBounds, CallBounds
  <2> QED
    BY <2>1, <2>3 DEF AgentBounds
<1>7. OwnWork'
  <2>1. DraftOfThisAttempt'
    BY <1>1 DEF AgentInvariant, OwnWork, DraftOfThisAttempt
  <2>2. \A d \in calls' : d.op # "CLARIFY" /\ InTime(d.run) => d.draft = d.token
    BY <1>1, <1>3, <1>4 DEF AgentInvariant, OwnWork
  <2> QED
    BY <1>1, <2>1, <2>2 DEF AgentInvariant, OwnWork, InTime
<1>8. OwnReport'
  BY <1>1, <1>5, OwnReportKept DEF AgentInvariant, ReportsKept, SameReport
<1>9. AskedIsOpen'
  BY <1>1 DEF AgentInvariant, AskedIsOpen, WaitingRunHasQuestion, Open, Holds, Busy
<1>10. DeletionComplete'
  BY <1>1, <1>5, DeletionKept DEF AgentInvariant
<1> QED
  BY <1>6, <1>7, <1>8, <1>9, <1>10 DEF AgentInvariant

\* What the agent writes changes nothing but the report or the draft of a run.
LEMMA AgentWritesRow ==
    ASSUME ReportTypeOK, NEW r \in Runs, NEW t \in Nat, AgentWrites(r, t)
    PROVE  /\ run'[r].state = run[r].state /\ run'[r].lease = run[r].lease
           /\ run'[r].manifest = run[r].manifest
           /\ \A q \in Runs : q # r => run'[q] = run[q]
           /\ UNCHANGED <<issued, held, deleting>>
           /\ StatesCalm
<1>1. run[r] \in ReportRunRow
  BY DEF ReportTypeOK
<1> DEFINE a == [run[r] EXCEPT !.draft = t]
           b == [run[r] EXCEPT !.ir = t]
<1>2. /\ a \in ReportRunRow /\ a.state = run[r].state /\ a.lease = run[r].lease
      /\ a.manifest = run[r].manifest
  BY <1>1 DEF ReportRunRow
<1>3. /\ b \in ReportRunRow /\ b.state = run[r].state /\ b.lease = run[r].lease
      /\ b.manifest = run[r].manifest
  BY <1>1 DEF ReportRunRow
<1>4. /\ SetRun(r, a) \/ SetRun(r, b)
      /\ UNCHANGED <<issued, held, deleting>>
  BY DEF AgentWrites
<1> HIDE DEF a, b
<1>5. /\ run'[r].state = run[r].state /\ run'[r].lease = run[r].lease
      /\ run'[r].manifest = run[r].manifest
      /\ \A q \in Runs : q # r => run'[q] = run[q]
  BY <1>2, <1>3, <1>4, SetRunRow
<1>6. StatesCalm
  BY <1>5 DEF StatesCalm, CalmState, Exists
<1> QED
  BY <1>4, <1>5, <1>6

\* A commit that is not marked is one of the attempt in force.
LEMMA CommitInTime ==
    ASSUME AgentTypeOK, OwnWork, NEW c \in calls, MarkLate(c.run, c.token),
           "LATE" \notin marks'[c.run]
    PROVE  /\ HoldsReportLease(run[c.run], c.token) /\ InTime(c.run)
           /\ c.op # "CLARIFY" => c.draft = c.token
<1>1. PICK r \in Runs : r = c.run
  BY CallTyped
<1>2. HoldsReportLease(run[r], c.token) /\ UNCHANGED marks
  BY <1>1, LateMarked
<1> QED
  BY <1>1, <1>2 DEF OwnWork, InTime

LEMMA CommitDraftKeeps ==
    ASSUME ReportTypeOK, ReportInvariant, AgentTypeOK, ReportTypeOK', AgentTypeOK',
           AgentInvariant, NEW c \in calls, CommitDraft(c)
    PROVE  AgentInvariant'
<1>1. PICK r \in Runs : r = c.run
  BY CallTyped
<1>2. c.draft \in Nat /\ AgentWrites(r, c.draft)
  BY <1>1, CallTyped DEF CommitDraft
<1>3. /\ run'[r].draft = c.draft /\ run'[r].ir = run[r].ir
      /\ calls' \subseteq calls /\ MarkLate(r, c.token)
      /\ UNCHANGED <<job, question, artifact, purging>>
  BY <1>1 DEF CommitDraft
<1>4. /\ run'[r].state = run[r].state /\ run'[r].lease = run[r].lease
      /\ run'[r].manifest = run[r].manifest
      /\ \A q \in Runs : q # r => run'[q] = run[q]
      /\ UNCHANGED <<issued, held, deleting>> /\ StatesCalm
  BY <1>2, AgentWritesRow
<1>5. MarksGrow /\ IssuedGrows /\ JobsCalm
  BY <1>3, <1>4, LateMarked, QuietTokens, QuietAgent
<1>6. SessionsCalm
  <2>1. CASE UNCHANGED session
    BY <2>1, QuietAgent
  <2>2. CASE session' = [session EXCEPT ![r] = [session[r] EXCEPT !.saved = TRUE]]
    BY <2>2 DEF SessionsCalm, SessionCalm, AgentTypeOK, Session
  <2> QED
    BY <1>1, <2>1, <2>2 DEF CommitDraft, Reply
<1>7. AgentBounds'
  <2>1. c.draft <= issued[r]
    BY <1>1 DEF AgentInvariant, AgentBounds, CallBounds
  <2>2. \A q \in Runs : /\ run'[q].draft = run[q].draft \/ run'[q].draft <= issued[q]
                        /\ run'[q].ir = run[q].ir \/ run'[q].ir <= issued[q]
    BY <1>3, <1>4, <2>1
  <2> QED
    BY <1>3, <1>5, <1>6, <2>2, RunsStayBounded, CallsStayBounded, JobsStayBounded
    DEF AgentInvariant, AgentBounds
<1>8. "LATE" \notin marks'[r] => /\ HoldsReportLease(run[r], c.token) /\ InTime(r)
                                 /\ c.draft = c.token
  BY <1>1, <1>3, CommitInTime DEF AgentInvariant, CommitDraft
<1>9. OwnWork'
  <2>1. DraftOfThisAttempt'
    <3> SUFFICES ASSUME NEW q \in Runs, run'[q].state = "PROCESSING",
                        "LATE" \notin marks'[q]
                 PROVE  run'[q].draft \in {NoToken, run'[q].lease}
      BY DEF DraftOfThisAttempt
    <3>1. CASE q = r
      BY <1>3, <1>4, <1>8, <3>1 DEF HoldsReportLease
    <3>2. CASE q # r
      BY <1>4, <1>5, <3>2
      DEF AgentInvariant, OwnWork, DraftOfThisAttempt, MarksGrow
    <3> QED
      BY <3>1, <3>2
  <2>2. \A d \in calls' : d.op # "CLARIFY" /\ InTime(d.run)' => d.draft = d.token
    BY <1>3, <1>5, CallTyped DEF AgentInvariant, OwnWork, InTime, MarksGrow
  <2>3. ASSUME NEW q \in Runs, HoldsReportLease(run'[q], session'[q].token),
               session'[q].submitted, InTime(q)'
        PROVE  run'[q].ir = session'[q].token
    <3>1. HoldsReportLease(run[q], session'[q].token) /\ InTime(q)
      BY <1>4, <1>5, <2>3, LeaseWasInForce DEF InTime, MarksGrow
    <3>2. session'[q].token = session[q].token /\ session[q].submitted
      BY <1>6, <2>3 DEF SessionsCalm, SessionCalm
    <3>3. run[q].ir = session[q].token /\ run'[q].ir = run[q].ir
      BY <1>3, <1>4, <3>1, <3>2 DEF AgentInvariant, OwnWork
    <3> QED
      BY <3>2, <3>3
  <2> QED
    BY <2>1, <2>2, <2>3 DEF OwnWork
<1>10. OwnReport'
  BY <1>3, <1>4, <1>5, OwnReportKept DEF AgentInvariant
<1>11. AskedIsOpen'
  <2>1. \A q \in Runs : Open(q)' = Open(q)
    BY <1>3 DEF Open
  <2> QED
    BY <1>3, <1>4, <1>5, <1>6, <2>1, AskedKept DEF AgentInvariant
<1>12. DeletionComplete'
  BY <1>3, <1>4, <1>5, DeletionKept DEF AgentInvariant
<1> QED
  BY <1>7, <1>9, <1>10, <1>11, <1>12 DEF AgentInvariant

LEMMA CommitSubmitKeeps ==
    ASSUME ReportTypeOK, ReportInvariant, AgentTypeOK, ReportTypeOK', AgentTypeOK',
           AgentInvariant, NEW c \in calls, CommitSubmit(c)
    PROVE  AgentInvariant'
<1>1. PICK r \in Runs : r = c.run
  BY CallTyped
<1>2. c.draft \in Nat /\ AgentWrites(r, c.draft)
  BY <1>1, CallTyped DEF CommitSubmit
<1>3. /\ run'[r].ir = c.draft /\ run'[r].draft = run[r].draft
      /\ calls' \subseteq calls /\ MarkLate(r, c.token)
      /\ UNCHANGED <<job, question, artifact, purging>>
  BY <1>1 DEF CommitSubmit
<1>4. /\ run'[r].state = run[r].state /\ run'[r].lease = run[r].lease
      /\ run'[r].manifest = run[r].manifest
      /\ \A q \in Runs : q # r => run'[q] = run[q]
      /\ UNCHANGED <<issued, held, deleting>> /\ StatesCalm
  BY <1>2, AgentWritesRow
<1>5. MarksGrow /\ IssuedGrows /\ JobsCalm
  BY <1>3, <1>4, LateMarked, QuietTokens, QuietAgent
<1>6. /\ \A q \in Runs : session'[q].token = session[q].token
      /\ \A q \in Runs : session'[q].asked = session[q].asked
      /\ \A q \in Runs : q # r => session'[q] = session[q]
  <2>1. CASE UNCHANGED session
    BY <2>1
  <2>2. CASE session' = [session EXCEPT ![r] = [session[r] EXCEPT !.submitted = TRUE]]
    BY <2>2 DEF AgentTypeOK, Session
  <2> QED
    BY <1>1, <2>1, <2>2 DEF CommitSubmit, Reply
<1>7. AgentBounds'
  <2>1. RunBounds'
    <3>1. c.draft <= issued[r]
      BY <1>1 DEF AgentInvariant, AgentBounds, CallBounds
    <3> QED
      <4> SUFFICES ASSUME NEW q \in Runs
                   PROVE  /\ session'[q].token <= issued'[q]
                          /\ run'[q].draft <= issued'[q] /\ run'[q].ir <= issued'[q]
        BY DEF RunBounds
      <4>1. /\ session[q].token <= issued[q]
            /\ run[q].draft <= issued[q] /\ run[q].ir <= issued[q]
        BY DEF AgentInvariant, AgentBounds, RunBounds
      <4>2. issued'[q] = issued[q] /\ session'[q].token = session[q].token
        <5>1. issued' = issued
          BY <1>4
        <5> QED
          BY <1>6, <5>1
      <4>3. run'[q].draft <= issued[q] /\ run'[q].ir <= issued[q]
        BY <1>3, <1>4, <3>1, <4>1
      <4> QED
        BY <4>1, <4>2, <4>3
  <2> QED
    BY <1>3, <1>5, <2>1, CallsStayBounded, JobsStayBounded
    DEF AgentInvariant, AgentBounds
<1>8. "LATE" \notin marks'[r] => /\ HoldsReportLease(run[r], c.token) /\ InTime(r)
                                 /\ c.draft = c.token
  BY <1>1, <1>3, CommitInTime DEF AgentInvariant, CommitSubmit
<1>9. OwnWork'
  <2>1. DraftOfThisAttempt'
    BY <1>3, <1>4, <1>5
    DEF AgentInvariant, OwnWork, DraftOfThisAttempt, MarksGrow
  <2>2. \A d \in calls' : d.op # "CLARIFY" /\ InTime(d.run)' => d.draft = d.token
    BY <1>3, <1>5, CallTyped DEF AgentInvariant, OwnWork, InTime, MarksGrow
  <2>3. ASSUME NEW q \in Runs, HoldsReportLease(run'[q], session'[q].token),
               session'[q].submitted, InTime(q)'
        PROVE  run'[q].ir = session'[q].token
    <3>1. HoldsReportLease(run[q], session'[q].token) /\ InTime(q)
      BY <1>4, <1>5, <2>3, LeaseWasInForce DEF InTime, MarksGrow
    <3>2. CASE q = r
      BY <1>3, <1>8, <2>3, <3>1, <3>2 DEF HoldsReportLease, InTime
    <3>3. CASE q # r
      BY <1>4, <1>6, <2>3, <3>1, <3>3 DEF AgentInvariant, OwnWork
    <3> QED
      BY <3>2, <3>3
  <2> QED
    BY <2>1, <2>2, <2>3 DEF OwnWork
<1>10. OwnReport'
  <2>1. PublishedReportConsistent'
    <3> SUFFICES ASSUME NEW q \in Runs, run'[q].state = "SUCCEEDED",
                        "LATE" \notin marks'[q]
                 PROVE  /\ run'[q].ir = run'[q].manifest
                        /\ artifact[q].ir \in {NoToken, run'[q].manifest}
      BY <1>3 DEF PublishedReportConsistent
    <3>1. q # r
      BY <1>4, <1>8 DEF HoldsReportLease
    <3> QED
      BY <1>4, <1>5, <3>1
      DEF AgentInvariant, OwnReport, PublishedReportConsistent, MarksGrow
  <2>2. ASSUME NEW v \in Workers, Holds(v)', "LATE" \notin marks'[held[v].run]
        PROVE  /\ job[v].stage = "READ" => run'[held[v].run].ir = held[v].lease
               /\ job[v].stage \in {"RENDER", "COMPLETE"} => job[v].ir = held[v].lease
               /\ job[v].stage = "RENDER" => artifact[held[v].run].by = job[v].seen
               /\ job[v].stage = "COMPLETE" =>
                     IF job[v].dropped THEN artifact[held[v].run].by = job[v].seen
                                       ELSE artifact[held[v].run].ir = job[v].ir
    <3>1. Holds(v) /\ held[v].run \in Runs
      BY <1>4, <2>2, ClaimWasInForce
    <3>2. PICK q \in Runs : q = held[v].run
      BY <3>1
    <3>3. InTime(q)
      BY <1>5, <2>2, <3>2 DEF InTime, MarksGrow
    <3>4. job[v].stage = "READ" => run'[q].ir = held[v].lease
      <4>1. CASE q = r
        BY <1>3, <1>8, <2>2, <3>1, <3>2, <4>1 DEF Holds, HoldsReportLease
      <4>2. CASE q # r
        BY <1>4, <3>1, <3>2, <3>3, <4>2 DEF AgentInvariant, OwnReport
      <4> QED
        BY <4>1, <4>2
    <3> QED
      BY <3>1, <3>2, <3>3, <3>4 DEF AgentInvariant, OwnReport
  <2> QED
    BY <1>3, <1>4, <2>1, <2>2 DEF OwnReport, InTime
<1>11. AskedIsOpen'
  <2>1. \A q \in Runs : Open(q)' = Open(q)
    BY <1>3 DEF Open
  <2>2. WaitingRunHasQuestion'
    <3> SUFFICES ASSUME NEW q \in Runs, run'[q].state = "NEEDS_INPUT",
                        "OVERLAP" \notin marks'[q]
                 PROVE  Open(q)' # {}
      BY DEF WaitingRunHasQuestion
    <3>1. run[q].state = "NEEDS_INPUT" /\ "OVERLAP" \notin marks[q]
      BY <1>4, <1>5 DEF StatesCalm, CalmState, MarksGrow
    <3> QED
      BY <2>1, <3>1 DEF AgentInvariant, AskedIsOpen, WaitingRunHasQuestion
  <2>3. \A q \in Runs : HoldsReportLease(run'[q], session'[q].token)
                           /\ session'[q].asked => Open(q)' # {}
    <3> SUFFICES ASSUME NEW q \in Runs, HoldsReportLease(run'[q], session'[q].token),
                        session'[q].asked
                 PROVE  Open(q) # {}
      BY <2>1
    <3>1. HoldsReportLease(run[q], session[q].token) /\ session[q].asked
      BY <1>4, <1>6, LeaseWasInForce
    <3> QED
      BY <3>1 DEF AgentInvariant, AskedIsOpen
  <2>4. ASSUME NEW v \in Workers, Holds(v)', job[v].stage = "ASK"
        PROVE  Open(held[v].run) # {}
    BY <1>4, <2>4, ClaimWasInForce DEF AgentInvariant, AskedIsOpen
  <2> QED
    BY <1>3, <1>4, <2>2, <2>3, <2>4 DEF AskedIsOpen, Open
<1>12. DeletionComplete'
  BY <1>3, <1>4, <1>5, DeletionKept DEF AgentInvariant
<1> QED
  BY <1>7, <1>9, <1>10, <1>11, <1>12 DEF AgentInvariant

\* Questions are only added, and a session that waits has an open one.
LEMMA CommitClarifyKeeps ==
    ASSUME ReportTypeOK, ReportInvariant, AgentTypeOK, ReportTypeOK', AgentTypeOK',
           AgentInvariant, NEW c \in calls, CommitClarify(c)
    PROVE  AgentInvariant'
<1>1. PICK r \in Runs : r = c.run
  BY CallTyped
<1> DEFINE asked == [f \in Fields |-> IF f \in c.asks \ c.known THEN "OPEN"
                                     ELSE question[r][f]]
           waits == session[r].asked \/ \E f \in Fields : question'[r][f] = "OPEN"
<1>2. /\ UNCHANGED <<run, issued, held, deleting, job, artifact, purging>>
      /\ calls' \subseteq calls /\ MarkLate(r, c.token)
      /\ question' = [question EXCEPT ![r] = asked]
  BY <1>1 DEF CommitClarify, reportVars
<1>3. \/ UNCHANGED session
      \/ session' = [session EXCEPT ![r] = [session[r] EXCEPT !.asked = waits]]
  BY <1>1 DEF CommitClarify, Reply
<1>4. \A q \in Runs : Open(q) \subseteq Open(q)'
  <2>1. \A f \in Fields : asked[f] \in {"OPEN", question[r][f]}
    OBVIOUS
  <2> HIDE DEF asked
  <2>2. question'[r] = asked /\ \A q \in Runs : q # r => question'[q] = question[q]
    BY <1>2 DEF AgentTypeOK
  <2> QED
    BY <2>1, <2>2 DEF Open
<1>5. /\ \A q \in Runs : session'[q].token = session[q].token
      /\ \A q \in Runs : session'[q].submitted = session[q].submitted
      /\ \A q \in Runs : session'[q].asked => session[q].asked \/ Open(q)' # {}
  <2>1. CASE UNCHANGED session
    BY <2>1
  <2>2. CASE session' = [session EXCEPT ![r] = [session[r] EXCEPT !.asked = waits]]
    <3>1. \A q \in Runs : session[q] \in Session
      BY DEF AgentTypeOK
    <3> HIDE DEF waits
    <3>2. /\ [session[r] EXCEPT !.asked = waits].token = session[r].token
          /\ [session[r] EXCEPT !.asked = waits].submitted = session[r].submitted
          /\ [session[r] EXCEPT !.asked = waits].asked = waits
      BY <3>1 DEF Session
    <3>3. waits => session[r].asked \/ Open(r)' # {}
      BY DEF waits, Open
    <3>4. /\ session'[r] = [session[r] EXCEPT !.asked = waits]
          /\ \A q \in Runs : q # r => session'[q] = session[q]
      BY <2>2 DEF AgentTypeOK
    <3>5. session'[r].asked => session[r].asked \/ Open(r)' # {}
      BY <3>2, <3>3, <3>4
    <3> QED
      BY <3>2, <3>4, <3>5
  <2> QED
    BY <1>3, <2>1, <2>2
<1>6. StatesCalm /\ ReportsKept /\ IssuedGrows /\ JobsCalm /\ MarksGrow
  BY <1>2, QuietRuns, QuietTokens, QuietAgent, LateMarked
<1>7. AgentBounds'
  <2>1. RunBounds'
    BY <1>2, <1>5 DEF AgentInvariant, AgentBounds, RunBounds
  <2> QED
    BY <1>2, <1>6, <2>1, CallsStayBounded, JobsStayBounded DEF AgentInvariant, AgentBounds
<1>8. OwnWork'
  <2>1. DraftOfThisAttempt'
    BY <1>2, <1>6 DEF AgentInvariant, OwnWork, DraftOfThisAttempt, MarksGrow
  <2>2. \A d \in calls' : d.op # "CLARIFY" /\ InTime(d.run)' => d.draft = d.token
    BY <1>2, <1>6, CallTyped DEF AgentInvariant, OwnWork, InTime, MarksGrow
  <2>3. ASSUME NEW q \in Runs, HoldsReportLease(run'[q], session'[q].token),
               session'[q].submitted, InTime(q)'
        PROVE  run'[q].ir = session'[q].token
    <3>1. /\ HoldsReportLease(run[q], session[q].token) /\ session[q].submitted
          /\ run'[q] = run[q] /\ session'[q].token = session[q].token
      <4>1. run' = run
        BY <1>2
      <4> QED
        BY <1>5, <2>3, <4>1
    <3>2. InTime(q)
      BY <1>6, <2>3 DEF InTime, MarksGrow
    <3> QED
      BY <3>1, <3>2 DEF AgentInvariant, OwnWork
  <2> QED
    BY <2>1, <2>2, <2>3 DEF OwnWork
<1>9. OwnReport'
  BY <1>2, <1>6, OwnReportKept DEF AgentInvariant, ReportsKept, SameReport
<1>10. AskedIsOpen'
  <2>1. WaitingRunHasQuestion'
    BY <1>2, <1>4, <1>6
    DEF AgentInvariant, AskedIsOpen, WaitingRunHasQuestion, MarksGrow
  <2>2. ASSUME NEW q \in Runs, HoldsReportLease(run'[q], session'[q].token),
               session'[q].asked
        PROVE  Open(q)' # {}
    <3>1. HoldsReportLease(run[q], session[q].token)
      <4>1. run' = run
        BY <1>2
      <4> QED
        BY <1>5, <2>2, <4>1
    <3>2. CASE session[q].asked
      BY <1>4, <3>1, <3>2 DEF AgentInvariant, AskedIsOpen
    <3> QED
      BY <1>5, <2>2, <3>2
  <2>3. ASSUME NEW v \in Workers, Holds(v)', job'[v].stage = "ASK"
        PROVE  {f \in Fields : question'[held'[v].run][f] = "OPEN"} # {}
    <3>1. Holds(v) /\ held[v].run \in Runs /\ job[v].stage = "ASK"
      BY <1>2, <1>6, <2>3, ClaimWasInForce
    <3>2. PICK q \in Runs : q = held[v].run
      BY <3>1
    <3>3. Open(q) # {} /\ Open(q) \subseteq Open(q)'
      BY <1>4, <3>1, <3>2 DEF AgentInvariant, AskedIsOpen
    <3>4. Open(q)' # {}
      BY <3>3
    <3> QED
      BY <1>2, <3>2, <3>4 DEF Open
  <2> QED
    BY <2>1, <2>2, <2>3 DEF AskedIsOpen, Open
<1>11. DeletionComplete'
  <2>1. \A q \in Runs : run[q].state = "DELETED" => q # r \/ "LATE" \in marks'[r]
    BY <1>2, LateMarked DEF HoldsReportLease
  <2>2. \A q \in Runs : q # r => question'[q] = question[q]
    BY <1>2 DEF AgentTypeOK
  <2>3. DeletedLeavesNothing'
    BY <1>2, <1>6, <2>1, <2>2
    DEF AgentInvariant, DeletionComplete, DeletedLeavesNothing, MarksGrow
  <2>4. ASSUME NEW q \in deleting
        PROVE  /\ Exists(q)
               /\ marks'[q] \subseteq {"OVERLAP"} =>
                     run[q].state \notin Active /\ artifact[q].by = purging[q]
    <3>1. q \in Runs
      BY DEF ReportTypeOK
    <3> QED
      BY <1>6, <3>1 DEF AgentInvariant, DeletionComplete, MarksGrow
  <2> QED
    BY <1>2, <2>3, <2>4 DEF DeletionComplete, Exists
<1> QED
  BY <1>7, <1>8, <1>9, <1>10, <1>11 DEF AgentInvariant

LEMMA CallFailsKeeps ==
    ASSUME ReportTypeOK, AgentTypeOK, ReportTypeOK', AgentInvariant,
           NEW c \in calls, CallFails(c)
    PROVE  AgentInvariant'
<1>1. /\ UNCHANGED <<run, issued, held, deleting, job, session, question, artifact,
                     purging, marks>>
      /\ calls' \subseteq calls
  BY DEF CallFails, reportVars
<1>2. CalmStep
  BY <1>1, QuietRuns, QuietTokens, QuietAgent DEF CalmStep
<1> QED
  BY <1>2, CalmStepKeeps

\* Reading, rendering and storing the report: nobody else in time looks at the
\* artifacts of the run.
LEMMA RenderStepKeeps ==
    ASSUME ReportTypeOK, ReportInvariant, AgentTypeOK, ReportTypeOK', AgentInvariant,
           NEW w \in Workers, Busy(w), NEW r \in Runs, r = held[w].run,
           UNCHANGED <<run, issued, held, deleting, session, calls, question, purging>>,
           MarksGrow,
           \A v \in Workers : v # w => job'[v] = job[v],
           job'[w].stage \in {"RENDER", "COMPLETE"},
           job'[w].ir <= issued[r],
           job'[w].dropped => job'[w].stage = "COMPLETE",
           \A q \in Runs : q # r => artifact'[q] = artifact[q],
           \/ Holds(w) \/ "LATE" \in marks'[r] \/ artifact' = artifact,
           Holds(w) /\ "LATE" \notin marks'[r] =>
              /\ job'[w].ir = held[w].lease
              /\ job'[w].stage = "RENDER" => artifact'[r].by = job'[w].seen
              /\ job'[w].stage = "COMPLETE" =>
                    IF job'[w].dropped THEN artifact'[r].by = job'[w].seen
                                       ELSE artifact'[r].ir = job'[w].ir
    PROVE  AgentInvariant'
<1>1. StatesCalm /\ ReportsKept /\ IssuedGrows /\ SessionsCalm
  BY QuietRuns, QuietTokens, QuietAgent
<1>2. AgentBounds'
  <2>1. RunBounds' /\ CallBounds'
    BY <1>1, RunsStayBounded, CallsStayBounded
    DEF AgentInvariant, AgentBounds, ReportsKept, SameReport
  <2>2. JobBounds'
    <3> SUFFICES ASSUME NEW v \in Workers
                 PROVE  /\ held[v] # NoWork => job'[v].ir <= issued[held[v].run]
                        /\ job'[v].stage = "ERROR" =>
                              job'[v].error \in {"RETRYABLE", "FATAL", "AGENT_BUSY"}
                        /\ job'[v].dropped => job'[v].stage = "COMPLETE"
      BY DEF JobBounds, Busy
    <3>1. CASE v = w
      BY <3>1
    <3>2. CASE v # w
      <4>1. job'[v] = job[v]
        BY <3>2
      <4> QED
        BY <4>1 DEF AgentInvariant, AgentBounds, JobBounds, Busy
    <3> QED
      BY <3>1, <3>2
  <2> QED
    BY <2>1, <2>2 DEF AgentBounds
<1>3. OwnWork'
  BY <1>1, OwnWorkKept DEF AgentInvariant
<1>4. ASSUME NEW q \in Runs, run[q].state # "PROCESSING", "LATE" \notin marks'[q]
      PROVE  artifact'[q] = artifact[q]
  <2>1. CASE q # r
    BY <2>1
  <2>2. CASE q = r
    <3>1. ~Holds(w)
      BY <1>4, <2>2 DEF Holds, HoldsReportLease
    <3> QED
      BY <1>4, <2>2, <3>1
  <2> QED
    BY <2>1, <2>2
<1>5. OwnReport'
  <2>1. PublishedReportConsistent'
    BY <1>4 DEF AgentInvariant, OwnReport, PublishedReportConsistent, MarksGrow
  <2>2. ASSUME NEW v \in Workers, Holds(v), "LATE" \notin marks'[held[v].run]
        PROVE  /\ job'[v].stage = "READ" => run[held[v].run].ir = held[v].lease
               /\ job'[v].stage \in {"RENDER", "COMPLETE"} => job'[v].ir = held[v].lease
               /\ job'[v].stage = "RENDER" => artifact'[held[v].run].by = job'[v].seen
               /\ job'[v].stage = "COMPLETE" =>
                     IF job'[v].dropped THEN artifact'[held[v].run].by = job'[v].seen
                                        ELSE artifact'[held[v].run].ir = job'[v].ir
    <3>1. CASE v = w
      BY <2>2, <3>1
    <3>2. CASE v # w
      <4>1. held[v].run \in Runs
        BY <2>2, WorkTyped DEF Holds
      <4>2. PICK q \in Runs : q = held[v].run
        BY <4>1
      <4>3. job'[v] = job[v] /\ InTime(q)
        BY <2>2, <3>2, <4>2 DEF InTime, MarksGrow
      <4>4. artifact'[q] = artifact[q]
        <5>1. CASE q # r
          BY <5>1
        <5>2. CASE q = r
          <6>1. ~Holds(w)
            BY <2>2, <3>2, <4>2, <5>2, InvariantGivesOneOwner DEF OneReportOwner
          <6> QED
            BY <2>2, <4>2, <5>2, <6>1
        <5> QED
          BY <5>1, <5>2
      <4> QED
        BY <2>2, <4>2, <4>3, <4>4 DEF AgentInvariant, OwnReport
    <3> QED
      BY <3>1, <3>2
  <2>3. \A v \in Workers : Holds(v)' <=> Holds(v)
    BY DEF Holds, Busy
  <2> QED
    BY <2>1, <2>2, <2>3 DEF OwnReport, InTime
<1>6. AskedIsOpen'
  <2>1. \A q \in Runs : Open(q)' = Open(q)
    BY DEF Open
  <2>2. \A v \in Workers : \/ job'[v].stage # "ASK"
                           \/ held'[v] = held[v] /\ job'[v] = job[v]
    OBVIOUS
  <2> QED
    BY <1>1, <2>1, <2>2, AskedKept DEF AgentInvariant
<1>7. DeletionComplete'
  <2>1. DeletedLeavesNothing'
    <3> SUFFICES ASSUME NEW q \in Runs, run[q].state = "DELETED",
                        marks'[q] \subseteq {"OVERLAP"}
                 PROVE  artifact'[q] = NoArtifact /\ question[q] = NoQuestions
      BY DEF DeletedLeavesNothing
    <3>1. artifact'[q] = artifact[q] /\ marks[q] \subseteq {"OVERLAP"}
      BY <1>4 DEF MarksGrow
    <3> QED
      BY <3>1 DEF AgentInvariant, DeletionComplete, DeletedLeavesNothing
  <2>2. ASSUME NEW q \in deleting
        PROVE  /\ Exists(q)
               /\ marks'[q] \subseteq {"OVERLAP"} =>
                     run[q].state \notin Active /\ artifact'[q].by = purging[q]
    <3>1. q \in Runs /\ Exists(q)
      BY DEF ReportTypeOK, AgentInvariant, DeletionComplete
    <3>2. ASSUME marks'[q] \subseteq {"OVERLAP"}
          PROVE  run[q].state \notin Active /\ artifact'[q].by = purging[q]
      <4>1. marks[q] \subseteq {"OVERLAP"}
        BY <3>1, <3>2 DEF MarksGrow
      <4>2. run[q].state \notin Active /\ artifact[q].by = purging[q]
        BY <4>1 DEF AgentInvariant, DeletionComplete
      <4> QED
        BY <1>4, <3>1, <3>2, <4>2 DEF Active
    <3> QED
      BY <3>1, <3>2
  <2> QED
    BY <2>1, <2>2 DEF DeletionComplete, Exists
<1> QED
  BY <1>2, <1>3, <1>5, <1>6, <1>7 DEF AgentInvariant

LEMMA RenderKeeps ==
    ASSUME ReportTypeOK, ReportInvariant, AgentTypeOK, ReportTypeOK', AgentInvariant,
           NEW w \in Workers, ReadReport(w) \/ Persist(w) \/ PersistFails(w)
    PROVE  AgentInvariant'
<1>1. Busy(w) /\ job[w].stage \in {"READ", "RENDER"} /\ ~job[w].dropped
  BY DEF ReadReport, Persist, PersistFails, At, AgentInvariant, AgentBounds, JobBounds
<1>2. PICK r \in Runs : r = held[w].run
  BY <1>1, WorkTyped
<1>3. /\ job[w] \in Job /\ job[w].ir <= issued[r]
      /\ UNCHANGED <<run, issued, held, deleting, session, calls, question, purging>>
  BY <1>1, <1>2, JobTyped DEF AgentInvariant, AgentBounds, JobBounds,
     ReadReport, Persist, PersistFails, reportVars, unfailedVars
<1>4. ASSUME NEW error \in {"RETRYABLE", "FATAL"}, Raise(w, error),
             UNCHANGED <<artifact, marks>>
      PROVE  AgentInvariant'
  <2>1. JobsCalm
    BY <1>1, <1>3, <1>4, RaisedCalm DEF AgentInvariant, AgentBounds
  <2>2. CalmStep
    BY <1>3, <1>4, <2>1, QuietRuns, QuietTokens, QuietAgent DEF CalmStep
  <2> QED
    BY <2>2, CalmStepKeeps
<1>5. CASE ReadReport(w)
  <2> DEFINE j == [job[w] EXCEPT !.stage = "RENDER", !.ir = run[r].ir,
                                 !.seen = artifact[r].by]
  <2>1. run[r].ir \in Nat /\ artifact[r].by \in Nat /\ run[r].ir <= issued[r]
    BY DEF ReportTypeOK, ReportRunRow, AgentTypeOK, Artifact, AgentInvariant,
           AgentBounds, RunBounds
  <2>2. /\ j \in Job /\ j.stage = "RENDER" /\ j.ir = run[r].ir /\ j.seen = artifact[r].by
        /\ j.dropped = job[w].dropped
    BY <1>3, <2>1 DEF Job
  <2>3. UNCHANGED <<artifact, marks>> /\ job[w].stage = "READ"
    BY <1>5 DEF ReadReport, At
  <2> HIDE DEF j
  <2>4. CASE SetJob(w, j)
    <3>1. job'[w] = j /\ \A v \in Workers : v # w => job'[v] = job[v]
      BY <2>2, <2>4, JobMoves
    <3>2. Holds(w) /\ "LATE" \notin marks'[r] => j.ir = held[w].lease
      BY <1>2, <2>2, <2>3 DEF AgentInvariant, OwnReport, InTime
    <3>3. MarksGrow
      BY <2>3, MarksStay
    <3> QED
      BY <1>1, <1>2, <1>3, <2>1, <2>2, <2>3, <3>1, <3>2, <3>3, RenderStepKeeps
  <2>5. \/ SetJob(w, j) \/ Raise(w, "FATAL")
    BY <1>2, <1>5 DEF ReadReport, j
  <2> QED
    BY <1>4, <2>3, <2>4, <2>5
<1>6. CASE PersistFails(w)
  <2> DEFINE j == [job[w] EXCEPT !.stage = "COMPLETE", !.dropped = TRUE]
  <2>1. /\ j \in Job /\ j.stage = "COMPLETE" /\ j.ir = job[w].ir /\ j.seen = job[w].seen
        /\ j.dropped = TRUE
    BY <1>3 DEF Job
  <2>2. SetJob(w, j) /\ UNCHANGED <<artifact, marks>> /\ job[w].stage = "RENDER"
    BY <1>6 DEF PersistFails, At
  <2> HIDE DEF j
  <2>3. job'[w] = j /\ \A v \in Workers : v # w => job'[v] = job[v]
    BY <2>1, <2>2, JobMoves
  <2>4. Holds(w) /\ "LATE" \notin marks'[r] => /\ j.ir = held[w].lease
                                               /\ artifact[r].by = j.seen
    BY <1>2, <2>1, <2>2 DEF AgentInvariant, OwnReport, InTime
  <2>5. MarksGrow
    BY <2>2, MarksStay
  <2> QED
    BY <1>1, <1>2, <1>3, <2>1, <2>2, <2>3, <2>4, <2>5, RenderStepKeeps
<1>7. CASE Persist(w)
  <2>1. CASE Raise(w, "RETRYABLE") /\ UNCHANGED <<artifact, marks>>
    BY <1>4, <2>1
  <2> DEFINE j == [job[w] EXCEPT !.stage = "COMPLETE"]
             files == [by |-> held[w].lease, ir |-> job[w].ir]
  <2>2. CASE /\ artifact' = [artifact EXCEPT ![r] = files]
             /\ SetJob(w, j) /\ MarkLate(r, held[w].lease)
    <3>1. /\ j \in Job /\ j.stage = "COMPLETE" /\ j.ir = job[w].ir
          /\ j.dropped = job[w].dropped
      BY <1>3 DEF Job
    <3>2. artifact'[r].ir = job[w].ir /\ \A q \in Runs : q # r => artifact'[q] = artifact[q]
      BY <2>2 DEF AgentTypeOK
    <3> HIDE DEF j
    <3>3. job'[w] = j /\ \A v \in Workers : v # w => job'[v] = job[v]
      BY <2>2, <3>1, JobMoves
    <3>4. MarksGrow /\ (Holds(w) \/ "LATE" \in marks'[r])
      BY <1>1, <1>2, <2>2, LateMarked DEF Holds
    <3>5. Holds(w) /\ "LATE" \notin marks'[r] => j.ir = held[w].lease
      <4>1. job[w].stage = "RENDER"
        BY <1>7 DEF Persist, At
      <4> QED
        BY <1>2, <3>1, <3>4, <4>1 DEF AgentInvariant, OwnReport, InTime, MarksGrow
    <3> QED
      BY <1>1, <1>2, <1>3, <3>1, <3>2, <3>3, <3>4, <3>5, RenderStepKeeps
  <2> QED
    BY <1>2, <1>7, <2>1, <2>2 DEF Persist
<1> QED
  BY <1>5, <1>6, <1>7

\* The end of an attempt in force: what it leaves is what it read and stored.
LEMMA CompleteKeeps ==
    ASSUME ReportTypeOK, ReportInvariant, AgentTypeOK, ReportTypeOK', AgentInvariant,
           NEW w \in Workers, CompleteReport(w) \/ CompleteAsk(w)
    PROVE  AgentInvariant'
<1>1. /\ Holds(w) /\ Busy(w) /\ Release(w) /\ EndAttempt(w)
      /\ job[w].stage \in {"COMPLETE", "ASK"}
      /\ UNCHANGED <<issued, deleting, session, calls, question, purging, marks>>
  BY DEF CompleteReport, CompleteAsk, Publish, Ask, At, Owns, Holds, OwnsReportLease
<1>2. PICK r \in Runs : r = held[w].run
  BY <1>1, WorkTyped
<1>3. /\ run[r] \in ReportRunRow /\ run[r].state = "PROCESSING"
      /\ run[r].lease = held[w].lease
      /\ job[w].ir \in Nat /\ issued[r] \in Nat /\ job[w].ir <= issued[r]
  BY <1>1, <1>2, JobTyped
  DEF Holds, HoldsReportLease, ReportTypeOK, AgentInvariant, AgentBounds, JobBounds
<1>4. /\ run'[r].draft = run[r].draft
      /\ \A q \in Runs : q # r => run'[q] = run[q]
      /\ \/ /\ job[w].stage = "COMPLETE" /\ run'[r].state = "SUCCEEDED"
            /\ run'[r].ir = job[w].ir /\ run'[r].manifest = job[w].ir
         \/ /\ job[w].stage = "ASK" /\ run'[r].state = "NEEDS_INPUT" /\ run'[r].ir = NoToken
  <2>1. CASE CompleteReport(w)
    <3>1. SetRun(r, Succeed(run[r], job[w].ir)) /\ job[w].stage = "COMPLETE"
      BY <1>2, <2>1 DEF CompleteReport, Publish, At
    <3> DEFINE row == Succeed(run[r], job[w].ir)
    <3>2. /\ row \in ReportRunRow /\ row.state = "SUCCEEDED" /\ row.draft = run[r].draft
          /\ row.ir = job[w].ir /\ row.manifest = job[w].ir
      BY <1>3, SucceededRow, EndedReports
    <3> HIDE DEF row
    <3>3. run'[r] = row /\ \A q \in Runs : q # r => run'[q] = run[q]
      BY <3>1, <3>2, SetRunRow DEF row
    <3> QED
      BY <3>1, <3>2, <3>3
  <2>2. CASE CompleteAsk(w)
    <3>1. SetRun(r, AwaitInput(run[r])) /\ job[w].stage = "ASK"
      BY <1>2, <2>2 DEF CompleteAsk, Ask, At
    <3> QED
      BY <1>3, <3>1, AskingRow, EndedReports, SetRunRow
  <2> QED
    BY <2>1, <2>2
<1>5. /\ \A q \in Runs : q # r => artifact'[q] = artifact[q]
      /\ \/ job[w].stage = "COMPLETE" /\ job[w].dropped
               /\ artifact'[r] = WithoutSeen(r, job[w].seen)
         \/ job[w].stage = "COMPLETE" /\ ~job[w].dropped /\ artifact'[r] = artifact[r]
         \/ job[w].stage = "ASK" /\ artifact'[r] = artifact[r]
  BY <1>2 DEF CompleteReport, CompleteAsk, At, AgentTypeOK
<1>6. JobsCalm /\ IssuedGrows /\ SessionsCalm /\ MarksGrow
  BY <1>1, EndedCalm, QuietTokens, QuietAgent
\* Whoever still holds a lease afterwards is at another run.
<1>7. \A q \in Runs, t \in Nat : HoldsReportLease(run'[q], t) =>
         q # r /\ HoldsReportLease(run[q], t)
  BY <1>4 DEF HoldsReportLease
<1>8. \A v \in Workers : Holds(v)' =>
         /\ Holds(v) /\ held[v].run \in Runs /\ held[v].run # r
         /\ held'[v] = held[v] /\ job'[v] = job[v]
  <2> SUFFICES ASSUME NEW v \in Workers, Holds(v)'
               PROVE  /\ Holds(v) /\ held[v].run \in Runs /\ held[v].run # r
                      /\ held'[v] = held[v] /\ job'[v] = job[v]
    OBVIOUS
  <2>1. held'[v] # NoWork /\ HoldsReportLease(run'[held'[v].run], held'[v].lease)
    BY DEF Holds, Busy
  <2>2. v # w /\ held'[v] = held[v]
    BY <1>1, <2>1, EndKeepsClaims
  <2>3. job'[v] = job[v]
    BY <1>1, <2>2, AgentRecordsTyped, JobMoves DEF EndAttempt
  <2>4. Busy(v) /\ held[v].run \in Runs /\ held[v].lease \in Nat
    BY <2>1, <2>2, WorkTyped DEF Busy
  <2> QED
    BY <1>7, <2>1, <2>2, <2>3, <2>4 DEF Holds
<1>9. AgentBounds'
  <2>1. \A q \in Runs : /\ run'[q].draft = run[q].draft \/ run'[q].draft <= issued[q]
                        /\ run'[q].ir = run[q].ir \/ run'[q].ir <= issued[q]
    BY <1>3, <1>4 DEF NoToken
  <2> QED
    BY <1>1, <1>6, <2>1, RunsStayBounded, CallsStayBounded, JobsStayBounded
    DEF AgentInvariant, AgentBounds
<1>10. OwnWork'
  <2>1. DraftOfThisAttempt'
    BY <1>1, <1>4 DEF AgentInvariant, OwnWork, DraftOfThisAttempt
  <2>2. \A q \in Runs : HoldsReportLease(run'[q], session[q].token)
                           /\ session[q].submitted /\ InTime(q)
                        => run'[q].ir = session[q].token
    BY <1>4, <1>7 DEF AgentTypeOK, Session, AgentInvariant, OwnWork
  <2> QED
    BY <1>1, <2>1, <2>2 DEF AgentInvariant, OwnWork, InTime
<1>11. OwnReport'
  <2>1. PublishedReportConsistent'
    <3> SUFFICES ASSUME NEW q \in Runs, run'[q].state = "SUCCEEDED",
                        "LATE" \notin marks[q]
                 PROVE  /\ run'[q].ir = run'[q].manifest
                        /\ artifact'[q].ir \in {NoToken, run'[q].manifest}
      BY <1>1 DEF PublishedReportConsistent
    <3>1. CASE q # r
      BY <1>4, <1>5, <3>1 DEF AgentInvariant, OwnReport, PublishedReportConsistent
    <3>2. CASE q = r
      <4>1. /\ job[w].stage = "COMPLETE" /\ run'[r].ir = job[w].ir
            /\ run'[r].manifest = job[w].ir
        BY <1>4, <3>2
      <4>2. IF job[w].dropped THEN artifact[r].by = job[w].seen
                              ELSE artifact[r].ir = job[w].ir
        BY <1>1, <1>2, <3>2, <4>1 DEF AgentInvariant, OwnReport, InTime
      <4>3. NoArtifact.ir = NoToken
        BY DEF NoArtifact, NoToken
      <4>4. artifact'[r].ir \in {NoToken, job[w].ir}
        BY <1>5, <4>1, <4>2, <4>3 DEF WithoutSeen
      <4> QED
        BY <3>2, <4>1, <4>4
    <3> QED
      BY <3>1, <3>2
  <2>2. ASSUME NEW v \in Workers, Holds(v)', "LATE" \notin marks'[held'[v].run]
        PROVE  /\ job'[v].stage = "READ" => run'[held'[v].run].ir = held'[v].lease
               /\ job'[v].stage \in {"RENDER", "COMPLETE"} => job'[v].ir = held'[v].lease
               /\ job'[v].stage = "RENDER" => artifact'[held'[v].run].by = job'[v].seen
               /\ job'[v].stage = "COMPLETE" =>
                     IF job'[v].dropped THEN artifact'[held'[v].run].by = job'[v].seen
                                        ELSE artifact'[held'[v].run].ir = job'[v].ir
    <3>1. PICK q \in Runs : q = held[v].run /\ q # r
      BY <1>8, <2>2
    <3>2. /\ Holds(v) /\ held'[v] = held[v] /\ job'[v] = job[v] /\ InTime(q)
          /\ run'[q] = run[q] /\ artifact'[q] = artifact[q]
      BY <1>1, <1>4, <1>5, <1>8, <2>2, <3>1 DEF InTime
    <3> QED
      BY <3>1, <3>2 DEF AgentInvariant, OwnReport
  <2> QED
    BY <2>1, <2>2 DEF OwnReport, InTime
<1>12. AskedIsOpen'
  <2>1. \A q \in Runs : Open(q)' = Open(q)
    BY <1>1 DEF Open
  <2>2. WaitingRunHasQuestion'
    <3> SUFFICES ASSUME NEW q \in Runs, run'[q].state = "NEEDS_INPUT",
                        "OVERLAP" \notin marks[q]
                 PROVE  Open(q) # {}
      BY <1>1, <2>1 DEF WaitingRunHasQuestion
    <3>1. CASE q # r
      BY <1>4, <3>1 DEF AgentInvariant, AskedIsOpen, WaitingRunHasQuestion
    <3>2. CASE q = r
      <4>1. job[w].stage = "ASK"
        BY <1>4, <3>2
      <4> QED
        BY <1>1, <1>2, <3>2, <4>1 DEF AgentInvariant, AskedIsOpen
    <3> QED
      BY <3>1, <3>2
  <2>3. \A q \in Runs : HoldsReportLease(run'[q], session[q].token)
                           /\ session[q].asked => Open(q) # {}
    BY <1>7 DEF AgentTypeOK, Session, AgentInvariant, AskedIsOpen
  <2>4. ASSUME NEW v \in Workers, Holds(v)', job'[v].stage = "ASK"
        PROVE  {f \in Fields : question'[held'[v].run][f] = "OPEN"} # {}
    BY <1>1, <1>8, <2>4 DEF AgentInvariant, AskedIsOpen, Open
  <2> QED
    BY <1>1, <2>1, <2>2, <2>3, <2>4 DEF AskedIsOpen, Open
<1>13. DeletionComplete'
  <2>1. DeletedLeavesNothing'
    BY <1>1, <1>4, <1>5
    DEF AgentInvariant, DeletionComplete, DeletedLeavesNothing
  <2>2. ASSUME NEW q \in deleting
        PROVE  /\ run'[q].state \notin {"ABSENT", "DELETED"}
               /\ marks[q] \subseteq {"OVERLAP"} =>
                     run'[q].state \notin Active /\ artifact'[q].by = purging[q]
    <3>1. q \in Runs /\ Exists(q)
      BY DEF ReportTypeOK, AgentInvariant, DeletionComplete
    <3>2. marks[q] \subseteq {"OVERLAP"} =>
             run[q].state \notin Active /\ artifact[q].by = purging[q]
      BY DEF AgentInvariant, DeletionComplete
    <3> QED
      BY <1>3, <1>4, <1>5, <3>1, <3>2 DEF Exists, Active
  <2> QED
    BY <1>1, <2>1, <2>2 DEF DeletionComplete, Exists
<1> QED
  BY <1>9, <1>10, <1>11, <1>12, <1>13 DEF AgentInvariant

LEMMA AttemptKeeps ==
    ASSUME ReportTypeOK, ReportInvariant, AgentTypeOK, ReportTypeOK', AgentInvariant,
           NEW w \in Workers, Attempt(w)
    PROVE  AgentInvariant'
  BY StartKeeps, CalmAttemptKeeps, RenderKeeps, CompleteKeeps DEF Attempt

LEMMA AgentKeeps ==
    ASSUME ReportTypeOK, ReportInvariant, AgentTypeOK, ReportTypeOK', AgentTypeOK',
           AgentInvariant, Agent
    PROVE  AgentInvariant'
  BY SessionEndsKeeps, AuthorizeKeeps, CommitDraftKeeps, CommitSubmitKeeps,
     CommitClarifyKeeps, CallFailsKeeps DEF Agent

\* Users: only answering closes questions, and only of a run that waits.
LEMMA AnswerKeeps ==
    ASSUME ReportTypeOK, ReportInvariant, AgentTypeOK, ReportTypeOK', AgentInvariant,
           NEW u \in Requests, NEW answers \in SUBSET Fields, Answer(u, answers)
    PROVE  AgentInvariant'
<1>1. /\ answering[u] \in Answering
      /\ UNCHANGED <<issued, held, deleting, job, session, calls, artifact, purging>>
  BY DEF Answer, AgentTypeOK, Resume, reportVars
<1>2. PICK r \in Runs : r = answering[u].run
  BY <1>1 DEF Answering
<1> DEFINE after == [f \in Fields |-> IF f \in answers THEN "ANSWERED" ELSE question[r][f]]
<1>3. /\ run[r].state = "NEEDS_INPUT" /\ question' = [question EXCEPT ![r] = after]
      /\ \/ /\ Resume(r) /\ MarkAccident(r, "REACTIVATED", r \in deleting)
         \/ /\ Remaining(u, answers) # {} /\ UNCHANGED run
            /\ MarkAccident(r, "OVERLAP", answering[u].open # Open(r))
  BY <1>2 DEF Answer, reportVars
<1>4. MarksGrow /\ IssuedGrows /\ SessionsCalm /\ JobsCalm
  <2>1. MarksGrow
    BY <1>3, AccidentMarked DEF Accident
  <2> QED
    BY <1>1, <2>1, QuietTokens, QuietAgent
<1>5. StatesCalm /\ ReportsKept
  <2>1. CASE Resume(r) /\ MarkAccident(r, "REACTIVATED", r \in deleting)
    <3>1. r \in deleting => "REACTIVATED" \in marks'[r]
      BY <2>1, AccidentMarked DEF Accident
    <3> QED
      BY <1>4, <2>1, <3>1, RequestsAreCalm DEF AgentInvariant
  <2>2. CASE UNCHANGED run
    BY <2>2, QuietRuns
  <2> QED
    BY <1>3, <2>1, <2>2
<1>6. /\ run'[r].state \in {"PENDING", "NEEDS_INPUT"}
      /\ run'[r].state = "NEEDS_INPUT" /\ "OVERLAP" \notin marks'[r] => Open(r)' # {}
  <2>1. CASE Resume(r)
    <3>1. run[r] \in ReportRunRow /\ SetRun(r, ResumeRun(run[r]))
      BY <2>1 DEF ReportTypeOK, Resume
    <3> QED
      BY <3>1, ResumedRow, SetRunRow
  <2>2. CASE /\ Remaining(u, answers) # {} /\ UNCHANGED run
             /\ MarkAccident(r, "OVERLAP", answering[u].open # Open(r))
    <3>1. ASSUME "OVERLAP" \notin marks'[r] PROVE Open(r)' # {}
      <4>1. answering[u].open = Open(r)
        BY <2>2, <3>1, AccidentMarked DEF Accident
      <4>2. PICK f \in Open(r) \ answers : TRUE
        BY <2>2, <4>1 DEF Remaining
      <4>3. question'[r] = after /\ after[f] = question[r][f]
        BY <1>3, <4>2 DEF AgentTypeOK, Open
      <4> HIDE DEF after
      <4> QED
        BY <4>2, <4>3 DEF Open
    <3> QED
      BY <1>3, <2>2, <3>1
  <2> QED
    BY <1>3, <2>1, <2>2
<1>7. \A q \in Runs : q # r => question'[q] = question[q]
  BY <1>3 DEF AgentTypeOK
<1>8. AgentBounds' /\ OwnWork' /\ OwnReport'
  BY <1>1, <1>4, <1>5, RunsStayBounded, CallsStayBounded, JobsStayBounded,
     OwnWorkKept, OwnReportKept
  DEF AgentInvariant, AgentBounds, ReportsKept, SameReport
<1>9. AskedIsOpen'
  <2>1. WaitingRunHasQuestion'
    <3> SUFFICES ASSUME NEW q \in Runs, run'[q].state = "NEEDS_INPUT",
                        "OVERLAP" \notin marks'[q]
                 PROVE  Open(q)' # {}
      BY DEF WaitingRunHasQuestion
    <3>1. CASE q = r
      BY <1>6, <3>1
    <3>2. CASE q # r
      <4>1. run[q].state = "NEEDS_INPUT" /\ "OVERLAP" \notin marks[q]
        BY <1>4, <1>5 DEF StatesCalm, CalmState, MarksGrow
      <4>2. Open(q)' = Open(q)
        BY <1>7, <3>2 DEF Open
      <4> QED
        BY <4>1, <4>2 DEF AgentInvariant, AskedIsOpen, WaitingRunHasQuestion
    <3> QED
      BY <3>1, <3>2
  <2>2. \A q \in Runs : run'[q].state = "PROCESSING" => q # r /\ Open(q)' = Open(q)
    BY <1>6, <1>7 DEF Open
  <2>3. ASSUME NEW q \in Runs, HoldsReportLease(run'[q], session'[q].token),
               session'[q].asked
        PROVE  Open(q)' # {}
    <3>1. HoldsReportLease(run[q], session[q].token) /\ session[q].asked
      BY <1>1, <1>5, <2>3, LeaseWasInForce
    <3>2. Open(q)' = Open(q)
      BY <2>2, <2>3 DEF HoldsReportLease
    <3> QED
      BY <3>1, <3>2 DEF AgentInvariant, AskedIsOpen
  <2>4. ASSUME NEW v \in Workers, Holds(v)', job'[v].stage = "ASK"
        PROVE  {f \in Fields : question'[held'[v].run][f] = "OPEN"} # {}
    <3>1. Holds(v) /\ held[v].run \in Runs
      BY <1>1, <1>5, <2>4, ClaimWasInForce
    <3>2. PICK q \in Runs : q = held[v].run
      BY <3>1
    <3>3. run'[q].state = "PROCESSING"
      BY <1>1, <2>4, <3>2 DEF Holds, HoldsReportLease
    <3>4. Open(q)' = Open(q) /\ Open(q) # {}
      BY <1>1, <2>2, <2>4, <3>1, <3>2, <3>3 DEF AgentInvariant, AskedIsOpen
    <3> QED
      BY <1>1, <3>2, <3>4 DEF Open
  <2> QED
    BY <2>1, <2>3, <2>4 DEF AskedIsOpen, Open
<1>10. DeletionComplete'
  BY <1>1, <1>4, <1>5, <1>6, <1>7, DeletionKept DEF AgentInvariant
<1> QED
  BY <1>8, <1>9, <1>10 DEF AgentInvariant

LEMMA DeleteKeeps ==
    ASSUME ReportTypeOK, ReportInvariant, AgentTypeOK, ReportTypeOK', AgentInvariant,
           NEW r \in Runs, BeginDelete(r) \/ FinishDelete(r)
    PROVE  AgentInvariant'
<1>1. /\ UNCHANGED <<issued, held, job, session, calls, marks>>
      /\ deleting' = IF BeginDelete(r) THEN deleting \cup {r} ELSE deleting \ {r}
  BY DEF BeginDelete, AdmitDelete, FinishDelete, DeleteRun
<1>2. MarksGrow /\ IssuedGrows /\ SessionsCalm /\ JobsCalm
  BY <1>1, QuietTokens, QuietAgent
<1>3. CASE BeginDelete(r)
  <2>1. /\ UNCHANGED <<run, artifact, question>>
        /\ Exists(r) /\ run[r].state \notin Active
        /\ purging' = [purging EXCEPT ![r] = artifact[r].by]
        /\ deleting' = deleting \cup {r}
    BY <1>3 DEF BeginDelete, AdmitDelete
  <2>2. StatesCalm /\ ReportsKept
    BY <2>1, QuietRuns
  <2>3. AgentBounds' /\ OwnWork' /\ OwnReport'
    BY <1>1, <1>2, <2>1, <2>2, RunsStayBounded, CallsStayBounded, JobsStayBounded,
       OwnWorkKept, OwnReportKept
    DEF AgentInvariant, AgentBounds, ReportsKept, SameReport
  <2>4. AskedIsOpen'
    BY <1>1, <2>1 DEF AgentInvariant, AskedIsOpen, WaitingRunHasQuestion, Open, Holds, Busy
  <2>5. DeletionComplete'
    <3>1. DeletedLeavesNothing'
      BY <1>1, <2>1 DEF AgentInvariant, DeletionComplete, DeletedLeavesNothing
    <3>2. purging'[r] = artifact[r].by /\ \A q \in Runs : q # r => purging'[q] = purging[q]
      BY <2>1 DEF AgentTypeOK
    <3>3. ASSUME NEW q \in deleting'
          PROVE  /\ Exists(q)
                 /\ marks[q] \subseteq {"OVERLAP"} =>
                       run[q].state \notin Active /\ artifact[q].by = purging'[q]
      BY <2>1, <3>2 DEF ReportTypeOK, AgentInvariant, DeletionComplete
    <3> QED
      BY <1>1, <2>1, <3>1, <3>3 DEF DeletionComplete, Exists
  <2> QED
    BY <2>3, <2>4, <2>5 DEF AgentInvariant
<1>4. CASE FinishDelete(r)
  <2>1. /\ SetRun(r, DeletedRun) /\ r \in deleting /\ deleting' = deleting \ {r}
        /\ artifact' = [artifact EXCEPT ![r] = WithoutSeen(r, purging[r])]
        /\ question' = [question EXCEPT ![r] = NoQuestions]
        /\ purging' = [purging EXCEPT ![r] = 0]
    BY <1>4 DEF FinishDelete, DeleteRun
  <2>2. /\ DeletedRun.state = "DELETED" /\ DeletedRun.draft = NoToken
        /\ DeletedRun.ir = NoToken
    BY DEF DeletedRun, NoRun
  <2>3. run'[r] = DeletedRun /\ \A q \in Runs : q # r => run'[q] = run[q]
    BY <2>1, NoRunTyped, SetRunRow
  <2>4. \A q \in Runs : q # r => /\ artifact'[q] = artifact[q] /\ question'[q] = question[q]
                                /\ purging'[q] = purging[q]
    BY <2>1 DEF AgentTypeOK
  <2>5. artifact'[r] = WithoutSeen(r, purging[r]) /\ question'[r] = NoQuestions
    BY <2>1 DEF AgentTypeOK
  <2>6. \A q \in Runs, t \in Nat : HoldsReportLease(run'[q], t) =>
           q # r /\ HoldsReportLease(run[q], t)
    BY <2>2, <2>3 DEF HoldsReportLease
  <2>7. \A v \in Workers : Holds(v)' =>
           Holds(v) /\ held[v].run \in Runs /\ held[v].run # r
    <3> SUFFICES ASSUME NEW v \in Workers, Holds(v)'
                 PROVE  Holds(v) /\ held[v].run \in Runs /\ held[v].run # r
      OBVIOUS
    <3>1. Busy(v) /\ HoldsReportLease(run'[held[v].run], held[v].lease)
      BY <1>1 DEF Holds, Busy
    <3>2. held[v].run \in Runs /\ held[v].lease \in Nat
      BY <3>1, WorkTyped
    <3> QED
      BY <2>6, <3>1, <3>2 DEF Holds
  <2>8. AgentBounds'
    <3>1. \A q \in Runs : /\ run'[q].draft = run[q].draft \/ run'[q].draft <= issued[q]
                          /\ run'[q].ir = run[q].ir \/ run'[q].ir <= issued[q]
      <4>1. issued[r] \in Nat
        BY DEF ReportTypeOK
      <4> QED
        BY <2>2, <2>3, <4>1 DEF NoToken
    <3> QED
      BY <1>1, <1>2, <3>1, RunsStayBounded, CallsStayBounded, JobsStayBounded
      DEF AgentInvariant, AgentBounds
  <2>9. OwnWork'
    <3>1. DraftOfThisAttempt'
      BY <1>1, <2>2, <2>3 DEF AgentInvariant, OwnWork, DraftOfThisAttempt
    <3>2. \A q \in Runs : HoldsReportLease(run'[q], session[q].token)
                             /\ session[q].submitted /\ InTime(q)
                          => run'[q].ir = session[q].token
      BY <2>3, <2>6 DEF AgentTypeOK, Session, AgentInvariant, OwnWork
    <3> QED
      BY <1>1, <3>1, <3>2 DEF AgentInvariant, OwnWork, InTime
  <2>10. OwnReport'
    <3>1. PublishedReportConsistent'
      BY <1>1, <2>2, <2>3, <2>4 DEF AgentInvariant, OwnReport, PublishedReportConsistent
    <3>2. ASSUME NEW v \in Workers, Holds(v)', "LATE" \notin marks[held[v].run]
          PROVE  /\ job[v].stage = "READ" => run'[held[v].run].ir = held[v].lease
                 /\ job[v].stage \in {"RENDER", "COMPLETE"} => job[v].ir = held[v].lease
                 /\ job[v].stage = "RENDER" => artifact'[held[v].run].by = job[v].seen
                 /\ job[v].stage = "COMPLETE" =>
                       IF job[v].dropped THEN artifact'[held[v].run].by = job[v].seen
                                         ELSE artifact'[held[v].run].ir = job[v].ir
      <4>1. PICK q \in Runs : q = held[v].run /\ q # r
        BY <2>7, <3>2
      <4>2. Holds(v) /\ InTime(q) /\ run'[q] = run[q] /\ artifact'[q] = artifact[q]
        BY <2>3, <2>4, <2>7, <3>2, <4>1 DEF InTime
      <4> QED
        BY <4>1, <4>2 DEF AgentInvariant, OwnReport
    <3> QED
      BY <1>1, <3>1, <3>2 DEF OwnReport, InTime
  <2>11. AskedIsOpen'
    <3>1. \A q \in Runs : q # r => Open(q)' = Open(q)
      BY <2>4 DEF Open
    <3>2. WaitingRunHasQuestion'
      BY <1>1, <2>2, <2>3, <3>1 DEF AgentInvariant, AskedIsOpen, WaitingRunHasQuestion
    <3>3. \A q \in Runs : HoldsReportLease(run'[q], session[q].token)
                             /\ session[q].asked => Open(q)' # {}
      BY <2>6, <3>1 DEF AgentTypeOK, Session, AgentInvariant, AskedIsOpen
    <3>4. ASSUME NEW v \in Workers, Holds(v)', job[v].stage = "ASK"
          PROVE  {f \in Fields : question'[held[v].run][f] = "OPEN"} # {}
      <4>1. PICK q \in Runs : q = held[v].run /\ q # r
        BY <2>7, <3>4
      <4>2. Open(q) # {} /\ Open(q)' = Open(q)
        BY <2>7, <3>1, <3>4, <4>1 DEF AgentInvariant, AskedIsOpen
      <4> QED
        BY <4>1, <4>2 DEF Open
    <3> QED
      BY <1>1, <3>2, <3>3, <3>4 DEF AskedIsOpen, Open
  <2>12. DeletionComplete'
    <3>1. ASSUME NEW q \in Runs, run'[q].state = "DELETED", marks[q] \subseteq {"OVERLAP"}
          PROVE  artifact'[q] = NoArtifact /\ question'[q] = NoQuestions
      <4>1. CASE q = r
        <5>1. artifact[r].by = purging[r]
          BY <2>1, <3>1, <4>1 DEF AgentInvariant, DeletionComplete
        <5> QED
          BY <2>5, <4>1, <5>1 DEF WithoutSeen
      <4>2. CASE q # r
        BY <2>3, <2>4, <3>1, <4>2 DEF AgentInvariant, DeletionComplete, DeletedLeavesNothing
      <4> QED
        BY <4>1, <4>2
    <3>2. ASSUME NEW q \in deleting, q # r
          PROVE  /\ run'[q].state \notin {"ABSENT", "DELETED"}
                 /\ marks[q] \subseteq {"OVERLAP"} =>
                       run'[q].state \notin Active /\ artifact'[q].by = purging'[q]
      <4>1. q \in Runs
        BY DEF ReportTypeOK
      <4>2. run'[q] = run[q] /\ artifact'[q] = artifact[q] /\ purging'[q] = purging[q]
        BY <2>3, <2>4, <3>2, <4>1
      <4> QED
        BY <4>2 DEF AgentInvariant, DeletionComplete, Exists
    <3> QED
      BY <1>1, <2>1, <3>1, <3>2 DEF DeletionComplete, DeletedLeavesNothing, Exists
  <2> QED
    BY <2>8, <2>9, <2>10, <2>11, <2>12 DEF AgentInvariant
<1> QED
  BY <1>3, <1>4

LEMMA UserKeeps ==
    ASSUME ReportTypeOK, ReportInvariant, AgentTypeOK, ReportTypeOK', AgentInvariant,
           User
    PROVE  AgentInvariant'
<1>1. ASSUME NEW u \in Requests, AnswerRefused(u) \/ \E r \in Runs : OpenAnswer(u, r)
      PROVE  AgentInvariant'
  <2>1. UNCHANGED <<run, issued, held, deleting, job, session, calls, question,
                    artifact, purging, marks>>
    BY <1>1 DEF AnswerRefused, OpenAnswer, reportVars
  <2>2. CalmStep
    BY <2>1, QuietRuns, QuietTokens, QuietAgent DEF CalmStep
  <2> QED
    BY <2>2, CalmStepKeeps
<1>2. ASSUME NEW r \in Runs, RetryAgain(r) PROVE AgentInvariant'
  <2>1. /\ UNCHANGED <<issued, held, deleting, job, session, calls, question, artifact,
                       purging>>
        /\ Retry(r)
    BY <1>2 DEF RetryAgain, Retry
  <2>2. MarksGrow /\ (r \in deleting => "REACTIVATED" \in marks'[r])
    BY <1>2, AccidentMarked DEF RetryAgain, Accident
  <2>3. StatesCalm /\ ReportsKept
    BY <2>1, <2>2, RequestsAreCalm DEF AgentInvariant
  <2>4. CalmStep
    BY <2>1, <2>2, <2>3, QuietTokens, QuietAgent DEF CalmStep
  <2> QED
    BY <2>4, CalmStepKeeps
<1> QED
  BY <1>1, <1>2, AnswerKeeps, DeleteKeeps DEF User

-----------------------------------------------------------------------------
(* The theorems *)

LEMMA AgentInitSound == Init => AgentInvariant
<1> SUFFICES ASSUME Init PROVE AgentInvariant
  OBVIOUS
<1>1. /\ run = [r \in Runs |-> NoRun] /\ issued = [r \in Runs |-> 0]
      /\ held = [w \in Workers |-> NoWork] /\ deleting = {}
  BY DEF Init, ReportInit
<1>2. /\ NoRun.state = "ABSENT" /\ NoRun.draft = 0 /\ NoRun.ir = 0
      /\ NoJob.stage = "IDLE" /\ ~NoJob.dropped /\ NewSession(NoToken).token = 0
      /\ ~NewSession(NoToken).submitted /\ ~NewSession(NoToken).asked
  BY DEF NoRun, NoToken, NoJob, NewJob, NewSession
<1>3. AgentBounds
  BY <1>1, <1>2 DEF Init, AgentBounds, RunBounds, CallBounds, JobBounds, Busy
<1>4. OwnWork /\ OwnReport
  BY <1>1, <1>2 DEF Init, OwnWork, DraftOfThisAttempt, OwnReport,
     PublishedReportConsistent, HoldsReportLease, Holds, Busy
<1>5. AskedIsOpen /\ DeletionComplete
  BY <1>1, <1>2 DEF Init, AskedIsOpen, WaitingRunHasQuestion, DeletionComplete,
     DeletedLeavesNothing, HoldsReportLease, Holds, Busy
<1> QED
  BY <1>3, <1>4, <1>5 DEF AgentInvariant

Sound == ReportTypeOK /\ AgentTypeOK /\ ReportInvariant /\ AgentInvariant

LEMMA SoundStep == Sound /\ [Next]_vars => Sound'
<1> SUFFICES ASSUME ReportTypeOK, AgentTypeOK, ReportInvariant, AgentInvariant,
                    [Next]_vars
             PROVE  Sound'
  BY DEF Sound
<1>1. [ReportNext]_reportVars
  BY AgentStepSimulates DEF AgentInvariant
<1>2. ReportTypeOK' /\ AgentTypeOK' /\ ReportInvariant'
  BY <1>1, ReportTypeStep, AgentTypeStep, ReportInvariantStep
<1>3. AgentInvariant'
  <2>1. CASE UNCHANGED vars
    <3>1. UNCHANGED <<run, issued, held, deleting, job, session, calls, question,
                      artifact, purging, marks>>
      BY <2>1 DEF vars, reportVars, agentVars
    <3>2. CalmStep
      BY <3>1, QuietRuns, QuietTokens, QuietAgent DEF CalmStep
    <3> QED
      BY <1>2, <3>2, CalmStepKeeps
  <2> QED
    BY <1>2, <2>1, AttemptKeeps, AgentKeeps, UserKeeps, ElsewhereKeeps DEF Next
<1> QED
  BY <1>2, <1>3 DEF Sound

\* Whatever the runs, the workers, the calls under way and the accidents, the
\* inductive invariant of an attempt holds.
THEOREM AgentInvariantHolds == Spec => []Sound
<1>1. Init => Sound
  BY ReportInitTyped, AgentInitTyped, ReportInitSound, AgentInitSound DEF Init, Sound
<1>2. Sound /\ [Next]_vars => Sound'
  BY SoundStep
<1> QED
  BY <1>1, <1>2, PTL DEF Spec

\* Every variable of an attempt has its type.
THEOREM ReportAgentTypeCorrect == Spec => []ReportAgentTypeOK
<1>1. Sound => ReportAgentTypeOK
  BY DEF Sound, AgentTypeOK, ReportAgentTypeOK
<1> QED
  BY <1>1, AgentInvariantHolds, PTL

\* With an agent session, late calls and users at it, an attempt is still
\* nothing but steps of the queue's contract.
THEOREM AgentImplementsReportQueue == Spec => ReportSpec
<1>1. Init => ReportInit
  BY DEF Init
<1>2. Sound /\ [Next]_vars => [ReportNext]_reportVars
  BY AgentStepSimulates DEF Sound, AgentInvariant
<1> QED
  BY <1>1, <1>2, AgentInvariantHolds, PTL DEF Spec, ReportSpec

\* Row, manifest and files of a published run show one report, unless an attempt
\* that had lost its lease wrote.
THEOREM PublishedReportConsistentHolds == Spec => []PublishedReportConsistent
<1>1. Sound => PublishedReportConsistent
  BY DEF Sound, AgentInvariant, OwnReport
<1> QED
  BY <1>1, AgentInvariantHolds, PTL

\* No session patches or submits the draft of an earlier attempt.
THEOREM DraftOfThisAttemptHolds == Spec => []DraftOfThisAttempt
<1>1. Sound => DraftOfThisAttempt
  BY DEF Sound, AgentInvariant, OwnWork
<1> QED
  BY <1>1, AgentInvariantHolds, PTL

\* Without overlapping answers, a run that waits for its user has a question.
THEOREM WaitingRunHasQuestionHolds == Spec => []WaitingRunHasQuestion
<1>1. Sound => WaitingRunHasQuestion
  BY DEF Sound, AgentInvariant, AskedIsOpen
<1> QED
  BY <1>1, AgentInvariantHolds, PTL

\* A deletion nobody interfered with leaves neither artifacts nor questions.
THEOREM DeletedLeavesNothingHolds == Spec => []DeletedLeavesNothing
<1>1. Sound => DeletedLeavesNothing
  BY DEF Sound, AgentInvariant, DeletionComplete
<1> QED
  BY <1>1, AgentInvariantHolds, PTL

\* Only the end of an attempt publishes.
LEMMA OnlyCompletePublishes ==
    ASSUME Sound, Next, \A w \in Workers : ~CompleteReport(w)
    PROVE  \A q \in Runs : run'[q].state = "SUCCEEDED" => run[q].state = "SUCCEEDED"
<1> USE DEF Sound
<1>1. UNCHANGED run \/ StatesCalm =>
         \A q \in Runs : run'[q].state = "SUCCEEDED" => run[q].state = "SUCCEEDED"
  BY DEF StatesCalm, CalmState
<1>2. ASSUME NEW r \in Runs, NEW row \in ReportRunRow, SetRun(r, row),
             row.state # "SUCCEEDED"
      PROVE  \A q \in Runs : run'[q].state = "SUCCEEDED" => run[q].state = "SUCCEEDED"
  BY <1>2, SetRunRow
<1>3. ASSUME NEW w \in Workers, Attempt(w)
      PROVE  \A q \in Runs : run'[q].state = "SUCCEEDED" => run[q].state = "SUCCEEDED"
  <2>1. ASSUME NEW r \in Runs, StartAttempt(w, r)
        PROVE  \A q \in Runs : run'[q].state = "SUCCEEDED" => run[q].state = "SUCCEEDED"
    <3>1. /\ run[r] \in ReportRunRow /\ issued[r] + 1 \in Nat
          /\ SetRun(r, TakeReportLease(run[r], issued[r] + 1))
      BY <2>1 DEF StartAttempt, Grant, ReportTypeOK
    <3> QED
      BY <1>2, <3>1, LeasedRow
  <2>2. CASE CompleteAsk(w)
    <3>1. /\ Busy(w) /\ SetRun(held[w].run, AwaitInput(run[held[w].run]))
      BY <2>2 DEF CompleteAsk, Ask, Owns
    <3> QED
      BY <1>2, <3>1, WorkTyped, AskingRow
  <2>3. CASE FailAttempt(w)
    <3>1. /\ Busy(w) /\ job[w].error \in ReportError
          /\ SetRun(held[w].run, FailRun(run[held[w].run], held[w].attempt, job[w].error))
      BY <2>3, JobTyped DEF FailAttempt, Fail, Holds
    <3> QED
      BY <1>2, <3>1, WorkTyped, FailedRow
  <2>4. CASE \/ Prepare(w) \/ CallAgent(w) \/ CallBreaks(w) \/ ReadReport(w)
             \/ Persist(w) \/ PersistFails(w) \/ AttemptIsOver(w) \/ WorkerDies(w)
    BY <1>1, <2>4 DEF Prepare, CallAgent, CallBreaks, ReadReport, Persist, PersistFails,
       AttemptIsOver, LoseLease, WorkerDies, Crash, reportVars, unfailedVars
  <2> QED
    BY <1>3, <2>1, <2>2, <2>3, <2>4 DEF Attempt
<1>4. CASE Agent
  <2>1. ASSUME NEW c \in calls, CommitDraft(c) \/ CommitSubmit(c)
        PROVE  StatesCalm
    <3>1. /\ c.run \in Runs /\ c.draft \in Nat
          /\ AgentWrites(c.run, c.draft)
      BY <2>1, CallTyped DEF CommitDraft, CommitSubmit
    <3> QED
      BY <3>1, AgentWritesRow
  <2>2. ASSUME NEW c \in calls, CommitClarify(c) \/ CallFails(c)
        PROVE  UNCHANGED run
    BY <2>2 DEF CommitClarify, CallFails, reportVars
  <2>3. ASSUME NEW r \in Runs,
               \/ \E outcome \in {"ASK", "READ", "ERROR"} : SessionEnds(r, outcome)
               \/ \E op \in {"DRAFT", "PATCH", "SUBMIT"} : Authorize(r, op, {})
               \/ \E asks \in SUBSET Fields : Authorize(r, "CLARIFY", asks)
        PROVE  UNCHANGED run
    BY <2>3 DEF SessionEnds, Authorize, reportVars
  <2> QED
    BY <1>1, <1>4, <2>1, <2>2, <2>3 DEF Agent
<1>5. CASE User
  <2>1. ASSUME NEW r \in Runs, Resume(r) \/ Retry(r) \/ DeleteRun(r)
        PROVE  \A q \in Runs : run'[q].state = "SUCCEEDED" => run[q].state = "SUCCEEDED"
    <3>1. run[r] \in ReportRunRow /\ DeletedRun.state = "DELETED"
      BY DEF ReportTypeOK, DeletedRun, NoRun
    <3> QED
      BY <1>2, <2>1, <3>1, ResumedRow, RetriedRow, NoRunTyped DEF Resume, Retry, DeleteRun
  <2>2. ASSUME NEW u \in Requests, NEW answers \in SUBSET Fields, Answer(u, answers)
        PROVE  \A q \in Runs : run'[q].state = "SUCCEEDED" => run[q].state = "SUCCEEDED"
    <3>1. answering[u].run \in Runs
      BY <2>2 DEF Answer, AgentTypeOK, Answering
    <3> QED
      BY <1>1, <2>1, <2>2, <3>1 DEF Answer, reportVars
  <2>3. ASSUME NEW u \in Requests, AnswerRefused(u) \/ \E r \in Runs : OpenAnswer(u, r)
        PROVE  UNCHANGED run
    BY <2>3 DEF AnswerRefused, OpenAnswer, reportVars
  <2>4. ASSUME NEW r \in Runs, BeginDelete(r) PROVE UNCHANGED run
    BY <2>4 DEF BeginDelete, AdmitDelete
  <2> QED
    BY <1>1, <1>5, <2>1, <2>2, <2>3, <2>4 DEF User, RetryAgain, FinishDelete
<1>6. CASE Elsewhere
  <2>1. ASSUME NEW w \in Workers, NEW r \in Runs, Exhaust(w, r)
        PROVE  \A q \in Runs : run'[q].state = "SUCCEEDED" => run[q].state = "SUCCEEDED"
    <3>1. run[r] \in ReportRunRow
      BY DEF ReportTypeOK
    <3> QED
      BY <1>2, <2>1, <3>1, ExhaustedRow DEF Exhaust
  <2>2. MarksGrow /\ DeletionComplete
    BY <1>6, MarksStay DEF Elsewhere, agentVars, AgentInvariant
  <2> QED
    BY <1>1, <1>6, <2>1, <2>2, RequestsAreCalm DEF Elsewhere
<1> QED
  BY <1>3, <1>4, <1>5, <1>6 DEF Next

\* An attempt in time publishes the report its own session submitted, whoever
\* else has written to the run.
THEOREM PublishesOwnReportHolds == Spec => PublishesOwnReport
<1> DEFINE Own == \A r \in Runs : run[r].state # "SUCCEEDED" /\ run'[r].state = "SUCCEEDED"
                                   /\ "LATE" \notin marks[r] => run'[r].ir = run[r].lease
<1>1. Sound /\ [Next]_vars => [Own]_vars
  <2> SUFFICES ASSUME Sound, Next PROVE Own
    OBVIOUS
  <2>1. CASE \A w \in Workers : ~CompleteReport(w)
    BY <2>1, OnlyCompletePublishes
  <2>2. ASSUME NEW w \in Workers, CompleteReport(w) PROVE Own
    <3>1. /\ Holds(w) /\ Busy(w) /\ job[w].stage = "COMPLETE" /\ job[w].ir \in Nat
          /\ SetRun(held[w].run, Succeed(run[held[w].run], job[w].ir))
      BY <2>2, JobTyped
      DEF Sound, CompleteReport, Publish, At, Owns, Holds, OwnsReportLease
    <3>2. PICK r \in Runs : r = held[w].run
      BY <3>1, WorkTyped DEF Sound
    <3>3. run'[r].ir = job[w].ir /\ \A q \in Runs : q # r => run'[q] = run[q]
      <4>1. run[r] \in ReportRunRow
        BY DEF Sound, ReportTypeOK
      <4>2. Succeed(run[r], job[w].ir) \in ReportRunRow /\ Succeed(run[r], job[w].ir).ir = job[w].ir
        BY <3>1, <4>1, SucceededRow, EndedReports
      <4> QED
        BY <3>1, <3>2, <4>2, SetRunRow DEF Sound
    <3>4. "LATE" \notin marks[r] => job[w].ir = held[w].lease
      BY <3>1, <3>2 DEF Sound, AgentInvariant, OwnReport, InTime
    <3>5. run[r].lease = held[w].lease
      BY <3>1, <3>2 DEF Holds, HoldsReportLease
    <3> QED
      BY <3>3, <3>4, <3>5
  <2> QED
    BY <2>1, <2>2
<1> QED
  BY <1>1, AgentInvariantHolds, PTL DEF Spec, PublishesOwnReport

=============================================================================
