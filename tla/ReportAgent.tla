----------------------------- MODULE ReportAgent -----------------------------
(***************************************************************************)
(* One attempt at a report: the worker calls the agent service, the agent  *)
(* session calls back into the internal API with the token of its lease,   *)
(* and the worker reads the submitted report back, renders it and ends the *)
(* attempt (src/app/workers/report_generation_worker.py,                   *)
(* src/app/api/report_agent_internal.py, src/app/services/                 *)
(* report_artifacts.py, src/apps/pi-service/src/).  Meanwhile users answer *)
(* the questions of the agent and delete runs (src/app/api/reports.py).    *)
(*                                                                         *)
(* A call of the agent is authorised and read in one step and committed in *)
(* another, with no second look at the lease.  Every action is one of      *)
(* ReportQueue or leaves its variables alone; how a message reaches a      *)
(* worker is left open here.  A report or draft is the lease of the        *)
(* session that wrote it, and the checkpoint, which nothing reads, is left *)
(* out.                                                                    *)
(***************************************************************************)
EXTENDS ReportQueue, FiniteSets

CONSTANTS Fields,       \* template fields the user can supply
          Required,     \* those the agent asks for as required
          Requests,     \* concurrent answer requests
          MaxCalls      \* bound: calls of agents under way

ASSUME AgentAssumption ==
    Required \subseteq Fields /\ MaxCalls \in Nat /\ Fields # {}

VARIABLES job,          \* per worker, how far its attempt is
          session,      \* per run, the session in the agent service
          calls,        \* agent calls authorised and not yet committed
          question,     \* the report_question table
          artifact,     \* the report_artifact rows of a run
          purging,      \* per run, the artifacts its DELETE has seen
          answering,    \* per answer request, its read view
          marks         \* per run, the accidents it has had

agentVars == <<job, session, calls, question, artifact, purging, answering, marks>>

vars == <<reportVars, agentVars>>

\* seen: the artifacts in the read view of the attempt; dropped: their removal
\* is pending in its session.
Job == [stage : {"IDLE", "PREPARE", "CALL", "WAIT", "READ", "RENDER",
                 "COMPLETE", "ASK", "ERROR"},
        ir : Nat, seen : Nat, dropped : BOOLEAN, error : ReportError]

NewJob == [stage |-> "PREPARE", ir |-> 0, seen |-> 0, dropped |-> FALSE,
           error |-> "NONE"]

NoJob == [NewJob EXCEPT !.stage = "IDLE"]

\* token 0: no session of the run is active.
Session == [token : Nat, saved : BOOLEAN, asked : BOOLEAN, submitted : BOOLEAN]

NewSession(token) ==
    [token |-> token, saved |-> FALSE, asked |-> FALSE, submitted |-> FALSE]

\* draft: the draft it has read; known: the questions it has read.
Call == [run : Runs, token : Nat, op : {"DRAFT", "PATCH", "CLARIFY", "SUBMIT"},
         draft : Nat, asks : SUBSET Fields, known : SUBSET Fields]

QuestionStatus == {"NONE", "OPEN", "ANSWERED"}

\* by: the attempt that registered the rows; ir: the report they show.
Artifact == [by : Nat, ir : Nat]

NoArtifact == [by |-> 0, ir |-> 0]

\* open: the questions that were open in the read view of the request.
Answering == [run : Runs, open : SUBSET Fields]

NoRequest == [run |-> 0, open |-> {}]

NoQuestions == [f \in Fields |-> "NONE"]

\* LATE: a commit of an attempt that was over; OVERLAP: an answer that counted
\* in an outdated view; REACTIVATED: run again between a DELETE's check and
\* its removal.
Accident == {"LATE", "OVERLAP", "REACTIVATED"}

Init ==
    /\ ReportInit
    /\ job = [w \in Workers |-> NoJob]
    /\ session = [r \in Runs |-> NewSession(NoToken)]
    /\ calls = {}
    /\ question = [r \in Runs |-> NoQuestions]
    /\ artifact = [r \in Runs |-> NoArtifact]
    /\ purging = [r \in Runs |-> 0]
    /\ answering = [u \in Requests |-> NoRequest]
    /\ marks = [r \in Runs |-> {}]

SetJob(w, j) == job' = [job EXCEPT ![w] = j]

At(w, stage) == Busy(w) /\ job[w].stage = stage

Open(r) == {f \in Fields : question[r][f] = "OPEN"}

Mark(r, accident) == marks' = [marks EXCEPT ![r] = @ \cup {accident}]

\* What the attempt of this lease commits now is marked when it is over.
MarkLate(r, token) ==
    IF HoldsReportLease(run[r], token) THEN UNCHANGED marks ELSE Mark(r, "LATE")

-----------------------------------------------------------------------------
(* PiReportProcessor.process up to the answer of the agent service *)

StartAttempt(w, r) ==
    /\ Grant(w, r)
    /\ SetJob(w, NewJob)
    /\ UNCHANGED <<session, calls, question, artifact, purging, answering, marks>>

Raise(w, error) ==
    SetJob(w, [job[w] EXCEPT !.stage = "ERROR", !.error = error])

\* The fenced re-read of the run and the checks of what was frozen.
Prepare(w) ==
    /\ At(w, "PREPARE") /\ Holds(w)
    /\ \/ SetJob(w, [job[w] EXCEPT !.stage = "CALL"])
       \/ Raise(w, "FATAL")
       \/ Raise(w, "RETRYABLE")
    /\ UNCHANGED <<reportVars, session, calls, question, artifact, purging,
                   answering, marks>>

\* POST /internal/report-agent/runs: one session per run, keyed by run id.
CallAgent(w) ==
    /\ At(w, "CALL")
    /\ LET r == held[w].run IN
       \/ /\ session[r].token = NoToken
          /\ session' = [session EXCEPT ![r] = NewSession(held[w].lease)]
          /\ SetJob(w, [job[w] EXCEPT !.stage = "WAIT"])
       \/ /\ session[r].token # NoToken
          /\ Raise(w, "AGENT_BUSY")
          /\ UNCHANGED session
    /\ UNCHANGED <<reportVars, calls, question, artifact, purging, answering, marks>>

\* A broken connection or the worker's own timeout; the session goes on.
CallBreaks(w) ==
    /\ At(w, "CALL") \/ At(w, "WAIT")
    /\ Fault
    /\ Raise(w, "RETRYABLE")
    /\ UNCHANGED <<unfailedVars, session, calls, question, artifact, purging,
                   answering, marks>>

\* Bug: takes a saved draft for a submitted one.
OutcomeSavedIsEnough(s) ==
    {"ERROR"} \cup (IF s.asked THEN {"ASK"} ELSE IF s.saved THEN {"READ"} ELSE {})

\* How executeReportAgentRun can end: asking wins over submitting, and the
\* model, the timeout or a restart can make it fail at any time.
Outcome(s) ==
    {"ERROR"} \cup (IF s.asked THEN {"ASK"}
                    ELSE IF s.saved /\ s.submitted THEN {"READ"} ELSE {})

\* The answer reaches the worker that is waiting for it, if there still is one.
SessionEnds(r, outcome) ==
    /\ session[r].token # NoToken
    /\ outcome \in Outcome(session[r])
    /\ session' = [session EXCEPT ![r] = NewSession(NoToken)]
    /\ job' = [w \in Workers |->
                 IF /\ At(w, "WAIT")
                    /\ held[w].run = r /\ held[w].lease = session[r].token
                 THEN [job[w] EXCEPT
                         !.stage = outcome,
                         !.error = IF outcome = "ERROR" THEN "RETRYABLE" ELSE "NONE"]
                 ELSE job[w]]
    /\ UNCHANGED <<reportVars, calls, question, artifact, purging, answering, marks>>

-----------------------------------------------------------------------------
(* The calls of the agent *)

\* _authorized_run and what the handler reads in the same transaction.  The
\* agent patches and submits only what it has saved, and submits once.
Authorize(r, op, asks) ==
    /\ session[r].token # NoToken
    /\ OwnsReportLease(run[r], session[r].token)
    /\ op = "CLARIFY" <=> asks # {}
    /\ op \in {"PATCH", "SUBMIT"} => session[r].saved /\ run[r].draft # NoToken
    /\ op = "SUBMIT" => ~session[r].submitted
    /\ Cardinality(calls) < MaxCalls
    /\ calls' = calls \cup
          {[run |-> r, token |-> session[r].token, op |-> op,
            draft |-> IF op = "DRAFT" THEN session[r].token ELSE run[r].draft,
            asks |-> asks, known |-> {f \in Fields : question[r][f] # "NONE"}]}
    /\ UNCHANGED <<reportVars, job, session, question, artifact, purging,
                   answering, marks>>

\* The tool call returns, unless the answer is lost or the session is over.
Reply(c, s) ==
    \/ session[c.run].token = c.token /\ session' = [session EXCEPT ![c.run] = s]
    \/ UNCHANGED session

\* save_report_ir_draft and patch_report_ir_draft
CommitDraft(c) ==
    /\ c.op \in {"DRAFT", "PATCH"}
    /\ AgentWrites(c.run, c.draft) /\ run'[c.run].draft = c.draft
    /\ run'[c.run].ir = run[c.run].ir
    /\ Reply(c, [session[c.run] EXCEPT !.saved = TRUE])
    /\ calls' = calls \ {c}
    /\ MarkLate(c.run, c.token)
    /\ UNCHANGED <<job, question, artifact, purging, answering>>

\* submit_candidate_report: what was validated becomes the report of the run.
CommitSubmit(c) ==
    /\ c.op = "SUBMIT"
    /\ AgentWrites(c.run, c.draft) /\ run'[c.run].ir = c.draft
    /\ run'[c.run].draft = run[c.run].draft
    /\ Reply(c, [session[c.run] EXCEPT !.submitted = TRUE])
    /\ calls' = calls \ {c}
    /\ MarkLate(c.run, c.token)
    /\ UNCHANGED <<job, question, artifact, purging, answering>>

\* Bug: waits because it has asked, not because something is open.
CommitClarifyCountsAsked(c) ==
    /\ c.op = "CLARIFY"
    /\ \A f \in c.asks \ c.known : question[c.run][f] = "NONE"
    /\ question' = [question EXCEPT ![c.run] =
                      [f \in Fields |-> IF f \in c.asks \ c.known THEN "OPEN" ELSE @[f]]]
    /\ Reply(c, [session[c.run] EXCEPT !.asked = TRUE])
    /\ calls' = calls \ {c}
    /\ MarkLate(c.run, c.token)
    /\ UNCHANGED <<reportVars, job, artifact, purging, answering>>

\* request_clarification: a question that appeared since the read makes the
\* insert fail; the agent waits when any question is open afterwards.
CommitClarify(c) ==
    /\ c.op = "CLARIFY"
    /\ \A f \in c.asks \ c.known : question[c.run][f] = "NONE"
    /\ question' = [question EXCEPT ![c.run] =
                      [f \in Fields |-> IF f \in c.asks \ c.known THEN "OPEN" ELSE @[f]]]
    /\ Reply(c, [session[c.run] EXCEPT
                   !.asked = @ \/ \E f \in Fields : question'[c.run][f] = "OPEN"])
    /\ calls' = calls \ {c}
    /\ MarkLate(c.run, c.token)
    /\ UNCHANGED <<reportVars, job, artifact, purging, answering>>

\* Rejected by a validation, a unique key or a row that is gone.
CallFails(c) ==
    /\ calls' = calls \ {c}
    /\ UNCHANGED <<reportVars, job, session, question, artifact, purging,
                   answering, marks>>

-----------------------------------------------------------------------------
(* PiReportProcessor.process after the answer, and the end of the attempt *)

\* The run is read again without a fence; what it holds is validated.
ReadReport(w) ==
    /\ At(w, "READ")
    /\ LET r == held[w].run IN
       \/ /\ Exists(r) /\ run[r].ir # NoToken
          /\ SetJob(w, [job[w] EXCEPT !.stage = "RENDER", !.ir = run[r].ir,
                                      !.seen = artifact[r].by])
       \/ Raise(w, "FATAL")
    /\ UNCHANGED <<reportVars, session, calls, question, artifact, purging,
                   answering, marks>>

WithoutSeen(r, seen) == IF artifact[r].by = seen THEN NoArtifact ELSE artifact[r]

\* Bug: does nothing when there are artifacts already.
PersistUnlessThere(w) ==
    /\ At(w, "RENDER")
    /\ LET r == held[w].run IN
       IF artifact[r] = NoArtifact
       THEN artifact' = [artifact EXCEPT ![r] = [by |-> held[w].lease, ir |-> job[w].ir]]
       ELSE UNCHANGED artifact
    /\ SetJob(w, [job[w] EXCEPT !.stage = "COMPLETE"])
    /\ MarkLate(held[w].run, held[w].lease)
    /\ UNCHANGED <<reportVars, session, calls, question, purging, answering>>

\* persist_report_artifacts commits by itself and asks for no lease.  Rows
\* that were registered after the read view break the unique key.
Persist(w) ==
    /\ At(w, "RENDER")
    /\ LET r == held[w].run IN
       \/ /\ WithoutSeen(r, job[w].seen) = NoArtifact
          /\ artifact' = [artifact EXCEPT ![r] = [by |-> held[w].lease, ir |-> job[w].ir]]
          /\ SetJob(w, [job[w] EXCEPT !.stage = "COMPLETE"])
          /\ MarkLate(r, held[w].lease)
       \/ /\ WithoutSeen(r, job[w].seen) # NoArtifact
          /\ Raise(w, "RETRYABLE")
          /\ UNCHANGED <<artifact, marks>>
    /\ UNCHANGED <<reportVars, session, calls, question, purging, answering>>

\* An upload fails and is only logged; the old rows go when complete commits.
PersistFails(w) ==
    /\ At(w, "RENDER")
    /\ Fault
    /\ SetJob(w, [job[w] EXCEPT !.stage = "COMPLETE", !.dropped = TRUE])
    /\ UNCHANGED <<unfailedVars, session, calls, question, artifact, purging,
                   answering, marks>>

EndAttempt(w) == SetJob(w, NoJob)

CompleteReport(w) ==
    /\ At(w, "COMPLETE")
    /\ Publish(w, job[w].ir)
    /\ LET r == held[w].run IN
       IF job[w].dropped
       THEN artifact' = [artifact EXCEPT ![r] = WithoutSeen(r, job[w].seen)]
       ELSE UNCHANGED artifact
    /\ EndAttempt(w)
    /\ UNCHANGED <<session, calls, question, purging, answering, marks>>

CompleteAsk(w) ==
    /\ At(w, "ASK")
    /\ Ask(w)
    /\ EndAttempt(w)
    /\ UNCHANGED <<session, calls, question, artifact, purging, answering, marks>>

FailAttempt(w) ==
    /\ At(w, "ERROR")
    /\ Fail(w, job[w].error)
    /\ EndAttempt(w)
    /\ UNCHANGED <<session, calls, question, artifact, purging, answering, marks>>

\* The re-read at the start, complete or fail finds the lease gone.
AttemptIsOver(w) ==
    /\ LoseLease(w)
    /\ \/ At(w, "PREPARE") /\ ~Holds(w)
       \/ At(w, "COMPLETE") \/ At(w, "ASK")
       \/ At(w, "ERROR") /\ ~Holds(w)
    /\ EndAttempt(w)
    /\ UNCHANGED <<session, calls, question, artifact, purging, answering, marks>>

\* The worker dies; its session in the agent service does not notice.
WorkerDies(w) ==
    /\ Crash(w)
    /\ EndAttempt(w)
    /\ UNCHANGED <<session, calls, question, artifact, purging, answering, marks>>

-----------------------------------------------------------------------------
(* Users *)

\* Authentication opens the read view of the request.
OpenAnswer(u, r) ==
    /\ answering[u] = NoRequest
    /\ Exists(r) /\ Open(r) # {}
    /\ answering' = [answering EXCEPT ![u] = [run |-> r, open |-> Open(r)]]
    /\ UNCHANGED <<reportVars, job, session, calls, question, artifact, purging, marks>>

\* Required questions the request takes for open, its own left out.
Remaining(u, answers) == (answering[u].open \cap Required) \ answers

MarkAccident(r, accident, happened) ==
    IF happened THEN Mark(r, accident) ELSE UNCHANGED marks

\* answer_report_questions, under the lock of the run: state and answers are
\* checked as they are now, what remains is counted in the old view.
Answer(u, answers) ==
    /\ answering[u] # NoRequest
    /\ LET r == answering[u].run IN
       /\ run[r].state = "NEEDS_INPUT"
       /\ answers # {} /\ answers \subseteq Open(r)
       /\ question' = [question EXCEPT ![r] =
                         [f \in Fields |-> IF f \in answers THEN "ANSWERED" ELSE @[f]]]
       /\ \/ /\ Remaining(u, answers) = {}
             /\ Resume(r)
             /\ MarkAccident(r, "REACTIVATED", r \in deleting)
          \/ /\ Remaining(u, answers) # {}
             /\ MarkAccident(r, "OVERLAP", answering[u].open # Open(r))
             /\ UNCHANGED reportVars
    /\ answering' = [answering EXCEPT ![u] = NoRequest]
    /\ UNCHANGED <<job, session, calls, artifact, purging>>

\* The state or a question is not what it has to be: 409.
AnswerRefused(u) ==
    /\ answering[u] # NoRequest
    /\ LET r == answering[u].run IN run[r].state # "NEEDS_INPUT" \/ Open(r) = {}
    /\ answering' = [answering EXCEPT ![u] = NoRequest]
    /\ UNCHANGED <<reportVars, job, session, calls, question, artifact, purging, marks>>

RetryAgain(r) ==
    /\ Retry(r)
    /\ MarkAccident(r, "REACTIVATED", r \in deleting)
    /\ UNCHANGED <<job, session, calls, question, artifact, purging, answering>>

\* The check of the state and the read view of the request.
BeginDelete(r) ==
    /\ AdmitDelete(r)
    /\ purging' = [purging EXCEPT ![r] = artifact[r].by]
    /\ UNCHANGED <<job, session, calls, question, artifact, answering, marks>>

\* Bug: forgets the questions.
FinishDeleteRunOnly(r) ==
    /\ DeleteRun(r)
    /\ artifact' = [artifact EXCEPT ![r] = WithoutSeen(r, purging[r])]
    /\ purging' = [purging EXCEPT ![r] = 0]
    /\ UNCHANGED <<job, session, calls, question, answering, marks>>

\* Artifacts go as they were seen, questions and run as they are.
FinishDelete(r) ==
    /\ DeleteRun(r)
    /\ artifact' = [artifact EXCEPT ![r] = WithoutSeen(r, purging[r])]
    /\ question' = [question EXCEPT ![r] = NoQuestions]
    /\ purging' = [purging EXCEPT ![r] = 0]
    /\ UNCHANGED <<job, session, calls, answering, marks>>

\* What happens to a run without the agent having a part in it.  A heartbeat
\* that dies shows here as a lease that lapses.
Elsewhere ==
    /\ \/ \E r \in Runs : \/ Create(r) \/ Cancel(r)
                          \/ DocumentChanges(r) \/ DetectStale(r)
                          \/ LeaseLapse(r) \/ BecomesDue(r)
       \/ \E w \in Workers, r \in Runs : Exhaust(w, r)
    /\ UNCHANGED agentVars

Attempt(w) ==
    \/ \E r \in Runs : StartAttempt(w, r)
    \/ Prepare(w) \/ CallAgent(w) \/ CallBreaks(w)
    \/ ReadReport(w) \/ Persist(w) \/ PersistFails(w)
    \/ CompleteReport(w) \/ CompleteAsk(w) \/ FailAttempt(w) \/ AttemptIsOver(w)
    \/ WorkerDies(w)

Agent ==
    \/ \E r \in Runs : \/ \E outcome \in {"ASK", "READ", "ERROR"} : SessionEnds(r, outcome)
                       \/ \E op \in {"DRAFT", "PATCH", "SUBMIT"} : Authorize(r, op, {})
                       \/ \E asks \in SUBSET Fields : Authorize(r, "CLARIFY", asks)
    \/ \E c \in calls : CommitDraft(c) \/ CommitSubmit(c) \/ CommitClarify(c) \/ CallFails(c)

User ==
    \/ \E u \in Requests : \/ \E r \in Runs : OpenAnswer(u, r)
                           \/ \E answers \in SUBSET Fields : Answer(u, answers)
                           \/ AnswerRefused(u)
    \/ \E r \in Runs : RetryAgain(r) \/ BeginDelete(r) \/ FinishDelete(r)

Next == (\E w \in Workers : Attempt(w)) \/ Agent \/ User \/ Elsewhere

Spec == Init /\ [][Next]_vars

-----------------------------------------------------------------------------
(* Properties *)

\* Every variable has its type.
ReportAgentTypeOK ==
    /\ ReportTypeOK
    /\ job \in [Workers -> Job]
    /\ session \in [Runs -> Session]
    /\ calls \subseteq Call
    /\ question \in [Runs -> [Fields -> QuestionStatus]]
    /\ artifact \in [Runs -> Artifact]
    /\ purging \in [Runs -> Nat]
    /\ answering \in [Requests -> Answering \cup {NoRequest}]
    /\ marks \in [Runs -> SUBSET Accident]

\* A published run shows one and the same report as its row, its manifest and
\* its files, whatever earlier attempts left behind, unless an attempt that
\* had lost its lease wrote after all (complete and persist_report_artifacts
\* commit apart).
PublishedReportConsistent ==
    \A r \in Runs : run[r].state = "SUCCEEDED" /\ "LATE" \notin marks[r] =>
        /\ run[r].ir = run[r].manifest
        /\ artifact[r].ir \in {NoToken, run[r].manifest}

\* The draft a session patches and submits is its own, never one an earlier
\* attempt left (comment in claim: "避免误提交过期草稿").
DraftOfThisAttempt ==
    \A r \in Runs : run[r].state = "PROCESSING" /\ "LATE" \notin marks[r] =>
        run[r].draft \in {NoToken, run[r].lease}

\* A run that waits for its user has something to be asked, or it waits for
\* ever: answers are the only way on.  Two overlapping requests break it.
WaitingRunHasQuestion ==
    \A r \in Runs : run[r].state = "NEEDS_INPUT" /\ "OVERLAP" \notin marks[r] =>
        Open(r) # {}

\* A run that waits for its user can be resumed by answering (the report
\* design: "`NEEDS_INPUT` 是可恢复状态，用户回答后从持久化检查点继续").
WaitingRunCanResume ==
    \A r \in Runs : run[r].state = "NEEDS_INPUT" => Open(r) # {}

\* Deleting a run takes its questions and its artifacts along (docstring of
\* delete_report_run), unless an attempt outlived its lease or the run was
\* started again behind the back of the request.
DeletedLeavesNothing ==
    \A r \in Runs : run[r].state = "DELETED" /\ marks[r] \subseteq {"OVERLAP"} =>
        artifact[r] = NoArtifact /\ question[r] = NoQuestions

\* Tokens and reports are named by leases that were granted.
RunBounds ==
    \A r \in Runs : /\ session[r].token <= issued[r]
                    /\ run[r].draft <= issued[r] /\ run[r].ir <= issued[r]

CallBounds ==
    \A c \in calls : /\ c.token # NoToken /\ c.token <= issued[c.run]
                     /\ c.draft <= issued[c.run]

\* An attempt fails with an error its run can be given up for, and only one
\* that has failed to store its files removes those that were there.
JobBounds ==
    \A w \in Workers :
       /\ Busy(w) => job[w].ir <= issued[held[w].run]
       /\ job[w].stage = "ERROR" => job[w].error \in {"RETRYABLE", "FATAL", "AGENT_BUSY"}
       /\ job[w].dropped => job[w].stage = "COMPLETE"

AgentBounds == RunBounds /\ CallBounds /\ JobBounds

InTime(r) == "LATE" \notin marks[r]

\* The agent's side: what it writes under a lease in force is its own.
OwnWork ==
    /\ DraftOfThisAttempt
    /\ \A c \in calls : c.op # "CLARIFY" /\ InTime(c.run) => c.draft = c.token
    /\ \A r \in Runs : HoldsReportLease(run[r], session[r].token)
                          /\ session[r].submitted /\ InTime(r)
                       => run[r].ir = session[r].token

\* The worker's side: what it read, rendered and registered is still there.
OwnReport ==
    /\ PublishedReportConsistent
    /\ \A w \in Workers : Holds(w) /\ InTime(held[w].run) =>
          LET r == held[w].run
              j == job[w]
          IN  /\ j.stage = "READ" => run[r].ir = held[w].lease
              /\ j.stage \in {"RENDER", "COMPLETE"} => j.ir = held[w].lease
              /\ j.stage = "RENDER" => artifact[r].by = j.seen
              /\ j.stage = "COMPLETE" => IF j.dropped THEN artifact[r].by = j.seen
                                                      ELSE artifact[r].ir = j.ir

\* Whoever is about to wait for the user has something to ask.
AskedIsOpen ==
    /\ WaitingRunHasQuestion
    /\ \A r \in Runs : HoldsReportLease(run[r], session[r].token)
                          /\ session[r].asked => Open(r) # {}
    /\ \A w \in Workers : Holds(w) /\ job[w].stage = "ASK" => Open(held[w].run) # {}

\* A DELETE removes what it has seen, and nothing came after unnoticed.
DeletionComplete ==
    /\ DeletedLeavesNothing
    /\ \A r \in deleting :
          /\ Exists(r)
          /\ marks[r] \subseteq {"OVERLAP"} =>
                run[r].state \notin Active /\ artifact[r].by = purging[r]

\* The inductive invariant of an attempt.
AgentInvariant ==
    AgentBounds /\ OwnWork /\ OwnReport /\ AskedIsOpen /\ DeletionComplete

\* A document that changes while its report is being written keeps the report
\* from being published (the report design: "文档版本变化时不发布旧报告").
OldReportNotPublished ==
    [][\A r \in Runs : run'[r].state = "SUCCEEDED" /\ run[r].state # "SUCCEEDED"
                          => r \notin changed]_vars

\* What an attempt publishes is the report its own session submitted, although
\* the worker reads it from a row that other attempts have written too.
PublishesOwnReport ==
    [][\A r \in Runs : run[r].state # "SUCCEEDED" /\ run'[r].state = "SUCCEEDED"
                          /\ "LATE" \notin marks[r] =>
          run'[r].ir = run[r].lease]_vars
=============================================================================
