----------------------------- MODULE Conversation -----------------------------
(***************************************************************************)
(* One conversation with the agent: the turns POST /agent/stream appends   *)
(* and settles (src/app/api/agent.py, src/app/services/                    *)
(* agent_conversations.py), the choice of a report type that some of them  *)
(* leave to the user, and the deletion of the whole                        *)
(* (src/app/api/agent_conversations.py).                                   *)
(*                                                                         *)
(* A request reads the conversation in the view it opened when it was      *)
(* authenticated, often many model calls earlier; rows it locks or updates *)
(* are current.  What the agent answers is left out.                       *)
(***************************************************************************)
EXTENDS Integers, FiniteSets

CONSTANTS Turns,        \* agent_conversation_turn rows
          Callers,      \* concurrent requests
          NoTurn,       \* a row that is not there
          NoCall,       \* an idle connection
          MaxBreaks     \* bound: crashes, hang-ups and lost sessions

ASSUME ConversationAssumption == MaxBreaks \in Nat

VARIABLES open,         \* whether the conversation exists
          turn,         \* its turns
          reports,      \* how many report runs each turn has led to
          call,         \* what each request is doing
          breaks,       \* breaks so far
          hung,         \* ghost: turns whose request broke off without a word
          reopened      \* ghost: turns asked again after a report was created

conversationVars == <<open, turn, reports, call, breaks, hung, reopened>>

TurnStatus == {"STREAMING", "SUCCEEDED", "FAILED", "CANCELLED", "NEEDS_INPUT",
               "PROCESSING_ACTION"}

\* interaction.status, or NONE.
Turn == [number : Nat, status : TurnStatus, question : {"NONE", "OPEN", "ANSWERED"},
         linked : BOOLEAN]

\* newest: the highest number of the request's view.
Call == [at : {"ASKED", "RUNNING", "FAILED", "REPORTING", "CREATING", "CREATED"},
         turn : Turns \cup {NoTurn}, newest : Nat]

ASSUME NoRowsAssumption == NoTurn \notin Turn \cup Turns /\ NoCall \notin Call

ConversationInit ==
    /\ open = TRUE
    /\ turn = [t \in Turns |-> NoTurn]
    /\ reports = [t \in Turns |-> 0]
    /\ call = [c \in Callers |-> NoCall]
    /\ breaks = 0 /\ hung = {} /\ reopened = {}

Stored == {t \in Turns : turn[t] # NoTurn}

Numbers == {turn[t].number : t \in Stored}

Newest == CHOOSE n \in Numbers \cup {0} : \A m \in Numbers : m <= n

In(c, at) == call[c] # NoCall /\ call[c].at = at

Break == breaks < MaxBreaks /\ breaks' = breaks + 1

Goes(c, at) == call' = [call EXCEPT ![c].at = at]

Ends(c) == call' = [call EXCEPT ![c] = NoCall]

\* finish_turn and the other writes of a turn object: the UPDATE finds no row
\* once the conversation is deleted.
Settle(t, status, question, linked) ==
    turn' = IF t \in Stored
            THEN [turn EXCEPT ![t].status = status, ![t].question = question,
                              ![t].linked = linked]
            ELSE turn

-----------------------------------------------------------------------------
(* agent_stream *)

\* Authentication opens the view; attachments and intent are decided in it.
Send(c) ==
    /\ call[c] = NoCall /\ open
    /\ call' = [call EXCEPT ![c] = [at |-> "ASKED", turn |-> NoTurn, newest |-> Newest]]
    /\ UNCHANGED <<open, turn, reports, breaks, hung, reopened>>

\* Bug: no unique key on the conversation and the number.
StartTurnUnkeyed(c, t) ==
    /\ In(c, "ASKED") /\ open
    /\ t \notin Stored /\ reports[t] = 0
    /\ turn' = [turn EXCEPT ![t] = [number |-> call[c].newest + 1, status |-> "STREAMING",
                                    question |-> "NONE", linked |-> FALSE]]
    /\ call' = [call EXCEPT ![c].at = "RUNNING", ![c].turn = t]
    /\ UNCHANGED <<open, reports, breaks, hung, reopened>>

\* start_turn, which locks the conversation but counts the turns of its view.
StartTurn(c, t) ==
    /\ In(c, "ASKED") /\ open
    /\ t \notin Stored /\ reports[t] = 0
    /\ call[c].newest + 1 \notin Numbers
    /\ turn' = [turn EXCEPT ![t] = [number |-> call[c].newest + 1, status |-> "STREAMING",
                                    question |-> "NONE", linked |-> FALSE]]
    /\ call' = [call EXCEPT ![c].at = "RUNNING", ![c].turn = t]
    /\ UNCHANGED <<open, reports, breaks, hung, reopened>>

\* The conversation is gone, the number taken, or the preparation failed.
SendRefused(c) ==
    /\ In(c, "ASKED")
    /\ Ends(c)
    /\ UNCHANGED <<open, turn, reports, breaks, hung, reopened>>

\* The stream ends with an answer, or too early, or times out, or Pi is away.
StreamEnds(c) ==
    /\ In(c, "RUNNING")
    /\ \E status \in {"SUCCEEDED", "FAILED"} : Settle(call[c].turn, status, "NONE", FALSE)
    /\ Ends(c)
    /\ UNCHANGED <<open, reports, breaks, hung, reopened>>

\* An error event settles the turn while the stream goes on.
StreamReportsError(c) ==
    /\ In(c, "RUNNING")
    /\ Settle(call[c].turn, "FAILED", "NONE", FALSE)
    /\ Goes(c, "FAILED")
    /\ UNCHANGED <<open, reports, breaks, hung, reopened>>

StreamEndsFailed(c) ==
    /\ In(c, "FAILED")
    /\ Ends(c)
    /\ UNCHANGED <<open, turn, reports, breaks, hung, reopened>>

\* The client is gone: the generator is cancelled.
StreamCancelled(c) ==
    /\ In(c, "RUNNING") \/ In(c, "FAILED")
    /\ Settle(call[c].turn, "CANCELLED", "NONE", FALSE)
    /\ Ends(c)
    /\ UNCHANGED <<open, reports, breaks, hung, reopened>>

\* The turn wants a report, and its source is missing, ambiguous or unreadable
\* or create_report refuses it.
ReportRefused(c) ==
    /\ In(c, "RUNNING")
    /\ \E status \in {"FAILED", "NEEDS_INPUT"} : Settle(call[c].turn, status, "NONE", FALSE)
    /\ Ends(c)
    /\ UNCHANGED <<open, reports, breaks, hung, reopened>>

\* The report type is ambiguous: the user is to choose.
AskReportType(c) ==
    /\ In(c, "RUNNING")
    /\ Settle(call[c].turn, "NEEDS_INPUT", "OPEN", FALSE)
    /\ Ends(c)
    /\ UNCHANGED <<open, reports, breaks, hung, reopened>>

\* The report type is clear: create_report commits a run.
CreateReport(c) ==
    /\ In(c, "RUNNING")
    /\ reports' = [reports EXCEPT ![call[c].turn] = @ + 1]
    /\ Goes(c, "REPORTING")
    /\ UNCHANGED <<open, turn, breaks, hung, reopened>>

LinkReport(c) ==
    /\ In(c, "REPORTING")
    /\ Settle(call[c].turn, "SUCCEEDED", "NONE", TRUE)
    /\ Ends(c)
    /\ UNCHANGED <<open, reports, breaks, hung, reopened>>

\* create_report raises after its commit: the turn says that it failed.
CreateReportFails(c) ==
    /\ In(c, "REPORTING") /\ Break
    /\ Settle(call[c].turn, "FAILED", "NONE", FALSE)
    /\ Ends(c)
    /\ UNCHANGED <<open, reports, hung, reopened>>

-----------------------------------------------------------------------------
(* confirm_template_selection *)

\* Bug: whether the question is still open is not looked at.
ConfirmAgain(c, t) ==
    /\ call[c] = NoCall
    /\ t \in Stored /\ turn[t].question # "NONE"
    /\ Settle(t, "PROCESSING_ACTION", "ANSWERED", FALSE)
    /\ call' = [call EXCEPT ![c] = [at |-> "CREATING", turn |-> t, newest |-> 0]]
    /\ UNCHANGED <<open, reports, breaks, hung, reopened>>

\* The turn is locked, checked and marked, and that is committed.
Confirm(c, t) ==
    /\ call[c] = NoCall
    /\ t \in Stored /\ turn[t].status = "NEEDS_INPUT" /\ turn[t].question = "OPEN"
    /\ Settle(t, "PROCESSING_ACTION", "ANSWERED", FALSE)
    /\ call' = [call EXCEPT ![c] = [at |-> "CREATING", turn |-> t, newest |-> 0]]
    /\ UNCHANGED <<open, reports, breaks, hung, reopened>>

CreateChosen(c) ==
    /\ In(c, "CREATING")
    /\ reports' = [reports EXCEPT ![call[c].turn] = @ + 1]
    /\ Goes(c, "CREATED")
    /\ UNCHANGED <<open, turn, breaks, hung, reopened>>

LinkChosen(c) ==
    /\ In(c, "CREATED")
    /\ Settle(call[c].turn, "SUCCEEDED", "ANSWERED", TRUE)
    /\ Ends(c)
    /\ UNCHANGED <<open, reports, breaks, hung, reopened>>

\* Bug: the turn is left as it is.
CreateChosenFailsSilently(c) ==
    /\ In(c, "CREATING")
    /\ Ends(c)
    /\ UNCHANGED <<open, turn, reports, breaks, hung, reopened>>

\* create_report raises before its commit: the question is open again.
CreateChosenFails(c) ==
    /\ In(c, "CREATING")
    /\ Settle(call[c].turn, "NEEDS_INPUT", "OPEN", FALSE)
    /\ Ends(c)
    /\ UNCHANGED <<open, reports, breaks, hung, reopened>>

\* The refresh or the dispatch after its commit raises: the same.
CreatedButFails(c) ==
    /\ In(c, "CREATED") /\ Break
    /\ Settle(call[c].turn, "NEEDS_INPUT", "OPEN", FALSE)
    /\ reopened' = reopened \cup {call[c].turn}
    /\ Ends(c)
    /\ UNCHANGED <<open, reports, hung>>

-----------------------------------------------------------------------------

\* The process dies, the session is lost, or a handler is cancelled where only
\* Exception is caught: nothing settles the turn.
BreaksOff(c) ==
    /\ call[c] # NoCall /\ Break
    /\ hung' = hung \cup ({call[c].turn} \cap Turns)
    /\ Ends(c)
    /\ UNCHANGED <<open, turn, reports, reopened>>

\* delete_conversation; a start_turn that overlaps waits or is rolled back.
DeleteConversation ==
    /\ open
    /\ open' = FALSE
    /\ turn' = [t \in Turns |-> NoTurn]
    /\ UNCHANGED <<reports, call, breaks, hung, reopened>>

Work(c) ==
    \/ \E t \in Turns : StartTurn(c, t)
    \/ SendRefused(c)
    \/ StreamEnds(c) \/ StreamReportsError(c) \/ StreamEndsFailed(c) \/ StreamCancelled(c)
    \/ ReportRefused(c) \/ AskReportType(c)
    \/ CreateReport(c) \/ LinkReport(c) \/ CreateReportFails(c)
    \/ CreateChosen(c) \/ LinkChosen(c) \/ CreateChosenFails(c) \/ CreatedButFails(c)

ConversationNext ==
    \/ \E c \in Callers : Send(c) \/ Work(c) \/ BreaksOff(c)
    \/ \E c \in Callers, t \in Turns : Confirm(c, t)
    \/ DeleteConversation

\* A handler that runs goes on: its model calls and its stream have timeouts.
ConversationSpec ==
    /\ ConversationInit /\ [][ConversationNext]_conversationVars
    /\ \A c \in Callers : WF_conversationVars(Work(c))

-----------------------------------------------------------------------------
(* Properties *)

\* The turns are numbered from 1 without a gap or a repetition, although each
\* request counts them in a view older than its lock.
TurnsNumberedInOrder ==
    /\ Numbers = 1..Cardinality(Stored)
    /\ \A s, t \in Stored : turn[s].number = turn[t].number => s = t

\* However often and by how many requests a question is answered, it leads to
\* one report run; only a failure after the run was committed reopens it.
OneReportPerQuestion == \A t \in Turns \ reopened : reports[t] <= 1

\* No turn streams or is processed for ever, unless its request broke off:
\* nothing takes up what a crash leaves behind.
TurnsSettle ==
    \A t \in Turns :
       t \in Stored /\ turn[t].status \in {"STREAMING", "PROCESSING_ACTION"}
          ~> \/ t \notin Stored
             \/ turn[t].status \notin {"STREAMING", "PROCESSING_ACTION"}
             \/ t \in hung
=============================================================================
