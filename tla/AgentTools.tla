------------------------------ MODULE AgentTools ------------------------------
(***************************************************************************)
(* Retrieval while the library changes: the recall pipeline with its       *)
(* readiness gate (src/app/rag/core/pipeline/recall), the plain question   *)
(* of POST /api/v1/rag/stream and /api/v1/recall, and the knowledge tools  *)
(* of one agent run (src/app/api/agent.py) with the Evidence Ledger of     *)
(* src/app/services/agent_runs.py and the source list that Pi keeps        *)
(* (apps/pi-service/src/runtime/agent.js).                                 *)
(*                                                                         *)
(* Documents change as DocumentLifecycle promises, between any two         *)
(* database sessions of a request.  An edition's chunks have ids of their  *)
(* own, so a chunk is <<document, edition, index>>.                        *)
(***************************************************************************)
EXTENDS Integers, FiniteSets, Sequences

CONSTANTS Docs,
          Calls,        \* concurrent requests
          Headings,     \* headings of the documents' outlines
          Outline,      \* per edition and heading, the indexes of its own chunks
                        \* and of those below its subheadings, in reading order
          Words,        \* per index, what a chunk costs of the budget
          Budget,       \* recall_context_token_budget
          Window,       \* recall_result_limit, AGENT_RECALL_DISPLAY_LIMIT
          Selected,     \* rerank_top_n
          PageSize,     \* chunks of a page of a section
          MaxCalls      \* bound: requests, and those given up while they go on

ASSUME ToolsAssumption ==
    /\ Window \in Nat \ {0} /\ Selected \in Nat \ {0} /\ PageSize \in Nat \ {0}
    /\ Budget \in Nat /\ MaxCalls \in Nat

\* Editions are numbered from 1 on, chunks by where they stand in them.
ASSUME OutlineAssumption ==
    /\ DOMAIN Outline \subseteq Nat \ {0} /\ DOMAIN Words \subseteq Nat
    /\ IsFiniteSet(DOMAIN Words) /\ Words \in [DOMAIN Words -> Nat]
    /\ Outline \in [DOMAIN Outline ->
                      [Headings -> [own : Seq(DOMAIN Words), below : Seq(DOMAIN Words)]]]

VARIABLES shelf,        \* per document, its state and the edition stored of it
          run,          \* the run of an agent stream: NEW, OPEN, ANSWERED, FAILED
          ledger,       \* its evidence: pairs of chunk and citation, 0 for none
          numbers,      \* citations given so far
          refs,         \* section references given out
          cursors,      \* page cursors given out
          issuing,      \* Pi is starting the tool calls of one message
          recalled,     \* RESULT: lastRecallToolResult is set, FAILURE: recallFailure is
          listed,       \* allHitsByEvidence: pairs of chunk and citation
          told,         \* ghost: pairs of chunk and citation the model was shown
          call,         \* what each request is doing
          calls,        \* requests so far, and those given up
          overlapped,   \* ghost: two recalls of the run have overlapped
          finished      \* ghost: sections read to the end

toolVars == <<shelf, run, ledger, numbers, refs, cursors, issuing, recalled, listed, told,
              call, calls, overlapped, finished>>

ledgerVars == <<ledger, numbers, refs, cursors>>
piVars == <<issuing, recalled, listed, told, overlapped, finished>>

Sets == INSTANCE FiniteSetsExt

Seqs == INSTANCE SequencesExt

Editions == DOMAIN Outline

\* Bug: the chunks of the subheadings come first.
DescendantsFirst(e, h, deep) ==
    (IF deep THEN Outline[e][h].below ELSE <<>>) \o Outline[e][h].own

\* _collect_section_chunk_ids, with or without include_descendants.  A chunk may
\* be listed under several headings.
Listing(e, h, deep) ==
    Outline[e][h].own \o (IF deep THEN Outline[e][h].below ELSE <<>>)

\* What the first k entries of a listing name.
Named(l, k) == {l[i] : i \in 1..k}

All(l) == Named(l, Len(l))

\* The first n of the chunks listed; one that is listed again does not count.
First(l, n) == UNION {Named(l, k) : k \in {j \in 0..Len(l) : Cardinality(Named(l, j)) <= n}}

IndexesOf(e) == UNION {All(Listing(e, h, TRUE)) : h \in Headings}

Chunk == {x \in Docs \X Editions \X DOMAIN Words : x[3] \in IndexesOf(x[2])}

NoPlace == <<>>

\* kind: a plain question, or a tool.  heard: the caller waits for it.  at: SEARCH,
\* GATE, RANK for recall, READ for the others, FETCH contents, REGISTER them, ANSWER.
\* low: ghost, per document the first edition visible since the request began.
\* found: what the routes returned.  hits: what is to be returned, of which chosen
\* goes to the model.  given: what is registered, with its citations.  place: the
\* evidence, document or section asked for.
Idle == [kind |-> "NONE", heard |-> TRUE, at |-> "NONE", low |-> [d \in Docs |-> 0],
         found |-> {}, hits |-> {}, chosen |-> {}, given |-> {}, place |-> NoPlace]

ToolsInit ==
    /\ shelf = [d \in Docs |-> [status |-> "PARSING", edition |-> 0]]
    /\ run = "NEW" /\ ledger = {} /\ numbers = 0 /\ refs = {} /\ cursors = {}
    /\ issuing = FALSE /\ recalled = {} /\ listed = {} /\ told = {}
    /\ call = [c \in Calls |-> Idle] /\ calls = 0
    /\ overlapped = FALSE /\ finished = {}

At(c, stage) == call[c].at = stage

\* Bug: a new edition leaves the chunks of the old one in document_chunk.
StoredEver(x) == shelf[x[1]].status # "DELETED" /\ x[2] <= shelf[x[1]].edition

\* document_chunk holds the last edition published, until the document is deleted.
Stored(x) == shelf[x[1]].status # "DELETED" /\ x[2] = shelf[x[1]].edition

\* Bug: whatever is stored may be seen.
StoredChunks == {x \in Chunk : Stored(x)}

Visible == {x \in Chunk : Stored(x) /\ shelf[x[1]].status = "READY"}

\* The oldest edition of a document that is READY now or will be.
Oldest(d) == IF shelf[d].status = "READY" THEN shelf[d].edition ELSE shelf[d].edition + 1

\* Qdrant and Manticore also hold editions that are being written or gone.
Indexed == {x \in Chunk : x[2] <= shelf[x[1]].edition + 1}

Smaller(m, n) == IF m < n THEN m ELSE n

\* The first n of S, whatever order their scores put them in.
Best(S, n) == {T \in SUBSET S : Cardinality(T) = Smaller(n, Cardinality(S))}

Cost(S) == Sets!MapThenSumSet(LAMBDA x : Words[x[3]], S)

\* assemble_context: of S in some order what fits the budget, but always the first.
Assemble(S) ==
    {block \in SUBSET S :
        \E order \in Seqs!SetToSeqs(S) : \A i \in 1..Cardinality(S) :
            LET before == {order[j] : j \in 1..i - 1} \cap block
            IN  order[i] \in block <=> \/ before = {}
                                      \/ Cost(before) + Words[order[i][3]] <= Budget}

-----------------------------------------------------------------------------
(* Requests begin *)

Begin(c, kind, stage, place) ==
    /\ call[c] = Idle /\ calls < MaxCalls
    /\ calls' = calls + 1
    /\ call' = [call EXCEPT ![c] =
                  [Idle EXCEPT !.kind = kind, !.at = stage, !.place = place,
                               !.low = [d \in Docs |-> Oldest(d)]]]

\* POST /rag/stream and /recall: they share nothing with a run, so that a
\* behaviour has plain questions or a run.
Ask(c) ==
    /\ run = "NEW"
    /\ Begin(c, "ASK", "SEARCH", NoPlace)
    /\ UNCHANGED <<run, ledgerVars, piVars>>

Chunks(pairs) == {p[1] : p \in pairs}

Awaited == {c \in Calls : call[c].heard /\ call[c].kind \notin {"NONE", "ASK"}}

\* The calls of one message run in parallel; the next message waits for all.
Issue(c, kind, stage, place) ==
    /\ run = "OPEN"
    /\ issuing \/ Awaited = {}
    /\ Begin(c, kind, stage, place)
    /\ issuing' = TRUE

\* hybrid_recall goes to the backend unless an earlier result is kept.
CallRecall(c) ==
    /\ "RESULT" \notin recalled
    /\ Issue(c, "RECALL", "SEARCH", NoPlace)
    /\ overlapped' = (overlapped \/ \E b \in Awaited : call[b].kind = "RECALL")
    /\ UNCHANGED <<run, ledgerVars, recalled, listed, told, finished>>

CallExpand(c, x) ==
    /\ x \in Chunks(told)
    /\ Issue(c, "EXPAND", "READ", x)
    /\ UNCHANGED <<run, ledgerVars, recalled, listed, told, overlapped, finished>>

CallOutline(c, d) ==
    /\ \E x \in Chunks(told) : x[1] = d
    /\ Issue(c, "OUTLINE", "READ", [doc |-> d])
    /\ UNCHANGED <<run, ledgerVars, recalled, listed, told, overlapped, finished>>

\* next: where the page begins, then where the next one does.  deep is chosen for
\* every page: a cursor does not carry it.  edition and read are ghosts: of which
\* one edition all pages were, and what they contained.
CallSection(c) ==
    /\ \E place \in cursors \cup
          {[doc |-> r[1], heading |-> r[2], next |-> 0, more |-> TRUE, deep |-> TRUE,
            edition |-> 0, read |-> {}] : r \in refs}, deep \in BOOLEAN :
          Issue(c, "SECTION", "READ", [place EXCEPT !.deep = deep])
    /\ UNCHANGED <<run, ledgerVars, recalled, listed, told, overlapped, finished>>

-----------------------------------------------------------------------------
(* Recall *)

Step(c, r) ==
    /\ call' = [call EXCEPT ![c] = r]
    /\ UNCHANGED <<run, ledgerVars, piVars, calls>>

\* The routes return what they find; one that fails finds nothing.
Search(c) ==
    /\ At(c, "SEARCH")
    /\ \E found \in SUBSET Indexed :
          Step(c, [call[c] EXCEPT !.at = "GATE", !.found = found])

\* filter_visible_hits reads batch after batch, but in one read view.  The plain
\* question keeps the best of what is visible; the agent keeps all.
Gate(c) ==
    /\ At(c, "GATE")
    /\ LET seen == call[c].found \cap Visible IN
       \E hits \in IF call[c].kind = "ASK" THEN Best(seen, Window) ELSE {seen} :
          Step(c, [call[c] EXCEPT !.at = "FETCH", !.found = {}, !.hits = hits])

\* LambdaMART orders what has content; there is no way round it.
Rank(c) ==
    /\ At(c, "RANK")
    /\ \E hits \in Best(call[c].hits, Window) : \E top \in Best(hits, Selected) :
       \E block \in Assemble(top) :
          Step(c, [call[c] EXCEPT !.at = "REGISTER", !.hits = hits, !.chosen = block])

-----------------------------------------------------------------------------
(* Reading on *)

\* internal_agent_expand_evidence: the neighbours, if the document is READY.
ReadNeighbours(c) ==
    /\ At(c, "READ") /\ call[c].kind = "EXPAND"
    /\ LET x == call[c].place IN
       /\ Stored(x)
       /\ Step(c, [call[c] EXCEPT
                     !.at = "FETCH",
                     !.hits = {y \in Visible : y[1] = x[1] /\ y[2] = x[2]
                                              /\ y[3] \in x[3] - 1 .. x[3] + 1}])

\* _agent_document_tree answers for READY documents only.
ReadOutline(c) ==
    /\ At(c, "READ") /\ call[c].kind = "OUTLINE"
    /\ LET d == call[c].place.doc
           e == shelf[d].edition
       IN /\ shelf[d].status = "READY"
          /\ Step(c, [call[c] EXCEPT !.at = "REGISTER",
                        !.place = [doc |-> d,
                                   headings |-> {h \in Headings : Listing(e, h, TRUE) # <<>>}]])

\* Chunks of one edition by their indexes.
ChunksAt(d, e, indexes) == {<<d, e, i>> : i \in indexes}

SectionOf(d, e, h, deep) == ChunksAt(d, e, All(Listing(e, h, deep)))

\* The page at the cursor, in whatever edition is READY by now.  A cursor of a
\* page with descendants may be past the end of the section without them.
ReadSection(c) ==
    /\ At(c, "READ") /\ call[c].kind = "SECTION"
    /\ shelf[call[c].place.doc].status = "READY"
    /\ LET place == call[c].place
           e == shelf[place.doc].edition
           l == Listing(e, place.heading, place.deep)
           size == Cardinality(All(l))
           next == IF place.next < size THEN Smaller(place.next + PageSize, size)
                   ELSE place.next
           page == First(l, place.next + PageSize) \ First(l, place.next)
       IN /\ Listing(e, place.heading, TRUE) # <<>>
          /\ Step(c, [call[c] EXCEPT
                        !.at = "FETCH",
                        !.hits = ChunksAt(place.doc, e, page),
                        !.place = [place EXCEPT
                                     !.next = next, !.more = next < size,
                                     !.edition = IF place.next = 0 \/ @ = e THEN e ELSE 0]])

-----------------------------------------------------------------------------
(* Contents, evidence, response *)

\* fetch_chunk_sources, in a session of its own.  What it does not find has no
\* passage: the plain question still lists it, without text or version.
Fetch(c) ==
    /\ At(c, "FETCH")
    /\ LET hits == {x \in call[c].hits : Stored(x)} IN
       \/ /\ call[c].kind = "ASK"
          /\ \E block \in Assemble(hits) :
                Step(c, [call[c] EXCEPT !.at = "ANSWER", !.hits = hits, !.chosen = block])
       \/ /\ call[c].kind = "RECALL"
          /\ Step(c, [call[c] EXCEPT !.at = "RANK", !.hits = hits])
       \/ /\ call[c].kind \in {"EXPAND", "SECTION"}
          /\ Step(c, [call[c] EXCEPT !.at = "REGISTER", !.hits = hits, !.chosen = hits])

Citation(x) == IF \E k \in 1..numbers : <<x, k>> \in ledger
               THEN CHOOSE k \in 1..numbers : <<x, k>> \in ledger ELSE 0

\* Bug: a chunk that comes up again is numbered again.
NumberAgain(x, chosen) == IF chosen THEN numbers + 1 ELSE Citation(x)

Number(x, chosen) == IF chosen /\ Citation(x) = 0 THEN numbers + 1 ELSE Citation(x)

\* register_evidence, under the registry's lock: the passages the model is to
\* read, then the others.  In which order says nothing: their scores are anything.
Register(c) ==
    /\ At(c, "REGISTER") /\ run = "OPEN"
    /\ \E x \in call[c].hits \ Chunks(call[c].given) :
          /\ x \in call[c].chosen \/ call[c].chosen \subseteq Chunks(call[c].given)
          /\ LET n == Number(x, x \in call[c].chosen) IN
             /\ ledger' = {p \in ledger : p[1] # x} \cup {<<x, n>>}
             /\ numbers' = IF n > numbers THEN n ELSE numbers
             /\ call' = [call EXCEPT ![c].given = @ \cup {<<x, n>>}]
    /\ UNCHANGED <<run, refs, cursors, piVars, calls>>

Complete(c) == At(c, "REGISTER") /\ call[c].hits = Chunks(call[c].given)

\* Pi puts what a response brings over what it has, the citation included.
Merge(given) == {p \in listed : \A q \in given : q[1] # p[1]} \cup given

\* The response reaches Pi, with references to read on.
Deliver(c) ==
    /\ Complete(c) /\ call[c].heard /\ run = "OPEN"
    /\ LET given == call[c].given
           kind == call[c].kind
           place == call[c].place
           read == IF kind = "SECTION"
                   THEN [place EXCEPT !.read = @ \cup Chunks(given)] ELSE NoPlace
       IN /\ listed' = Merge(given)
          /\ told' = told \cup {p \in given : p[1] \in call[c].chosen}
          /\ recalled' = recalled \cup (IF kind = "RECALL" THEN {"RESULT"} ELSE {})
          /\ refs' = IF kind = "OUTLINE" THEN refs \cup ({place.doc} \X place.headings)
                     ELSE refs
          /\ cursors' = IF kind = "SECTION" /\ place.more
                        THEN cursors \cup {[read EXCEPT !.deep = TRUE]} ELSE cursors
          /\ finished' = IF kind = "SECTION" /\ ~place.more
                            /\ shelf[place.doc].status # "DELETED"
                            /\ shelf[place.doc].edition = place.edition
                         THEN finished \cup {read} ELSE finished
    /\ call' = [call EXCEPT ![c] = Idle]
    /\ issuing' = FALSE
    /\ UNCHANGED <<run, ledger, numbers, calls, overlapped>>

\* Nobody waits for it any more, the run is gone and nothing can be registered,
\* or the plain question is answered.
Ends(c) ==
    /\ \/ Complete(c) /\ ~call[c].heard
       \/ At(c, "REGISTER") /\ run # "OPEN"
       \/ At(c, "ANSWER")
    /\ Step(c, Idle)

FailureHeard(c) ==
    /\ call[c] # Idle /\ call[c].heard
    /\ recalled' = recalled \cup (IF call[c].kind = "RECALL" THEN {"FAILURE"} ELSE {})
    /\ issuing' = (issuing /\ call[c].kind = "ASK")
    /\ UNCHANGED <<run, ledgerVars, listed, told, overlapped, finished>>

\* The handler raises.  A recall that fails costs the answer.
Fails(c) ==
    /\ FailureHeard(c)
    /\ call' = [call EXCEPT ![c] = Idle]
    /\ UNCHANGED calls

\* Pi stops waiting (toolTimeoutMs) while the handler goes on.
TimesOut(c) ==
    /\ FailureHeard(c)
    /\ call[c].kind # "ASK" /\ calls < MaxCalls
    /\ call' = [call EXCEPT ![c].heard = FALSE]
    /\ calls' = calls + 1

OpenRun ==
    /\ run = "NEW" /\ calls = 0
    /\ run' = "OPEN"
    /\ UNCHANGED <<ledgerVars, piVars, call, calls>>

\* answer_done once no tool runs and no recall has failed; an error, a time-out or
\* a client that is gone at any time, with handlers still at work.
EndRun ==
    /\ run = "OPEN"
    /\ \/ run' = "FAILED"
       \/ Awaited = {} /\ "FAILURE" \notin recalled /\ run' = "ANSWERED"
    /\ ledger' = {} /\ refs' = {} /\ cursors' = {}
    /\ UNCHANGED <<numbers, piVars, call, calls>>

Serve(c) ==
    \/ Search(c) \/ Gate(c) \/ Rank(c)
    \/ ReadNeighbours(c) \/ ReadOutline(c) \/ ReadSection(c)
    \/ Fetch(c) \/ Register(c) \/ Ends(c)

ToolStep ==
    \/ OpenRun \/ EndRun
    \/ \E c \in Calls :
          \/ Ask(c) \/ CallRecall(c) \/ CallSection(c)
          \/ \E x \in Chunk : CallExpand(c, x)
          \/ \E d \in Docs : CallOutline(c, d)
          \/ Serve(c) \/ Deliver(c) \/ Fails(c) \/ TimesOut(c)

Shelve(d, from, status, edition) ==
    /\ shelf[d].status \in from
    /\ shelf' = [shelf EXCEPT ![d] = [status |-> status, edition |-> edition]]

Publish(d) ==
    /\ shelf[d].edition + 1 \in Editions
    /\ Shelve(d, {"PARSING"}, "READY", shelf[d].edition + 1)

Reparse(d) == Shelve(d, {"READY"}, "PARSING", shelf[d].edition)

Delete(d) == Shelve(d, {"READY", "PARSING"}, "DELETED", shelf[d].edition)

LibraryStep ==
    /\ \E d \in Docs : Publish(d) \/ Reparse(d) \/ Delete(d)
    /\ UNCHANGED <<run, ledgerVars, piVars, call, calls>>

ToolsNext == (ToolStep /\ UNCHANGED shelf) \/ LibraryStep

ToolsSpec == ToolsInit /\ [][ToolsNext]_toolVars

-----------------------------------------------------------------------------
(* Properties *)

\* What a response is about to bring.
Returned(c) ==
    IF call[c].at \in {"REGISTER", "ANSWER"} THEN call[c].hits ELSE {}

\* However the document is parsed again meanwhile, the passages of a document
\* that one response brings are all of one edition.
OneEditionPerResponse ==
    \A c \in Calls : \A x, y \in Returned(c) : x[1] = y[1] => x[2] = y[2]

\* A response only brings passages that a READY document served at some moment
\* since the request began, whatever the indexes returned and however long ago
\* the gate looked.
OnlyVisibleReturned ==
    \A c \in Calls : \A x \in Returned(c) : x[2] >= call[c].low[x[1]]

\* In a run, a number the model has been shown is that of one passage, a passage
\* has one number (docs/pi-agent.md: "稳定的 `[片段N]` 引用编号"), and the list of
\* sources has it.  Not so if two recalls of one message overlapped: the second
\* response may list a passage without the number it has been given meanwhile.
CitationsResolve ==
    /\ \A p, q \in told : p[1] = q[1] <=> p[2] = q[2]
    /\ overlapped \/ told \subseteq listed

\* Pages read until has_more is false make up the section, with what is below its
\* subheadings or without as the last page was asked for, whichever way the pages
\* before it were: what is the section's own comes first in both
\* (_collect_section_chunk_ids).  Not so if the document was published again or
\* deleted on the way.
SectionReadWhole ==
    \A s \in finished :
        /\ SectionOf(s.doc, s.edition, s.heading, s.deep) \subseteq s.read
        /\ s.read \subseteq SectionOf(s.doc, s.edition, s.heading, TRUE)
=============================================================================
