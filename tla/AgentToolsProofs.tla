--------------------------- MODULE AgentToolsProofs ---------------------------
(***************************************************************************)
(* Proofs about AgentTools: for any library, any outlines and any number   *)
(* of overlapping requests, responses keep to one edition that was visible *)
(* since they began, citations stay unique and listed, and pages make up   *)
(* their section, whichever way each was asked for.                        *)
(***************************************************************************)
EXTENDS AgentTools, FiniteSetTheorems, TLAPS

Section ==
    [doc : Docs, heading : Headings, next : Nat, more : BOOLEAN, deep : BOOLEAN,
     edition : Nat, read : SUBSET Chunk]

Place == {NoPlace} \cup Chunk \cup Section
            \cup [doc : Docs] \cup [doc : Docs, headings : SUBSET Headings]

Pairs == Chunk \X Nat

Request ==
    [kind : {"NONE", "ASK", "RECALL", "EXPAND", "OUTLINE", "SECTION"}, heard : BOOLEAN,
     at : {"NONE", "SEARCH", "GATE", "RANK", "READ", "FETCH", "REGISTER", "ANSWER"},
     low : [Docs -> Nat], found : SUBSET Chunk, hits : SUBSET Chunk, chosen : SUBSET Chunk,
     given : SUBSET Pairs, place : Place]

\* What the shelf, the run and the requests are made of.
ToolsTypeOK ==
    /\ shelf \in [Docs -> [status : {"PARSING", "READY", "DELETED"}, edition : Nat]]
    /\ run \in {"NEW", "OPEN", "ANSWERED", "FAILED"}
    /\ ledger \subseteq Pairs /\ numbers \in Nat
    /\ refs \subseteq Docs \X Headings /\ cursors \subseteq Section
    /\ issuing \in BOOLEAN /\ recalled \subseteq {"RESULT", "FAILURE"}
    /\ listed \subseteq Pairs /\ told \subseteq Pairs
    /\ call \in [Calls -> Request] /\ calls \in Nat
    /\ overlapped \in BOOLEAN /\ finished \subseteq Section

\* The stages each kind of request goes through, and what it has by then.
StageFits(r) ==
    /\ r.kind = "NONE" => r.at = "NONE"
    /\ r.kind = "ASK" => r.at \in {"SEARCH", "GATE", "FETCH", "ANSWER"}
    /\ r.kind = "RECALL" => r.at \in {"SEARCH", "GATE", "FETCH", "RANK", "REGISTER"}
    /\ r.kind = "EXPAND" => r.at \in {"READ", "FETCH", "REGISTER"} /\ r.place \in Chunk
    /\ r.kind = "OUTLINE" => r.at \in {"READ", "REGISTER"} /\ r.hits = {}
    /\ r.kind = "SECTION" => r.at \in {"READ", "FETCH", "REGISTER"} /\ r.place \in Section
    /\ r.kind = "OUTLINE" /\ r.at = "READ" => r.place \in [doc : Docs]
    /\ r.kind = "OUTLINE" /\ r.at = "REGISTER" =>
           r.place \in [doc : Docs, headings : SUBSET Headings]
    /\ r.at # "REGISTER" => r.given = {}
    /\ r.kind \in {"EXPAND", "SECTION"} /\ r.at = "REGISTER" => r.chosen = r.hits

ShelfFits == \A d \in Docs : shelf[d].status = "READY" => shelf[d].edition \in Editions

\* The hits of a request are of one edition per document, one that was READY
\* since it began.
HitsFit(r) ==
    /\ \A d \in Docs : r.low[d] <= Oldest(d)
    /\ \A x \in r.hits : x[2] >= r.low[x[1]]
    /\ \A x, y \in r.hits : x[1] = y[1] => x[2] = y[2]

\* A passage has one number, a number one passage, and the next is free.
LedgerFits ==
    /\ \A p, q \in ledger : p[1] = q[1] => p = q
    /\ \A p, q \in ledger : p[2] # 0 /\ p[2] = q[2] => p = q
    /\ \A p \in ledger : p[2] <= numbers

\* What a request has registered is in the ledger, whatever others register.
GivenFits(r) ==
    /\ \A p, q \in r.given : p[1] = q[1] => p = q
    /\ Chunks(r.given) \subseteq r.hits
    /\ \A p \in r.given : p[1] \in r.chosen => p[2] # 0
    /\ run = "OPEN" => \A p \in r.given : p[2] # 0 => p \in ledger

\* Before anything is told, and as long as no two recalls overlap.
FirstRecall ==
    /\ told # {} \/ refs # {} \/ cursors # {} => "RESULT" \in recalled
    /\ \A c \in Calls : call[c].kind \in {"EXPAND", "OUTLINE", "SECTION"} =>
                           "RESULT" \in recalled
    /\ \A c \in Calls : call[c].kind \notin {"NONE", "ASK"} => run # "NEW"
    /\ run = "NEW" => ledger = {} /\ told = {}
    /\ ~overlapped =>
          \A c \in Calls : call[c].kind = "RECALL" /\ call[c].heard =>
             /\ "RESULT" \notin recalled
             /\ \A b \in Calls : call[b].kind = "RECALL" /\ call[b].heard => b = c

\* What the model was told is as the ledger has it, and listed.
ToldFits ==
    /\ CitationsResolve
    /\ \A p \in told : p[2] # 0
    /\ run = "OPEN" => told \subseteq ledger

\* The edition that pages are of is still the one stored.
Current(s) ==
    /\ s.edition # 0
    /\ shelf[s.doc].status # "DELETED" /\ shelf[s.doc].edition = s.edition

\* The first n chunks of the section with all that is below it.
Opening(s, n) == ChunksAt(s.doc, s.edition, First(Listing(s.edition, s.heading, TRUE), n))

\* What was read before the page at s.
ReadFits(s) ==
    /\ s.edition <= shelf[s.doc].edition
    /\ s.next = 0 => s.read = {} /\ s.edition = 0
    /\ Current(s) => s.edition \in Editions /\ s.read = Opening(s, s.next)

\* All that was asked for, and nothing of another section.
WholeRead(s, read) ==
    /\ SectionOf(s.doc, s.edition, s.heading, s.deep) \subseteq read
    /\ read \subseteq SectionOf(s.doc, s.edition, s.heading, TRUE)

\* What was read with the page that is being returned.
PageFits(s, page) ==
    /\ s.edition <= shelf[s.doc].edition /\ shelf[s.doc].edition # 0
    /\ s.more => s.next # 0
    /\ Current(s) =>
          /\ s.edition \in Editions
          /\ s.more => s.read \cup page = Opening(s, s.next)
          /\ ~s.more => WholeRead(s, s.read \cup page)

SectionFits(r) ==
    r.kind = "SECTION" => IF r.at = "READ" THEN ReadFits(r.place)
                          ELSE PageFits(r.place, r.hits)

CursorsFit == \A s \in cursors : s.next # 0 /\ ReadFits(s)

ToolsInvariant ==
    /\ ShelfFits /\ LedgerFits /\ FirstRecall /\ ToldFits /\ CursorsFit /\ SectionReadWhole
    /\ \A c \in Calls : /\ StageFits(call[c]) /\ HitsFit(call[c])
                        /\ GivenFits(call[c]) /\ SectionFits(call[c])

-----------------------------------------------------------------------------
(* Sections and their pages *)

\* What one sequence begins with is all of the other.
Begins(l, whole) == Len(l) <= Len(whole) /\ \A i \in 1..Len(l) : whole[i] = l[i]

\* Listings are sequences of the indexes words are given for; the one with what is
\* below begins with the one without.
LEMMA ListingType ==
    ASSUME NEW e \in Editions, NEW h \in Headings, NEW deep \in BOOLEAN
    PROVE  /\ Listing(e, h, deep) \in Seq(DOMAIN Words)
           /\ Listing(e, h, TRUE) \in Seq(DOMAIN Words)
           /\ Begins(Listing(e, h, deep), Listing(e, h, TRUE))
<1>1. PICK own \in Seq(DOMAIN Words), below \in Seq(DOMAIN Words) :
          own = Outline[e][h].own /\ below = Outline[e][h].below
  BY OutlineAssumption DEF Editions
<1>2. own \o <<>> = own
  OBVIOUS
<1>3. own \o below \in Seq(DOMAIN Words)
  OBVIOUS
<1>w. PICK whole \in Seq(DOMAIN Words) : whole = own \o below
  BY <1>3, Zenon
<1>4. /\ Listing(e, h, TRUE) = whole
      /\ Listing(e, h, deep) = whole \/ Listing(e, h, deep) = own
  BY <1>1, <1>2, <1>w DEF Listing
<1>5. Begins(own, whole)
  BY <1>w DEF Begins
<1>6. Begins(whole, whole)
  BY DEF Begins
<1> QED
  BY <1>4, <1>5, <1>6

\* What a listing names is finite, and more of it names more.
LEMMA NamedGrows ==
    ASSUME NEW l \in Seq(DOMAIN Words)
    PROVE  /\ \A k \in 0..Len(l) : /\ Named(l, k) \subseteq All(l)
                                   /\ IsFiniteSet(Named(l, k))
                                   /\ Cardinality(Named(l, k)) \in Nat
           /\ IsFiniteSet(All(l)) /\ Cardinality(All(l)) \in Nat
<1>1. \A k \in 0..Len(l) : Named(l, k) \subseteq All(l) /\ Named(l, k) \subseteq DOMAIN Words
  BY DEF Named, All
<1>2. \A k \in 0..Len(l) : IsFiniteSet(Named(l, k))
  BY <1>1, FS_Subset, OutlineAssumption
<1>3. \A k \in 0..Len(l) : Cardinality(Named(l, k)) \in Nat
  BY <1>2, FS_CardinalityType
<1>4. Len(l) \in 0..Len(l)
  OBVIOUS
<1> QED  BY <1>1, <1>2, <1>3, <1>4 DEF All

\* The first chunks of a listing: none, more and more, and in the end all.
LEMMA FirstGrows ==
    ASSUME NEW l \in Seq(DOMAIN Words), NEW n \in Nat
    PROVE  /\ First(l, 0) = {}
           /\ First(l, n) \subseteq All(l)
           /\ \A m \in Nat : n <= m => First(l, n) \subseteq First(l, m)
           /\ n >= Cardinality(All(l)) => First(l, n) = All(l)
<1>1. \A x, m : x \in First(l, m) <=>
                   \E k \in 0..Len(l) : Cardinality(Named(l, k)) <= m /\ x \in Named(l, k)
  BY DEF First
<1>2. /\ \A k \in 0..Len(l) : /\ Named(l, k) \subseteq All(l)
                              /\ IsFiniteSet(Named(l, k))
                              /\ Cardinality(Named(l, k)) \in Nat
      /\ Cardinality(All(l)) \in Nat
  BY NamedGrows
<1>3. First(l, 0) = {}
  <2>1. \A k \in 0..Len(l) : Cardinality(Named(l, k)) <= 0 => Named(l, k) = {}
    BY <1>2, FS_EmptySet
  <2> QED  BY <1>1, <2>1
<1>4. First(l, n) \subseteq All(l)
  BY <1>1, <1>2
<1>5. \A m \in Nat : n <= m => First(l, n) \subseteq First(l, m)
  BY <1>1, <1>2
<1>6. n >= Cardinality(All(l)) => First(l, n) = All(l)
  <2>1. Len(l) \in 0..Len(l) /\ All(l) = Named(l, Len(l))
    BY DEF All
  <2> QED  BY <1>1, <1>4, <2>1
<1> QED  BY <1>3, <1>4, <1>5, <1>6

\* What is a section's own comes first, with what is below it or without.
LEMMA OwnFirst ==
    ASSUME NEW own \in Seq(DOMAIN Words), NEW deep \in Seq(DOMAIN Words),
           Begins(own, deep), NEW n \in Nat
    PROVE  /\ All(own) \subseteq All(deep)
           /\ First(own, n) \subseteq First(deep, n)
           /\ n <= Cardinality(All(own)) => First(own, n) = First(deep, n)
<1>1. /\ Len(own) \in Nat /\ Len(deep) \in Nat
      /\ Len(own) <= Len(deep) /\ \A i \in 1..Len(own) : deep[i] = own[i]
  BY DEF Begins
<1>0. All(own) \subseteq All(deep)
  <2>1. 1..Len(own) \subseteq 1..Len(deep)
    BY <1>1
  <2> QED  BY <1>1, <2>1 DEF All, Named
<1>2. \A k \in 0..Len(own) : k \in 0..Len(deep) /\ Named(deep, k) = Named(own, k)
  BY <1>1 DEF Named
<1>3. \A x : x \in First(own, n) => x \in First(deep, n)
  <2>1. \A x : x \in First(own, n) =>
                 \E k \in 0..Len(own) : Cardinality(Named(own, k)) <= n /\ x \in Named(own, k)
    BY DEF First
  <2>2. \A x : (\E k \in 0..Len(deep) : Cardinality(Named(deep, k)) <= n
                                        /\ x \in Named(deep, k))
               => x \in First(deep, n)
    BY DEF First
  <2> QED  BY <1>2, <2>1, <2>2
<1>4. ASSUME n <= Cardinality(All(own)), NEW k \in 0..Len(deep),
             Cardinality(Named(deep, k)) <= n
      PROVE  Named(deep, k) \subseteq First(own, n)
  <2>1. CASE k \in 0..Len(own)
    BY <1>2, <1>4, <2>1 DEF First
  <2>2. CASE k \notin 0..Len(own)
    <3>1. All(own) \subseteq Named(deep, k)
      <4>1. 1..Len(own) \subseteq 1..k
        BY <1>1, <2>2
      <4> QED  BY <1>1, <4>1 DEF All, Named
    <3>2. IsFiniteSet(Named(deep, k)) /\ Cardinality(Named(deep, k)) \in Nat
      BY <1>1, NamedGrows
    <3>3. /\ Cardinality(All(own)) <= Cardinality(Named(deep, k))
          /\ Cardinality(All(own)) = Cardinality(Named(deep, k)) => Named(deep, k) = All(own)
      BY <3>1, <3>2, FS_Subset
    <3>4. Cardinality(All(own)) \in Nat
      BY NamedGrows
    <3>5. Named(deep, k) = All(own) /\ n >= Cardinality(All(own))
      BY <1>4, <3>2, <3>3, <3>4
    <3> QED  BY <3>5, FirstGrows
  <2> QED  BY <2>1, <2>2
<1>5. ASSUME n <= Cardinality(All(own)), NEW x \in First(deep, n)
      PROVE  x \in First(own, n)
  <2>1. PICK k \in 0..Len(deep) : Cardinality(Named(deep, k)) <= n /\ x \in Named(deep, k)
    BY <1>5 DEF First
  <2> QED  BY <1>4, <1>5, <2>1
<1> QED  BY <1>0, <1>3, <1>5

LEMMA ChunksFields ==
    ASSUME NEW d, NEW e, NEW indexes, NEW x \in ChunksAt(d, e, indexes)
    PROVE  x[1] = d /\ x[2] = e
  BY DEF ChunksAt

LEMMA SectionInChunk ==
    ASSUME NEW d \in Docs, NEW e \in Editions, NEW h \in Headings
    PROVE  SectionOf(d, e, h, TRUE) \subseteq Chunk
<1>1. PICK whole \in Seq(DOMAIN Words) : whole = Listing(e, h, TRUE)
  BY ListingType
<1>2. All(whole) \subseteq DOMAIN Words
  BY DEF All, Named
<1>3. All(whole) \subseteq IndexesOf(e)
  BY <1>1 DEF IndexesOf
<1>4. ASSUME NEW x \in SectionOf(d, e, h, TRUE)
      PROVE  x \in Chunk
  <2>1. PICK i \in All(whole) : x = <<d, e, i>>
    BY <1>1 DEF SectionOf, ChunksAt
  <2>2. x \in Docs \X Editions \X DOMAIN Words /\ x[2] = e /\ x[3] = i
    BY <1>2, <2>1
  <2> QED
    BY <1>3, <2>1, <2>2 DEF Chunk
<1> QED  BY <1>4

-----------------------------------------------------------------------------
(* Steps of one request *)

RunKept == UNCHANGED <<shelf, run, ledger, numbers, refs, cursors, listed, told, finished>>

\* A request goes on to what fits, and nothing else changes but how many there
\* are and what is waited for.
LEMMA CallKeeps ==
    ASSUME ToolsTypeOK, ToolsInvariant, NEW c \in Calls, NEW r \in Request,
           call' = [call EXCEPT ![c] = r], RunKept,
           issuing' \in BOOLEAN, calls' \in Nat, recalled' \subseteq {"RESULT", "FAILURE"},
           overlapped' \in BOOLEAN, overlapped => overlapped', FirstRecall',
           StageFits(r), HitsFit(r), GivenFits(r), SectionFits(r)
    PROVE  ToolsTypeOK' /\ ToolsInvariant'
<1> USE DEF RunKept
<1>1. ToolsTypeOK'
  BY DEF ToolsTypeOK
<1>2. ShelfFits' /\ LedgerFits' /\ SectionReadWhole'
  BY DEF ToolsInvariant, ShelfFits, LedgerFits, SectionReadWhole
<1>3. ToldFits'
  BY DEF ToolsInvariant, ToldFits, CitationsResolve
<1>4. \A s : /\ ReadFits(s)' <=> ReadFits(s)
             /\ \A page : PageFits(s, page)' <=> PageFits(s, page)
  BY DEF ReadFits, PageFits, Current, Opening, WholeRead
<1>5. CursorsFit'
  BY <1>4 DEF ToolsInvariant, CursorsFit
<1>6. \A q : /\ HitsFit(q)' <=> HitsFit(q)
             /\ GivenFits(q)' <=> GivenFits(q)
             /\ SectionFits(q)' <=> SectionFits(q)
  BY <1>4 DEF HitsFit, Oldest, GivenFits, SectionFits
<1>7. \A b \in Calls : call'[b] = r \/ call'[b] = call[b]
  BY DEF ToolsTypeOK
<1>8. ASSUME NEW b \in Calls
      PROVE  /\ StageFits(call[b])' /\ HitsFit(call[b])'
             /\ GivenFits(call[b])' /\ SectionFits(call[b])'
  <2>1. PICK q : q = call'[b]
    OBVIOUS
  <2>2. StageFits(q) /\ HitsFit(q)' /\ GivenFits(q)' /\ SectionFits(q)'
    <3>1. CASE q = r
      BY <1>6, <3>1
    <3>2. CASE q = call[b]
      BY <1>6, <3>2 DEF ToolsInvariant
    <3> QED  BY <1>7, <2>1, <3>1, <3>2
  <2>3. StageFits(call[b])'
    BY <2>1, <2>2 DEF StageFits
  <2>4. HitsFit(call[b])'
    BY <2>1, <2>2 DEF HitsFit
  <2>5. GivenFits(call[b])'
    BY <2>1, <2>2 DEF GivenFits
  <2>6. SectionFits(call[b])'
    BY <2>1, <2>2 DEF SectionFits
  <2> QED  BY <2>3, <2>4, <2>5, <2>6
<1> QED
  BY <1>1, <1>2, <1>3, <1>5, <1>8 DEF ToolsInvariant

\* As long as a request stays what it is, or is gone.
LEMMA FirstKept ==
    ASSUME ToolsTypeOK, FirstRecall, NEW c \in Calls, NEW r,
           call' = [call EXCEPT ![c] = r],
           \/ r.kind = "NONE"
           \/ r.kind = call[c].kind /\ (r.heard => call[c].heard),
           UNCHANGED <<run, ledger, refs, cursors, told, overlapped>>,
           "RESULT" \in recalled' <=> "RESULT" \in recalled
    PROVE  FirstRecall'
<1>1. \A b \in Calls : \/ call'[b].kind = "NONE"
                       \/ /\ call'[b].kind = call[b].kind
                          /\ call'[b].heard => call[b].heard
  BY DEF ToolsTypeOK
<1> QED
  BY <1>1 DEF FirstRecall

LEMMA IdleFits ==
    ASSUME ToolsTypeOK
    PROVE  /\ Idle \in Request /\ StageFits(Idle) /\ HitsFit(Idle)
           /\ GivenFits(Idle) /\ SectionFits(Idle)
<1>1. Idle \in Request
  BY DEF Idle, Request, Place, Pairs
<1>2. \A d \in Docs : Idle.low[d] <= Oldest(d)
  BY DEF Idle, Oldest, ToolsTypeOK
<1> QED
  BY <1>1, <1>2 DEF Idle, StageFits, HitsFit, GivenFits, SectionFits, Chunks

LEMMA StepKeeps ==
    ASSUME ToolsTypeOK, ToolsInvariant, NEW c \in Calls, NEW r \in Request, Step(c, r),
           UNCHANGED shelf, r.kind = call[c].kind, r.heard = call[c].heard,
           StageFits(r), HitsFit(r), GivenFits(r), SectionFits(r)
    PROVE  ToolsTypeOK' /\ ToolsInvariant'
<1>1. /\ call' = [call EXCEPT ![c] = r] /\ RunKept
      /\ UNCHANGED <<issuing, recalled, overlapped, calls>>
  BY DEF Step, ledgerVars, piVars, RunKept
<1>2. FirstRecall'
  BY <1>1, FirstKept DEF RunKept, ToolsInvariant
<1>3. /\ issuing' \in BOOLEAN /\ calls' \in Nat /\ recalled' \subseteq {"RESULT", "FAILURE"}
      /\ overlapped' \in BOOLEAN /\ (overlapped => overlapped')
  BY <1>1 DEF ToolsTypeOK
<1> QED
  BY <1>1, <1>2, <1>3, CallKeeps

\* What the invariant says of one request.
LEMMA CallFits ==
    ASSUME ToolsTypeOK, ToolsInvariant, NEW c \in Calls
    PROVE  /\ call[c] \in Request /\ StageFits(call[c]) /\ HitsFit(call[c])
           /\ GivenFits(call[c]) /\ SectionFits(call[c])
  BY DEF ToolsTypeOK, ToolsInvariant

-----------------------------------------------------------------------------
(* Requests begin *)

\* The record a request begins with fits if what it asks for does.
LEMMA BeginKeeps ==
    ASSUME ToolsTypeOK, ToolsInvariant, NEW c \in Calls, NEW kind, NEW stage, NEW place,
           Begin(c, kind, stage, place), UNCHANGED <<shelf, run, ledgerVars>>,
           UNCHANGED <<listed, told, recalled, finished>>, issuing' \in BOOLEAN,
           overlapped' \in BOOLEAN, overlapped => overlapped',
           \/ /\ kind = "ASK" /\ stage = "SEARCH" /\ place = NoPlace
              /\ UNCHANGED overlapped
           \/ /\ kind = "RECALL" /\ stage = "SEARCH" /\ place = NoPlace
              /\ run = "OPEN" /\ "RESULT" \notin recalled
              /\ overlapped \/ (\E b \in Awaited : call[b].kind = "RECALL") => overlapped'
           \/ /\ kind = "EXPAND" /\ stage = "READ" /\ place \in Chunk
              /\ run = "OPEN" /\ "RESULT" \in recalled /\ UNCHANGED overlapped
           \/ /\ kind = "OUTLINE" /\ stage = "READ" /\ place \in [doc : Docs]
              /\ run = "OPEN" /\ "RESULT" \in recalled /\ UNCHANGED overlapped
           \/ /\ kind = "SECTION" /\ stage = "READ" /\ place \in Section /\ ReadFits(place)
              /\ run = "OPEN" /\ "RESULT" \in recalled /\ UNCHANGED overlapped
    PROVE  ToolsTypeOK' /\ ToolsInvariant'
<1>1. PICK low : low = [d \in Docs |-> Oldest(d)]
  OBVIOUS
<1>2. low \in [Docs -> Nat] /\ \A d \in Docs : low[d] <= Oldest(d)
  BY <1>1 DEF Oldest, ToolsTypeOK
<1>3. PICK r : r = [Idle EXCEPT !.kind = kind, !.at = stage, !.place = place, !.low = low]
  OBVIOUS
<1>4. call' = [call EXCEPT ![c] = r] /\ calls' \in Nat /\ call[c] = Idle
  BY <1>1, <1>3 DEF Begin, ToolsTypeOK
<1>5. /\ r \in Request /\ r.kind = kind /\ r.at = stage /\ r.place = place /\ r.low = low
      /\ r.heard = TRUE /\ r.found = {} /\ r.hits = {} /\ r.chosen = {} /\ r.given = {}
  <2>1. Idle \in Request
    BY IdleFits
  <2>2. r.kind = kind /\ r.at = stage /\ r.place = place /\ r.low = low
    BY <1>3, <2>1 DEF Request
  <2>3. r.heard = TRUE /\ r.found = {} /\ r.hits = {} /\ r.chosen = {} /\ r.given = {}
    BY <1>3 DEF Idle
  <2>4. r \in Request
    BY <1>2, <1>3, <2>1 DEF Request, Place
  <2> QED  BY <2>2, <2>3, <2>4
<1>6. StageFits(r) /\ HitsFit(r) /\ GivenFits(r) /\ SectionFits(r)
  BY <1>2, <1>5 DEF StageFits, HitsFit, GivenFits, SectionFits, Chunks
<1>7. RunKept
  BY DEF RunKept, ledgerVars
<1>8. FirstRecall'
  <2>1. call'[c] = r /\ \A b \in Calls : b # c => call'[b] = call[b]
    BY <1>4 DEF ToolsTypeOK
  <2>2. r.kind = kind
    BY <1>5
  <2>3. FirstRecall /\ UNCHANGED <<run, ledger, refs, cursors, told, recalled>>
    BY <1>7 DEF RunKept, ToolsInvariant
  <2>4. /\ \A b \in Calls : call'[b].kind \in {"EXPAND", "OUTLINE", "SECTION"} =>
                               "RESULT" \in recalled
        /\ run = "NEW" => kind = "ASK"
    BY <2>1, <2>2, <2>3 DEF FirstRecall
  <2>5. \A b \in Calls : call'[b].kind \notin {"NONE", "ASK"} => run # "NEW"
    BY <2>1, <2>2, <2>3, <2>4 DEF FirstRecall
  <2>6. ASSUME ~overlapped', NEW b \in Calls, call'[b].kind = "RECALL", call'[b].heard
        PROVE  /\ "RESULT" \notin recalled
               /\ \A a \in Calls : call'[a].kind = "RECALL" /\ call'[a].heard => a = b
    <3>1. CASE kind = "RECALL"
      <4>1. \A a \in Calls : ~(call[a].kind = "RECALL" /\ call[a].heard)
        BY <2>6, <3>1 DEF Awaited
      <4> QED
        BY <2>1, <2>6, <3>1, <4>1
    <3>2. CASE kind # "RECALL"
      BY <2>1, <2>2, <2>3, <2>6, <3>2 DEF FirstRecall
    <3> QED  BY <3>1, <3>2
  <2>7. /\ told' # {} \/ refs' # {} \/ cursors' # {} => "RESULT" \in recalled'
        /\ run' = "NEW" => ledger' = {} /\ told' = {}
    BY <2>3 DEF FirstRecall
  <2>8. ~overlapped' =>
          \A b \in Calls : call'[b].kind = "RECALL" /\ call'[b].heard =>
             /\ "RESULT" \notin recalled'
             /\ \A a \in Calls : call'[a].kind = "RECALL" /\ call'[a].heard => a = b
    BY <2>3, <2>6
  <2>9. \A b \in Calls : /\ call'[b].kind \in {"EXPAND", "OUTLINE", "SECTION"} =>
                               "RESULT" \in recalled'
                         /\ call'[b].kind \notin {"NONE", "ASK"} => run' # "NEW"
    BY <2>3, <2>4, <2>5
  <2> QED
    BY <2>7, <2>8, <2>9 DEF FirstRecall
<1>9. recalled' \subseteq {"RESULT", "FAILURE"}
  BY DEF ToolsTypeOK
<1> QED
  BY <1>4, <1>5, <1>6, <1>7, <1>8, <1>9, CallKeeps

LEMMA AskKeeps ==
    ASSUME ToolsTypeOK, ToolsInvariant, NEW c \in Calls, Ask(c), UNCHANGED shelf
    PROVE  ToolsTypeOK' /\ ToolsInvariant'
<1>1. /\ Begin(c, "ASK", "SEARCH", NoPlace)
      /\ UNCHANGED <<shelf, run, ledgerVars>> /\ UNCHANGED <<listed, told, recalled, finished>>
      /\ issuing' \in BOOLEAN /\ UNCHANGED overlapped /\ overlapped' \in BOOLEAN
  BY DEF Ask, ledgerVars, piVars, ToolsTypeOK
<1> QED  BY <1>1, BeginKeeps

LEMMA CallRecallKeeps ==
    ASSUME ToolsTypeOK, ToolsInvariant, NEW c \in Calls, CallRecall(c), UNCHANGED shelf
    PROVE  ToolsTypeOK' /\ ToolsInvariant'
<1>1. /\ Begin(c, "RECALL", "SEARCH", NoPlace) /\ run = "OPEN" /\ "RESULT" \notin recalled
      /\ UNCHANGED <<shelf, run, ledgerVars>> /\ UNCHANGED <<listed, told, recalled, finished>>
      /\ issuing' \in BOOLEAN
      /\ overlapped' = (overlapped \/ \E b \in Awaited : call[b].kind = "RECALL")
  BY DEF CallRecall, Issue
<1>2. overlapped' \in BOOLEAN
  BY <1>1
<1> QED  BY <1>1, <1>2, BeginKeeps

LEMMA CallExpandKeeps ==
    ASSUME ToolsTypeOK, ToolsInvariant, NEW c \in Calls, NEW x \in Chunk, CallExpand(c, x),
           UNCHANGED shelf
    PROVE  ToolsTypeOK' /\ ToolsInvariant'
<1>1. /\ Begin(c, "EXPAND", "READ", x) /\ run = "OPEN"
      /\ UNCHANGED <<shelf, run, ledgerVars>> /\ UNCHANGED <<listed, told, recalled, finished>>
      /\ issuing' \in BOOLEAN /\ UNCHANGED overlapped /\ overlapped' \in BOOLEAN
  BY DEF CallExpand, Issue, ToolsTypeOK
<1>2. "RESULT" \in recalled
  BY DEF CallExpand, Chunks, ToolsInvariant, FirstRecall
<1> QED  BY <1>1, <1>2, BeginKeeps

LEMMA CallOutlineKeeps ==
    ASSUME ToolsTypeOK, ToolsInvariant, NEW c \in Calls, NEW d \in Docs, CallOutline(c, d),
           UNCHANGED shelf
    PROVE  ToolsTypeOK' /\ ToolsInvariant'
<1>1. /\ Begin(c, "OUTLINE", "READ", [doc |-> d]) /\ run = "OPEN"
      /\ UNCHANGED <<shelf, run, ledgerVars>> /\ UNCHANGED <<listed, told, recalled, finished>>
      /\ issuing' \in BOOLEAN /\ UNCHANGED overlapped /\ overlapped' \in BOOLEAN
  BY DEF CallOutline, Issue, ToolsTypeOK
<1>2. "RESULT" \in recalled
  BY DEF CallOutline, Chunks, ToolsInvariant, FirstRecall
<1>3. [doc |-> d] \in [doc : Docs]
  OBVIOUS
<1> QED  BY <1>1, <1>2, <1>3, BeginKeeps

LEMMA CallSectionKeeps ==
    ASSUME ToolsTypeOK, ToolsInvariant, NEW c \in Calls, CallSection(c), UNCHANGED shelf
    PROVE  ToolsTypeOK' /\ ToolsInvariant'
<1> DEFINE starts == {[doc |-> r[1], heading |-> r[2], next |-> 0, more |-> TRUE,
                       deep |-> TRUE, edition |-> 0, read |-> {}] : r \in refs}
<1>0. PICK from \in cursors \cup starts, deep \in BOOLEAN :
          Issue(c, "SECTION", "READ", [from EXCEPT !.deep = deep])
  BY DEF CallSection
<1>f. from \in Section /\ ReadFits(from)
  <2>1. CASE from \in cursors
    BY <2>1 DEF ToolsTypeOK, ToolsInvariant, CursorsFit
  <2>2. CASE from \in starts
    <3>1. PICK r \in refs : from = [doc |-> r[1], heading |-> r[2], next |-> 0,
                                    more |-> TRUE, deep |-> TRUE, edition |-> 0,
                                    read |-> {}]
      BY <2>2
    <3>2. r[1] \in Docs /\ r[2] \in Headings /\ shelf[r[1]].edition \in Nat
      BY DEF ToolsTypeOK
    <3>3. from \in Section
      BY <3>1, <3>2 DEF Section
    <3>4. from.doc = r[1] /\ from.next = 0 /\ from.edition = 0 /\ from.read = {}
      BY <3>1
    <3> QED
      BY <3>2, <3>3, <3>4 DEF ReadFits, Current
  <2> QED  BY <2>1, <2>2
<1>p. PICK place : place = [from EXCEPT !.deep = deep]
  OBVIOUS
<1>1. Issue(c, "SECTION", "READ", place)
  BY <1>0, <1>p
<1>2. place \in Section /\ ReadFits(place)
  <2>1. /\ place \in Section /\ place.doc = from.doc /\ place.heading = from.heading
        /\ place.next = from.next /\ place.edition = from.edition /\ place.read = from.read
    BY <1>f, <1>p DEF Section
  <2> QED
    BY <1>f, <2>1 DEF ReadFits, Current, Opening
<1>3. /\ Begin(c, "SECTION", "READ", place) /\ run = "OPEN"
      /\ UNCHANGED <<shelf, run, ledgerVars>> /\ UNCHANGED <<listed, told, recalled, finished>>
      /\ issuing' \in BOOLEAN /\ UNCHANGED overlapped /\ overlapped' \in BOOLEAN
  BY <1>1 DEF CallSection, Issue, ToolsTypeOK
<1>4. "RESULT" \in recalled
  BY <1>0 DEF ToolsInvariant, FirstRecall
<1> QED  BY <1>2, <1>3, <1>4, BeginKeeps

-----------------------------------------------------------------------------
(* Requests search, read and fetch *)

\* What a request has found may get less, and what is visible is of one
\* edition, one that was not there before the request began.
LEMMA HitsKept ==
    ASSUME ToolsTypeOK, NEW r \in Request, NEW q \in Request, HitsFit(r), q.low = r.low,
           q.hits \subseteq r.hits \/ q.hits \subseteq Visible
    PROVE  HitsFit(q)
<1>1. CASE q.hits \subseteq r.hits
  BY <1>1 DEF HitsFit
<1>2. CASE q.hits \subseteq Visible
  <2>1. \A x \in Visible : /\ x[1] \in Docs /\ x[2] = shelf[x[1]].edition
                           /\ Oldest(x[1]) = x[2]
    BY DEF Visible, Stored, Chunk, Oldest
  <2> QED
    BY <1>2, <2>1 DEF HitsFit
<1> QED  BY <1>1, <1>2

LEMMA SearchKeeps ==
    ASSUME ToolsTypeOK, ToolsInvariant, NEW c \in Calls, Search(c), UNCHANGED shelf
    PROVE  ToolsTypeOK' /\ ToolsInvariant'
<1>1. PICK found \in SUBSET Indexed :
          Step(c, [call[c] EXCEPT !.at = "GATE", !.found = found])
  BY DEF Search
<1>2. PICK r : r = [call[c] EXCEPT !.at = "GATE", !.found = found]
  OBVIOUS
<1>3. /\ call[c] \in Request /\ StageFits(call[c]) /\ HitsFit(call[c])
      /\ GivenFits(call[c]) /\ call[c].at = "SEARCH"
  BY CallFits DEF Search, At
<1>4. /\ r \in Request /\ r.kind = call[c].kind /\ r.heard = call[c].heard
      /\ r.at = "GATE" /\ r.low = call[c].low /\ r.hits = call[c].hits /\ r.given = call[c].given
      /\ r.chosen = call[c].chosen /\ r.place = call[c].place
  BY <1>2, <1>3 DEF Request, Indexed
<1>5. StageFits(r) /\ HitsFit(r) /\ GivenFits(r) /\ SectionFits(r)
  BY <1>3, <1>4, HitsKept DEF StageFits, GivenFits, SectionFits
<1> QED  BY <1>1, <1>2, <1>4, <1>5, StepKeeps

LEMMA GateKeeps ==
    ASSUME ToolsTypeOK, ToolsInvariant, NEW c \in Calls, Gate(c), UNCHANGED shelf
    PROVE  ToolsTypeOK' /\ ToolsInvariant'
<1>1. PICK hits \in SUBSET Visible :
          Step(c, [call[c] EXCEPT !.at = "FETCH", !.found = {}, !.hits = hits])
  BY DEF Gate, Best
<1>2. PICK r : r = [call[c] EXCEPT !.at = "FETCH", !.found = {}, !.hits = hits]
  OBVIOUS
<1>3. /\ call[c] \in Request /\ StageFits(call[c]) /\ HitsFit(call[c])
      /\ GivenFits(call[c]) /\ call[c].at = "GATE"
  BY CallFits DEF Gate, At
<1>4. /\ r \in Request /\ r.kind = call[c].kind /\ r.heard = call[c].heard
      /\ r.at = "FETCH" /\ r.low = call[c].low /\ r.hits = hits /\ r.given = call[c].given
      /\ r.chosen = call[c].chosen /\ r.place = call[c].place
  BY <1>2, <1>3 DEF Request, Visible
<1>5. r.given = {}
  BY <1>3, <1>4 DEF StageFits
<1>6. StageFits(r) /\ HitsFit(r) /\ GivenFits(r) /\ SectionFits(r)
  BY <1>3, <1>4, <1>5, HitsKept DEF StageFits, GivenFits, SectionFits, Chunks
<1> QED  BY <1>1, <1>2, <1>4, <1>6, StepKeeps

LEMMA RankKeeps ==
    ASSUME ToolsTypeOK, ToolsInvariant, NEW c \in Calls, Rank(c), UNCHANGED shelf
    PROVE  ToolsTypeOK' /\ ToolsInvariant'
<1>1. PICK hits \in SUBSET call[c].hits, block \in SUBSET call[c].hits :
          /\ block \subseteq hits
          /\ Step(c, [call[c] EXCEPT !.at = "REGISTER", !.hits = hits, !.chosen = block])
  BY DEF Rank, Best, Assemble
<1>2. PICK r : r = [call[c] EXCEPT !.at = "REGISTER", !.hits = hits, !.chosen = block]
  OBVIOUS
<1>3. /\ call[c] \in Request /\ StageFits(call[c]) /\ HitsFit(call[c])
      /\ GivenFits(call[c]) /\ call[c].at = "RANK"
  BY CallFits DEF Rank, At
<1>4. /\ r \in Request /\ r.kind = call[c].kind /\ r.heard = call[c].heard
      /\ r.at = "REGISTER" /\ r.low = call[c].low /\ r.hits = hits /\ r.given = call[c].given
      /\ r.chosen = block /\ r.place = call[c].place
  BY <1>2, <1>3 DEF Request
<1>5. r.given = {} /\ r.kind \in {"NONE", "RECALL"}
  BY <1>3, <1>4 DEF StageFits, Request
<1>6. StageFits(r) /\ HitsFit(r) /\ GivenFits(r) /\ SectionFits(r)
  BY <1>3, <1>4, <1>5, HitsKept DEF StageFits, GivenFits, SectionFits, Chunks
<1> QED  BY <1>1, <1>2, <1>4, <1>6, StepKeeps

LEMMA ReadNeighboursKeeps ==
    ASSUME ToolsTypeOK, ToolsInvariant, NEW c \in Calls, ReadNeighbours(c), UNCHANGED shelf
    PROVE  ToolsTypeOK' /\ ToolsInvariant'
<1>1. PICK hits \in SUBSET Visible :
          Step(c, [call[c] EXCEPT !.at = "FETCH", !.hits = hits])
  BY DEF ReadNeighbours
<1>2. PICK r : r = [call[c] EXCEPT !.at = "FETCH", !.hits = hits]
  OBVIOUS
<1>3. /\ call[c] \in Request /\ StageFits(call[c]) /\ HitsFit(call[c])
      /\ GivenFits(call[c]) /\ call[c].at = "READ" /\ call[c].kind = "EXPAND"
  BY CallFits DEF ReadNeighbours, At
<1>4. /\ r \in Request /\ r.kind = call[c].kind /\ r.heard = call[c].heard
      /\ r.at = "FETCH" /\ r.low = call[c].low /\ r.hits = hits /\ r.given = call[c].given
      /\ r.chosen = call[c].chosen /\ r.place = call[c].place
  BY <1>2, <1>3 DEF Request, Visible
<1>5. r.given = {}
  BY <1>3, <1>4 DEF StageFits
<1>6. StageFits(r) /\ HitsFit(r) /\ GivenFits(r) /\ SectionFits(r)
  BY <1>3, <1>4, <1>5, HitsKept DEF StageFits, GivenFits, SectionFits, Chunks
<1> QED  BY <1>1, <1>2, <1>4, <1>6, StepKeeps

LEMMA ReadOutlineKeeps ==
    ASSUME ToolsTypeOK, ToolsInvariant, NEW c \in Calls, ReadOutline(c), UNCHANGED shelf
    PROVE  ToolsTypeOK' /\ ToolsInvariant'
<1>1. /\ call[c] \in Request /\ StageFits(call[c]) /\ HitsFit(call[c])
      /\ GivenFits(call[c]) /\ call[c].at = "READ" /\ call[c].kind = "OUTLINE"
  BY CallFits DEF ReadOutline, At
<1>2. call[c].place.doc \in Docs
  BY <1>1 DEF StageFits
<1>3. PICK place \in [doc : Docs, headings : SUBSET Headings] :
          Step(c, [call[c] EXCEPT !.at = "REGISTER", !.place = place])
  BY <1>2 DEF ReadOutline
<1>4. PICK r : r = [call[c] EXCEPT !.at = "REGISTER", !.place = place]
  OBVIOUS
<1>5. /\ r \in Request /\ r.kind = call[c].kind /\ r.heard = call[c].heard
      /\ r.at = "REGISTER" /\ r.low = call[c].low /\ r.hits = call[c].hits
      /\ r.given = call[c].given /\ r.chosen = call[c].chosen /\ r.place = place
  BY <1>1, <1>4 DEF Request, Place
<1>6. r.given = {}
  BY <1>1, <1>5 DEF StageFits
<1>7. StageFits(r) /\ HitsFit(r) /\ GivenFits(r) /\ SectionFits(r)
  BY <1>1, <1>5, <1>6, HitsKept DEF StageFits, GivenFits, SectionFits, Chunks
<1> QED  BY <1>3, <1>4, <1>5, <1>7, StepKeeps

\* The page at s, and the cursor after it, in the edition e.
NextPage(s, e) ==
    LET size == Cardinality(All(Listing(e, s.heading, s.deep)))
        next == IF s.next < size THEN Smaller(s.next + PageSize, size) ELSE s.next
    IN  [s EXCEPT !.next = next, !.more = next < size,
                  !.edition = IF s.next = 0 \/ @ = e THEN e ELSE 0]

PageOf(s, e) ==
    LET l == Listing(e, s.heading, s.deep)
    IN  ChunksAt(s.doc, e, First(l, s.next + PageSize) \ First(l, s.next))

LEMMA PageRead ==
    ASSUME ToolsTypeOK, ShelfFits, NEW s \in Section, ReadFits(s),
           shelf[s.doc].status = "READY"
    PROVE  LET e == shelf[s.doc].edition
               u == NextPage(s, e)
           IN  u \in Section /\ u.doc = s.doc /\ PageFits(u, PageOf(s, e))
<1>1. PICK d \in Docs, h \in Headings, n \in Nat, e \in Nat, deep \in BOOLEAN :
          /\ d = s.doc /\ h = s.heading /\ n = s.next /\ e = shelf[s.doc].edition
          /\ deep = s.deep
  BY DEF Section, ToolsTypeOK
<1>s. e \in Editions /\ e # 0
  BY <1>1, OutlineAssumption DEF ShelfFits, Editions
<1>2. PICK l \in Seq(DOMAIN Words), whole \in Seq(DOMAIN Words) :
          l = Listing(e, h, deep) /\ whole = Listing(e, h, TRUE) /\ Begins(l, whole)
  BY <1>s, ListingType
<1>3. PICK size : size = Cardinality(All(l))
  OBVIOUS
<1>4. PICK next : next = IF n < size THEN Smaller(n + PageSize, size) ELSE n
  OBVIOUS
<1>5. /\ e \in Editions /\ e # 0 /\ PageSize \in Nat \ {0}
      /\ n + PageSize \in Nat /\ n <= n + PageSize
  BY <1>s, ToolsAssumption
<1>6. /\ size \in Nat /\ First(l, n) \subseteq First(l, n + PageSize)
      /\ First(l, n) \subseteq First(whole, n) /\ First(l, n + PageSize) \subseteq All(l)
      /\ n >= size => First(l, n) = All(l)
      /\ n + PageSize >= size => First(l, n + PageSize) = All(l)
      /\ n <= size => First(l, n) = First(whole, n)
      /\ n + PageSize <= size => First(l, n + PageSize) = First(whole, n + PageSize)
  <2>1. PICK m \in Nat : m = n + PageSize /\ n <= m
    BY <1>5
  <2>2. size \in Nat
    BY <1>3, NamedGrows
  <2>3. /\ First(l, n) \subseteq First(l, m)
        /\ n >= size => First(l, n) = All(l)
    BY <1>3, <2>1, FirstGrows
  <2>4. First(l, m) \subseteq All(l) /\ (m >= size => First(l, m) = All(l))
    BY <1>3, FirstGrows
  <2>5. /\ First(l, n) \subseteq First(whole, n)
        /\ n <= size => First(l, n) = First(whole, n)
    BY <1>2, <1>3, OwnFirst
  <2>6. m <= size => First(l, m) = First(whole, m)
    BY <1>2, <1>3, OwnFirst
  <2> QED  BY <2>1, <2>2, <2>3, <2>4, <2>5, <2>6
<1>7. /\ First(whole, 0) = {} /\ First(whole, n) \subseteq All(whole)
      /\ First(whole, n) \subseteq First(whole, n + PageSize)
  BY <1>5, FirstGrows
<1>8. All(l) \subseteq All(whole)
  BY <1>2, OwnFirst
<1>9. /\ next \in Nat
      /\ next < size => next # 0 /\ n < size /\ next = n + PageSize
  BY <1>4, <1>5, <1>6 DEF Smaller
<1>10. PICK u, page : u = NextPage(s, e) /\ page = PageOf(s, e)
  OBVIOUS
<1>11. /\ u = [s EXCEPT !.next = next, !.more = (next < size),
                        !.edition = IF s.next = 0 \/ @ = e THEN e ELSE 0]
       /\ page = ChunksAt(d, e, First(l, n + PageSize) \ First(l, n))
  BY <1>1, <1>2, <1>3, <1>4, <1>10 DEF NextPage, PageOf
<1>12. /\ u \in Section /\ u.doc = d /\ u.heading = h /\ u.next = next /\ u.read = s.read
       /\ u.deep = deep /\ u.more = (next < size)
       /\ u.edition = IF n = 0 \/ s.edition = e THEN e ELSE 0
  <2>1. (next < size) \in BOOLEAN
    OBVIOUS
  <2> QED  BY <1>1, <1>9, <1>11, <2>1 DEF Section
<1>13. u.edition <= shelf[u.doc].edition /\ shelf[u.doc].edition # 0
  BY <1>1, <1>5, <1>12
<1>14. u.more => u.next # 0
  <2>1. u.more => next < size
    BY <1>12, Zenon
  <2> QED  BY <1>9, <1>12, <2>1
<1>15. ASSUME Current(u)
       PROVE  /\ u.edition \in Editions
              /\ u.more => u.read \cup page = Opening(u, u.next)
              /\ ~u.more => WholeRead(u, u.read \cup page)
  <2>1. u.edition = e
    BY <1>1, <1>12, <1>15 DEF Current
  <2>2. u.read = ChunksAt(d, e, First(whole, n))
    <3>1. CASE n = 0
      BY <1>1, <1>7, <1>12, <3>1 DEF ReadFits, ChunksAt
    <3>2. CASE n # 0
      <4>1. s.edition = e
        BY <1>5, <1>12, <2>1, <3>2
      <4>2. Current(s)
        BY <1>1, <1>5, <4>1 DEF Current
      <4> QED
        BY <1>1, <1>2, <1>12, <4>1, <4>2 DEF ReadFits, Opening
    <3> QED  BY <3>1, <3>2
  <2>3. PICK all : all = First(whole, n) \cup (First(l, n + PageSize) \ First(l, n))
    OBVIOUS
  <2>4. u.read \cup page = ChunksAt(d, e, all)
    BY <1>11, <2>2, <2>3 DEF ChunksAt
  <2>5. ASSUME u.more
        PROVE  u.read \cup page = Opening(u, u.next)
    <3>1. next < size
      BY <1>12, <2>5, Zenon
    <3>2. n <= size /\ n + PageSize <= size /\ next = n + PageSize
      BY <1>5, <1>6, <1>9, <3>1
    <3>3. all = First(whole, next)
      BY <1>6, <1>7, <2>3, <3>2
    <3> QED
      BY <1>2, <1>12, <2>1, <2>4, <3>3 DEF Opening
  <2>6. ASSUME ~u.more
        PROVE  WholeRead(u, u.read \cup page)
    <3>1. ~(next < size)
      BY <1>12, <2>6, Zenon
    <3>2. n >= size \/ n + PageSize >= size
      BY <1>4, <1>5, <1>6, <3>1 DEF Smaller
    <3>3. All(l) \subseteq all
      BY <1>6, <2>3, <3>2
    <3>4. all \subseteq All(whole)
      BY <1>6, <1>7, <1>8, <2>3
    <3>5. /\ SectionOf(u.doc, u.edition, u.heading, u.deep) = ChunksAt(d, e, All(l))
          /\ SectionOf(u.doc, u.edition, u.heading, TRUE) = ChunksAt(d, e, All(whole))
      BY <1>2, <1>12, <2>1 DEF SectionOf
    <3>6. /\ ChunksAt(d, e, All(l)) \subseteq ChunksAt(d, e, all)
          /\ ChunksAt(d, e, all) \subseteq ChunksAt(d, e, All(whole))
      BY <3>3, <3>4 DEF ChunksAt
    <3> QED
      BY <2>4, <3>5, <3>6 DEF WholeRead
  <2> QED
    BY <1>5, <2>1, <2>5, <2>6
<1>16. PageFits(u, page)
  BY <1>13, <1>14, <1>15 DEF PageFits
<1> QED
  BY <1>1, <1>10, <1>12, <1>16

LEMMA ReadSectionKeeps ==
    ASSUME ToolsTypeOK, ToolsInvariant, NEW c \in Calls, ReadSection(c), UNCHANGED shelf
    PROVE  ToolsTypeOK' /\ ToolsInvariant'
<1>1. /\ call[c] \in Request /\ StageFits(call[c]) /\ HitsFit(call[c])
      /\ GivenFits(call[c]) /\ SectionFits(call[c])
      /\ call[c].at = "READ" /\ call[c].kind = "SECTION"
  BY CallFits DEF ReadSection, At
<1>2. PICK s \in Section : s = call[c].place
  BY <1>1 DEF StageFits
<1>3. PICK e \in Nat : e = shelf[s.doc].edition
  BY DEF ToolsTypeOK, Section
<1>4. PICK u, page : u = NextPage(s, e) /\ page = PageOf(s, e)
  OBVIOUS
<1>5. /\ shelf[s.doc].status = "READY"
      /\ Step(c, [call[c] EXCEPT !.at = "FETCH", !.hits = page, !.place = u])
  BY <1>2, <1>3, <1>4 DEF ReadSection, NextPage, PageOf
<1>6. u \in Section /\ u.doc = s.doc /\ PageFits(u, page)
  BY <1>1, <1>2, <1>3, <1>4, <1>5, PageRead DEF ToolsInvariant, SectionFits
<1>7. page \subseteq Visible
  <2>1. e \in Editions /\ s.doc \in Docs /\ s.heading \in Headings /\ s.deep \in BOOLEAN
    BY <1>3, <1>5 DEF ToolsInvariant, ShelfFits, Section
  <2>2. PICK deep \in BOOLEAN, h \in Headings, m \in Nat, n \in Nat :
            deep = s.deep /\ h = s.heading /\ n = s.next /\ m = n + PageSize
    BY <2>1, ToolsAssumption DEF Section
  <2>3. PICK l \in Seq(DOMAIN Words), whole \in Seq(DOMAIN Words) :
            l = Listing(e, h, deep) /\ whole = Listing(e, h, TRUE) /\ Begins(l, whole)
    BY <2>1, ListingType
  <2>4. First(l, m) \subseteq All(l) /\ All(l) \subseteq All(whole)
    BY <2>3, FirstGrows, OwnFirst
  <2>5. page = ChunksAt(s.doc, e, First(l, m) \ First(l, n))
    BY <1>4, <2>2, <2>3 DEF PageOf
  <2>6. page \subseteq SectionOf(s.doc, e, h, TRUE)
    BY <2>3, <2>4, <2>5 DEF SectionOf, ChunksAt
  <2>7. page \subseteq Chunk
    BY <2>1, <2>6, SectionInChunk
  <2>8. ASSUME NEW x \in page
        PROVE  x[1] = s.doc /\ x[2] = e
    BY <2>5, ChunksFields
  <2> QED
    BY <1>3, <1>5, <2>7, <2>8 DEF Visible, Stored
<1>8. PICK r : r = [call[c] EXCEPT !.at = "FETCH", !.hits = page, !.place = u]
  OBVIOUS
<1>9. /\ r \in Request /\ r.kind = "SECTION" /\ r.heard = call[c].heard
      /\ r.at = "FETCH" /\ r.low = call[c].low /\ r.hits = page
      /\ r.given = call[c].given /\ r.chosen = call[c].chosen /\ r.place = u
  BY <1>1, <1>6, <1>7, <1>8 DEF Request, Place, Visible
<1>10. r.given = {}
  BY <1>1, <1>9 DEF StageFits
<1>11. HitsFit(r)
  BY <1>1, <1>7, <1>9, HitsKept
<1>12. StageFits(r) /\ GivenFits(r) /\ SectionFits(r)
  BY <1>6, <1>9, <1>10 DEF StageFits, GivenFits, SectionFits, Chunks
<1> QED  BY <1>1, <1>5, <1>8, <1>9, <1>11, <1>12, StepKeeps

\* What fetching leaves of a page that is still current is all of it.
LEMMA PageStays ==
    ASSUME ToolsTypeOK, NEW s \in Section, NEW page \in SUBSET Chunk, PageFits(s, page)
    PROVE  PageFits(s, {x \in page : Stored(x)})
<1> DEFINE rest == {x \in page : Stored(x)}
<1>1. ASSUME Current(s)
      PROVE  rest = page
  <2>1. s.edition \in Editions /\ s.doc \in Docs /\ s.heading \in Headings /\ s.next \in Nat
    BY <1>1 DEF PageFits, Section
  <2>2. page \subseteq SectionOf(s.doc, s.edition, s.heading, TRUE)
    <3>1. CASE s.more
      <4>1. page \subseteq Opening(s, s.next)
        BY <1>1, <3>1 DEF PageFits
      <4>2. PICK whole \in Seq(DOMAIN Words) : whole = Listing(s.edition, s.heading, TRUE)
        BY <2>1, ListingType
      <4>3. First(whole, s.next) \subseteq All(whole)
        BY <2>1, FirstGrows
      <4> QED
        BY <4>1, <4>2, <4>3 DEF Opening, SectionOf, ChunksAt
    <3>2. CASE ~s.more
      BY <1>1, <3>2 DEF PageFits, WholeRead
    <3> QED  BY <3>1, <3>2
  <2>3. ASSUME NEW x \in page
        PROVE  x[1] = s.doc /\ x[2] = s.edition
    <3>1. x \in SectionOf(s.doc, s.edition, s.heading, TRUE)
      BY <2>2
    <3> QED  BY <3>1, ChunksFields DEF SectionOf
  <2> QED
    BY <1>1, <2>3 DEF Stored, Current
<1> HIDE DEF rest
<1>2. PageFits(s, rest)
  BY <1>1 DEF PageFits
<1> QED
  BY <1>2 DEF rest

LEMMA FetchFits ==
    ASSUME ToolsTypeOK, ToolsInvariant, NEW c \in Calls, NEW r \in Request,
           call[c].at = "FETCH", r.kind = call[c].kind, r.heard = call[c].heard,
           r.low = call[c].low, r.given = call[c].given, r.place = call[c].place,
           r.hits = {x \in call[c].hits : Stored(x)},
           \/ r.kind = "ASK" /\ r.at = "ANSWER"
           \/ r.kind = "RECALL" /\ r.at = "RANK"
           \/ r.kind \in {"EXPAND", "SECTION"} /\ r.at = "REGISTER" /\ r.chosen = r.hits
    PROVE  StageFits(r) /\ HitsFit(r) /\ GivenFits(r) /\ SectionFits(r)
<1>1. /\ call[c] \in Request /\ StageFits(call[c]) /\ HitsFit(call[c])
      /\ SectionFits(call[c])
  BY CallFits
<1>2. r.given = {}
  BY <1>1 DEF StageFits
<1>3. StageFits(r) /\ GivenFits(r)
  BY <1>1, <1>2 DEF StageFits, GivenFits, Chunks
<1>4. HitsFit(r)
  BY <1>1, HitsKept
<1>5. SectionFits(r)
  <2>1. CASE r.kind = "SECTION"
    <3>1. r.place \in Section /\ PageFits(r.place, call[c].hits) /\ call[c].hits \in SUBSET Chunk
      BY <1>1, <2>1 DEF StageFits, SectionFits, Request
    <3>2. PageFits(r.place, r.hits)
      BY <3>1, PageStays
    <3> QED
      BY <2>1, <3>2 DEF SectionFits
  <2>2. CASE r.kind # "SECTION"
    BY <2>2 DEF SectionFits
  <2> QED  BY <2>1, <2>2
<1> QED
  BY <1>3, <1>4, <1>5

LEMMA FetchKeeps ==
    ASSUME ToolsTypeOK, ToolsInvariant, NEW c \in Calls, Fetch(c), UNCHANGED shelf
    PROVE  ToolsTypeOK' /\ ToolsInvariant'
<1>1. call[c] \in Request /\ call[c].at = "FETCH"
  BY CallFits DEF Fetch, At
<1>2. PICK hits \in SUBSET Chunk : hits = {x \in call[c].hits : Stored(x)}
  BY <1>1 DEF Request
<1>3. CASE call[c].kind = "ASK"
  <2>1. PICK block \in SUBSET hits :
            Step(c, [call[c] EXCEPT !.at = "ANSWER", !.hits = hits, !.chosen = block])
    BY <1>2, <1>3 DEF Fetch, Assemble
  <2>2. PICK r : r = [call[c] EXCEPT !.at = "ANSWER", !.hits = hits, !.chosen = block]
    OBVIOUS
  <2>3. /\ r \in Request /\ r.kind = call[c].kind /\ r.heard = call[c].heard
        /\ r.at = "ANSWER" /\ r.low = call[c].low /\ r.hits = hits /\ r.given = call[c].given
        /\ r.place = call[c].place
    BY <1>1, <2>2 DEF Request
  <2>4. StageFits(r) /\ HitsFit(r) /\ GivenFits(r) /\ SectionFits(r)
    BY <1>1, <1>2, <1>3, <2>3, FetchFits
  <2> QED  BY <2>1, <2>2, <2>3, <2>4, StepKeeps
<1>4. CASE call[c].kind = "RECALL"
  <2>1. Step(c, [call[c] EXCEPT !.at = "RANK", !.hits = hits])
    BY <1>2, <1>4 DEF Fetch
  <2>2. PICK r : r = [call[c] EXCEPT !.at = "RANK", !.hits = hits]
    OBVIOUS
  <2>3. /\ r \in Request /\ r.kind = call[c].kind /\ r.heard = call[c].heard
        /\ r.at = "RANK" /\ r.low = call[c].low /\ r.hits = hits /\ r.given = call[c].given
        /\ r.place = call[c].place
    BY <1>1, <2>2 DEF Request
  <2>4. StageFits(r) /\ HitsFit(r) /\ GivenFits(r) /\ SectionFits(r)
    BY <1>1, <1>2, <1>4, <2>3, FetchFits
  <2> QED  BY <2>1, <2>2, <2>3, <2>4, StepKeeps
<1>5. CASE call[c].kind \in {"EXPAND", "SECTION"}
  <2>1. Step(c, [call[c] EXCEPT !.at = "REGISTER", !.hits = hits, !.chosen = hits])
    BY <1>2, <1>5 DEF Fetch
  <2>2. PICK r : r = [call[c] EXCEPT !.at = "REGISTER", !.hits = hits, !.chosen = hits]
    OBVIOUS
  <2>3. /\ r \in Request /\ r.kind = call[c].kind /\ r.heard = call[c].heard
        /\ r.at = "REGISTER" /\ r.low = call[c].low /\ r.hits = hits /\ r.chosen = hits
        /\ r.given = call[c].given /\ r.place = call[c].place
    BY <1>1, <2>2 DEF Request
  <2>4. StageFits(r) /\ HitsFit(r) /\ GivenFits(r) /\ SectionFits(r)
    BY <1>1, <1>2, <1>5, <2>3, FetchFits
  <2> QED  BY <2>1, <2>2, <2>3, <2>4, StepKeeps
<1> QED
  BY <1>3, <1>4, <1>5 DEF Fetch

-----------------------------------------------------------------------------
(* Requests fail, are given up, or end unheard *)

LEMMA EndsKeeps ==
    ASSUME ToolsTypeOK, ToolsInvariant, NEW c \in Calls, Ends(c), UNCHANGED shelf
    PROVE  ToolsTypeOK' /\ ToolsInvariant'
<1>1. /\ call' = [call EXCEPT ![c] = Idle] /\ RunKept
      /\ UNCHANGED <<issuing, recalled, overlapped, calls>>
  BY DEF Ends, Step, ledgerVars, piVars, RunKept
<1>2. PICK r : r = Idle
  OBVIOUS
<1>3. /\ r \in Request /\ r.kind = "NONE" /\ call' = [call EXCEPT ![c] = r]
      /\ StageFits(r) /\ HitsFit(r) /\ GivenFits(r) /\ SectionFits(r)
  BY <1>1, <1>2, IdleFits DEF Idle
<1>4. FirstRecall'
  BY <1>1, <1>3, FirstKept DEF RunKept, ToolsInvariant
<1>5. /\ issuing' \in BOOLEAN /\ calls' \in Nat /\ recalled' \subseteq {"RESULT", "FAILURE"}
      /\ overlapped' \in BOOLEAN /\ (overlapped => overlapped')
  BY <1>1 DEF ToolsTypeOK
<1> QED
  BY <1>1, <1>3, <1>4, <1>5, CallKeeps

LEMMA FailureChanges ==
    ASSUME ToolsTypeOK, NEW c \in Calls, FailureHeard(c)
    PROVE  /\ issuing' \in BOOLEAN /\ recalled' \subseteq {"RESULT", "FAILURE"}
           /\ "RESULT" \in recalled' <=> "RESULT" \in recalled
           /\ UNCHANGED <<run, ledger, numbers, refs, cursors, listed, told, overlapped, finished>>
  BY DEF FailureHeard, ledgerVars, ToolsTypeOK

LEMMA FailsKeeps ==
    ASSUME ToolsTypeOK, ToolsInvariant, NEW c \in Calls, Fails(c), UNCHANGED shelf
    PROVE  ToolsTypeOK' /\ ToolsInvariant'
<1>1. call' = [call EXCEPT ![c] = Idle] /\ RunKept /\ calls' \in Nat
  BY FailureChanges DEF Fails, RunKept, ToolsTypeOK
<1>2. PICK r : r = Idle
  OBVIOUS
<1>3. /\ r \in Request /\ r.kind = "NONE" /\ call' = [call EXCEPT ![c] = r]
      /\ StageFits(r) /\ HitsFit(r) /\ GivenFits(r) /\ SectionFits(r)
  BY <1>1, <1>2, IdleFits DEF Idle
<1>4. FirstRecall'
  BY <1>3, FailureChanges, FirstKept DEF Fails, ToolsInvariant
<1>5. /\ issuing' \in BOOLEAN /\ recalled' \subseteq {"RESULT", "FAILURE"}
      /\ overlapped' \in BOOLEAN /\ (overlapped => overlapped')
  BY FailureChanges DEF Fails, ToolsTypeOK
<1> QED
  BY <1>1, <1>3, <1>4, <1>5, CallKeeps

LEMMA TimesOutKeeps ==
    ASSUME ToolsTypeOK, ToolsInvariant, NEW c \in Calls, TimesOut(c), UNCHANGED shelf
    PROVE  ToolsTypeOK' /\ ToolsInvariant'
<1>1. call' = [call EXCEPT ![c].heard = FALSE] /\ RunKept /\ calls' \in Nat
  BY FailureChanges DEF TimesOut, RunKept, ToolsTypeOK
<1>2. PICK r : r = [call[c] EXCEPT !.heard = FALSE]
  OBVIOUS
<1>3. /\ call[c] \in Request /\ StageFits(call[c]) /\ HitsFit(call[c])
      /\ GivenFits(call[c]) /\ SectionFits(call[c])
  BY CallFits
<1>4. /\ r \in Request /\ r.kind = call[c].kind /\ r.heard = FALSE /\ r.at = call[c].at
      /\ r.low = call[c].low /\ r.hits = call[c].hits /\ r.chosen = call[c].chosen
      /\ r.given = call[c].given /\ r.place = call[c].place
      /\ call' = [call EXCEPT ![c] = r]
  BY <1>1, <1>2, <1>3 DEF Request, ToolsTypeOK
<1>5. StageFits(r) /\ HitsFit(r) /\ GivenFits(r) /\ SectionFits(r)
  BY <1>3, <1>4 DEF StageFits, HitsFit, GivenFits, SectionFits
<1>6. FirstRecall'
  BY <1>4, FailureChanges, FirstKept DEF TimesOut, ToolsInvariant
<1>7. /\ issuing' \in BOOLEAN /\ recalled' \subseteq {"RESULT", "FAILURE"}
      /\ overlapped' \in BOOLEAN /\ (overlapped => overlapped')
  BY FailureChanges DEF TimesOut, ToolsTypeOK
<1> QED
  BY <1>1, <1>4, <1>5, <1>6, <1>7, CallKeeps

-----------------------------------------------------------------------------
(* Evidence is registered *)

\* The number of a passage is that of the ledger.
LEMMA CitationFits ==
    ASSUME ToolsTypeOK, LedgerFits, NEW x \in Chunk
    PROVE  /\ Citation(x) \in Nat
           /\ Citation(x) # 0 => <<x, Citation(x)>> \in ledger
           /\ \A p \in ledger : p[1] = x => p[2] = Citation(x)
<1>1. \A p \in ledger : p[2] \in Nat /\ p = <<p[1], p[2]>> /\ p[2] <= numbers /\ numbers \in Nat
  BY DEF ToolsTypeOK, Pairs, LedgerFits
<1>2. CASE \E k \in 1..numbers : <<x, k>> \in ledger
  <2>1. Citation(x) \in 1..numbers /\ <<x, Citation(x)>> \in ledger
    BY <1>2 DEF Citation
  <2>2. \A p \in ledger : p[1] = x => p = <<x, Citation(x)>>
    BY <2>1 DEF LedgerFits
  <2> QED
    BY <2>1, <2>2 DEF ToolsTypeOK
<1>3. CASE ~\E k \in 1..numbers : <<x, k>> \in ledger
  <2>1. Citation(x) = 0
    BY <1>3 DEF Citation
  <2>2. ASSUME NEW p \in ledger, p[1] = x, p[2] # 0
        PROVE  FALSE
    <3>1. p[2] \in 1..numbers /\ <<x, p[2]>> \in ledger
      BY <1>1, <2>2
    <3> QED  BY <1>3, <3>1
  <2> QED  BY <2>1, <2>2
<1> QED  BY <1>2, <1>3

\* A registration keeps every number that was given.
LEMMA LedgerGrows ==
    ASSUME ToolsTypeOK, LedgerFits, NEW x \in Chunk, NEW chosen \in BOOLEAN, NEW n,
           n = Number(x, chosen),
           ledger' = {p \in ledger : p[1] # x} \cup {<<x, n>>},
           numbers' = IF n > numbers THEN n ELSE numbers
    PROVE  /\ n \in Nat /\ (chosen => n # 0)
           /\ \A p \in ledger : p[2] # 0 => p \in ledger'
           /\ LedgerFits' /\ ledger' \subseteq Pairs /\ numbers' \in Nat
<1>1. /\ Citation(x) \in Nat /\ numbers \in Nat
      /\ Citation(x) # 0 => <<x, Citation(x)>> \in ledger
      /\ \A p \in ledger : p[1] = x => p[2] = Citation(x)
  BY CitationFits DEF ToolsTypeOK
<1>2. \A p \in ledger : p[1] \in Chunk /\ p[2] \in Nat /\ p = <<p[1], p[2]>>
                        /\ p[2] <= numbers
  BY DEF ToolsTypeOK, Pairs, LedgerFits
<1>3. /\ n \in Nat /\ (chosen => n # 0)
      /\ n = Citation(x) \/ (n = numbers + 1 /\ Citation(x) = 0)
  BY <1>1 DEF Number
<1>4. \A p \in ledger : p[2] # 0 => p \in ledger'
  BY <1>1, <1>2, <1>3
<1>5. ledger' \subseteq Pairs /\ numbers' \in Nat /\ n <= numbers' /\ numbers <= numbers'
  BY <1>1, <1>2, <1>3 DEF Pairs
<1>6. \A p \in ledger : p[1] # x /\ n # 0 => p[2] # n
  <2>1. CASE n = Citation(x)
    <3> SUFFICES ASSUME NEW p \in ledger, p[1] # x, n # 0, p[2] = n
                 PROVE  FALSE
      OBVIOUS
    <3>1. <<x, n>> \in ledger /\ <<x, n>>[2] = n /\ <<x, n>>[1] = x
      BY <1>1, <2>1
    <3> QED
      BY <3>1 DEF LedgerFits
  <2>2. CASE n = numbers + 1
    BY <1>1, <1>2, <2>2
  <2> QED  BY <1>3, <2>1, <2>2
<1>7. LedgerFits'
  <2>1. \A p \in ledger' : p = <<x, n>> \/ (p \in ledger /\ p[1] # x)
    OBVIOUS
  <2>2. \A p, q \in ledger' : p[1] = q[1] => p = q
    BY <2>1 DEF LedgerFits
  <2>3. \A p, q \in ledger' : p[2] # 0 /\ p[2] = q[2] => p = q
    BY <1>6, <2>1 DEF LedgerFits
  <2>4. \A p \in ledger' : p[2] <= numbers'
    BY <1>1, <1>2, <1>3, <1>5, <2>1
  <2> QED  BY <2>2, <2>3, <2>4 DEF LedgerFits
<1> QED
  BY <1>3, <1>4, <1>5, <1>7

LEMMA RegisterKeeps ==
    ASSUME ToolsTypeOK, ToolsInvariant, NEW c \in Calls, Register(c), UNCHANGED shelf
    PROVE  ToolsTypeOK' /\ ToolsInvariant'
<1>1. /\ call[c] \in Request /\ StageFits(call[c]) /\ HitsFit(call[c])
      /\ GivenFits(call[c]) /\ SectionFits(call[c])
      /\ call[c].at = "REGISTER" /\ run = "OPEN"
  BY CallFits DEF Register, At
<1>x. PICK x \in call[c].hits \ Chunks(call[c].given) :
          /\ ledger' = {p \in ledger : p[1] # x} \cup {<<x, Number(x, x \in call[c].chosen)>>}
          /\ numbers' = IF Number(x, x \in call[c].chosen) > numbers
                        THEN Number(x, x \in call[c].chosen) ELSE numbers
          /\ call' = [call EXCEPT ![c].given =
                        @ \cup {<<x, Number(x, x \in call[c].chosen)>>}]
  BY DEF Register
<1>n. PICK n : n = Number(x, x \in call[c].chosen)
  OBVIOUS
<1>2. /\ ledger' = {p \in ledger : p[1] # x} \cup {<<x, n>>}
      /\ numbers' = IF n > numbers THEN n ELSE numbers
      /\ call' = [call EXCEPT ![c].given = @ \cup {<<x, n>>}]
  BY <1>x, <1>n
<1>3. UNCHANGED <<shelf, run, refs, cursors, issuing, recalled, listed, told, overlapped,
                  finished, calls>>
  BY DEF Register, piVars
<1>4. x \in Chunk /\ LedgerFits
  BY <1>1 DEF Request, ToolsInvariant
<1>5. /\ n \in Nat /\ (x \in call[c].chosen => n # 0)
      /\ \A p \in ledger : p[2] # 0 => p \in ledger'
      /\ LedgerFits' /\ ledger' \subseteq Pairs /\ numbers' \in Nat
  <2>1. CASE x \in call[c].chosen
    <3>1. n = Number(x, TRUE)
      BY <1>n, <2>1 DEF Number
    <3> QED
      BY <1>2, <1>4, <3>1, LedgerGrows
  <2>2. CASE x \notin call[c].chosen
    <3>1. n = Number(x, FALSE)
      BY <1>n, <2>2 DEF Number
    <3> QED
      BY <1>2, <1>4, <2>2, <3>1, LedgerGrows
  <2> QED  BY <2>1, <2>2
<1>6. PICK given : given = call[c].given \cup {<<x, n>>}
  OBVIOUS
<1>7. PICK r : r = [call[c] EXCEPT !.given = given]
  OBVIOUS
<1>8. /\ r \in Request /\ r.kind = call[c].kind /\ r.heard = call[c].heard
      /\ r.at = "REGISTER" /\ r.low = call[c].low /\ r.hits = call[c].hits
      /\ r.chosen = call[c].chosen /\ r.given = given /\ r.place = call[c].place
  <2>1. given \in SUBSET Pairs
    BY <1>1, <1>4, <1>5, <1>6 DEF Request, Pairs
  <2> QED
    BY <1>1, <1>7, <2>1 DEF Request
<1>9. call' = [call EXCEPT ![c] = r]
  BY <1>2, <1>6, <1>7 DEF ToolsTypeOK
<1>10. /\ call'[c] = r /\ \A b \in Calls \ {c} : call'[b] = call[b]
       /\ call' \in [Calls -> Request]
  BY <1>8, <1>9 DEF ToolsTypeOK
<1>11. ToolsTypeOK'
  BY <1>3, <1>5, <1>10 DEF ToolsTypeOK
<1>12. ShelfFits' /\ SectionReadWhole' /\ CursorsFit'
  BY <1>3 DEF ToolsInvariant, ShelfFits, SectionReadWhole, CursorsFit, ReadFits, Current
<1>13. FirstRecall'
  <2>1. \A b \in Calls : call'[b].kind = call[b].kind /\ call'[b].heard = call[b].heard
    BY <1>8, <1>10
  <2> QED
    BY <1>1, <1>3, <2>1 DEF ToolsInvariant, FirstRecall
<1>14. ToldFits'
  BY <1>1, <1>3, <1>5 DEF ToolsInvariant, ToldFits, CitationsResolve
<1>15. ASSUME NEW b \in Calls
       PROVE  StageFits(call[b])' /\ HitsFit(call[b])'
  <2>1. PICK q : q = call'[b]
    OBVIOUS
  <2>2. StageFits(q) /\ HitsFit(q)
    <3>1. CASE b = c
      BY <1>1, <1>8, <1>10, <2>1, <3>1 DEF StageFits, HitsFit
    <3>2. CASE b # c
      BY <1>10, <2>1, <3>2 DEF ToolsInvariant
    <3> QED  BY <3>1, <3>2
  <2>3. StageFits(call[b])'
    BY <2>1, <2>2 DEF StageFits
  <2>4. HitsFit(call[b])'
    BY <1>3, <2>1, <2>2 DEF HitsFit, Oldest
  <2> QED  BY <2>3, <2>4
<1>16. ASSUME NEW b \in Calls
       PROVE  SectionFits(call[b])'
  <2>1. /\ call'[b].kind = call[b].kind /\ call'[b].at = call[b].at
        /\ call'[b].place = call[b].place /\ call'[b].hits = call[b].hits
    BY <1>1, <1>8, <1>10
  <2>2. SectionFits(call[b])
    BY DEF ToolsInvariant
  <2> QED
    BY <1>3, <2>1, <2>2 DEF SectionFits, ReadFits, PageFits, Current, Opening, WholeRead
<1>17. ASSUME NEW b \in Calls
       PROVE  GivenFits(call[b])'
  <2>1. CASE b = c
    <3>1. \A p \in given : p \in call[c].given \/ p = <<x, n>>
      BY <1>6
    <3>2. \A p \in call[c].given : p[1] # x
      BY <1>2 DEF Chunks
    <3>3. \A p, q \in given : p[1] = q[1] => p = q
      BY <1>1, <3>1, <3>2 DEF GivenFits
    <3>4. Chunks(given) \subseteq call[c].hits
      BY <1>1, <1>2, <3>1 DEF GivenFits, Chunks
    <3>5. \A p \in given : p[1] \in call[c].chosen => p[2] # 0
      BY <1>1, <1>5, <3>1 DEF GivenFits
    <3>6. \A p \in given : p[2] # 0 => p \in ledger'
      BY <1>1, <1>2, <1>5, <3>1 DEF GivenFits
    <3> QED
      BY <1>8, <1>10, <2>1, <3>3, <3>4, <3>5, <3>6 DEF GivenFits, Chunks
  <2>2. CASE b # c
    <3>1. call'[b] = call[b] /\ GivenFits(call[b])
      BY <1>10, <2>2 DEF ToolsInvariant
    <3> QED
      BY <1>1, <1>5, <3>1 DEF GivenFits, Chunks
  <2> QED  BY <2>1, <2>2
<1> QED
  BY <1>5, <1>11, <1>12, <1>13, <1>14, <1>15, <1>16, <1>17 DEF ToolsInvariant

-----------------------------------------------------------------------------
(* A response is delivered *)

\* What the model is told is listed, and has numbers that are its own.
LEMMA ToldMerged ==
    ASSUME ToolsTypeOK, ToolsInvariant, NEW c \in Calls, Deliver(c)
    PROVE  ToldFits'
<1>1. /\ call[c] \in Request /\ StageFits(call[c]) /\ GivenFits(call[c])
      /\ call[c].at = "REGISTER" /\ call[c].hits = Chunks(call[c].given)
      /\ call[c].heard /\ run = "OPEN" /\ run' = run /\ ledger' = ledger
      /\ overlapped' = overlapped
  BY CallFits DEF Deliver, Complete, At
<1>2. /\ LedgerFits /\ FirstRecall /\ ToldFits
      /\ \A p \in told : p \in ledger
  BY <1>1 DEF ToolsInvariant, ToldFits
<1>g. PICK given : given = call[c].given
  OBVIOUS
<1>t. PICK new : new = {p \in given : p[1] \in call[c].chosen}
  OBVIOUS
<1>3. told' = told \cup new /\ listed' = Merge(given)
  BY <1>g, <1>t DEF Deliver
<1>4. \A p \in new : p[2] # 0 /\ p \in ledger /\ p \in given
  BY <1>1, <1>g, <1>t DEF GivenFits
<1>5. \A p \in told' : p[2] # 0 /\ p \in ledger
  BY <1>2, <1>3, <1>4 DEF ToldFits
<1>6. \A p, q \in told' : p[1] = q[1] <=> p[2] = q[2]
  BY <1>2, <1>5 DEF LedgerFits
<1>7. given \subseteq listed'
  BY <1>3 DEF Merge
<1>8. ASSUME ~overlapped
      PROVE  told \subseteq listed'
  <2>1. told \subseteq listed
    BY <1>2, <1>8 DEF ToldFits, CitationsResolve
  <2>2. CASE call[c].kind = "RECALL"
    BY <1>1, <1>2, <1>8, <2>2 DEF FirstRecall
  <2>3. CASE call[c].kind = "OUTLINE"
    <3>1. given = {}
      <4>1. Chunks(given) = {}
        BY <1>1, <1>g, <2>3 DEF StageFits
      <4>2. \A p \in given : p[1] \in Chunks(given)
        BY DEF Chunks
      <4> QED  BY <4>1, <4>2
    <3>2. \A p \in listed : p \in Merge({})
      BY DEF Merge
    <3> QED  BY <1>3, <2>1, <3>1, <3>2
  <2>4. CASE call[c].kind \in {"EXPAND", "SECTION"}
    <3>1. call[c].chosen = Chunks(given)
      BY <1>1, <1>g, <2>4 DEF StageFits
    <3>2. \A p \in given : p \in ledger
      BY <1>1, <1>g, <3>1 DEF GivenFits, Chunks
    <3>3. \A p \in told : \A q \in given : q[1] = p[1] => p = q
      BY <1>2, <3>2 DEF LedgerFits
    <3> QED  BY <1>3, <1>7, <2>1, <3>3 DEF Merge
  <2> QED  BY <1>1, <2>2, <2>3, <2>4 DEF Request, StageFits
<1>9. overlapped' \/ told' \subseteq listed'
  BY <1>1, <1>3, <1>4, <1>7, <1>8
<1> QED
  BY <1>1, <1>5, <1>6, <1>9 DEF ToldFits, CitationsResolve

\* A cursor stands where its page ends, and the last page ends the section.
LEMMA PageDelivered ==
    ASSUME ToolsTypeOK, ToolsInvariant, NEW c \in Calls, Deliver(c), UNCHANGED shelf
    PROVE  /\ CursorsFit' /\ SectionReadWhole'
           /\ cursors' \subseteq Section /\ finished' \subseteq Section
<1>1. /\ call[c] \in Request /\ StageFits(call[c]) /\ SectionFits(call[c])
      /\ call[c].at = "REGISTER" /\ call[c].hits = Chunks(call[c].given)
  BY CallFits DEF Deliver, Complete, At
<1>2. /\ CursorsFit /\ SectionReadWhole
      /\ cursors \subseteq Section /\ finished \subseteq Section
  BY DEF ToolsInvariant, ToolsTypeOK
<1>3. CursorsFit' <=> \A s \in cursors' : s.next # 0 /\ ReadFits(s)
  BY DEF CursorsFit, ReadFits, Current
<1>4. CASE call[c].kind # "SECTION"
  <2>1. cursors' = cursors /\ finished' = finished
    BY <1>4 DEF Deliver
  <2> QED  BY <1>2, <1>3, <2>1 DEF CursorsFit, SectionReadWhole
<1>5. CASE call[c].kind = "SECTION"
  <2>1. PICK place : place = call[c].place
    OBVIOUS
  <2>2. PICK page : page = Chunks(call[c].given)
    OBVIOUS
  <2>3. PICK read : read = [place EXCEPT !.read = @ \cup page]
    OBVIOUS
  <2>4. place \in Section /\ PageFits(place, page) /\ page \subseteq Chunk
    BY <1>1, <1>5, <2>1, <2>2 DEF StageFits, SectionFits, Request
  <2>5. /\ read \in Section /\ read.doc = place.doc /\ read.heading = place.heading
        /\ read.deep = place.deep /\ read.edition = place.edition
        /\ read.read = place.read \cup page
    BY <2>3, <2>4 DEF Section
  <2>c. PICK cursor : cursor = [read EXCEPT !.deep = TRUE]
    OBVIOUS
  <2>d. /\ cursor \in Section /\ cursor.doc = place.doc /\ cursor.heading = place.heading
        /\ cursor.next = place.next /\ cursor.edition = place.edition
        /\ cursor.read = place.read \cup page
    BY <2>3, <2>4, <2>c DEF Section
  <2>6. /\ cursors' = IF place.more THEN cursors \cup {cursor} ELSE cursors
        /\ finished' = IF /\ ~place.more
                          /\ shelf[place.doc].status # "DELETED"
                          /\ shelf[place.doc].edition = place.edition
                       THEN finished \cup {read} ELSE finished
    BY <1>5, <2>1, <2>2, <2>3, <2>c DEF Deliver
  <2>7. Current(cursor) <=> Current(place)
    BY <2>d DEF Current
  <2>8. place.more => cursor.next # 0 /\ ReadFits(cursor)
    BY <2>4, <2>7, <2>d DEF ReadFits, PageFits, Opening
  <2>9. CursorsFit'
    BY <1>2, <1>3, <2>6, <2>8 DEF CursorsFit
  <2>10. ASSUME ~place.more, shelf[place.doc].status # "DELETED",
                shelf[place.doc].edition = place.edition
         PROVE  /\ SectionOf(read.doc, read.edition, read.heading, read.deep)
                      \subseteq read.read
                /\ read.read \subseteq SectionOf(read.doc, read.edition, read.heading, TRUE)
    <3>1. WholeRead(place, read.read)
      BY <2>4, <2>5, <2>10 DEF PageFits, Current
    <3> QED  BY <2>5, <3>1 DEF WholeRead
  <2>11. SectionReadWhole'
    BY <1>2, <2>6, <2>10 DEF SectionReadWhole
  <2> QED  BY <1>2, <2>5, <2>6, <2>9, <2>11, <2>d
<1> QED  BY <1>4, <1>5

LEMMA DeliverKeeps ==
    ASSUME ToolsTypeOK, ToolsInvariant, NEW c \in Calls, Deliver(c), UNCHANGED shelf
    PROVE  ToolsTypeOK' /\ ToolsInvariant'
<1>1. /\ call[c] \in Request /\ StageFits(call[c])
      /\ call[c].at = "REGISTER" /\ call[c].heard /\ run = "OPEN"
  BY CallFits DEF Deliver, Complete, At
<1>2. /\ call' = [call EXCEPT ![c] = Idle] /\ issuing' = FALSE
      /\ UNCHANGED <<run, ledger, numbers, calls, overlapped>>
  BY DEF Deliver
<1>3. call[c].kind \in {"RECALL", "EXPAND", "OUTLINE", "SECTION"}
  BY <1>1 DEF Request, StageFits
<1>4. /\ recalled' = IF call[c].kind = "RECALL" THEN recalled \cup {"RESULT"} ELSE recalled
      /\ "RESULT" \in recalled'
  <2>1. recalled' = IF call[c].kind = "RECALL" THEN recalled \cup {"RESULT"} ELSE recalled
    BY DEF Deliver
  <2> QED  BY <1>3, <2>1 DEF ToolsInvariant, FirstRecall
<1>5. /\ Idle \in Request /\ StageFits(Idle) /\ HitsFit(Idle)
      /\ GivenFits(Idle) /\ SectionFits(Idle) /\ Idle.kind = "NONE"
  BY IdleFits DEF Idle
<1>6. /\ call'[c] = Idle /\ \A b \in Calls \ {c} : call'[b] = call[b]
      /\ call' \in [Calls -> Request]
  BY <1>2, <1>5 DEF ToolsTypeOK
<1>7. ToldFits' /\ CursorsFit' /\ SectionReadWhole'
      /\ cursors' \subseteq Section /\ finished' \subseteq Section
  BY ToldMerged, PageDelivered
<1>8. ToolsTypeOK'
  <2>1. call[c].given \subseteq Pairs
    BY <1>1 DEF Request
  <2>2. listed' \subseteq Pairs /\ told' \subseteq Pairs
    BY <2>1 DEF Deliver, Merge, ToolsTypeOK
  <2>3. refs' \subseteq Docs \X Headings
    <3>1. CASE call[c].kind = "OUTLINE"
      <4>1. call[c].place \in [doc : Docs, headings : SUBSET Headings]
        BY <1>1, <3>1 DEF StageFits
      <4>2. refs' = refs \cup ({call[c].place.doc} \X call[c].place.headings)
        BY <3>1 DEF Deliver
      <4> QED  BY <4>1, <4>2 DEF ToolsTypeOK
    <3>2. CASE call[c].kind # "OUTLINE"
      BY <3>2 DEF Deliver, ToolsTypeOK
    <3> QED  BY <3>1, <3>2
  <2>4. recalled' \subseteq {"RESULT", "FAILURE"}
    BY <1>4 DEF ToolsTypeOK
  <2> QED
    BY <1>2, <1>6, <1>7, <2>2, <2>3, <2>4 DEF ToolsTypeOK
<1>9. FirstRecall'
  <2>1. \A b \in Calls : call'[b].kind \notin {"NONE", "ASK"} => run' # "NEW"
    BY <1>1, <1>2
  <2>2. ASSUME ~overlapped, NEW b \in Calls, call'[b].kind = "RECALL", call'[b].heard
        PROVE  FALSE
    <3>1. b # c /\ call[b].kind = "RECALL" /\ call[b].heard
      BY <1>5, <1>6, <2>2
    <3>2. /\ "RESULT" \notin recalled
          /\ \A a \in Calls : call[a].kind = "RECALL" /\ call[a].heard => a = b
      BY <2>2, <3>1 DEF ToolsInvariant, FirstRecall
    <3>3. call[c].kind # "RECALL"
      BY <1>1, <3>1, <3>2
    <3> QED  BY <1>4, <3>2, <3>3
  <2> QED
    BY <1>1, <1>2, <1>4, <2>1, <2>2 DEF FirstRecall
<1>10. ShelfFits' /\ LedgerFits'
  BY <1>2 DEF ToolsInvariant, ShelfFits, LedgerFits
<1>11. ASSUME NEW b \in Calls
       PROVE  /\ StageFits(call[b])' /\ HitsFit(call[b])'
              /\ GivenFits(call[b])' /\ SectionFits(call[b])'
  <2>1. PICK q : q = call'[b]
    OBVIOUS
  <2>2. StageFits(q) /\ HitsFit(q) /\ GivenFits(q) /\ SectionFits(q)
    BY <1>5, <1>6, <2>1 DEF ToolsInvariant
  <2>3. StageFits(call[b])'
    BY <2>1, <2>2 DEF StageFits
  <2>4. HitsFit(call[b])'
    BY <2>1, <2>2 DEF HitsFit, Oldest
  <2>5. GivenFits(call[b])'
    BY <1>2, <2>1, <2>2 DEF GivenFits
  <2>6. SectionFits(call[b])'
    BY <2>1, <2>2 DEF SectionFits, ReadFits, PageFits, Current, Opening, WholeRead
  <2> QED  BY <2>3, <2>4, <2>5, <2>6
<1> QED
  BY <1>7, <1>8, <1>9, <1>10, <1>11 DEF ToolsInvariant

-----------------------------------------------------------------------------
(* Runs and the library *)

\* Before the run is open, nothing is told or registered.
LEMMA OpenRunKeeps ==
    ASSUME ToolsTypeOK, ToolsInvariant, OpenRun, UNCHANGED shelf
    PROVE  ToolsTypeOK' /\ ToolsInvariant'
<1>1. /\ run = "NEW" /\ run' = "OPEN"
      /\ UNCHANGED <<ledger, numbers, refs, cursors, issuing, recalled, listed, told,
                     overlapped, finished, call, calls>>
  BY DEF OpenRun, ledgerVars, piVars
<1>2. ToolsTypeOK'
  BY <1>1 DEF ToolsTypeOK
<1>3. ShelfFits' /\ LedgerFits' /\ CursorsFit' /\ SectionReadWhole'
  BY <1>1 DEF ToolsInvariant, ShelfFits, LedgerFits, CursorsFit, ReadFits, Current,
              SectionReadWhole
<1>4. FirstRecall'
  BY <1>1 DEF ToolsInvariant, FirstRecall
<1>5. ToldFits'
  BY <1>1 DEF ToolsInvariant, FirstRecall, ToldFits, CitationsResolve
<1>6. ASSUME NEW c \in Calls
      PROVE  /\ StageFits(call[c])' /\ HitsFit(call[c])'
             /\ GivenFits(call[c])' /\ SectionFits(call[c])'
  <2>1. /\ StageFits(call[c]) /\ HitsFit(call[c]) /\ GivenFits(call[c])
        /\ SectionFits(call[c])
    BY CallFits
  <2>2. call[c].given = {}
    BY <1>1, <2>1 DEF ToolsInvariant, FirstRecall, StageFits
  <2>3. StageFits(call[c])'
    BY <1>1, <2>1 DEF StageFits
  <2>4. HitsFit(call[c])'
    BY <1>1, <2>1 DEF HitsFit, Oldest
  <2>5. GivenFits(call[c])'
    BY <1>1, <2>1, <2>2 DEF GivenFits, Chunks
  <2>6. SectionFits(call[c])'
    BY <1>1, <2>1 DEF SectionFits, ReadFits, PageFits, Current, Opening, WholeRead
  <2> QED  BY <2>3, <2>4, <2>5, <2>6
<1> QED
  BY <1>2, <1>3, <1>4, <1>5, <1>6 DEF ToolsInvariant

\* With the run its evidence goes, and what it was told stays told.
LEMMA EndRunKeeps ==
    ASSUME ToolsTypeOK, ToolsInvariant, EndRun, UNCHANGED shelf
    PROVE  ToolsTypeOK' /\ ToolsInvariant'
<1>1. /\ run = "OPEN" /\ run' \in {"FAILED", "ANSWERED"}
      /\ ledger' = {} /\ refs' = {} /\ cursors' = {}
      /\ UNCHANGED <<numbers, issuing, recalled, listed, told, overlapped, finished, call,
                     calls>>
  BY DEF EndRun, piVars
<1>2. ToolsTypeOK'
  BY <1>1 DEF ToolsTypeOK
<1>3. ShelfFits' /\ LedgerFits' /\ CursorsFit' /\ SectionReadWhole'
  BY <1>1 DEF ToolsInvariant, ShelfFits, LedgerFits, CursorsFit, SectionReadWhole
<1>4. FirstRecall'
  BY <1>1 DEF ToolsInvariant, FirstRecall
<1>5. ToldFits'
  BY <1>1 DEF ToolsInvariant, ToldFits, CitationsResolve
<1>6. ASSUME NEW c \in Calls
      PROVE  /\ StageFits(call[c])' /\ HitsFit(call[c])'
             /\ GivenFits(call[c])' /\ SectionFits(call[c])'
  <2>1. /\ StageFits(call[c]) /\ HitsFit(call[c]) /\ GivenFits(call[c])
        /\ SectionFits(call[c])
    BY CallFits
  <2>2. StageFits(call[c])' /\ GivenFits(call[c])'
    BY <1>1, <2>1 DEF StageFits, GivenFits, Chunks
  <2>3. HitsFit(call[c])'
    BY <1>1, <2>1 DEF HitsFit, Oldest
  <2>4. SectionFits(call[c])'
    BY <1>1, <2>1 DEF SectionFits, ReadFits, PageFits, Current, Opening, WholeRead
  <2> QED  BY <2>2, <2>3, <2>4
<1> QED
  BY <1>2, <1>3, <1>4, <1>5, <1>6 DEF ToolsInvariant

\* Editions only grow, and one that is no longer stored never is again.
LEMMA ShelfMoves ==
    ASSUME ToolsTypeOK, ShelfFits, LibraryStep
    PROVE  /\ shelf' \in [Docs -> [status : {"PARSING", "READY", "DELETED"}, edition : Nat]]
           /\ ShelfFits'
           /\ \A d \in Docs : /\ shelf[d].edition <= shelf'[d].edition
                              /\ Oldest(d) <= Oldest(d)'
           /\ \A s \in Section :
                 Current(s)' /\ s.edition <= shelf[s.doc].edition => Current(s)
<1>1. PICK d \in Docs : Publish(d) \/ Reparse(d) \/ Delete(d)
  BY DEF LibraryStep
<1>2. PICK new : /\ shelf' = [shelf EXCEPT ![d] = new]
                 /\ new \in [status : {"PARSING", "READY", "DELETED"}, edition : Nat]
                 /\ \/ /\ shelf[d].status = "PARSING" /\ new.status = "READY"
                       /\ new.edition = shelf[d].edition + 1 /\ new.edition \in Editions
                    \/ /\ shelf[d].status = "READY" /\ new.status = "PARSING"
                       /\ new.edition = shelf[d].edition
                    \/ /\ new.status = "DELETED" /\ new.edition = shelf[d].edition
  <2>1. CASE Publish(d)
    <3>1. PICK one : one = [status |-> "READY", edition |-> shelf[d].edition + 1]
      OBVIOUS
    <3>2. shelf' = [shelf EXCEPT ![d] = one]
      BY <2>1, <3>1 DEF Publish, Shelve
    <3>3. one \in [status : {"PARSING", "READY", "DELETED"}, edition : Nat]
      BY <3>1 DEF ToolsTypeOK
    <3>4. /\ shelf[d].status = "PARSING"
          /\ one.status = "READY" /\ one.edition = shelf[d].edition + 1
          /\ one.edition \in Editions
      BY <2>1, <3>1 DEF Publish, Shelve
    <3> QED  BY <3>2, <3>3, <3>4
  <2>2. CASE Reparse(d)
    <3>1. PICK one : one = [status |-> "PARSING", edition |-> shelf[d].edition]
      OBVIOUS
    <3>2. shelf' = [shelf EXCEPT ![d] = one]
      BY <2>2, <3>1 DEF Reparse, Shelve
    <3>3. one \in [status : {"PARSING", "READY", "DELETED"}, edition : Nat]
      BY <3>1 DEF ToolsTypeOK
    <3>4. /\ shelf[d].status = "READY"
          /\ one.status = "PARSING" /\ one.edition = shelf[d].edition
      BY <2>2, <3>1 DEF Reparse, Shelve
    <3> QED  BY <3>2, <3>3, <3>4
  <2>3. CASE Delete(d)
    <3>1. PICK one : one = [status |-> "DELETED", edition |-> shelf[d].edition]
      OBVIOUS
    <3>2. shelf' = [shelf EXCEPT ![d] = one]
      BY <2>3, <3>1 DEF Delete, Shelve
    <3>3. one \in [status : {"PARSING", "READY", "DELETED"}, edition : Nat]
      BY <3>1 DEF ToolsTypeOK
    <3> QED  BY <2>3, <3>1, <3>2, <3>3 DEF Delete, Shelve
  <2> QED  BY <1>1, <2>1, <2>2, <2>3
<1>3. /\ shelf' \in [Docs -> [status : {"PARSING", "READY", "DELETED"}, edition : Nat]]
      /\ shelf'[d] = new /\ \A e \in Docs \ {d} : shelf'[e] = shelf[e]
  BY <1>2 DEF ToolsTypeOK
<1>4. ShelfFits'
  BY <1>2, <1>3 DEF ShelfFits
<1>5. \A e \in Docs : shelf[e].edition \in Nat
  BY DEF ToolsTypeOK
<1>6. \A e \in Docs : /\ shelf[e].edition <= shelf'[e].edition
                      /\ Oldest(e) <= Oldest(e)'
  BY <1>2, <1>3, <1>5 DEF Oldest
<1>7. ASSUME NEW s \in Section, Current(s)', s.edition <= shelf[s.doc].edition
      PROVE  Current(s)
  <2>1. s.doc \in Docs /\ s.edition \in Nat
    BY DEF Section
  <2>2. CASE s.doc = d
    BY <1>2, <1>3, <1>5, <1>7, <2>1, <2>2 DEF Current
  <2>3. CASE s.doc # d
    BY <1>3, <1>7, <2>1, <2>3 DEF Current
  <2> QED  BY <2>2, <2>3
<1> QED
  BY <1>3, <1>4, <1>6, <1>7

LEMMA LibraryKeeps ==
    ASSUME ToolsTypeOK, ToolsInvariant, LibraryStep
    PROVE  ToolsTypeOK' /\ ToolsInvariant'
<1>1. UNCHANGED <<run, ledger, numbers, refs, cursors, issuing, recalled, listed, told,
                  overlapped, finished, call, calls>>
  BY DEF LibraryStep, ledgerVars, piVars
<1>2. /\ shelf' \in [Docs -> [status : {"PARSING", "READY", "DELETED"}, edition : Nat]]
      /\ ShelfFits'
      /\ \A d \in Docs : /\ shelf[d].edition <= shelf'[d].edition
                         /\ Oldest(d) <= Oldest(d)'
      /\ \A s \in Section :
            Current(s)' /\ s.edition <= shelf[s.doc].edition => Current(s)
  BY ShelfMoves DEF ToolsInvariant
<1>3. /\ \A d \in Docs : /\ shelf[d].edition \in Nat /\ shelf'[d].edition \in Nat
                         /\ Oldest(d) \in Nat /\ Oldest(d)' \in Nat
  BY <1>2 DEF ToolsTypeOK, Oldest
<1>4. ToolsTypeOK'
  BY <1>1, <1>2 DEF ToolsTypeOK
<1>5. LedgerFits' /\ FirstRecall' /\ ToldFits' /\ SectionReadWhole'
  BY <1>1 DEF ToolsInvariant, LedgerFits, FirstRecall, ToldFits, CitationsResolve,
              SectionReadWhole
<1>6. ASSUME NEW s \in Section
      PROVE  /\ s.doc \in Docs /\ s.edition \in Nat
             /\ s.edition <= shelf[s.doc].edition => s.edition <= shelf'[s.doc].edition
  BY <1>2, <1>3 DEF Section
<1>7. \A s \in Section : ReadFits(s) => ReadFits(s)'
  BY <1>2, <1>6 DEF ReadFits
<1>8. \A s \in Section : \A page : PageFits(s, page) => PageFits(s, page)'
  <2> SUFFICES ASSUME NEW s \in Section, NEW page, PageFits(s, page)
               PROVE  PageFits(s, page)'
    OBVIOUS
  <2>1. s.edition <= shelf'[s.doc].edition /\ shelf'[s.doc].edition # 0
    BY <1>2, <1>3, <1>6 DEF PageFits
  <2>2. Current(s)' => Current(s)
    BY <1>2 DEF PageFits
  <2> QED  BY <2>1, <2>2 DEF PageFits
<1>9. CursorsFit'
  BY <1>1, <1>7 DEF ToolsInvariant, CursorsFit, ToolsTypeOK
<1>10. ASSUME NEW c \in Calls
       PROVE  /\ StageFits(call[c])' /\ HitsFit(call[c])'
              /\ GivenFits(call[c])' /\ SectionFits(call[c])'
  <2>1. /\ call[c] \in Request /\ StageFits(call[c]) /\ HitsFit(call[c])
        /\ GivenFits(call[c]) /\ SectionFits(call[c]) /\ call'[c] = call[c]
    BY <1>1, CallFits
  <2>2. StageFits(call[c])' /\ GivenFits(call[c])'
    BY <1>1, <2>1 DEF StageFits, GivenFits, Chunks
  <2>3. HitsFit(call[c])'
    <3>1. call[c].low \in [Docs -> Nat]
      BY <2>1 DEF Request
    <3>2. \A d \in Docs : call[c].low[d] <= Oldest(d)'
      BY <1>2, <1>3, <2>1, <3>1 DEF HitsFit
    <3> QED  BY <2>1, <3>2 DEF HitsFit
  <2>4. SectionFits(call[c])'
    <3>1. PICK q : q = call[c]
      OBVIOUS
    <3>2. q.kind = "SECTION" => q.place \in Section
      BY <2>1, <3>1 DEF StageFits
    <3>3. q.kind = "SECTION" => IF q.at = "READ" THEN ReadFits(q.place)'
                                ELSE PageFits(q.place, q.hits)'
      BY <1>7, <1>8, <2>1, <3>1, <3>2 DEF SectionFits
    <3>4. call'[c] = q
      BY <2>1, <3>1
    <3> QED  BY <3>3, <3>4 DEF SectionFits, ReadFits, PageFits, Current, Opening, WholeRead
  <2> QED  BY <2>2, <2>3, <2>4
<1> QED
  BY <1>2, <1>4, <1>5, <1>9, <1>10 DEF ToolsInvariant

-----------------------------------------------------------------------------
(* Theorems *)

LEMMA ToolsInitFits ==
    ASSUME ToolsInit
    PROVE  ToolsTypeOK /\ ToolsInvariant
<1> USE DEF ToolsInit
<1>1. ToolsTypeOK
  <2>1. Idle \in Request
    BY DEF Idle, Request, Place, Pairs
  <2>2. shelf \in [Docs -> [status : {"PARSING", "READY", "DELETED"}, edition : Nat]]
    OBVIOUS
  <2> QED  BY <2>1, <2>2 DEF ToolsTypeOK
<1>2. \A c \in Calls : call[c] = Idle
  OBVIOUS
<1>3. /\ Idle.kind = "NONE" /\ StageFits(Idle) /\ HitsFit(Idle)
      /\ GivenFits(Idle) /\ SectionFits(Idle)
  BY <1>1, IdleFits DEF Idle
<1>4. ShelfFits /\ LedgerFits /\ CursorsFit /\ SectionReadWhole
  BY DEF ShelfFits, LedgerFits, CursorsFit, SectionReadWhole
<1>5. FirstRecall /\ ToldFits
  BY <1>2, <1>3 DEF FirstRecall, ToldFits, CitationsResolve
<1> QED
  BY <1>1, <1>2, <1>3, <1>4, <1>5 DEF ToolsInvariant

LEMMA ToolsNextKeeps ==
    ASSUME ToolsTypeOK, ToolsInvariant, [ToolsNext]_toolVars
    PROVE  ToolsTypeOK' /\ ToolsInvariant'
<1>1. CASE LibraryStep
  BY <1>1, LibraryKeeps
<1>2. CASE ToolStep /\ UNCHANGED shelf
  <2>1. CASE OpenRun
    BY <1>2, <2>1, OpenRunKeeps
  <2>2. CASE EndRun
    BY <1>2, <2>2, EndRunKeeps
  <2>3. CASE \E c \in Calls :
                \/ Ask(c) \/ CallRecall(c) \/ CallSection(c)
                \/ \E x \in Chunk : CallExpand(c, x)
                \/ \E d \in Docs : CallOutline(c, d)
                \/ Serve(c) \/ Deliver(c) \/ Fails(c) \/ TimesOut(c)
    <3>1. PICK c \in Calls :
                \/ Ask(c) \/ CallRecall(c) \/ CallSection(c)
                \/ \E x \in Chunk : CallExpand(c, x)
                \/ \E d \in Docs : CallOutline(c, d)
                \/ Serve(c) \/ Deliver(c) \/ Fails(c) \/ TimesOut(c)
      BY <2>3
    <3>2. CASE Ask(c) \/ CallRecall(c) \/ CallSection(c)
      BY <1>2, <3>2, AskKeeps, CallRecallKeeps, CallSectionKeeps
    <3>3. CASE \/ \E x \in Chunk : CallExpand(c, x)
               \/ \E d \in Docs : CallOutline(c, d)
      BY <1>2, <3>3, CallExpandKeeps, CallOutlineKeeps
    <3>4. CASE Search(c) \/ Gate(c) \/ Rank(c)
      BY <1>2, <3>4, SearchKeeps, GateKeeps, RankKeeps
    <3>5. CASE ReadNeighbours(c) \/ ReadOutline(c) \/ ReadSection(c)
      BY <1>2, <3>5, ReadNeighboursKeeps, ReadOutlineKeeps, ReadSectionKeeps
    <3>6. CASE Fetch(c) \/ Register(c) \/ Ends(c)
      BY <1>2, <3>6, FetchKeeps, RegisterKeeps, EndsKeeps
    <3>7. CASE Deliver(c) \/ Fails(c) \/ TimesOut(c)
      BY <1>2, <3>7, DeliverKeeps, FailsKeeps, TimesOutKeeps
    <3> QED  BY <3>1, <3>2, <3>3, <3>4, <3>5, <3>6, <3>7 DEF Serve
  <2> QED  BY <1>2, <2>1, <2>2, <2>3 DEF ToolStep
<1>3. CASE UNCHANGED toolVars
  <2>1. UNCHANGED <<shelf, run, ledger, numbers, refs, cursors, issuing, recalled, listed,
                    told, overlapped, finished, call, calls>>
    BY <1>3 DEF toolVars
  <2>2. ToolsTypeOK'
    BY <2>1 DEF ToolsTypeOK
  <2>3. /\ ShelfFits' /\ LedgerFits' /\ FirstRecall' /\ ToldFits' /\ CursorsFit'
        /\ SectionReadWhole'
    BY <2>1 DEF ToolsInvariant, ShelfFits, LedgerFits, FirstRecall, ToldFits,
                CitationsResolve, CursorsFit, ReadFits, Current, SectionReadWhole
  <2>4. ASSUME NEW c \in Calls
        PROVE  /\ StageFits(call[c])' /\ HitsFit(call[c])'
               /\ GivenFits(call[c])' /\ SectionFits(call[c])'
    <3>1. /\ StageFits(call[c]) /\ HitsFit(call[c]) /\ GivenFits(call[c])
          /\ SectionFits(call[c])
      BY CallFits
    <3>2. StageFits(call[c])' /\ GivenFits(call[c])'
      BY <2>1, <3>1 DEF StageFits, GivenFits, Chunks
    <3>3. HitsFit(call[c])' /\ SectionFits(call[c])'
      BY <2>1, <3>1 DEF HitsFit, Oldest, SectionFits, ReadFits, PageFits, Current, Opening, WholeRead
    <3> QED  BY <3>2, <3>3
  <2> QED
    BY <2>2, <2>3, <2>4 DEF ToolsInvariant
<1> QED
  BY <1>1, <1>2, <1>3 DEF ToolsNext

\* What every state of a behaviour is like: the types, the numbers of the ledger,
\* what each request has found, registered and read so far, and what was told.
THEOREM ToolsInvariantHolds == ToolsSpec => [](ToolsTypeOK /\ ToolsInvariant)
<1>1. ToolsInit => ToolsTypeOK /\ ToolsInvariant
  BY ToolsInitFits
<1>2. /\ ToolsTypeOK /\ ToolsInvariant
      /\ [ToolsNext]_toolVars
      => (ToolsTypeOK /\ ToolsInvariant)'
  BY ToolsNextKeeps
<1> QED  BY <1>1, <1>2, PTL DEF ToolsSpec

\* Of one document a response brings passages of one edition only, though gate,
\* contents and registration each look at another moment.
THEOREM OneEditionPerResponseHolds == ToolsSpec => []OneEditionPerResponse
<1>1. ToolsTypeOK /\ ToolsInvariant => OneEditionPerResponse
  <2> SUFFICES ASSUME ToolsTypeOK, ToolsInvariant, NEW c \in Calls,
                      NEW x \in Returned(c), NEW y \in Returned(c), x[1] = y[1]
               PROVE  x[2] = y[2]
    BY DEF OneEditionPerResponse
  <2>1. x \in call[c].hits /\ y \in call[c].hits
    BY DEF Returned
  <2> QED  BY <2>1, CallFits DEF HitsFit
<1> QED  BY <1>1, ToolsInvariantHolds, PTL

\* A response brings only what a READY document served since the request began,
\* whatever Qdrant and Manticore still hold.
THEOREM OnlyVisibleReturnedHolds == ToolsSpec => []OnlyVisibleReturned
<1>1. ToolsTypeOK /\ ToolsInvariant => OnlyVisibleReturned
  <2> SUFFICES ASSUME ToolsTypeOK, ToolsInvariant, NEW c \in Calls, NEW x \in Returned(c)
               PROVE  x[2] >= call[c].low[x[1]]
    BY DEF OnlyVisibleReturned
  <2>1. x \in call[c].hits
    BY DEF Returned
  <2> QED  BY <2>1, CallFits DEF HitsFit
<1> QED  BY <1>1, ToolsInvariantHolds, PTL

\* A number in the answer names one passage of Pi's list of sources, however many
\* requests of the run register evidence at a time.
THEOREM CitationsResolveHolds == ToolsSpec => []CitationsResolve
<1>1. ToolsTypeOK /\ ToolsInvariant => CitationsResolve
  BY DEF ToolsInvariant, ToldFits
<1> QED  BY <1>1, ToolsInvariantHolds, PTL

\* Following the cursors of an edition to the end reads without a gap all that the
\* last page was asked for, whether the pages before it were asked for with what is
\* below the subheadings or without.
THEOREM SectionReadWholeHolds == ToolsSpec => []SectionReadWhole
<1>1. ToolsTypeOK /\ ToolsInvariant => SectionReadWhole
  BY DEF ToolsInvariant
<1> QED  BY <1>1, ToolsInvariantHolds, PTL

=============================================================================
