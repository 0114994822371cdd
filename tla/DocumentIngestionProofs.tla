----------------------- MODULE DocumentIngestionProofs -----------------------
(***************************************************************************)
(* Proofs about DocumentIngestion: for any documents, workers, bounds and  *)
(* scenarios, what an attempt does to the stores keeps READY documents     *)
(* searchable, their text in place and every leftover accounted for, under *)
(* the disruptions each property names.                                    *)
(***************************************************************************)
EXTENDS DocumentIngestion, DocumentQueueProofs

-----------------------------------------------------------------------------
(* The pipeline, spelled out *)

LEMMA StagesListed ==
    /\ Running = {"PARSE", "MARKDOWN", "DENSE", "SPARSE", "BM25_CLEAR", "BM25_WRITE",
                  "UNLINK", "COMMIT"}
    /\ Guarded = {"PARSE", "MARKDOWN", "DENSE", "SPARSE", "BM25_CLEAR", "UNLINK"}
<1>1. Running = {"PARSE", "MARKDOWN", "DENSE", "SPARSE", "BM25_CLEAR", "BM25_WRITE",
                 "UNLINK", "COMMIT"}
  <2>1. \A s : s \in Running <=> \E i \in 1 .. 8 : Pipeline[i] = s
    BY DEF Running
  <2>2. /\ Pipeline[1] = "PARSE" /\ Pipeline[2] = "MARKDOWN" /\ Pipeline[3] = "DENSE"
        /\ Pipeline[4] = "SPARSE" /\ Pipeline[5] = "BM25_CLEAR" /\ Pipeline[6] = "BM25_WRITE"
        /\ Pipeline[7] = "UNLINK" /\ Pipeline[8] = "COMMIT"
    BY DEF Pipeline
  <2>3. \A i \in 1 .. 8 : i = 1 \/ i = 2 \/ i = 3 \/ i = 4 \/ i = 5 \/ i = 6 \/ i = 7 \/ i = 8
    OBVIOUS
  <2>4. ASSUME NEW s \in Running
        PROVE  s \in {"PARSE", "MARKDOWN", "DENSE", "SPARSE", "BM25_CLEAR", "BM25_WRITE",
                      "UNLINK", "COMMIT"}
    BY <2>1, <2>2, <2>3
  <2>5. ASSUME NEW s \in {"PARSE", "MARKDOWN", "DENSE", "SPARSE", "BM25_CLEAR",
                          "BM25_WRITE", "UNLINK", "COMMIT"}
        PROVE  s \in Running
    BY <2>1, <2>2
  <2> QED  BY <2>4, <2>5
<1> QED  BY <1>1 DEF Guarded

LEMMA StagesFollow ==
    /\ StageAfter("PARSE") = "MARKDOWN" /\ StageAfter("MARKDOWN") = "DENSE"
    /\ StageAfter("DENSE") = "SPARSE" /\ StageAfter("SPARSE") = "BM25_CLEAR"
    /\ StageAfter("BM25_CLEAR") = "BM25_WRITE" /\ StageAfter("BM25_WRITE") = "UNLINK"
    /\ StageAfter("UNLINK") = "COMMIT"
<1>1. /\ Pipeline[1] = "PARSE" /\ Pipeline[2] = "MARKDOWN" /\ Pipeline[3] = "DENSE"
      /\ Pipeline[4] = "SPARSE" /\ Pipeline[5] = "BM25_CLEAR" /\ Pipeline[6] = "BM25_WRITE"
      /\ Pipeline[7] = "UNLINK" /\ Pipeline[8] = "COMMIT"
  BY DEF Pipeline
<1>2. \A i, j \in 1 .. 7 : Pipeline[i] = Pipeline[j] => i = j
  <2>1. \A i \in 1 .. 7 : i = 1 \/ i = 2 \/ i = 3 \/ i = 4 \/ i = 5 \/ i = 6 \/ i = 7
    OBVIOUS
  <2> QED  BY <1>1, <2>1
<1>3. ASSUME NEW i \in 1 .. 7 PROVE StageAfter(Pipeline[i]) = Pipeline[i + 1]
  <2> DEFINE k == CHOOSE j \in 1 .. 7 : Pipeline[j] = Pipeline[i]
  <2>1. k \in 1 .. 7 /\ Pipeline[k] = Pipeline[i]
    OBVIOUS
  <2>2. k = i
    BY <1>2, <2>1
  <2> QED  BY <2>2 DEF StageAfter
<1> QED  BY <1>1, <1>3

\* The stages from one on.
FromDense == {"DENSE", "SPARSE", "BM25_CLEAR", "BM25_WRITE", "UNLINK", "COMMIT"}

FromSparse == FromDense \ {"DENSE"}

FromClear == FromSparse \ {"SPARSE"}

-----------------------------------------------------------------------------
(* Types *)

IngestTypeOK ==
    /\ job \in [Workers -> Job]
    /\ dense \in [Docs -> SUBSET Nat]
    /\ sparse \in [Docs -> SUBSET Nat]
    /\ bm25 \in [Docs -> SUBSET Nat]
    /\ objects \in [Docs -> SUBSET (Nat \X {"IMAGES", "MARKDOWN"})]
    /\ purge \in [Docs -> Purge]
    /\ abandoned \in [Docs -> SUBSET Nat]
    /\ disruptions \in Scenarios

LEMMA IdleTyped == IdleJob \in Job /\ IdlePurge \in Purge
<1>1. (CHOOSE d \in Docs : TRUE) \in Docs
  BY ScenariosAssumption
<1> QED  BY <1>1 DEF IdleJob, IdlePurge, Job, Purge, NoToken, Idle

LEMMA JobTyped ==
    ASSUME IngestTypeOK, NEW w \in Workers
    PROVE  /\ job[w] \in Job /\ job[w].doc \in Docs
           /\ job[w].attempt \in Nat /\ job[w].old \in Nat
           /\ job[w].stage \in {Idle, "SWEEP"} \cup Running \cup Handler
           /\ job[w].armed \in BOOLEAN /\ job[w].touched \subseteq {"POINTS", "BM25"}
  BY DEF IngestTypeOK, Job

\* w works on: another stage, whatever else it notes.
WorksOn(w) ==
    /\ job' \in [Workers -> Job]
    /\ \A v \in Workers : v # w => job'[v] = job[v]
    /\ job'[w].doc = job[w].doc /\ job'[w].attempt = job[w].attempt
    /\ job'[w].old = job[w].old /\ job[w].touched \subseteq job'[w].touched

LEMMA GoesTo ==
    ASSUME IngestTypeOK, NEW w \in Workers,
           NEW s \in {Idle, "SWEEP"} \cup Running \cup Handler, GoTo(w, s)
    PROVE  /\ WorksOn(w)
           /\ job'[w].stage = s /\ job'[w].armed = FALSE
           /\ job'[w].touched = job[w].touched
<1> DEFINE j == [job[w] EXCEPT !.stage = s, !.armed = FALSE]
<1>1. job[w] \in Job
  BY JobTyped
<1>2. job' = [job EXCEPT ![w] = j]
  BY DEF GoTo, IngestTypeOK
<1>3. j \in Job /\ j.stage = s /\ j.armed = FALSE
  BY <1>1 DEF Job
<1>4. /\ j.doc = job[w].doc /\ j.attempt = job[w].attempt /\ j.old = job[w].old
      /\ j.touched = job[w].touched
  BY <1>1 DEF Job
<1> HIDE DEF j
<1>5. /\ job'[w] = j /\ \A v \in Workers : v # w => job'[v] = job[v]
      /\ job' \in [Workers -> Job]
  BY <1>2, <1>3 DEF IngestTypeOK
<1> QED  BY <1>3, <1>4, <1>5 DEF WorksOn

LEMMA Arms ==
    ASSUME IngestTypeOK, NEW w \in Workers, NEW ts \in SUBSET {"POINTS", "BM25"},
           job' = [job EXCEPT ![w].armed = TRUE, ![w].touched = @ \cup ts]
    PROVE  /\ WorksOn(w)
           /\ job'[w].stage = job[w].stage /\ job'[w].armed = TRUE
           /\ job'[w].touched = job[w].touched \cup ts
<1> DEFINE j == [job[w] EXCEPT !.armed = TRUE, !.touched = @ \cup ts]
<1>1. job[w] \in Job
  BY JobTyped
<1>2. job' = [job EXCEPT ![w] = j]
  BY DEF IngestTypeOK
<1>3. j \in Job
  BY <1>1 DEF Job
<1>4. /\ j.doc = job[w].doc /\ j.attempt = job[w].attempt /\ j.old = job[w].old
      /\ j.stage = job[w].stage /\ j.armed = TRUE /\ j.touched = job[w].touched \cup ts
  BY <1>1 DEF Job
<1> HIDE DEF j
<1>5. /\ job'[w] = j /\ \A v \in Workers : v # w => job'[v] = job[v]
      /\ job' \in [Workers -> Job]
  BY <1>2, <1>3 DEF IngestTypeOK
<1> QED  BY <1>4, <1>5 DEF WorksOn

LEMMA Cancels ==
    ASSUME IngestTypeOK, NEW w \in Workers,
           job' = [job EXCEPT ![w].stage = "CHECK", ![w].armed = FALSE, ![w].cancelled = TRUE]
    PROVE  /\ WorksOn(w)
           /\ job'[w].stage = "CHECK" /\ job'[w].armed = FALSE
           /\ job'[w].touched = job[w].touched
<1> DEFINE j == [job[w] EXCEPT !.stage = "CHECK", !.armed = FALSE, !.cancelled = TRUE]
<1>1. job[w] \in Job
  BY JobTyped
<1>2. job' = [job EXCEPT ![w] = j]
  BY DEF IngestTypeOK
<1>3. j \in Job
  BY <1>1 DEF Job, Handler
<1>4. /\ j.doc = job[w].doc /\ j.attempt = job[w].attempt /\ j.old = job[w].old
      /\ j.stage = "CHECK" /\ j.armed = FALSE /\ j.touched = job[w].touched
  BY <1>1 DEF Job
<1> HIDE DEF j
<1>5. /\ job'[w] = j /\ \A v \in Workers : v # w => job'[v] = job[v]
      /\ job' \in [Workers -> Job]
  BY <1>2, <1>3 DEF IngestTypeOK
<1> QED  BY <1>4, <1>5 DEF WorksOn

LEMMA GoesIdle ==
    ASSUME IngestTypeOK, NEW w \in Workers, job' = [job EXCEPT ![w] = IdleJob]
    PROVE  /\ job' \in [Workers -> Job] /\ job'[w] = IdleJob
           /\ \A v \in Workers : v # w => job'[v] = job[v]
  BY IdleTyped DEF IngestTypeOK

-----------------------------------------------------------------------------
(* What a store call does *)

StoresTyped ==
    /\ dense \in [Docs -> SUBSET Nat] /\ sparse \in [Docs -> SUBSET Nat]
    /\ bm25 \in [Docs -> SUBSET Nat]
    /\ objects \in [Docs -> SUBSET (Nat \X {"IMAGES", "MARKDOWN"})]

\* The stores of the other documents stay as they are.
OnlyStoresOf(d) ==
    \A e \in Docs : e # d => /\ dense'[e] = dense[e] /\ sparse'[e] = sparse[e]
                             /\ bm25'[e] = bm25[e] /\ objects'[e] = objects[e]

\* The stores of the document after the call of the stage w is in.
EffectOn(w) ==
    LET j == job[w]
        d == job[w].doc
        s == job[w].stage
    IN  /\ dense'[d] = IF s = "DENSE" THEN dense[d] \cup {j.attempt}
                       ELSE IF s = "UNLINK" THEN dense[d] \ {j.old} ELSE dense[d]
        /\ sparse'[d] = IF s = "SPARSE" THEN sparse[d] \cup {j.attempt}
                        ELSE IF s = "UNLINK" THEN sparse[d] \ {j.old} ELSE sparse[d]
        /\ bm25'[d] = IF s = "BM25_CLEAR" THEN {}
                      ELSE IF s = "BM25_WRITE" THEN bm25[d] \cup {j.attempt} ELSE bm25[d]
        /\ objects[d] \subseteq objects'[d]
        /\ s = "MARKDOWN" => <<j.attempt, "MARKDOWN">> \in objects'[d]

LEMMA EffectIs ==
    ASSUME IngestTypeOK, NEW w \in Workers, Effect(w)
    PROVE  StoresTyped' /\ OnlyStoresOf(job[w].doc) /\ EffectOn(w)
<1>1. PICK d \in Docs, t \in Nat : d = job[w].doc /\ t = job[w].attempt
  BY JobTyped
<1>2. StoresTyped
  BY DEF IngestTypeOK, StoresTyped
<1>3. CASE At(w, "PARSE") \/ At(w, "MARKDOWN")
  <2>1. PICK kind \in {"IMAGES", "MARKDOWN"} :
           /\ objects' = [objects EXCEPT ![d] = @ \cup {<<t, kind>>}]
           /\ At(w, "MARKDOWN") => kind = "MARKDOWN"
           /\ UNCHANGED <<dense, sparse, bm25>>
    <3>1. CASE At(w, "PARSE")
      BY <1>1, <3>1 DEF Effect, At
    <3>2. CASE At(w, "MARKDOWN")
      BY <1>1, <3>2 DEF Effect, At
    <3> QED  BY <1>3, <3>1, <3>2
  <2>2. /\ objects' \in [Docs -> SUBSET (Nat \X {"IMAGES", "MARKDOWN"})]
        /\ objects'[d] = objects[d] \cup {<<t, kind>>}
        /\ \A e \in Docs : e # d => objects'[e] = objects[e]
    BY <1>2, <2>1 DEF StoresTyped
  <2> QED  BY <1>1, <1>2, <1>3, <2>1, <2>2 DEF StoresTyped, OnlyStoresOf, EffectOn, At
<1>4. CASE At(w, "DENSE")
  <2>1. dense' = [dense EXCEPT ![d] = @ \cup {t}] /\ UNCHANGED <<sparse, bm25, objects>>
    BY <1>1, <1>4 DEF Effect, At
  <2>2. /\ dense' \in [Docs -> SUBSET Nat] /\ dense'[d] = dense[d] \cup {t}
        /\ \A e \in Docs : e # d => dense'[e] = dense[e]
    BY <1>2, <2>1 DEF StoresTyped
  <2> QED  BY <1>1, <1>2, <1>4, <2>1, <2>2 DEF StoresTyped, OnlyStoresOf, EffectOn, At
<1>5. CASE At(w, "SPARSE")
  <2>1. sparse' = [sparse EXCEPT ![d] = @ \cup {t}] /\ UNCHANGED <<dense, bm25, objects>>
    BY <1>1, <1>5 DEF Effect, At
  <2>2. /\ sparse' \in [Docs -> SUBSET Nat] /\ sparse'[d] = sparse[d] \cup {t}
        /\ \A e \in Docs : e # d => sparse'[e] = sparse[e]
    BY <1>2, <2>1 DEF StoresTyped
  <2> QED  BY <1>1, <1>2, <1>5, <2>1, <2>2 DEF StoresTyped, OnlyStoresOf, EffectOn, At
<1>6. CASE At(w, "BM25_CLEAR")
  <2>1. bm25' = [bm25 EXCEPT ![d] = {}] /\ UNCHANGED <<dense, sparse, objects>>
    BY <1>1, <1>6 DEF Effect, At
  <2>2. /\ bm25' \in [Docs -> SUBSET Nat] /\ bm25'[d] = {}
        /\ \A e \in Docs : e # d => bm25'[e] = bm25[e]
    BY <1>2, <2>1 DEF StoresTyped
  <2> QED  BY <1>1, <1>2, <1>6, <2>1, <2>2 DEF StoresTyped, OnlyStoresOf, EffectOn, At
<1>7. CASE At(w, "BM25_WRITE")
  <2>1. bm25' = [bm25 EXCEPT ![d] = @ \cup {t}] /\ UNCHANGED <<dense, sparse, objects>>
    BY <1>1, <1>7 DEF Effect, At
  <2>2. /\ bm25' \in [Docs -> SUBSET Nat] /\ bm25'[d] = bm25[d] \cup {t}
        /\ \A e \in Docs : e # d => bm25'[e] = bm25[e]
    BY <1>2, <2>1 DEF StoresTyped
  <2> QED  BY <1>1, <1>2, <1>7, <2>1, <2>2 DEF StoresTyped, OnlyStoresOf, EffectOn, At
<1>8. CASE At(w, "UNLINK")
  <2>1. /\ dense' = Drop(dense, d, {job[w].old}) /\ sparse' = Drop(sparse, d, {job[w].old})
        /\ UNCHANGED <<bm25, objects>>
    BY <1>1, <1>8 DEF Effect, At
  <2>2. /\ dense' \in [Docs -> SUBSET Nat] /\ dense'[d] = dense[d] \ {job[w].old}
        /\ sparse' \in [Docs -> SUBSET Nat] /\ sparse'[d] = sparse[d] \ {job[w].old}
        /\ \A e \in Docs : e # d => dense'[e] = dense[e] /\ sparse'[e] = sparse[e]
    BY <1>2, <2>1 DEF StoresTyped, Drop
  <2> QED  BY <1>1, <1>2, <1>8, <2>1, <2>2 DEF StoresTyped, OnlyStoresOf, EffectOn, At
<1> QED  BY <1>3, <1>4, <1>5, <1>6, <1>7, <1>8 DEF Effect

\* The stores of the document after a clean-up call that took effect: vectors
\* of the attempt, all keyword rows, or the directory of the attempt.
CleanedBy(w, s) ==
    LET j == job[w]
        d == job[w].doc
        ts == IF s = "CLEAN_POINTS" /\ "POINTS" \in j.touched THEN {j.attempt} ELSE {}
    IN  /\ dense'[d] = dense[d] \ ts /\ sparse'[d] = sparse[d] \ ts
        /\ bm25'[d] = bm25[d] \/ s = "CLEAN_BM25"
        /\ s \in {"CLEAN_POINTS", "CLEAN_BM25"} => objects'[d] = objects[d]
        /\ \A o \in objects[d] : o[1] # j.attempt => o \in objects'[d]

LEMMA CleanUpIs ==
    ASSUME IngestTypeOK, NEW w \in Workers,
           NEW s \in {"CLEAN_POINTS", "CLEAN_BM25", "CLEAN_PREFIX", "DROP_PREFIX"},
           \/ s = "CLEAN_POINTS" /\ DeleteOwnPoints(w)
           \/ s = "CLEAN_BM25" /\ DeleteBm25(w)
           \/ s \in {"CLEAN_PREFIX", "DROP_PREFIX"} /\ RemovePrefix(w)
    PROVE  StoresTyped' /\ OnlyStoresOf(job[w].doc) /\ CleanedBy(w, s)
<1>1. PICK d \in Docs, t \in Nat : d = job[w].doc /\ t = job[w].attempt
  BY JobTyped
<1>2. StoresTyped
  BY DEF IngestTypeOK, StoresTyped
<1>3. CASE s = "CLEAN_POINTS" /\ DeleteOwnPoints(w)
  <2> DEFINE ts == IF "POINTS" \in job[w].touched THEN {t} ELSE {}
  <2>1. /\ dense' = Drop(dense, d, ts) /\ sparse' = Drop(sparse, d, ts)
        /\ UNCHANGED <<bm25, objects>>
    BY <1>1, <1>3 DEF DeleteOwnPoints
  <2> HIDE DEF ts
  <2>2. /\ dense' \in [Docs -> SUBSET Nat] /\ dense'[d] = dense[d] \ ts
        /\ sparse' \in [Docs -> SUBSET Nat] /\ sparse'[d] = sparse[d] \ ts
        /\ \A e \in Docs : e # d => dense'[e] = dense[e] /\ sparse'[e] = sparse[e]
    BY <1>2, <2>1 DEF StoresTyped, Drop
  <2>3. CleanedBy(w, s)
    BY <1>1, <1>3, <2>1, <2>2 DEF CleanedBy, ts
  <2> QED  BY <1>1, <1>2, <2>1, <2>2, <2>3 DEF StoresTyped, OnlyStoresOf
<1>4. CASE s = "CLEAN_BM25" /\ DeleteBm25(w)
  <2>1. /\ bm25' = [bm25 EXCEPT ![d] = {}] \/ bm25' = bm25
        /\ UNCHANGED <<dense, sparse, objects>>
    BY <1>1, <1>4 DEF DeleteBm25
  <2>2. /\ bm25' \in [Docs -> SUBSET Nat] /\ \A e \in Docs : e # d => bm25'[e] = bm25[e]
    BY <1>2, <2>1 DEF StoresTyped
  <2> QED  BY <1>1, <1>2, <1>4, <2>1, <2>2 DEF StoresTyped, OnlyStoresOf, CleanedBy
<1>5. CASE s \in {"CLEAN_PREFIX", "DROP_PREFIX"} /\ RemovePrefix(w)
  <2>1. objects' = Drop(objects, d, Directory(d, t)) /\ UNCHANGED <<dense, sparse, bm25>>
    BY <1>1, <1>5 DEF RemovePrefix
  <2>2. /\ objects' \in [Docs -> SUBSET (Nat \X {"IMAGES", "MARKDOWN"})]
        /\ objects'[d] = objects[d] \ Directory(d, t)
        /\ \A e \in Docs : e # d => objects'[e] = objects[e]
    BY <1>2, <2>1 DEF StoresTyped, Drop
  <2>3. \A o \in objects[d] : o[1] # t => o \in objects'[d]
    BY <2>2 DEF Directory
  <2>4. CleanedBy(w, s)
    BY <1>1, <1>5, <2>1, <2>3 DEF CleanedBy
  <2> QED  BY <1>1, <1>2, <2>1, <2>2, <2>4 DEF StoresTyped, OnlyStoresOf
<1> QED  BY <1>3, <1>4, <1>5

PurgeStage == {Idle, "ADMITTED", "POINTS", "BM25", "OBJECTS", "ROW"}

LEMMA PurgeTyped ==
    ASSUME IngestTypeOK, NEW d \in Docs
    PROVE  purge[d].stage \in PurgeStage /\ purge[d].seen \in Nat
  BY DEF IngestTypeOK, Purge, PurgeStage

\* The DELETE of d becomes p; the others stay.
LEMMA PurgeBecomes ==
    ASSUME IngestTypeOK, NEW d \in Docs, NEW p \in Purge, purge' = [purge EXCEPT ![d] = p]
    PROVE  /\ purge' \in [Docs -> Purge] /\ purge'[d] = p
           /\ \A e \in Docs : e # d => purge'[e] = purge[e]
  BY DEF IngestTypeOK

LEMMA PurgeAt ==
    ASSUME IngestTypeOK, NEW d \in Docs, NEW s \in PurgeStage, SetPurge(d, s)
    PROVE  /\ purge' \in [Docs -> Purge]
           /\ purge'[d].stage = s /\ purge'[d].seen = purge[d].seen
           /\ \A e \in Docs : e # d => purge'[e] = purge[e]
<1> DEFINE p == [purge[d] EXCEPT !.stage = s]
<1>1. purge[d] \in Purge
  BY DEF IngestTypeOK
<1>2. p \in Purge /\ p.stage = s /\ p.seen = purge[d].seen
  BY <1>1 DEF Purge, PurgeStage
<1>3. purge' = [purge EXCEPT ![d] = p]
  BY DEF SetPurge, IngestTypeOK
<1> HIDE DEF p
<1> QED  BY <1>2, <1>3, PurgeBecomes

\* The DELETE requests of a document; what they do besides moving on.
LEMMA PurgeSteps ==
    ASSUME TypeOK, IngestTypeOK, NEW d \in Docs,
           \/ OpenView(d) \/ LockForPurge(d) \/ PurgeRefused(d) \/ PurgePoints(d)
           \/ PurgeBm25(d) \/ PurgeObjects(d) \/ PurgeRow(d) \/ PurgeAborted(d)
    PROVE  /\ purge' \in [Docs -> Purge] /\ StoresTyped' /\ OnlyStoresOf(d)
           /\ \A e \in Docs : e # d => purge'[e] = purge[e]
           /\ UNCHANGED <<job, abandoned, disruptions>>
<1>0. Published(doc[d]) \in Nat
  BY DEF TypeOK, Row, Published, NoToken
<1>1. StoresTyped /\ purge[d].seen \in Nat
  BY PurgeTyped DEF IngestTypeOK, StoresTyped
<1>2. ASSUME UNCHANGED stores PROVE StoresTyped' /\ OnlyStoresOf(d)
  BY <1>1, <1>2 DEF StoresTyped, OnlyStoresOf, stores
<1>3. CASE OpenView(d)
  <2>1. PICK p \in Purge : purge' = [purge EXCEPT ![d] = p]
    BY <1>0, <1>3 DEF OpenView, Purge
  <2> QED  BY <1>2, <1>3, <2>1, PurgeBecomes DEF OpenView
<1>4. CASE LockForPurge(d)
  <2> DEFINE seen == IF purge[d].stage = "ADMITTED" THEN purge[d].seen ELSE Published(doc[d])
             p == [stage |-> "POINTS", seen |-> seen]
  <2>1. purge' = [purge EXCEPT ![d] = p]
    BY <1>4 DEF LockForPurge, IngestTypeOK
  <2>2. seen \in Nat
    BY <1>0, <1>1
  <2>3. p \in Purge
    BY <2>2 DEF Purge
  <2> HIDE DEF p
  <2> QED  BY <1>2, <1>4, <2>1, <2>3, PurgeBecomes DEF LockForPurge
<1>5. CASE PurgeRefused(d)
  BY <1>2, <1>5, IdleTyped, PurgeBecomes DEF PurgeRefused
<1>6. CASE PurgePoints(d)
  <2>1. /\ SetPurge(d, "BM25") /\ UNCHANGED <<job, bm25, objects, abandoned, disruptions>>
        /\ dense' = [dense EXCEPT ![d] = @ \ {purge[d].seen}]
        /\ sparse' = [sparse EXCEPT ![d] = @ \ {purge[d].seen}]
    BY <1>6 DEF PurgePoints, Drop
  <2>2. StoresTyped' /\ OnlyStoresOf(d)
    BY <1>1, <2>1 DEF StoresTyped, OnlyStoresOf
  <2> QED  BY <2>1, <2>2, PurgeAt DEF PurgeStage
<1>7. CASE PurgeBm25(d)
  <2>1. /\ SetPurge(d, "OBJECTS") /\ UNCHANGED <<job, dense, sparse, objects, abandoned, disruptions>>
        /\ bm25' = [bm25 EXCEPT ![d] = {}]
    BY <1>7 DEF PurgeBm25
  <2>2. StoresTyped' /\ OnlyStoresOf(d)
    BY <1>1, <2>1 DEF StoresTyped, OnlyStoresOf
  <2> QED  BY <2>1, <2>2, PurgeAt DEF PurgeStage
<1>8. CASE PurgeObjects(d)
  <2>1. /\ SetPurge(d, "ROW") /\ UNCHANGED <<job, dense, sparse, bm25, abandoned, disruptions>>
        /\ objects' = [objects EXCEPT ![d] = {}]
    BY <1>8 DEF PurgeObjects
  <2>2. StoresTyped' /\ OnlyStoresOf(d)
    BY <1>1, <2>1 DEF StoresTyped, OnlyStoresOf
  <2> QED  BY <2>1, <2>2, PurgeAt DEF PurgeStage
<1>9. CASE PurgeRow(d) \/ PurgeAborted(d)
  BY <1>2, <1>9, IdleTyped, PurgeBecomes DEF PurgeRow, PurgeAborted
<1> QED  BY <1>3, <1>4, <1>5, <1>6, <1>7, <1>8, <1>9

-----------------------------------------------------------------------------
(* The steps of an attempt *)

Purges(d) ==
    \/ OpenView(d) \/ LockForPurge(d) \/ PurgeRefused(d) \/ PurgePoints(d)
    \/ PurgeBm25(d) \/ PurgeObjects(d) \/ PurgeRow(d) \/ PurgeAborted(d)

\* Steps of a worker that is at work and stays so.
Works(w) == AssertLease(w) \/ Write(w) \/ StageFails(w) \/ CommitFenced(w) \/ Cancel(w) \/ Handle(w)

\* Steps that end an attempt, or its claim.
Ends(w) == Commit(w) \/ Sweep(w) \/ Report(w) \/ Leave(w) \/ WorkerDies(w)

\* Steps that leave jobs, stores and deletions alone.
Elsewhere ==
    \/ \E d \in Docs : OtherRequest(d) \/ TimePasses(d)
    \/ \E w \in Workers : LeaseStep(w)
    \/ UNCHANGED ingestVars

LEMMA IngestSteps ==
    [IngestNext]_ingestVars
       => \/ Elsewhere
          \/ \E d \in Docs : Purges(d)
          \/ \E w \in Workers : Works(w) \/ Ends(w) \/ \E d \in Docs : StartAttempt(w, d)
  BY DEF IngestNext, Elsewhere, Purges, Works, Ends

LEMMA ElsewhereIs == Elsewhere => UNCHANGED <<job, stores, purge, abandoned, disruptions>>
  BY DEF Elsewhere, OtherRequest, TimePasses, LeaseStep, ingestVars, stores

\* Where a step of a worker at work leads, and what it may do to the stores.
WorkStages(w) ==
    LET s == job[w].stage
        r == job'[w].stage
    IN  \/ /\ s \in Guarded /\ ~job[w].armed                           \* AssertLease
           /\ \/ /\ Owns(w) /\ r = s /\ job'[w].armed
                 /\ Touch(s) \subseteq job'[w].touched
              \/ r = "DROP_PREFIX" /\ ~job'[w].armed
           /\ UNCHANGED <<stores, abandoned>>
        \/ /\ s \in Running \ {"COMMIT"} /\ Allowed(w) /\ Effect(w)   \* Write
           /\ r = StageAfter(s) /\ ~job'[w].armed /\ UNCHANGED abandoned
        \/ /\ s \in Running /\ r = "CHECK" /\ ~job'[w].armed           \* StageFails
           /\ \/ s # "COMMIT" /\ Allowed(w) /\ Effect(w)
              \/ UNCHANGED stores
           /\ UNCHANGED abandoned
        \/ /\ s = "COMMIT" /\ ~Owns(w) /\ r = "DROP_PREFIX"             \* CommitFenced
           /\ ~job'[w].armed /\ UNCHANGED <<stores, abandoned>>
        \/ /\ "CANCEL" \in disruptions                                  \* Cancel
           /\ s \in Running \cup {"SWEEP"} /\ r = "CHECK" /\ ~job'[w].armed
           /\ UNCHANGED <<stores, abandoned>>
        \/ /\ s = "CHECK" /\ ~job'[w].armed                             \* CheckLease
           /\ \/ Owns(w) /\ r = "CLEAN_POINTS"
              \/ r = "DROP_PREFIX"
           /\ UNCHANGED <<stores, abandoned>>
        \/ /\ <<s, r>> \in {<<"CLEAN_POINTS", "CLEAN_BM25">>, <<"CLEAN_BM25", "CLEAN_PREFIX">>,
                            <<"CLEAN_PREFIX", "REPORT">>, <<"DROP_PREFIX", "LEAVE">>}
           /\ ~job'[w].armed                                            \* CleanUp
           /\ \/ /\ StoresTyped' /\ OnlyStoresOf(job[w].doc) /\ CleanedBy(w, s)
                 /\ UNCHANGED abandoned
              \/ Abandon(w) /\ UNCHANGED stores

LEMMA WorkIs ==
    ASSUME IngestTypeOK, NEW w \in Workers, Works(w),
           job[w].armed => job[w].stage \in Guarded
    PROVE  /\ WorksOn(w) /\ WorkStages(w)
           /\ UNCHANGED <<doc, issued, held, resets, purge, disruptions>>
<1>1. job[w].stage \in {Idle, "SWEEP"} \cup Running \cup Handler /\ job[w].armed \in BOOLEAN
  BY JobTyped
<1>2. CASE AssertLease(w)
  <2>1. CASE Owns(w) /\ job' = [job EXCEPT ![w].armed = TRUE,
                                           ![w].touched = @ \cup Touch(job[w].stage)]
    <3>1. Touch(job[w].stage) \in SUBSET {"POINTS", "BM25"}
      BY DEF Touch
    <3>2. /\ WorksOn(w) /\ job'[w].stage = job[w].stage /\ job'[w].armed = TRUE
          /\ job'[w].touched = job[w].touched \cup Touch(job[w].stage)
      BY <2>1, <3>1, Arms
    <3> QED  BY <1>2, <2>1, <3>2 DEF AssertLease, WorkStages, queueVars, stores
  <2>2. CASE ~Owns(w) /\ GoTo(w, "DROP_PREFIX")
    <3>1. WorksOn(w) /\ job'[w].stage = "DROP_PREFIX" /\ job'[w].armed = FALSE
      BY <2>2, GoesTo DEF Handler
    <3> QED  BY <1>2, <3>1 DEF AssertLease, WorkStages, queueVars, stores
  <2> QED  BY <1>2, <2>1, <2>2 DEF AssertLease
<1>3. CASE Write(w)
  <2>1. job[w].stage \in Running \ {"COMMIT"}
    BY <1>3, StagesListed DEF Write, Allowed, At
  <2>2. StageAfter(job[w].stage) \in Running
    BY <2>1, StagesListed, StagesFollow
  <2>3. WorksOn(w) /\ job'[w].stage = StageAfter(job[w].stage) /\ job'[w].armed = FALSE
    BY <1>3, <2>2, GoesTo DEF Write
  <2> QED  BY <1>3, <2>1, <2>3 DEF Write, WorkStages, queueVars
<1>4. CASE StageFails(w)
  <2>1. WorksOn(w) /\ job'[w].stage = "CHECK" /\ job'[w].armed = FALSE
    BY <1>4, GoesTo DEF StageFails, Handler
  <2>2. Allowed(w) => job[w].stage # "COMMIT"
    BY StagesListed DEF Allowed, At
  <2> QED  BY <1>4, <2>1, <2>2 DEF StageFails, WorkStages, queueVars
<1>5. CASE CommitFenced(w)
  <2>1. WorksOn(w) /\ job'[w].stage = "DROP_PREFIX" /\ job'[w].armed = FALSE
    BY <1>5, GoesTo DEF CommitFenced, Handler
  <2> QED  BY <1>5, <2>1 DEF CommitFenced, WorkStages, At, queueVars, stores
<1>6. CASE Cancel(w)
  <2>1. WorksOn(w) /\ job'[w].stage = "CHECK" /\ job'[w].armed = FALSE
    BY <1>6, Cancels DEF Cancel
  <2> QED  BY <1>6, <2>1 DEF Cancel, WorkStages, At, queueVars, stores
<1>7. CASE CheckLease(w)
  <2>1. CASE Owns(w) /\ GoTo(w, "CLEAN_POINTS")
    <3>1. WorksOn(w) /\ job'[w].stage = "CLEAN_POINTS" /\ job'[w].armed = FALSE
      BY <2>1, GoesTo DEF Handler
    <3> QED  BY <1>7, <2>1, <3>1 DEF CheckLease, WorkStages, At, queueVars, stores
  <2>2. CASE GoTo(w, "DROP_PREFIX")
    <3>1. WorksOn(w) /\ job'[w].stage = "DROP_PREFIX" /\ job'[w].armed = FALSE
      BY <2>2, GoesTo DEF Handler
    <3> QED  BY <1>7, <3>1 DEF CheckLease, WorkStages, At, queueVars, stores
  <2> QED  BY <1>7, <2>1, <2>2 DEF CheckLease
<1>8. ASSUME NEW s, NEW r, CleanUp(w, s, r),
             <<s, r>> \in {<<"CLEAN_POINTS", "CLEAN_BM25">>, <<"CLEAN_BM25", "CLEAN_PREFIX">>,
                           <<"CLEAN_PREFIX", "REPORT">>, <<"DROP_PREFIX", "LEAVE">>}
      PROVE  /\ WorksOn(w) /\ WorkStages(w)
             /\ UNCHANGED <<doc, issued, held, resets, purge, disruptions>>
  <2>1. /\ s \in {"CLEAN_POINTS", "CLEAN_BM25", "CLEAN_PREFIX", "DROP_PREFIX"}
        /\ r \in Handler
    BY <1>8 DEF Handler
  <2>2. WorksOn(w) /\ job'[w].stage = r /\ job'[w].armed = FALSE
    BY <1>8, <2>1, GoesTo DEF CleanUp
  <2>3. \/ /\ StoresTyped' /\ OnlyStoresOf(job[w].doc) /\ CleanedBy(w, s)
           /\ UNCHANGED abandoned
        \/ Abandon(w) /\ UNCHANGED stores
    BY <1>8, <2>1, CleanUpIs DEF CleanUp
  <2> QED  BY <1>8, <2>2, <2>3 DEF CleanUp, WorkStages, At
<1> QED  BY <1>2, <1>3, <1>4, <1>5, <1>6, <1>7, <1>8 DEF Works, Handle

-----------------------------------------------------------------------------
(* Every step is a step of DocumentQueue, or a fault that changes no row. *)

FaultOnly == Fault /\ UNCHANGED <<doc, issued, held, resets>>

LEMMA EndsKind ==
    ASSUME NEW w \in Workers, Ends(w)
    PROVE  WorkerStep(w) \/ UNCHANGED queueVars \/ FaultOnly
<1>1. CASE Commit(w)
  BY <1>1 DEF Commit, WorkerStep
<1>2. CASE Sweep(w)
  BY <1>2 DEF Sweep, FaultOnly, queueVars
<1>3. CASE Report(w)
  BY <1>3 DEF Report, WorkerStep
<1>4. CASE Leave(w)
  BY <1>4 DEF Leave, WorkerStep
<1>5. CASE WorkerDies(w)
  BY <1>5 DEF WorkerDies, WorkerStep, FaultOnly
<1> QED  BY <1>1, <1>2, <1>3, <1>4, <1>5 DEF Ends

LEMMA WorksKind ==
    ASSUME NEW w \in Workers, Works(w)
    PROVE  UNCHANGED queueVars \/ FaultOnly
<1>1. CASE AssertLease(w) \/ Write(w) \/ StageFails(w) \/ CommitFenced(w) \/ Cancel(w) \/ CheckLease(w)
  BY <1>1 DEF AssertLease, Write, StageFails, CommitFenced, Cancel, CheckLease
<1>2. ASSUME NEW s, NEW r, CleanUp(w, s, r) PROVE UNCHANGED queueVars \/ FaultOnly
  BY <1>2 DEF CleanUp, FaultOnly, queueVars
<1> QED  BY <1>1, <1>2 DEF Works, Handle

LEMMA PurgesKind ==
    ASSUME NEW d \in Docs, Purges(d)
    PROVE  PurgeRow(d) \/ UNCHANGED queueVars \/ FaultOnly
  BY DEF Purges, OpenView, LockForPurge, PurgeRefused, PurgePoints, PurgeBm25, PurgeObjects,
         PurgeAborted, FaultOnly

LEMMA ElsewhereKind == Elsewhere => [QueueNext]_queueVars
<1>1. ASSUME NEW d \in Docs, OtherRequest(d) PROVE QueueNext
  BY <1>1 DEF OtherRequest, Request, QueueNext
<1>2. ASSUME NEW d \in Docs, TimePasses(d) PROVE QueueNext
  BY <1>2 DEF TimePasses, QueueNext
<1>3. ASSUME NEW w \in Workers, LeaseStep(w) PROVE QueueNext
  BY <1>3 DEF LeaseStep, WorkerStep, QueueNext
<1>4. ASSUME UNCHANGED ingestVars PROVE UNCHANGED queueVars
  BY <1>4 DEF ingestVars
<1> QED  BY <1>1, <1>2, <1>3, <1>4 DEF Elsewhere

LEMMA QueueKinds == [IngestNext]_ingestVars => [QueueNext]_queueVars \/ FaultOnly
<1>1. ASSUME NEW d \in Docs, Purges(d) PROVE [QueueNext]_queueVars \/ FaultOnly
  BY <1>1, PurgesKind DEF PurgeRow, Request, QueueNext
<1>2. ASSUME NEW w \in Workers, Works(w) \/ Ends(w) \/ \E d \in Docs : StartAttempt(w, d)
      PROVE  [QueueNext]_queueVars \/ FaultOnly
  <2>1. ASSUME NEW d \in Docs, StartAttempt(w, d) PROVE WorkerStep(w)
    BY <2>1 DEF StartAttempt, WorkerStep
  <2>2. WorkerStep(w) => QueueNext
    BY DEF QueueNext
  <2> QED  BY <1>2, <2>1, <2>2, EndsKind, WorksKind
<1> QED  BY <1>1, <1>2, IngestSteps, ElsewhereKind

LEMMA FaultOnlyKeeps ==
    ASSUME TypeOK, QueueInvariant, FaultOnly
    PROVE  TypeOK' /\ QueueInvariant' /\ LostForever /\ UNCHANGED Lifecycle!lifecycleVars
<1>1. UNCHANGED <<doc, issued, held, resets>> /\ faults' = faults + 1
  BY DEF FaultOnly, Fault
<1>2. TypeOK'
  BY <1>1 DEF TypeOK
<1>3. QueueInvariant'
  <2>1. Quiet /\ ClaimsKept /\ UNCHANGED issued
    BY <1>1 DEF Quiet, ClaimsKept, Working
  <2> QED  BY <2>1, QuietStep
<1>4. LostForever
  BY <1>1 DEF LostForever, Owns, Working
<1>5. UNCHANGED Lifecycle!lifecycleVars
  BY <1>1, SameIsStutter DEF Keeps
<1> QED  BY <1>2, <1>3, <1>4, <1>5

\* What the lease protocol promises, it promises here too.
LEMMA QueueHolds ==
    ASSUME TypeOK, QueueInvariant, [IngestNext]_ingestVars
    PROVE  /\ TypeOK' /\ QueueInvariant' /\ LostForever
           /\ [Lifecycle!LifecycleNext]_(Lifecycle!lifecycleVars)
<1>1. CASE [QueueNext]_queueVars
  <2>1. TypeOK' /\ QueueInvariant'
    BY <1>1, TypeStep, InvariantStep
  <2>2. LostForever
    BY <1>1, LostStep
  <2>3. [Lifecycle!LifecycleNext]_(Lifecycle!lifecycleVars)
    BY <1>1, StepRefines
  <2> QED  BY <2>1, <2>2, <2>3
<1>2. CASE FaultOnly
  BY <1>2, FaultOnlyKeeps
<1> QED  BY <1>1, <1>2, QueueKinds

-----------------------------------------------------------------------------
(* Types of every step *)

LEMMA EndsAre ==
    ASSUME IngestTypeOK, NEW w \in Workers, Ends(w)
    PROVE  /\ job' \in [Workers -> Job] /\ \A v \in Workers : v # w => job'[v] = job[v]
           /\ \/ job'[w] = IdleJob
              \/ Commit(w) /\ WorksOn(w) /\ job'[w].stage \in {"SWEEP", "CHECK"} /\ ~job'[w].armed
           /\ StoresTyped' /\ OnlyStoresOf(job[w].doc)
           /\ UNCHANGED <<dense, sparse, bm25, purge, disruptions>>
           /\ \A o \in objects[job[w].doc] :
                 o \in objects'[job[w].doc] \/ (At(w, "SWEEP") /\ o[1] = job[w].old)
           /\ UNCHANGED abandoned \/ Abandon(w)
<1>1. StoresTyped
  BY DEF IngestTypeOK, StoresTyped
<1>2. ASSUME UNCHANGED stores
      PROVE  /\ StoresTyped' /\ OnlyStoresOf(job[w].doc) /\ UNCHANGED <<dense, sparse, bm25>>
             /\ objects' = objects
  BY <1>1, <1>2 DEF StoresTyped, OnlyStoresOf, stores
<1>3. CASE Commit(w)
  <2>1. ASSUME NEW s \in {"SWEEP", "CHECK"}, GoTo(w, s)
        PROVE  WorksOn(w) /\ job'[w].stage = s /\ job'[w].armed = FALSE
    BY <2>1, GoesTo DEF Handler
  <2>2. WorksOn(w) /\ job'[w].stage \in {"SWEEP", "CHECK"} /\ ~job'[w].armed
    BY <1>3, <2>1 DEF Commit
  <2> QED  BY <1>2, <1>3, <2>2 DEF Commit, WorksOn
<1>4. CASE Sweep(w)
  <2>1. PICK d \in Docs : d = job[w].doc
    BY JobTyped
  <2>2. \/ objects' = [objects EXCEPT ![d] = @ \ Directory(d, job[w].old)]
        \/ objects' = objects
    BY <1>4, <2>1 DEF Sweep, Drop
  <2>3. /\ objects' \in [Docs -> SUBSET (Nat \X {"IMAGES", "MARKDOWN"})]
        /\ \A e \in Docs : e # d => objects'[e] = objects[e]
        /\ objects[d] \ Directory(d, job[w].old) \subseteq objects'[d]
    BY <1>1, <2>2 DEF StoresTyped
  <2>4. \A o \in objects[d] : o \in objects'[d] \/ o[1] = job[w].old
    BY <2>3 DEF Directory
  <2>5. /\ UNCHANGED <<dense, sparse, bm25, purge, abandoned, disruptions>>
        /\ job' = [job EXCEPT ![w] = IdleJob]
    BY <1>4 DEF Sweep
  <2>6. StoresTyped' /\ OnlyStoresOf(d)
    BY <1>1, <2>3, <2>5 DEF StoresTyped, OnlyStoresOf
  <2> QED  BY <1>4, <2>1, <2>4, <2>5, <2>6, GoesIdle DEF Sweep
<1>5. CASE Report(w) \/ Leave(w) \/ WorkerDies(w)
  <2>1. /\ UNCHANGED <<stores, purge, disruptions>> /\ job' = [job EXCEPT ![w] = IdleJob]
        /\ UNCHANGED abandoned \/ Abandon(w)
    BY <1>5 DEF Report, Leave, WorkerDies
  <2> QED  BY <1>2, <2>1, GoesIdle
<1> QED  BY <1>3, <1>4, <1>5 DEF Ends

LEMMA StartIs ==
    ASSUME TypeOK, IngestTypeOK, NEW w \in Workers, NEW d \in Docs, StartAttempt(w, d)
    PROVE  /\ job' \in [Workers -> Job] /\ \A v \in Workers : v # w => job'[v] = job[v]
           /\ job'[w].doc = d /\ job'[w].attempt = issued[d] + 1
           /\ job'[w].old = Published(doc[d]) /\ job'[w].stage = "PARSE" /\ ~job'[w].armed
           /\ issued'[d] = issued[d] + 1 /\ \A e \in Docs : e # d => issued'[e] = issued[e]
           /\ At(w, Idle) /\ Grant(w, d)
           /\ UNCHANGED <<stores, purge, abandoned, disruptions>>
<1>1. /\ issued[d] \in Nat /\ issued' = [issued EXCEPT ![d] = issued[d] + 1]
      /\ Published(doc[d]) \in Nat
  BY DEF StartAttempt, Grant, TypeOK, Published, NoToken, Row
<1>2. issued'[d] = issued[d] + 1 /\ \A e \in Docs : e # d => issued'[e] = issued[e]
  BY <1>1 DEF TypeOK
<1> DEFINE j == [IdleJob EXCEPT !.stage = "PARSE", !.doc = d, !.attempt = issued'[d],
                                !.old = Published(doc[d])]
<1>3. job' = [job EXCEPT ![w] = j]
  BY DEF StartAttempt
<1>4. IdleJob \in Job /\ IdleJob.armed = FALSE
  BY IdleTyped DEF IdleJob
<1>5. /\ j \in Job /\ j.stage = "PARSE" /\ j.doc = d /\ j.attempt = issued[d] + 1
      /\ j.old = Published(doc[d]) /\ j.armed = FALSE
  <2>1. PICK t \in Nat, o \in Nat : t = issued'[d] /\ o = Published(doc[d])
    BY <1>1, <1>2
  <2>2. "PARSE" \in {Idle, "SWEEP"} \cup Running \cup Handler
    BY StagesListed
  <2>3. j = [IdleJob EXCEPT !.stage = "PARSE", !.doc = d, !.attempt = t, !.old = o]
    BY <2>1
  <2> HIDE DEF j
  <2>4. /\ j \in Job /\ j.stage = "PARSE" /\ j.doc = d /\ j.attempt = t /\ j.old = o
        /\ j.armed = FALSE
    BY <1>4, <2>2, <2>3 DEF Job
  <2> QED  BY <1>2, <2>1, <2>4
<1> HIDE DEF j
<1>6. /\ job'[w] = j /\ \A v \in Workers : v # w => job'[v] = job[v]
      /\ job' \in [Workers -> Job]
  BY <1>3, <1>5 DEF IngestTypeOK
<1> QED  BY <1>2, <1>5, <1>6 DEF StartAttempt

LEMMA AbandonTyped ==
    ASSUME IngestTypeOK, NEW w \in Workers, UNCHANGED abandoned \/ Abandon(w)
    PROVE  /\ abandoned' \in [Docs -> SUBSET Nat]
           /\ \A e \in Docs : abandoned[e] \subseteq abandoned'[e]
           /\ Abandon(w) => job[w].attempt \in abandoned'[job[w].doc]
<1>1. abandoned \in [Docs -> SUBSET Nat] /\ job[w].doc \in Docs /\ job[w].attempt \in Nat
  BY JobTyped DEF IngestTypeOK
<1>2. CASE UNCHANGED abandoned /\ ~Abandon(w)
  BY <1>1, <1>2
<1>3. CASE Abandon(w)
  BY <1>1, <1>3 DEF Abandon
<1> QED  BY <1>2, <1>3

-----------------------------------------------------------------------------
(* What the steps of DocumentQueue do to the published attempt of a row *)

\* parsed names an attempt that ended, and chunks go with it.
RowHistory(d) ==
    LET r == doc[d] IN
    /\ r.parsed <= issued[d]
    /\ r.status = "PROCESSING" => r.parsed < issued[d]
    /\ r.chunks = 0 <=> r.parsed = NoToken
    /\ r.status \notin {"ABSENT", "DELETED"} => r.version # 0
    /\ r.status = "DELETED" => r.chunks = 0

RowsHistory == \A d \in Docs : RowHistory(d)

\* No row publishes anything else, becomes READY or is deleted.
RowsKept ==
    \A d \in Docs :
       /\ doc'[d].parsed = doc[d].parsed /\ doc'[d].chunks = doc[d].chunks
       /\ doc'[d].status \in {"READY", "DELETED"} => doc[d].status = doc'[d].status

\* A document that may be deleted stays so.
StillDeletable == \A d \in Docs : Deletable(d) => doc'[d].status = doc[d].status

LEMMA OneRowKept ==
    ASSUME TypeOK, RowsHistory, NEW d \in Docs, NEW r \in Row, SetRow(d, r),
           r.parsed = doc[d].parsed, r.chunks = doc[d].chunks,
           r.status \in {"READY", "DELETED"} => doc[d].status = r.status,
           r.status \notin {"ABSENT", "DELETED"} => r.version # 0,
           issued'[d] \in Nat, issued[d] <= issued'[d],
           r.status = "PROCESSING" => doc[d].parsed < issued'[d],
           \A e \in Docs : e # d => issued'[e] = issued[e]
    PROVE  /\ RowsKept /\ RowsHistory'
           /\ doc'[d] = r /\ \A e \in Docs : e # d => doc'[e] = doc[e]
<1>1. doc'[d] = r /\ \A e \in Docs : e # d => doc'[e] = doc[e]
  BY DEF SetRow, TypeOK
<1>2. RowsKept
  BY <1>1 DEF RowsKept
<1>3. RowHistory(d)'
  <2>1. r.parsed \in Nat /\ issued[d] \in Nat /\ RowHistory(d)
    BY DEF Row, TypeOK, RowsHistory
  <2>2. r.status = "DELETED" => r.chunks = 0
    BY <2>1 DEF RowHistory
  <2> QED  BY <1>1, <2>1, <2>2 DEF RowHistory
<1>4. ASSUME NEW e \in Docs, e # d PROVE RowHistory(e)'
  BY <1>1, <1>4 DEF RowHistory, RowsHistory
<1> QED  BY <1>1, <1>2, <1>3, <1>4 DEF RowsHistory

LEMMA NoRowChanges ==
    ASSUME RowsHistory, UNCHANGED <<doc, issued>>
    PROVE  RowsKept /\ RowsHistory' /\ StillDeletable
  BY DEF RowsKept, RowsHistory, RowHistory, StillDeletable

Requested(d) ==
    Upload(d, TRUE) \/ Upload(d, FALSE) \/ Approve(d) \/ Reject(d) \/ Retry(d) \/ Reparse(d)

LEMMA RequestRows ==
    ASSUME TypeOK, QueueInvariant, RowsHistory, NEW d \in Docs, Requested(d)
    PROVE  /\ RowsKept /\ RowsHistory' /\ UNCHANGED <<issued, held>>
           /\ \A e \in Docs : e # d => doc'[e] = doc[e]
           /\ doc[d].status # "PROCESSING" \/ ~doc[d].live
<1>1. doc[d] \in Row /\ RowHistory(d) /\ issued[d] \in Nat
  BY DEF TypeOK, RowsHistory
<1>2. UNCHANGED <<issued, held>> /\ (doc[d].status # "PROCESSING" \/ ~doc[d].live)
  BY DEF Requested, Upload, Approve, Reject, Retry, Reparse, ExpiredProcessing
<1>3. \E r \in Row : /\ SetRow(d, r) /\ r.parsed = doc[d].parsed /\ r.chunks = doc[d].chunks
                     /\ r.status \in {"QUEUED", "PENDING_REVIEW", "REJECTED"} /\ r.version # 0
  <2>1. ASSUME NEW b \in BOOLEAN, Upload(d, b)
        PROVE  \E r \in Row : /\ SetRow(d, r) /\ r.parsed = doc[d].parsed /\ r.chunks = doc[d].chunks
                              /\ r.status \in {"QUEUED", "PENDING_REVIEW"} /\ r.version # 0
    <3>1. doc[d].chunks = 0 /\ doc[d].parsed = NoToken
      BY <1>1, <2>1 DEF Upload, QueueInvariant, AbsentIsEmpty, RowHistory
    <3>2. InsertedRow(b) \in Row /\ SetRow(d, InsertedRow(b))
      BY <2>1, RowOperationsTyped DEF Upload
    <3> DEFINE r == InsertedRow(b)
    <3>3. /\ r.status \in {"QUEUED", "PENDING_REVIEW"} /\ r.version = 1
          /\ r.parsed = NoToken /\ r.chunks = 0
      BY InsertFields
    <3> HIDE DEF r
    <3>4. r \in Row /\ SetRow(d, r)
      BY <3>2 DEF r
    <3> QED  BY <3>1, <3>3, <3>4
  <2>2. ASSUME NEW b \in BOOLEAN, SetRow(d, ResetForQueue(doc[d], b)),
               doc[d].status \notin {"ABSENT", "DELETED"}
        PROVE  \E r \in Row : /\ SetRow(d, r) /\ r.parsed = doc[d].parsed /\ r.chunks = doc[d].chunks
                              /\ r.status \in {"QUEUED"} /\ r.version # 0
    <3> DEFINE r == ResetForQueue(doc[d], b)
    <3>1. r \in Row
      BY <1>1, RowOperationsTyped
    <3>2. /\ r.parsed = doc[d].parsed /\ r.chunks = doc[d].chunks /\ r.status = "QUEUED"
          /\ r.version = IF b THEN doc[d].version + 1 ELSE doc[d].version
      BY <1>1, ResetFields
    <3>3. r.version # 0
      BY <1>1, <2>2, <3>2 DEF RowHistory, Row
    <3> QED  BY <2>2, <3>1, <3>2, <3>3
  <2>3. CASE Approve(d) \/ Retry(d) \/ Reparse(d)
    BY <2>2, <2>3 DEF Approve, Retry, Reparse, ExpiredProcessing
  <2>4. CASE Reject(d)
    <3> DEFINE s == [doc[d] EXCEPT !.status = "REJECTED"]
    <3>1. /\ s \in Row /\ s.status = "REJECTED" /\ s.version = doc[d].version
          /\ s.parsed = doc[d].parsed /\ s.chunks = doc[d].chunks
      BY <1>1 DEF Row, Status
    <3>2. SetRow(d, MarkDispatchIdle(s)) /\ doc[d].status = "PENDING_REVIEW"
      BY <2>4 DEF Reject
    <3> HIDE DEF s
    <3>3. /\ MarkDispatchIdle(s) \in Row /\ MarkDispatchIdle(s).status = s.status
          /\ MarkDispatchIdle(s).version = s.version
          /\ MarkDispatchIdle(s).parsed = s.parsed /\ MarkDispatchIdle(s).chunks = s.chunks
      BY <3>1, RowOperationsTyped DEF MarkDispatchIdle, Row
    <3> QED  BY <1>1, <3>1, <3>2, <3>3 DEF RowHistory
  <2> QED  BY <2>1, <2>3, <2>4 DEF Requested
<1>4. PICK r \in Row : /\ SetRow(d, r) /\ r.parsed = doc[d].parsed /\ r.chunks = doc[d].chunks
                       /\ r.status \in {"QUEUED", "PENDING_REVIEW", "REJECTED"} /\ r.version # 0
  BY <1>3
<1> QED  BY <1>1, <1>2, <1>4, OneRowKept

LEMMA TimeRows ==
    ASSUME TypeOK, RowsHistory, NEW d \in Docs, LeaseLapse(d) \/ RetryDue(d)
    PROVE  /\ RowsKept /\ RowsHistory' /\ StillDeletable /\ UNCHANGED <<issued, held>>
<1>1. doc[d] \in Row /\ RowHistory(d) /\ issued[d] \in Nat
  BY DEF TypeOK, RowsHistory
<1>2. PICK r \in {[doc[d] EXCEPT !.live = FALSE], [doc[d] EXCEPT !.due = TRUE]} : SetRow(d, r)
  BY DEF LeaseLapse, RetryDue, SetRow, TypeOK
<1>3. /\ r \in Row /\ r.parsed = doc[d].parsed /\ r.chunks = doc[d].chunks
      /\ r.status = doc[d].status /\ r.version = doc[d].version
  BY <1>1 DEF Row
<1>4. UNCHANGED <<issued, held>>
  BY DEF LeaseLapse, RetryDue
<1>5. /\ RowsKept /\ RowsHistory'
      /\ doc'[d] = r /\ \A e \in Docs : e # d => doc'[e] = doc[e]
  BY <1>1, <1>2, <1>3, <1>4, OneRowKept DEF RowHistory
<1>6. StillDeletable
  BY <1>3, <1>5 DEF StillDeletable
<1> QED  BY <1>4, <1>5, <1>6

LEMMA ClaimRows ==
    ASSUME TypeOK, QueueInvariant, RowsHistory, NEW w \in Workers, NEW d \in Docs,
           Exhaust(w, d) \/ Grant(w, d)
    PROVE  RowsKept /\ RowsHistory' /\ StillDeletable
<1>1. /\ doc[d] \in Row /\ RowHistory(d) /\ issued[d] \in Nat /\ doc[d].parsed \in Nat
      /\ doc[d].status \in {"QUEUED", "PROCESSING"}
  BY DEF TypeOK, RowsHistory, Exhaust, Grant, Claimable, ExpiredProcessing, Row
<1>2. CASE Exhaust(w, d)
  <2> DEFINE r == ExhaustAttempts(doc[d])
  <2>1. /\ r \in Row /\ r.parsed = doc[d].parsed /\ r.chunks = doc[d].chunks
        /\ r.status = "FAILED" /\ r.version = doc[d].version
    BY <1>1, ExhaustFields, RowOperationsTyped
  <2>2. SetRow(d, r) /\ UNCHANGED issued
    BY <1>2 DEF Exhaust
  <2> HIDE DEF r
  <2>3. /\ RowsKept /\ RowsHistory' /\ \A e \in Docs : e # d => doc'[e] = doc[e]
    BY <1>1, <2>1, <2>2, OneRowKept DEF RowHistory
  <2> QED  BY <1>1, <2>3 DEF StillDeletable, Deletable
<1>3. CASE Grant(w, d)
  <2> DEFINE r == TakeLease(doc[d], issued[d] + 1)
  <2>1. /\ r \in Row /\ r.parsed = doc[d].parsed /\ r.chunks = doc[d].chunks
        /\ r.status = "PROCESSING" /\ r.version = doc[d].version
    <3>1. PICK n \in Nat : n = issued[d] + 1
      BY <1>1
    <3>2. TakeLease(doc[d], n) \in Row
      BY <1>1, RowOperationsTyped
    <3>3. LET s == TakeLease(doc[d], n)
          IN  /\ s.parsed = doc[d].parsed /\ s.chunks = doc[d].chunks
              /\ s.status = "PROCESSING" /\ s.version = doc[d].version
      BY <1>1 DEF TakeLease, Row
    <3> QED  BY <3>1, <3>2, <3>3
  <2>2. SetRow(d, r) /\ issued' = [issued EXCEPT ![d] = issued[d] + 1]
    BY <1>3 DEF Grant
  <2> HIDE DEF r
  <2>3. issued'[d] = issued[d] + 1 /\ \A e \in Docs : e # d => issued'[e] = issued[e]
    BY <2>2 DEF TypeOK
  <2>4. /\ RowsKept /\ RowsHistory' /\ \A e \in Docs : e # d => doc'[e] = doc[e]
    BY <1>1, <2>1, <2>2, <2>3, OneRowKept DEF RowHistory
  <2> QED  BY <1>1, <2>4 DEF StillDeletable, Deletable
<1> QED  BY <1>2, <1>3

LEMMA OwnerRows ==
    ASSUME TypeOK, QueueInvariant, RowsHistory, NEW w \in Workers,
           \/ Heartbeat(w) \/ HeartbeatCrash(w) \/ Fail(w, TRUE) \/ Fail(w, FALSE)
           \/ GiveUpLostLease(w) \/ Crash(w)
    PROVE  RowsKept /\ RowsHistory' /\ StillDeletable /\ UNCHANGED issued
<1>1. CASE UNCHANGED <<doc, issued>>
  BY <1>1, NoRowChanges
<1>2. CASE ~UNCHANGED <<doc, issued>>
  <2> DEFINE d == held[w].doc
  <2>1. /\ Owns(w) /\ UNCHANGED issued
        /\ \/ SetRow(d, RenewLease(doc[d]))
           \/ \E b \in BOOLEAN : SetRow(d, FailOrRetry(doc[d], held[w].attempt, b))
    BY <1>2 DEF Heartbeat, HeartbeatCrash, Fail, GiveUpLostLease, Crash
  <2>2. /\ d \in Docs /\ doc[d] \in Row /\ doc[d].status = "PROCESSING" /\ held[w].attempt \in Nat
    BY <2>1, OwnerFacts
  <2>3. RowHistory(d) /\ issued[d] \in Nat
    BY <2>2 DEF RowsHistory, TypeOK
  <2>4. PICK r \in Row : /\ SetRow(d, r) /\ r.parsed = doc[d].parsed /\ r.chunks = doc[d].chunks
                         /\ r.version = doc[d].version
                         /\ r.status \in {"PROCESSING", "QUEUED", "FAILED"}
    <3>1. /\ RenewLease(doc[d]) \in Row
          /\ RenewLease(doc[d]).parsed = doc[d].parsed /\ RenewLease(doc[d]).chunks = doc[d].chunks
          /\ RenewLease(doc[d]).version = doc[d].version
          /\ RenewLease(doc[d]).status = "PROCESSING"
      BY <2>2, RowOperationsTyped DEF RenewLease, Row
    <3>2. ASSUME NEW b \in BOOLEAN
          PROVE  LET r == FailOrRetry(doc[d], held[w].attempt, b)
                 IN  /\ r \in Row /\ r.parsed = doc[d].parsed /\ r.chunks = doc[d].chunks
                     /\ r.version = doc[d].version /\ r.status \in {"QUEUED", "FAILED"}
      <4> DEFINE n == held[w].attempt
                 r == FailOrRetry(doc[d], n, b)
      <4>1. r \in Row
        BY <2>2, RowOperationsTyped
      <4>2. /\ r.parsed = doc[d].parsed /\ r.chunks = doc[d].chunks
            /\ r.version = doc[d].version
            /\ r.status = IF ShouldRetry(n, b) THEN "QUEUED" ELSE "FAILED"
        BY <2>2 DEF FailOrRetry, Row
      <4> QED  BY <4>1, <4>2
    <3> QED  BY <2>1, <3>1, <3>2
  <2>5. /\ RowsKept /\ RowsHistory' /\ \A e \in Docs : e # d => doc'[e] = doc[e]
    BY <2>1, <2>2, <2>3, <2>4, OneRowKept DEF RowHistory
  <2>6. StillDeletable
    BY <2>2, <2>5 DEF StillDeletable, Deletable
  <2> QED  BY <2>1, <2>5, <2>6
<1> QED  BY <1>1, <1>2

\* The READY commit publishes the newest attempt.
LEMMA FinishRows ==
    ASSUME TypeOK, QueueInvariant, RowsHistory, NEW w \in Workers, Finish(w)
    PROVE  LET d == held[w].doc IN
           /\ d \in Docs /\ Owns(w) /\ RowsHistory' /\ UNCHANGED issued
           /\ doc[d].status = "PROCESSING" /\ held[w].lease = issued[d]
           /\ doc'[d].status = "READY" /\ doc'[d].parsed = held[w].lease /\ doc'[d].chunks # 0
           /\ \A e \in Docs : e # d => doc'[e] = doc[e]
<1>0. PICK d : d = held[w].doc
  OBVIOUS
<1> DEFINE r == MarkReady(doc[d], held[w].lease, held[w].version)
<1>1. /\ Owns(w) /\ UNCHANGED issued /\ SetRow(d, r)
  BY <1>0 DEF Finish
<1>2. /\ d \in Docs /\ doc[d] \in Row /\ doc[d].status = "PROCESSING" /\ issued[d] \in Nat
      /\ held[w].lease = issued[d] /\ held[w].version = doc[d].version /\ RowHistory(d)
      /\ held[w].lease \in Nat /\ doc[d].parsed \in Nat
  BY <1>0, <1>1, OwnerFacts DEF TypeOK, RowsHistory, Row
<1>3. /\ r.status = "READY" /\ r.parsed = held[w].lease /\ r.chunks = doc[d].version
      /\ r.version = doc[d].version
  BY <1>2 DEF MarkReady, Row
<1> HIDE DEF r
<1>4. doc'[d] = r /\ \A e \in Docs : e # d => doc'[e] = doc[e]
  BY <1>1, <1>2 DEF SetRow, TypeOK
<1>5. doc[d].version # 0 /\ doc[d].parsed < issued[d]
  BY <1>2 DEF RowHistory
<1>6. RowHistory(d)'
  <2>1. /\ doc'[d].status = "READY" /\ doc'[d].parsed = issued[d]
        /\ doc'[d].chunks = doc[d].version /\ doc'[d].version = doc[d].version
        /\ issued'[d] = issued[d] /\ issued[d] # NoToken
    BY <1>1, <1>2, <1>3, <1>4, <1>5 DEF NoToken
  <2>2. doc[d].chunks \in Nat /\ doc[d].version \in Nat /\ NoToken \in Nat
    BY <1>2 DEF Row, NoToken
  <2>3. /\ doc'[d].parsed <= issued'[d]
        /\ doc'[d].status = "READY" /\ doc'[d].version # 0
        /\ doc'[d].chunks # 0 /\ doc'[d].parsed # NoToken
    BY <1>2, <1>5, <2>1, <2>2
  <2> QED  BY <2>3 DEF RowHistory
<1>7. ASSUME NEW e \in Docs, e # d PROVE RowHistory(e)'
  BY <1>1, <1>4, <1>7 DEF RowHistory, RowsHistory
<1>8. RowsHistory'
  BY <1>6, <1>7 DEF RowsHistory
<1> QED  BY <1>0, <1>1, <1>2, <1>3, <1>4, <1>5, <1>8

LEMMA DeleteRows ==
    ASSUME TypeOK, RowsHistory, NEW d \in Docs, Delete(d)
    PROVE  /\ RowsHistory' /\ UNCHANGED <<issued, held>> /\ Deletable(d)
           /\ doc'[d].status = "DELETED" /\ doc'[d].parsed = NoToken /\ doc'[d].chunks = 0
           /\ \A e \in Docs : e # d => doc'[e] = doc[e]
<1>1. doc'[d] = DeletedRow /\ \A e \in Docs : e # d => doc'[e] = doc[e]
  BY DEF Delete, SetRow, TypeOK
<1>2. UNCHANGED <<issued, held>> /\ Deletable(d) /\ issued[d] \in Nat
  BY DEF Delete, TypeOK
<1>3. DeletedRow.status = "DELETED" /\ DeletedRow.parsed = NoToken /\ DeletedRow.chunks = 0
  BY DEF DeletedRow, NoRow
<1>4. RowHistory(d)'
  BY <1>1, <1>2, <1>3 DEF RowHistory, NoToken
<1>5. ASSUME NEW e \in Docs, e # d PROVE RowHistory(e)'
  BY <1>1, <1>2, <1>5 DEF RowHistory, RowsHistory
<1> QED  BY <1>1, <1>2, <1>3, <1>4, <1>5 DEF RowsHistory

-----------------------------------------------------------------------------
(* What the steps of DocumentQueue do to the claims of the workers *)

\* The claim of v stays, and a lease it has lost is not given back.
Stays(v) ==
    /\ Working(v)' <=> Working(v)
    /\ Working(v) => held'[v].doc = held[v].doc /\ held'[v].lease = held[v].lease
    /\ Owns(v)' => Owns(v)

LEMMA HeldStays ==
    ASSUME LostForever, NEW v \in Workers, held'[v] = held[v]
    PROVE  Stays(v)
  BY DEF Stays, LostForever, Working, Owns

LEMMA OthersClaims ==
    ASSUME TypeOK, LostForever, NEW w \in Workers, WorkerStep(w), NEW v \in Workers, v # w
    PROVE  held'[v] = held[v] /\ Stays(v)
<1>1. held'[v] = held[v]
  BY DEF WorkerStep, Exhaust, Grant, Heartbeat, HeartbeatCrash, Finish, Fail, GiveUpLostLease,
         Crash, Release, TypeOK
<1> QED  BY <1>1, HeldStays

LEMMA OwnClaim ==
    ASSUME TypeOK, LostForever, NEW w \in Workers,
           Heartbeat(w) \/ HeartbeatCrash(w) \/ \E d \in Docs : Exhaust(w, d)
    PROVE  Stays(w)
<1>1. CASE held'[w] = held[w]
  BY <1>1, HeldStays
<1>2. CASE held'[w] # held[w]
  <2>1. Working(w) /\ \E p \in Pulse : held' = [held EXCEPT ![w].pulse = p]
    BY <1>2 DEF Heartbeat, HeartbeatCrash, Exhaust, Pulse
  <2>2. held[w] \in Claim
    BY <2>1, HeldTyped
  <2>3. /\ held'[w].doc = held[w].doc /\ held'[w].lease = held[w].lease /\ held'[w] \in Claim
    BY <2>1, <2>2 DEF TypeOK, Claim
  <2>4. held'[w] # NoClaim
    BY <2>3, NoClaimAssumption
  <2> QED  BY <2>1, <2>3, <2>4 DEF Stays, LostForever, Working
<1> QED  BY <1>1, <1>2

LEMMA OwnerBy ==
    ASSUME NEW v \in Workers, Owns(v), Working(v)', NEW d, d = held[v].doc,
           held'[v].doc = held[v].doc, held'[v].lease = held[v].lease,
           doc'[d].status = doc[d].status, doc'[d].lease = doc[d].lease, doc'[d].live
    PROVE  Owns(v)'
  BY DEF Owns, OwnsLease

\* Nobody takes a lease that is in force: it lapses, or its owner gives it up.
LEMMA RequestKeepsOwner ==
    ASSUME TypeOK, QueueInvariant, RowsHistory, NEW v \in Workers, Owns(v), NEW d \in Docs,
           \/ Requested(d) \/ Delete(d) \/ RetryDue(d)
           \/ LeaseLapse(d) /\ held[v].doc # d
    PROVE  Owns(v)'
<1>1. PICK e \in Docs : e = held[v].doc
  BY OwnerFacts
<1>2. doc[e].status = "PROCESSING" /\ doc[e].live /\ doc[e] \in Row /\ Working(v)
  BY <1>1, OwnerFacts DEF Owns, OwnsLease
<1>3. UNCHANGED held
  BY RequestRows, DeleteRows DEF RetryDue, LeaseLapse
<1>4. CASE doc'[e] = doc[e]
  BY <1>1, <1>2, <1>3, <1>4, OwnerBy DEF Working
<1>5. CASE RetryDue(d)
  <2>1. /\ doc'[e].status = doc[e].status /\ doc'[e].lease = doc[e].lease
        /\ doc'[e].live = doc[e].live
    BY <1>2, <1>5 DEF RetryDue, TypeOK, Row
  <2> QED  BY <1>1, <1>2, <1>3, <2>1, OwnerBy DEF Working
<1>6. CASE Requested(d)
  BY <1>2, <1>4, <1>6, RequestRows
<1>7. CASE Delete(d)
  BY <1>2, <1>4, <1>7, DeleteRows DEF Deletable
<1>8. CASE LeaseLapse(d) /\ held[v].doc # d
  BY <1>1, <1>4, <1>8 DEF LeaseLapse, TypeOK
<1> QED  BY <1>5, <1>6, <1>7, <1>8

LEMMA HeartbeatKeepsOwner ==
    ASSUME TypeOK, QueueInvariant, LostForever, NEW v \in Workers, Owns(v),
           Heartbeat(v) \/ HeartbeatCrash(v)
    PROVE  Owns(v)'
<1>1. PICK e \in Docs : e = held[v].doc
  BY OwnerFacts
<1>2. /\ doc[e].status = "PROCESSING" /\ doc[e].live /\ doc[e] \in Row /\ Working(v)
  BY <1>1, OwnerFacts DEF Owns, OwnsLease
<1>3. /\ Working(v)' /\ held'[v].doc = held[v].doc /\ held'[v].lease = held[v].lease
  BY <1>2, OwnClaim DEF Stays
<1>4. \/ doc' = doc
      \/ doc' = [doc EXCEPT ![e] = RenewLease(doc[e])]
  BY <1>1 DEF Heartbeat, HeartbeatCrash, SetRow
<1>5. doc'[e].status = doc[e].status /\ doc'[e].lease = doc[e].lease /\ doc'[e].live
  BY <1>2, <1>4 DEF RenewLease, Row, TypeOK
<1> QED  BY <1>1, <1>3, <1>5, OwnerBy

LEMMA OthersKeepOwner ==
    ASSUME TypeOK, QueueInvariant, LostForever, NEW v \in Workers, Owns(v),
           NEW w \in Workers, w # v, WorkerStep(w)
    PROVE  Owns(v)'
<1>1. PICK e \in Docs : e = held[v].doc
  BY OwnerFacts
<1>2. /\ doc[e].status = "PROCESSING" /\ doc[e].live /\ doc[e] \in Row /\ Working(v)
      /\ held'[v] = held[v]
  BY <1>1, OwnerFacts, OthersClaims DEF Owns, OwnsLease
<1>3. Owns(w) => held[w].doc # e
  BY <1>1, OneOwner DEF SingleOwner
<1>4. doc'[e] = doc[e]
  <2>1. ASSUME NEW d \in Docs, Exhaust(w, d) \/ Grant(w, d) PROVE doc'[e] = doc[e]
    <3>1. d # e
      BY <1>2, <2>1 DEF Exhaust, Grant, Claimable, ExpiredProcessing
    <3> QED  BY <2>1, <3>1 DEF Exhaust, Grant, SetRow, TypeOK
  <2>2. CASE Heartbeat(w) \/ Finish(w) \/ Fail(w, TRUE) \/ Fail(w, FALSE)
    BY <1>3, <2>2 DEF Heartbeat, Finish, Fail, SetRow, TypeOK
  <2>3. CASE HeartbeatCrash(w) \/ GiveUpLostLease(w) \/ Crash(w)
    BY <2>3 DEF HeartbeatCrash, GiveUpLostLease, Crash
  <2> QED  BY <2>1, <2>2, <2>3 DEF WorkerStep
<1> QED  BY <1>1, <1>2, <1>4, OwnerBy DEF Working

-----------------------------------------------------------------------------
(* Jobs, claims and deletions fit together *)

\* A disruption that does not happen in this behaviour.
Off(x) == x \notin disruptions

\* The attempt t of d is, or may be taken for, a published one.
Historic(d, t) ==
    \/ t = doc[d].parsed \/ t = purge[d].seen
    \/ \E v \in Workers : job[v].doc = d /\ job[v].old = t

\* A worker holds the claim of the attempt it executes, which is not published.
ClaimFits(w) ==
    Working(w) =>
        /\ held[w].doc = job[w].doc /\ held[w].lease = job[w].attempt
        /\ job[w].stage \notin {Idle, "SWEEP"}
        /\ ~Historic(job[w].doc, job[w].attempt)

\* When it still has it: only a shutdown or an error that hides a commit
\* brings a job without a claim into the except branch.
KeepsClaim(w) ==
    /\ job[w].stage \in Running \cup {"CLEAN_POINTS", "CLEAN_BM25", "CLEAN_PREFIX", "REPORT"}
          => Working(w)
    /\ Off("CANCEL") /\ Off("LOST_COMMIT") /\ job[w].stage \notin {Idle, "SWEEP"}
          => Working(w)

\* The chunk rows its claim read were older, and are still there while it owns
\* the document.
JobFits(w) ==
    LET j == job[w] IN
    /\ j.stage = Idle => j.old = NoToken
    /\ j.stage # Idle => j.attempt \in 1 .. issued[j.doc] /\ j.old < j.attempt
    /\ j.armed => j.stage \in Guarded
    /\ j.stage = "SWEEP" => doc[j.doc].chunks = 0 \/ j.old # doc[j.doc].parsed
    /\ Owns(w) => j.old = Published(doc[j.doc])
    /\ j.stage \in FromSparse \/ (j.stage = "DENSE" /\ j.armed) => "POINTS" \in j.touched

\* No two jobs execute the same attempt.
JobsApart ==
    \A v, w \in Workers :
       /\ ~At(v, Idle) /\ ~At(w, Idle)
       /\ job[v].doc = job[w].doc /\ job[v].attempt = job[w].attempt
       => v = w

\* A DELETE keeps the row it has locked as it found it.
PurgeFits(d) ==
    /\ purge[d].seen <= issued[d]
    /\ Purging(d) => Deletable(d)
    /\ Off("STALE_VIEW") => /\ purge[d].stage # "ADMITTED"
                            /\ Purging(d) => purge[d].seen = Published(doc[d])

BaseInvariant ==
    /\ RowsHistory
    /\ JobsApart
    /\ \A w \in Workers : ClaimFits(w) /\ KeepsClaim(w) /\ JobFits(w)
    /\ \A d \in Docs : PurgeFits(d)

LEMMA BaseStarts ==
    ASSUME IngestInit
    PROVE  TypeOK /\ QueueInvariant /\ IngestTypeOK /\ BaseInvariant
<1>1. TypeOK /\ QueueInvariant
  BY InitTyped, InitInvariant DEF IngestInit
<1>2. IngestTypeOK
  BY IdleTyped DEF IngestInit, IngestTypeOK
<1>3. /\ \A w \in Workers : /\ job[w].stage = Idle /\ job[w].armed = FALSE
                            /\ job[w].old = NoToken /\ ~Working(w)
      /\ \A d \in Docs : /\ purge[d].stage = Idle /\ purge[d].seen = NoToken
                         /\ doc[d] = NoRow /\ issued[d] = 0
  BY DEF IngestInit, QueueInit, IdleJob, IdlePurge, Working
<1>4. RowsHistory
  BY <1>3 DEF RowsHistory, RowHistory, NoRow, NoToken
<1>5. JobsApart
  BY <1>3 DEF JobsApart, At
<1>6. ASSUME NEW w \in Workers PROVE ClaimFits(w) /\ KeepsClaim(w) /\ JobFits(w)
  BY <1>3, StagesListed DEF ClaimFits, KeepsClaim, JobFits, Owns, FromSparse, FromDense, Idle
<1>7. ASSUME NEW d \in Docs PROVE PurgeFits(d)
  BY <1>3 DEF PurgeFits, Purging, NoToken, Idle
<1> QED  BY <1>1, <1>2, <1>4, <1>5, <1>6, <1>7 DEF BaseInvariant

\* Steps that leave the jobs and the deletions alone.
LEMMA BaseFrame ==
    ASSUME TypeOK, IngestTypeOK, BaseInvariant, UNCHANGED <<job, purge, disruptions, issued>>,
           RowsKept, RowsHistory', \A v \in Workers : Stays(v),
           \A d \in Docs : Purging(d) => Deletable(d)'
    PROVE  BaseInvariant'
<1>1. \A d \in Docs : \A t : Historic(d, t)' => Historic(d, t)
  BY DEF Historic, RowsKept
<1>2. \A d \in Docs : Published(doc[d])' = Published(doc[d])
  BY DEF Published, RowsKept
<1>3. JobsApart'
  BY DEF BaseInvariant, JobsApart, At
<1>4. ASSUME NEW w \in Workers PROVE ClaimFits(w)' /\ KeepsClaim(w)' /\ JobFits(w)'
  <2>1. ClaimFits(w) /\ KeepsClaim(w) /\ JobFits(w) /\ Stays(w) /\ job[w].doc \in Docs
    BY <1>4, JobTyped DEF BaseInvariant
  <2>2. ClaimFits(w)'
    BY <1>1, <2>1 DEF ClaimFits, Stays
  <2>3. KeepsClaim(w)'
    BY <2>1 DEF KeepsClaim, Stays, Off
  <2>4. JobFits(w)'
    BY <1>2, <2>1 DEF JobFits, Stays, RowsKept
  <2> QED  BY <2>2, <2>3, <2>4
<1>5. ASSUME NEW d \in Docs PROVE PurgeFits(d)'
  BY <1>2, <1>5 DEF BaseInvariant, PurgeFits, Purging, Off
<1> QED  BY <1>3, <1>4, <1>5 DEF BaseInvariant

LEMMA ElsewhereRows ==
    ASSUME TypeOK, QueueInvariant, LostForever, BaseInvariant, Elsewhere
    PROVE  /\ RowsKept /\ RowsHistory' /\ UNCHANGED issued
           /\ \A v \in Workers : Stays(v)
           /\ \A d \in Docs : Purging(d) => Deletable(d)'
<1>0. RowsHistory /\ \A d \in Docs : Purging(d) => Deletable(d)
  BY DEF BaseInvariant, PurgeFits
<1>1. ASSUME StillDeletable PROVE \A d \in Docs : Purging(d) => Deletable(d)'
  BY <1>0, <1>1 DEF StillDeletable, Deletable
<1>2. ASSUME UNCHANGED held PROVE \A v \in Workers : Stays(v)
  BY <1>2, HeldStays
<1>3. ASSUME NEW d \in Docs, OtherRequest(d)
      PROVE  /\ RowsKept /\ RowsHistory' /\ UNCHANGED <<issued, held>>
             /\ \A e \in Docs : Purging(e) => Deletable(e)'
  <2>1. Requested(d) /\ ~Purging(d)
    BY <1>3 DEF OtherRequest, Requested
  <2>2. /\ RowsKept /\ RowsHistory' /\ UNCHANGED <<issued, held>>
        /\ \A e \in Docs : e # d => doc'[e] = doc[e]
    BY <1>0, <2>1, RequestRows
  <2> QED  BY <1>0, <2>1, <2>2 DEF Deletable
<1>4. ASSUME NEW d \in Docs, TimePasses(d)
      PROVE  /\ RowsKept /\ RowsHistory' /\ UNCHANGED <<issued, held>> /\ StillDeletable
  BY <1>0, <1>4, TimeRows DEF TimePasses
<1>5. ASSUME NEW w \in Workers, LeaseStep(w)
      PROVE  /\ RowsKept /\ RowsHistory' /\ UNCHANGED issued /\ StillDeletable
             /\ \A v \in Workers : Stays(v)
  <2>1. CASE \E d \in Docs : Exhaust(w, d)
    <3>1. PICK d \in Docs : Exhaust(w, d)
      BY <2>1
    <3>2. UNCHANGED <<issued, held>>
      BY <3>1 DEF Exhaust
    <3> QED  BY <1>0, <1>2, <3>1, <3>2, ClaimRows
  <2>2. CASE Heartbeat(w) \/ HeartbeatCrash(w)
    <3>1. Stays(w) /\ WorkerStep(w)
      BY <2>2, OwnClaim DEF WorkerStep
    <3>2. \A v \in Workers : Stays(v)
      BY <3>1, OthersClaims
    <3> QED  BY <1>0, <2>2, <3>2, OwnerRows
  <2> QED  BY <1>5, <2>1, <2>2 DEF LeaseStep
<1>6. ASSUME UNCHANGED ingestVars
      PROVE  /\ RowsKept /\ RowsHistory' /\ UNCHANGED <<issued, held>> /\ StillDeletable
  BY <1>0, <1>6, NoRowChanges DEF ingestVars, queueVars
<1> QED  BY <1>1, <1>2, <1>3, <1>4, <1>5, <1>6 DEF Elsewhere

\* A worker at work moves on within its attempt, and never past its claim.
LEMMA WorkMoves ==
    ASSUME IngestTypeOK, NEW w \in Workers, WorksOn(w), WorkStages(w), JobFits(w)
    PROVE  LET s == job[w].stage
               r == job'[w].stage
           IN  /\ s # Idle /\ r \notin {Idle, "SWEEP"}
               /\ s = "SWEEP" => ~Off("CANCEL")
               /\ r \in Running \cup {"CLEAN_POINTS", "CLEAN_BM25", "CLEAN_PREFIX", "REPORT"}
                     => \/ s \in Running \cup {"CLEAN_POINTS", "CLEAN_BM25", "CLEAN_PREFIX", "REPORT"}
                        \/ Owns(w)
               /\ job'[w].armed => r \in Guarded
               /\ r \in FromSparse \/ (r = "DENSE" /\ job'[w].armed) => "POINTS" \in job'[w].touched
<1>1. PICK s, r : s = job[w].stage /\ r = job'[w].stage
  OBVIOUS
<1>2. job[w].armed \in BOOLEAN /\ job'[w].armed \in BOOLEAN
  BY DEF IngestTypeOK, WorksOn, Job
<1>3. /\ job[w].armed => s \in Guarded
      /\ s \in FromSparse \/ (s = "DENSE" /\ job[w].armed) => "POINTS" \in job'[w].touched
  BY <1>1 DEF JobFits, WorksOn
<1>4. CASE s \in Guarded /\ r = s /\ job'[w].armed /\ Touch(s) \subseteq job'[w].touched
  BY <1>1, <1>3, <1>4, StagesListed DEF Touch, FromSparse, FromDense, Idle, Off
<1>5. CASE s \in Running \ {"COMMIT"} /\ Allowed(w) /\ r = StageAfter(s) /\ ~job'[w].armed
  <2>1. s = "DENSE" => job[w].armed
    BY <1>1, <1>5 DEF Allowed, At
  <2> QED  BY <1>1, <1>3, <1>5, <2>1, StagesListed, StagesFollow DEF FromSparse, FromDense, Idle
<1>6. CASE /\ s \in Running \/ s = "CHECK" \/ (s = "SWEEP" /\ "CANCEL" \in disruptions)
           /\ r \in {"DROP_PREFIX", "CHECK"} \/ (Owns(w) /\ r = "CLEAN_POINTS")
           /\ ~job'[w].armed
  BY <1>1, <1>6, StagesListed DEF FromSparse, FromDense, Idle, Off
<1>7. CASE /\ <<s, r>> \in {<<"CLEAN_POINTS", "CLEAN_BM25">>, <<"CLEAN_BM25", "CLEAN_PREFIX">>,
                            <<"CLEAN_PREFIX", "REPORT">>, <<"DROP_PREFIX", "LEAVE">>}
           /\ ~job'[w].armed
  BY <1>1, <1>7, StagesListed DEF FromSparse, FromDense, Idle, Off
<1>8. \/ s \in Guarded /\ r = s /\ job'[w].armed /\ Touch(s) \subseteq job'[w].touched
      \/ s \in Running \ {"COMMIT"} /\ Allowed(w) /\ r = StageAfter(s) /\ ~job'[w].armed
      \/ /\ s \in Running \/ s = "CHECK" \/ (s = "SWEEP" /\ "CANCEL" \in disruptions)
         /\ r \in {"DROP_PREFIX", "CHECK"} \/ (Owns(w) /\ r = "CLEAN_POINTS")
         /\ ~job'[w].armed
      \/ /\ <<s, r>> \in {<<"CLEAN_POINTS", "CLEAN_BM25">>, <<"CLEAN_BM25", "CLEAN_PREFIX">>,
                          <<"CLEAN_PREFIX", "REPORT">>, <<"DROP_PREFIX", "LEAVE">>}
         /\ ~job'[w].armed
  BY <1>1, StagesListed DEF WorkStages
<1> QED  BY <1>1, <1>4, <1>5, <1>6, <1>7, <1>8

LEMMA WorksBase ==
    ASSUME TypeOK, IngestTypeOK, BaseInvariant, NEW w \in Workers, WorksOn(w), WorkStages(w),
           UNCHANGED <<doc, issued, held, resets, purge, disruptions>>
    PROVE  BaseInvariant'
<1>1. /\ \A v \in Workers : /\ job'[v].doc = job[v].doc /\ job'[v].attempt = job[v].attempt
                            /\ job'[v].old = job[v].old
      /\ \A v \in Workers : v # w => job'[v] = job[v]
  BY DEF WorksOn
<1>2. JobFits(w)
  BY DEF BaseInvariant
<1>3. \A v \in Workers : (Working(v)' <=> Working(v)) /\ (Owns(v)' <=> Owns(v))
  BY DEF Working, Owns
<1>4. \A d, t : Historic(d, t)' <=> Historic(d, t)
  BY <1>1 DEF Historic
<1>5. JobsApart'
  BY <1>1, <1>2, WorkMoves DEF BaseInvariant, JobsApart, At
<1>6. RowsHistory' /\ \A d \in Docs : PurgeFits(d)'
  BY DEF BaseInvariant, RowsHistory, RowHistory, PurgeFits, Purging, Deletable, Off, Published
<1>7. ASSUME NEW v \in Workers, v # w PROVE ClaimFits(v)' /\ KeepsClaim(v)' /\ JobFits(v)'
  <2>1. ClaimFits(v) /\ KeepsClaim(v) /\ JobFits(v) /\ job'[v] = job[v]
    BY <1>1, <1>7 DEF BaseInvariant
  <2>2. ClaimFits(v)'
    BY <1>3, <1>4, <2>1 DEF ClaimFits
  <2>3. KeepsClaim(v)'
    BY <1>3, <2>1 DEF KeepsClaim, Off
  <2>4. JobFits(v)'
    BY <1>3, <2>1 DEF JobFits, Published
  <2> QED  BY <2>2, <2>3, <2>4
<1>8. ClaimFits(w)' /\ KeepsClaim(w)' /\ JobFits(w)'
  <2>1. ClaimFits(w) /\ KeepsClaim(w)
    BY DEF BaseInvariant
  <2>2. PICK s, r : s = job[w].stage /\ r = job'[w].stage
    OBVIOUS
  <2>3. /\ s # Idle /\ r \notin {Idle, "SWEEP"} /\ (s = "SWEEP" => ~Off("CANCEL"))
        /\ r \in Running \cup {"CLEAN_POINTS", "CLEAN_BM25", "CLEAN_PREFIX", "REPORT"}
              => \/ s \in Running \cup {"CLEAN_POINTS", "CLEAN_BM25", "CLEAN_PREFIX", "REPORT"}
                 \/ Owns(w)
        /\ job'[w].armed => r \in Guarded
        /\ r \in FromSparse \/ (r = "DENSE" /\ job'[w].armed) => "POINTS" \in job'[w].touched
    BY <1>2, <2>2, WorkMoves
  <2>4. ClaimFits(w)'
    BY <1>1, <1>3, <1>4, <2>1, <2>2, <2>3 DEF ClaimFits
  <2>5. KeepsClaim(w)'
    BY <1>3, <2>1, <2>2, <2>3 DEF KeepsClaim, Off, Owns
  <2>6. JobFits(w)'
    BY <1>1, <1>2, <1>3, <2>2, <2>3 DEF JobFits, Published
  <2> QED  BY <2>4, <2>5, <2>6
<1> QED  BY <1>5, <1>6, <1>7, <1>8 DEF BaseInvariant

\* A DELETE locks the row of a document nobody works on, and reads what it
\* published; the row goes when the stores are done.
LEMMA PurgesBase ==
    ASSUME TypeOK, IngestTypeOK, BaseInvariant, NEW d \in Docs, Purges(d)
    PROVE  /\ BaseInvariant' /\ UNCHANGED <<issued, held>>
           /\ \A e \in Docs : e # d => doc'[e] = doc[e]
           /\ \/ doc'[d] = doc[d]
              \/ PurgeRow(d) /\ doc'[d].status = "DELETED"
<1>0. /\ RowsHistory /\ PurgeFits(d) /\ RowHistory(d) /\ doc[d] \in Row /\ issued[d] \in Nat
      /\ Published(doc[d]) \in Nat /\ purge[d].seen \in Nat
  BY PurgeTyped DEF BaseInvariant, RowsHistory, TypeOK, Published, NoToken, Row
<1>1. /\ purge' \in [Docs -> Purge] /\ UNCHANGED <<job, disruptions>>
      /\ \A e \in Docs : e # d => purge'[e] = purge[e]
  BY PurgeSteps DEF Purges
<1>2. /\ RowsHistory' /\ UNCHANGED <<issued, held>>
      /\ \A e \in Docs : e # d => doc'[e] = doc[e]
      /\ \/ doc' = doc
         \/ /\ PurgeRow(d) /\ Deletable(d) /\ doc'[d].status = "DELETED"
            /\ doc'[d].parsed = NoToken /\ doc'[d].chunks = 0
  <2>1. CASE PurgeRow(d)
    BY <1>0, <2>1, DeleteRows DEF PurgeRow
  <2>2. CASE ~PurgeRow(d)
    <3>1. UNCHANGED <<doc, issued, held>>
      BY <2>2 DEF Purges, OpenView, LockForPurge, PurgeRefused, PurgePoints, PurgeBm25,
                  PurgeObjects, PurgeAborted, queueVars
    <3> QED  BY <1>0, <3>1, NoRowChanges
  <2> QED  BY <2>1, <2>2
<1>3. /\ purge'[d].seen \in {purge[d].seen, NoToken, Published(doc[d])}
      /\ Purging(d)' => Deletable(d) /\ doc' = doc
      /\ purge'[d].stage = "ADMITTED" => ~Off("STALE_VIEW")
      /\ Purging(d)' => \/ purge'[d].seen = Published(doc[d])
                        \/ purge'[d].seen = purge[d].seen /\ (Purging(d) \/ purge[d].stage = "ADMITTED")
  <2>1. CASE OpenView(d)
    <3>1. /\ purge'[d].stage = "ADMITTED" /\ purge'[d].seen = Published(doc[d])
          /\ "STALE_VIEW" \in disruptions
      BY <2>1 DEF OpenView, IngestTypeOK
    <3> QED  BY <3>1 DEF Purging, Off
  <2>2. CASE LockForPurge(d)
    <3> DEFINE seen == IF purge[d].stage = "ADMITTED" THEN purge[d].seen ELSE Published(doc[d])
    <3>1. /\ purge'[d].stage = "POINTS" /\ purge'[d].seen = seen /\ Deletable(d)
          /\ UNCHANGED doc
      BY <2>2 DEF LockForPurge, IngestTypeOK, queueVars
    <3> QED  BY <3>1
  <2>3. CASE PurgeRefused(d) \/ PurgeAborted(d) \/ PurgeRow(d)
    <3>1. purge'[d] = IdlePurge
      BY <2>3 DEF PurgeRefused, PurgeAborted, PurgeRow, IngestTypeOK
    <3> QED  BY <3>1 DEF IdlePurge, Purging, Idle, NoToken
  <2>4. CASE PurgePoints(d) \/ PurgeBm25(d) \/ PurgeObjects(d)
    <3>1. PICK s \in {"BM25", "OBJECTS", "ROW"} : SetPurge(d, s)
      BY <2>4 DEF PurgePoints, PurgeBm25, PurgeObjects
    <3>2. purge'[d].stage = s /\ purge'[d].seen = purge[d].seen
      BY <3>1, PurgeAt DEF PurgeStage
    <3>3. Purging(d) /\ UNCHANGED doc
      BY <2>4 DEF PurgePoints, PurgeBm25, PurgeObjects, Purging, Idle, queueVars
    <3> QED  BY <1>0, <3>1, <3>2, <3>3 DEF PurgeFits
  <2> QED  BY <2>1, <2>2, <2>3, <2>4 DEF Purges
<1>4. \A e \in Docs : e # d => /\ Published(doc[e])' = Published(doc[e])
                               /\ purge'[e] = purge[e] /\ doc'[e] = doc[e]
  BY <1>1, <1>2 DEF Published
<1>5. PurgeFits(d)'
  <2>1. purge'[d].seen <= issued'[d]
    BY <1>0, <1>2, <1>3 DEF PurgeFits, Published, RowHistory, NoToken
  <2>2. Purging(d)' => Deletable(d)'
    BY <1>3 DEF Deletable
  <2>3. Off("STALE_VIEW")' => Off("STALE_VIEW")
    BY <1>1 DEF Off
  <2>4. Purging(d)' /\ Off("STALE_VIEW") => purge'[d].seen = Published(doc[d])'
    BY <1>0, <1>3 DEF PurgeFits, Published
  <2> QED  BY <1>3, <2>1, <2>2, <2>3, <2>4 DEF PurgeFits
<1>6. ASSUME NEW e \in Docs PROVE PurgeFits(e)'
  <2>1. CASE e # d
    BY <1>1, <1>2, <1>4, <1>6, <2>1 DEF BaseInvariant, PurgeFits, Purging, Deletable, Off
  <2> QED  BY <1>5, <2>1
<1>7. JobsApart'
  BY <1>1 DEF BaseInvariant, JobsApart, At
<1>8. ASSUME NEW w \in Workers PROVE ClaimFits(w)' /\ KeepsClaim(w)' /\ JobFits(w)'
  <2>1. ClaimFits(w) /\ KeepsClaim(w) /\ JobFits(w) /\ job'[w] = job[w]
        /\ (Working(w)' <=> Working(w)) /\ held'[w] = held[w]
    BY <1>1, <1>2 DEF BaseInvariant, Working
  <2>2. PICK e \in Docs, t \in Nat : e = job[w].doc /\ t = job[w].attempt
    BY JobTyped
  <2>3. Working(w) => t # NoToken
    BY <2>1, <2>2 DEF ClaimFits, JobFits, NoToken, Idle
  <2>4. Historic(e, t)' => Historic(e, t) \/ t = NoToken
    <3>1. Published(doc[d]) \in {doc[d].parsed, NoToken}
      BY DEF Published
    <3>2. CASE e = d
      BY <1>1, <1>2, <1>3, <3>1, <3>2 DEF Historic
    <3>3. CASE e # d
      BY <1>1, <1>4, <2>2, <3>3 DEF Historic
    <3> QED  BY <3>2, <3>3
  <2>5. ClaimFits(w)'
    BY <2>1, <2>2, <2>3, <2>4 DEF ClaimFits
  <2>6. KeepsClaim(w)'
    BY <1>1, <2>1 DEF KeepsClaim, Off
  <2>7. JobFits(w)'
    <3>1. Owns(w)' => Owns(w) /\ doc'[e] = doc[e]
      <4>1. Owns(w)' => held[w].doc = e
        BY <2>1, <2>2 DEF Owns, ClaimFits
      <4>2. Owns(w)' => doc'[e].status = "PROCESSING"
        BY <2>1, <4>1 DEF Owns, OwnsLease
      <4>3. Owns(w)' => doc'[e] = doc[e]
        BY <1>2, <1>4, <4>2
      <4> QED  BY <2>1, <4>1, <4>3 DEF Owns
    <3>2. job[w].stage = "SWEEP" => doc'[e].chunks = 0 \/ job[w].old # doc'[e].parsed
      BY <1>2, <1>4, <2>1, <2>2 DEF JobFits
    <3> QED  BY <1>2, <2>1, <2>2, <3>1, <3>2 DEF JobFits, Published
  <2> QED  BY <2>5, <2>6, <2>7
<1> QED  BY <1>2, <1>6, <1>7, <1>8 DEF BaseInvariant

\* The end of an attempt ends its claim; only the commit publishes something.
LEMMA EndClaims ==
    ASSUME TypeOK, QueueInvariant, IngestTypeOK, BaseInvariant, LostForever,
           NEW w \in Workers, Ends(w)
    PROVE  /\ ~Working(w)' /\ UNCHANGED issued
           /\ \A v \in Workers : v # w => held'[v] = held[v] /\ Stays(v)
           /\ Commit(w) \/ (job'[w] = IdleJob /\ RowsKept /\ RowsHistory' /\ StillDeletable)
<1>0. RowsHistory /\ ClaimFits(w)
  BY DEF BaseInvariant
<1>1. CASE UNCHANGED <<doc, issued, held>>
  <2>1. ~Working(w)
    <3>1. ~Commit(w) /\ ~Report(w)
      <4>1. ASSUME held'[w] = NoClaim, Working(w) PROVE FALSE
        BY <1>1, <4>1 DEF Working
      <4>2. ASSUME Finish(w) \/ Fail(w, TRUE) \/ Fail(w, FALSE) \/ GiveUpLostLease(w) \/ Crash(w)
            PROVE  FALSE
        <5>1. Working(w) /\ held'[w] = NoClaim
          BY <4>2 DEF Finish, Fail, GiveUpLostLease, Crash, Owns, Release, TypeOK
        <5> QED  BY <4>1, <5>1
      <4> QED  BY <4>2 DEF Commit, Report
    <3>2. CASE Sweep(w)
      BY <1>0, <3>2 DEF Sweep, At, ClaimFits
    <3>3. CASE Leave(w) \/ WorkerDies(w)
      <4>1. (GiveUpLostLease(w) \/ Crash(w)) => held'[w] = NoClaim
        BY DEF GiveUpLostLease, Crash, Release, TypeOK
      <4> QED  BY <1>1, <3>3, <4>1 DEF Leave, WorkerDies, Working
    <3> QED  BY <3>1, <3>2, <3>3 DEF Ends
  <2>2. \A v \in Workers : v # w => held'[v] = held[v] /\ Stays(v)
    BY <1>1, HeldStays
  <2>3. ~Commit(w) => job'[w] = IdleJob
    BY EndsAre
  <2> QED  BY <1>0, <1>1, <2>1, <2>2, <2>3, NoRowChanges DEF Working
<1>2. CASE ~UNCHANGED <<doc, issued, held>>
  <2>1. WorkerStep(w)
    BY <1>2, EndsKind DEF queueVars, FaultOnly
  <2>2. \A v \in Workers : v # w => held'[v] = held[v] /\ Stays(v)
    BY <2>1, OthersClaims
  <2>3. \/ Finish(w) \/ Fail(w, TRUE) \/ Fail(w, FALSE) \/ GiveUpLostLease(w) \/ Crash(w)
    BY <1>2 DEF Ends, Commit, Sweep, Report, Leave, WorkerDies, queueVars
  <2>4. ~Working(w)' /\ UNCHANGED issued
    BY <2>3 DEF Finish, Fail, GiveUpLostLease, Crash, Release, Working, TypeOK
  <2>5. ~Commit(w) => /\ job'[w] = IdleJob
                      /\ Fail(w, TRUE) \/ Fail(w, FALSE) \/ GiveUpLostLease(w) \/ Crash(w)
    BY <1>2, EndsAre DEF Ends, Sweep, Report, Leave, WorkerDies, queueVars
  <2>6. ~Commit(w) => RowsKept /\ RowsHistory' /\ StillDeletable
    BY <1>0, <2>5, OwnerRows
  <2> QED  BY <2>2, <2>4, <2>5, <2>6
<1> QED  BY <1>1, <1>2

LEMMA IdleBase ==
    ASSUME NEW w \in Workers, ~Working(w)', job'[w] = IdleJob
    PROVE  ClaimFits(w)' /\ KeepsClaim(w)' /\ JobFits(w)'
<1>1. /\ job'[w].stage = Idle /\ job'[w].old = NoToken /\ job'[w].armed = FALSE /\ ~Owns(w)'
  BY DEF IdleJob, Owns
<1> QED  BY <1>1, StagesListed DEF ClaimFits, KeepsClaim, JobFits, FromSparse, FromDense, Idle

LEMMA EndsBase ==
    ASSUME TypeOK, QueueInvariant, IngestTypeOK, BaseInvariant, LostForever,
           NEW w \in Workers, Ends(w), ~Commit(w)
    PROVE  BaseInvariant'
<1>1. /\ \A v \in Workers : v # w => job'[v] = job[v] /\ held'[v] = held[v] /\ Stays(v)
      /\ job'[w] = IdleJob /\ ~Working(w)'
      /\ UNCHANGED <<issued, purge, disruptions>> /\ RowsKept /\ RowsHistory' /\ StillDeletable
  BY EndClaims, EndsAre
<1>2. ClaimFits(w)' /\ KeepsClaim(w)' /\ JobFits(w)'
  BY <1>1, IdleBase
<1>3. IdleJob.stage = Idle /\ IdleJob.old = NoToken
  BY DEF IdleJob
<1>4. JobsApart'
  BY <1>1, <1>3 DEF BaseInvariant, JobsApart, At
<1>5. \A d \in Docs : Published(doc[d])' = Published(doc[d])
  BY <1>1 DEF Published, RowsKept
<1>6. ASSUME NEW v \in Workers, v # w PROVE ClaimFits(v)' /\ KeepsClaim(v)' /\ JobFits(v)'
  <2>1. ClaimFits(v) /\ KeepsClaim(v) /\ JobFits(v) /\ Stays(v) /\ job'[v] = job[v]
    BY <1>1, <1>6 DEF BaseInvariant
  <2>2. PICK e \in Docs, t \in Nat : e = job[v].doc /\ t = job[v].attempt
    BY JobTyped
  <2>3. Working(v) => t # NoToken
    BY <2>1, <2>2 DEF ClaimFits, JobFits, NoToken, Idle
  <2>4. Historic(e, t)' => Historic(e, t) \/ t = NoToken
    BY <1>1, <1>3 DEF Historic, RowsKept
  <2>5. ClaimFits(v)'
    BY <2>1, <2>2, <2>3, <2>4 DEF ClaimFits, Stays
  <2>6. KeepsClaim(v)'
    BY <1>1, <2>1 DEF KeepsClaim, Stays, Off
  <2>7. JobFits(v)'
    BY <1>1, <1>5, <2>1, <2>2 DEF JobFits, Stays, RowsKept
  <2> QED  BY <2>5, <2>6, <2>7
<1>7. ASSUME NEW d \in Docs PROVE PurgeFits(d)'
  BY <1>1, <1>5, <1>7 DEF BaseInvariant, PurgeFits, Purging, Off, StillDeletable, Deletable
<1> QED  BY <1>1, <1>2, <1>4, <1>6, <1>7 DEF BaseInvariant

\* What the READY commit publishes is the attempt of the worker, the newest.
LEMMA CommitIs ==
    ASSUME TypeOK, QueueInvariant, IngestTypeOK, BaseInvariant, NEW w \in Workers, Commit(w)
    PROVE  LET d == job[w].doc IN
           /\ d \in Docs /\ held[w].doc = d /\ Owns(w) /\ RowsHistory' /\ UNCHANGED issued
           /\ doc[d].status = "PROCESSING" /\ job[w].attempt = issued[d] /\ ~Purging(d)
           /\ doc'[d].status = "READY" /\ doc'[d].parsed = issued[d] /\ doc'[d].chunks # 0
           /\ \A e \in Docs : e # d => doc'[e] = doc[e]
           /\ job'[w].stage = "CHECK" => ~Off("LOST_COMMIT")
           /\ job'[w].stage \in {"SWEEP", "CHECK"} /\ WorksOn(w) /\ ~job'[w].armed
<1>1. Finish(w) /\ RowsHistory /\ ClaimFits(w)
  BY DEF Commit, BaseInvariant
<1>2. PICK d : d = held[w].doc
  OBVIOUS
<1>3. /\ d \in Docs /\ Owns(w) /\ RowsHistory' /\ UNCHANGED issued
      /\ doc[d].status = "PROCESSING" /\ held[w].lease = issued[d]
      /\ doc'[d].status = "READY" /\ doc'[d].parsed = held[w].lease /\ doc'[d].chunks # 0
      /\ \A e \in Docs : e # d => doc'[e] = doc[e]
  BY <1>1, <1>2, FinishRows
<1>4. d = job[w].doc /\ held[w].lease = job[w].attempt
  BY <1>1, <1>2, <1>3 DEF ClaimFits, Owns
<1>5. ~Purging(d)
  BY <1>3 DEF BaseInvariant, PurgeFits, Deletable
<1>6. /\ job'[w].stage \in {"SWEEP", "CHECK"} /\ WorksOn(w) /\ ~job'[w].armed
      /\ job'[w].stage = "CHECK" => ~Off("LOST_COMMIT")
  <2>1. \/ GoTo(w, "SWEEP")
        \/ "LOST_COMMIT" \in disruptions /\ GoTo(w, "CHECK")
    BY DEF Commit
  <2>2. GoTo(w, "SWEEP") => job'[w].stage = "SWEEP" /\ WorksOn(w) /\ ~job'[w].armed
    BY GoesTo
  <2>3. GoTo(w, "CHECK") => job'[w].stage = "CHECK" /\ WorksOn(w) /\ ~job'[w].armed
    BY GoesTo DEF Handler
  <2> QED  BY <2>1, <2>2, <2>3 DEF Off
<1> QED  BY <1>2, <1>3, <1>4, <1>5, <1>6

LEMMA CommitBase ==
    ASSUME TypeOK, QueueInvariant, IngestTypeOK, BaseInvariant, LostForever,
           NEW w \in Workers, Commit(w)
    PROVE  BaseInvariant'
<1>1. PICK d \in Docs, t \in Nat : d = job[w].doc /\ t = issued[d]
  BY JobTyped DEF TypeOK
<1>2. /\ held[w].doc = d /\ Owns(w) /\ RowsHistory' /\ UNCHANGED issued
      /\ doc[d].status = "PROCESSING" /\ job[w].attempt = t /\ ~Purging(d)
      /\ doc'[d].status = "READY" /\ doc'[d].parsed = t /\ doc'[d].chunks # 0
      /\ \A e \in Docs : e # d => doc'[e] = doc[e]
      /\ job'[w].stage = "CHECK" => ~Off("LOST_COMMIT")
      /\ job'[w].stage \in {"SWEEP", "CHECK"} /\ WorksOn(w) /\ ~job'[w].armed
  BY <1>1, CommitIs
<1>3. /\ \A v \in Workers : v # w => job'[v] = job[v] /\ held'[v] = held[v] /\ Stays(v)
      /\ ~Working(w)' /\ UNCHANGED <<purge, disruptions>>
  BY EndClaims, EndsAre DEF Ends
<1>4. At(w, "COMMIT") /\ JobFits(w)
  BY DEF Commit, BaseInvariant
<1>5. JobsApart'
  BY <1>2, <1>3, <1>4 DEF BaseInvariant, JobsApart, At, WorksOn, Idle
<1>6. ClaimFits(w)' /\ KeepsClaim(w)' /\ JobFits(w)'
  <2>1. ClaimFits(w)'
    BY <1>3 DEF ClaimFits
  <2>2. KeepsClaim(w)'
    BY <1>2, <1>3, StagesListed DEF KeepsClaim, Off
  <2>3. job[w].old < t
    BY <1>2, <1>4 DEF JobFits, At, Idle
  <2>4. JobFits(w)'
    <3>1. job[w].old \in Nat /\ job[w].attempt \in 1 .. issued[d]
      BY <1>1, <1>4, JobTyped DEF JobFits, At, Idle
    <3>2. job'[w].old # doc'[d].parsed /\ job'[w].doc = d /\ ~Owns(w)'
      BY <1>1, <1>2, <1>3, <2>3, <3>1 DEF WorksOn, Owns
    <3> QED  BY <1>1, <1>2, <1>3, <2>3, <3>1, <3>2 DEF JobFits, WorksOn, FromSparse, FromDense, Idle
  <2> QED  BY <2>1, <2>2, <2>4
<1>7. ASSUME NEW v \in Workers, v # w PROVE ClaimFits(v)' /\ KeepsClaim(v)' /\ JobFits(v)'
  <2>1. ClaimFits(v) /\ KeepsClaim(v) /\ JobFits(v) /\ Stays(v) /\ job'[v] = job[v]
    BY <1>3, <1>7 DEF BaseInvariant
  <2>2. PICK e \in Docs, u \in Nat : e = job[v].doc /\ u = job[v].attempt
    BY JobTyped
  <2>3. Historic(e, u)' => Historic(e, u) \/ (e = d /\ u = t)
    <3>1. /\ \A x \in Workers : job'[x].doc = job[x].doc /\ job'[x].old = job[x].old
          /\ purge'[e] = purge[e]
      BY <1>2, <1>3 DEF WorksOn
    <3> QED  BY <1>2, <3>1 DEF Historic
  <2>4. Working(v) => ~(e = d /\ u = t)
    BY <1>1, <1>2, <1>4, <1>7, <2>1, <2>2 DEF ClaimFits, BaseInvariant, JobsApart, At, Idle
  <2>5. ClaimFits(v)'
    BY <2>1, <2>2, <2>3, <2>4 DEF ClaimFits, Stays
  <2>6. KeepsClaim(v)'
    BY <1>3, <2>1 DEF KeepsClaim, Stays, Off
  <2>7. JobFits(v)'
    <3>1. Owns(v)' => Owns(v) /\ e # d
      <4>1. Owns(v) => held[v].doc = e
        BY <2>1, <2>2 DEF Owns, ClaimFits
      <4> QED  BY <1>2, <1>7, <2>1, <4>1, OneOwner DEF Stays, SingleOwner
    <3>2. Owns(v)' => Owns(v) /\ Published(doc[e])' = Published(doc[e])
      BY <1>2, <3>1 DEF Published
    <3>3. job[v].stage = "SWEEP" => doc'[e].chunks = 0 \/ job[v].old # doc'[e].parsed
      <4>1. CASE e # d
        BY <1>2, <2>1, <2>2, <4>1 DEF JobFits
      <4>2. CASE e = d /\ job[v].stage = "SWEEP"
        <5>1. job[v].old \in Nat /\ u <= t /\ job[v].old < u
          BY <1>1, <2>1, <2>2, <4>2, JobTyped DEF JobFits, Idle
        <5> QED  BY <1>2, <4>2, <5>1
      <4> QED  BY <4>1, <4>2
    <3> QED  BY <1>2, <1>3, <2>1, <2>2, <3>2, <3>3 DEF JobFits
  <2> QED  BY <2>5, <2>6, <2>7
<1>8. ASSUME NEW e \in Docs PROVE PurgeFits(e)'
  <2>1. CASE e # d
    BY <1>2, <1>3, <1>8, <2>1 DEF BaseInvariant, PurgeFits, Purging, Off, Deletable, Published
  <2>2. CASE e = d
    BY <1>2, <1>3, <2>2 DEF BaseInvariant, PurgeFits, Purging, Off
  <2> QED  BY <2>1, <2>2
<1> QED  BY <1>2, <1>5, <1>6, <1>7, <1>8 DEF BaseInvariant

\* The token of a new attempt is newer than every other.
LEMMA StartBase ==
    ASSUME TypeOK, QueueInvariant, IngestTypeOK, BaseInvariant, LostForever,
           NEW w \in Workers, NEW d \in Docs, StartAttempt(w, d)
    PROVE  /\ BaseInvariant'
           /\ RowsKept /\ StillDeletable /\ \A v \in Workers : v # w => Stays(v)
<1>0. RowsHistory /\ RowHistory(d) /\ issued[d] \in Nat /\ Grant(w, d)
  BY DEF BaseInvariant, RowsHistory, TypeOK, StartAttempt
<1>1. /\ \A v \in Workers : v # w => job'[v] = job[v]
      /\ job'[w].doc = d /\ job'[w].attempt = issued[d] + 1
      /\ job'[w].old = Published(doc[d]) /\ job'[w].stage = "PARSE" /\ ~job'[w].armed
      /\ issued'[d] = issued[d] + 1 /\ \A e \in Docs : e # d => issued'[e] = issued[e]
      /\ At(w, Idle) /\ UNCHANGED <<purge, disruptions>>
  BY StartIs
<1>2. RowsKept /\ RowsHistory' /\ StillDeletable
  BY <1>0, ClaimRows
<1>3. \A v \in Workers : v # w => held'[v] = held[v] /\ Stays(v)
  BY <1>0, OthersClaims DEF WorkerStep
<1>4. held'[w].doc = d /\ held'[w].lease = issued[d] + 1 /\ Working(w)'
  <2>1. held'[w] = [doc |-> d, lease |-> issued[d] + 1, attempt |-> doc[d].attempts + 1,
                    replace |-> doc[d].reparse, version |-> doc[d].version,
                    pulse |-> "BEATING"]
    BY <1>0 DEF Grant, TypeOK
  <2>2. held'[w] \in Claim
    <3>1. /\ issued[d] + 1 \in Nat /\ doc[d].attempts + 1 \in Nat /\ doc[d].reparse \in BOOLEAN
          /\ doc[d].version \in Nat
      BY DEF TypeOK, Row
    <3> QED  BY <2>1, <3>1 DEF Claim, Pulse
  <2> QED  BY <2>1, <2>2, NoClaimAssumption DEF Working
<1>5. \A e \in Docs : Published(doc[e])' = Published(doc[e])
  BY <1>2 DEF Published, RowsKept
<1>6. \A e \in Docs : issued[e] \in Nat /\ issued'[e] \in Nat /\ issued[e] <= issued'[e]
  BY <1>0, <1>1 DEF TypeOK
\* Every attempt known so far is older.
<1>7. ASSUME NEW v \in Workers, v # w
      PROVE  /\ job[v].old \in Nat /\ job[v].attempt \in Nat
             /\ job[v].stage # Idle /\ job[v].doc = d => job[v].attempt <= issued[d]
             /\ job[v].doc = d => job[v].old <= issued[d]
  <2>1. job[v].old \in Nat /\ job[v].attempt \in Nat /\ JobFits(v)
    BY <1>7, JobTyped DEF BaseInvariant
  <2> QED  BY <1>0, <2>1 DEF JobFits, NoToken
<1>8. Published(doc[d]) \in Nat /\ Published(doc[d]) <= issued[d]
  BY <1>0 DEF Published, RowHistory, NoToken, TypeOK, Row
<1>9. JobsApart'
  BY <1>0, <1>1, <1>7 DEF BaseInvariant, JobsApart, At
<1>10. ClaimFits(w)' /\ KeepsClaim(w)' /\ JobFits(w)'
  <2>0. PICK t \in Nat : t = issued[d] + 1
    BY <1>0
  <2>1. ~Historic(d, t)'
    <3>1. /\ doc'[d].parsed \in Nat /\ doc'[d].parsed <= issued[d]
          /\ purge'[d].seen \in Nat /\ purge'[d].seen <= issued[d]
      BY <1>0, <1>1, <1>2, PurgeTyped
      DEF RowsKept, RowHistory, BaseInvariant, PurgeFits, TypeOK, Row
    <3>2. \A v \in Workers : job'[v].doc = d => job'[v].old \in Nat /\ job'[v].old <= issued[d]
      BY <1>1, <1>7, <1>8
    <3> QED  BY <1>0, <2>0, <3>1, <3>2 DEF Historic
  <2>2. ClaimFits(w)'
    BY <1>1, <1>4, <2>0, <2>1 DEF ClaimFits, Idle
  <2>3. KeepsClaim(w)'
    BY <1>4 DEF KeepsClaim
  <2>4. JobFits(w)'
    BY <1>0, <1>1, <1>5, <1>8, StagesListed DEF JobFits, Idle, FromSparse, FromDense
  <2> QED  BY <2>2, <2>3, <2>4
<1>11. ASSUME NEW v \in Workers, v # w PROVE ClaimFits(v)' /\ KeepsClaim(v)' /\ JobFits(v)'
  <2>1. ClaimFits(v) /\ KeepsClaim(v) /\ JobFits(v) /\ Stays(v) /\ job'[v] = job[v]
    BY <1>1, <1>3, <1>11 DEF BaseInvariant
  <2>2. PICK e \in Docs, u \in Nat : e = job[v].doc /\ u = job[v].attempt
    BY JobTyped
  <2>3. Historic(e, u)' => Historic(e, u) \/ (e = d /\ u = Published(doc[d]))
    BY <1>1, <1>2 DEF Historic, RowsKept
  <2>4. Working(v) => u # NoToken
    BY <2>1, <2>2 DEF ClaimFits, JobFits, NoToken, Idle
  <2>5. e = d /\ u = Published(doc[d]) => Historic(e, u) \/ u = NoToken
    BY DEF Published, Historic
  <2>6. ClaimFits(v)'
    BY <2>1, <2>2, <2>3, <2>4, <2>5 DEF ClaimFits, Stays
  <2>7. KeepsClaim(v)'
    BY <1>1, <2>1 DEF KeepsClaim, Stays, Off
  <2>8. JobFits(v)'
    BY <1>2, <1>5, <1>6, <2>1, <2>2 DEF JobFits, Stays, RowsKept
  <2> QED  BY <2>6, <2>7, <2>8
<1>12. ASSUME NEW e \in Docs PROVE PurgeFits(e)'
  <2>1. PurgeFits(e) /\ purge[e].seen \in Nat
    BY <1>12, PurgeTyped DEF BaseInvariant
  <2> QED  BY <1>1, <1>2, <1>5, <1>6, <2>1 DEF PurgeFits, Purging, Off, StillDeletable, Deletable
<1> QED  BY <1>2, <1>3, <1>9, <1>10, <1>11, <1>12 DEF BaseInvariant

-----------------------------------------------------------------------------
(* What a step does to the stores *)

\* The calls of a stage, or of the clean-up, on the stores of the document.
WorkCalls(w) ==
    LET s == job[w].stage IN
    \/ UNCHANGED stores
    \/ s \in Running \ {"COMMIT"} /\ Allowed(w) /\ EffectOn(w)
    \/ s \in {"CLEAN_POINTS", "CLEAN_BM25", "CLEAN_PREFIX", "DROP_PREFIX"} /\ CleanedBy(w, s)

LEMMA WorkStores ==
    ASSUME IngestTypeOK, NEW w \in Workers, WorkStages(w)
    PROVE  /\ StoresTyped' /\ OnlyStoresOf(job[w].doc) /\ WorkCalls(w)
           /\ UNCHANGED abandoned \/ Abandon(w)
<1>1. ASSUME UNCHANGED stores PROVE StoresTyped' /\ OnlyStoresOf(job[w].doc) /\ WorkCalls(w)
  BY <1>1 DEF IngestTypeOK, StoresTyped, OnlyStoresOf, WorkCalls, stores
<1>2. ASSUME job[w].stage \in Running \ {"COMMIT"}, Allowed(w), Effect(w)
      PROVE  StoresTyped' /\ OnlyStoresOf(job[w].doc) /\ WorkCalls(w)
  BY <1>2, EffectIs DEF WorkCalls
<1>3. ASSUME job[w].stage \in {"CLEAN_POINTS", "CLEAN_BM25", "CLEAN_PREFIX", "DROP_PREFIX"},
             StoresTyped', OnlyStoresOf(job[w].doc), CleanedBy(w, job[w].stage)
      PROVE  StoresTyped' /\ OnlyStoresOf(job[w].doc) /\ WorkCalls(w)
  BY <1>3 DEF WorkCalls
<1>4. \/ UNCHANGED stores
      \/ job[w].stage \in Running \ {"COMMIT"} /\ Allowed(w) /\ Effect(w)
      \/ /\ job[w].stage \in {"CLEAN_POINTS", "CLEAN_BM25", "CLEAN_PREFIX", "DROP_PREFIX"}
         /\ StoresTyped' /\ OnlyStoresOf(job[w].doc) /\ CleanedBy(w, job[w].stage)
  BY DEF WorkStages
<1>5. UNCHANGED abandoned \/ Abandon(w)
  BY DEF WorkStages
<1> QED  BY <1>1, <1>2, <1>3, <1>4, <1>5

\* A worker takes away the vectors of the attempt it replaces and its own, and
\* the directory of its own attempt.
LEMMA WorkRemoves ==
    ASSUME NEW w \in Workers, WorkCalls(w), NEW d, d = job[w].doc
    PROVE  /\ \A t : \/ t \in dense[d] => t \in dense'[d]
                     \/ t = job[w].old /\ At(w, "UNLINK")
                     \/ t = job[w].attempt /\ At(w, "CLEAN_POINTS")
           /\ \A t : \/ t \in sparse[d] => t \in sparse'[d]
                     \/ t = job[w].old /\ At(w, "UNLINK")
                     \/ t = job[w].attempt /\ At(w, "CLEAN_POINTS")
           /\ \A o \in objects[d] :
                 \/ o \in objects'[d]
                 \/ o[1] = job[w].attempt /\ job[w].stage \in {"CLEAN_PREFIX", "DROP_PREFIX"}
<1>1. CASE UNCHANGED stores
  BY <1>1 DEF stores
<1>2. CASE EffectOn(w)
  BY <1>2 DEF EffectOn, At
<1>3. ASSUME NEW s, s = job[w].stage, CleanedBy(w, s),
             s \in {"CLEAN_POINTS", "CLEAN_BM25", "CLEAN_PREFIX", "DROP_PREFIX"}
      PROVE  /\ \A t : \/ t \in dense[d] => t \in dense'[d]
                       \/ t = job[w].attempt /\ s = "CLEAN_POINTS"
             /\ \A t : \/ t \in sparse[d] => t \in sparse'[d]
                       \/ t = job[w].attempt /\ s = "CLEAN_POINTS"
             /\ \A o \in objects[d] : \/ o \in objects'[d]
                                      \/ o[1] = job[w].attempt
                                         /\ s \in {"CLEAN_PREFIX", "DROP_PREFIX"}
  BY <1>3 DEF CleanedBy
<1> QED  BY <1>1, <1>2, <1>3 DEF WorkCalls, At

\* A DELETE empties the stores of its document one by one, under the lock.
PurgeCalls(d) ==
    LET s == purge[d].stage
        r == purge'[d].stage
        t == purge[d].seen
    IN  \/ s \in {Idle, "ADMITTED"} /\ r \in {Idle, "ADMITTED", "POINTS"} /\ UNCHANGED <<stores, doc>>
        \/ /\ s = "POINTS" /\ r = "BM25" /\ UNCHANGED <<bm25, objects, doc>>
           /\ dense'[d] = dense[d] \ {t} /\ sparse'[d] = sparse[d] \ {t}
        \/ s = "BM25" /\ r = "OBJECTS" /\ bm25'[d] = {} /\ UNCHANGED <<dense, sparse, objects, doc>>
        \/ s = "OBJECTS" /\ r = "ROW" /\ UNCHANGED <<dense, sparse, bm25, doc>>
        \/ s = "ROW" /\ r = Idle /\ UNCHANGED stores /\ PurgeRow(d)
        \/ Purging(d) /\ r = Idle /\ ~Off("PURGE_ABORTED") /\ UNCHANGED <<stores, doc>>

LEMMA PurgeStores ==
    ASSUME TypeOK, IngestTypeOK, NEW d \in Docs, Purges(d)
    PROVE  PurgeCalls(d)
<1>1. CASE OpenView(d) \/ LockForPurge(d) \/ PurgeRefused(d)
  <2>1. purge'[d].stage \in {Idle, "ADMITTED", "POINTS"}
    BY <1>1 DEF OpenView, LockForPurge, PurgeRefused, IngestTypeOK, IdlePurge
  <2> QED  BY <1>1, <2>1 DEF OpenView, LockForPurge, PurgeRefused, PurgeCalls, queueVars
<1>2. CASE PurgePoints(d)
  <2>1. purge'[d].stage = "BM25"
    BY <1>2, PurgeAt DEF PurgePoints, PurgeStage
  <2>2. /\ dense' = [dense EXCEPT ![d] = @ \ {purge[d].seen}]
        /\ sparse' = [sparse EXCEPT ![d] = @ \ {purge[d].seen}]
    BY <1>2 DEF PurgePoints, Drop
  <2>3. dense'[d] = dense[d] \ {purge[d].seen} /\ sparse'[d] = sparse[d] \ {purge[d].seen}
    BY <2>2 DEF IngestTypeOK
  <2> QED  BY <1>2, <2>1, <2>3 DEF PurgePoints, PurgeCalls, queueVars
<1>3. CASE PurgeBm25(d)
  <2>1. purge'[d].stage = "OBJECTS"
    BY <1>3, PurgeAt DEF PurgeBm25, PurgeStage
  <2>2. bm25'[d] = {}
    BY <1>3 DEF PurgeBm25, IngestTypeOK
  <2> QED  BY <1>3, <2>1, <2>2 DEF PurgeBm25, PurgeCalls, queueVars
<1>4. CASE PurgeObjects(d)
  <2>1. purge'[d].stage = "ROW"
    BY <1>4, PurgeAt DEF PurgeObjects, PurgeStage
  <2> QED  BY <1>4, <2>1 DEF PurgeObjects, PurgeCalls, queueVars
<1>5. CASE PurgeRow(d)
  <2>1. purge'[d].stage = Idle /\ UNCHANGED stores
    BY <1>5 DEF PurgeRow, IngestTypeOK, IdlePurge
  <2> QED  BY <1>5, <2>1 DEF PurgeRow, PurgeCalls
<1>6. CASE PurgeAborted(d)
  <2>1. purge'[d].stage = Idle /\ UNCHANGED <<stores, doc>>
    BY <1>6 DEF PurgeAborted, IngestTypeOK, IdlePurge
  <2> QED  BY <1>6, <2>1 DEF PurgeAborted, PurgeCalls, Purging, Off, Idle
<1> QED  BY <1>1, <1>2, <1>3, <1>4, <1>5, <1>6 DEF Purges

LEMMA IngestTypeStep ==
    ASSUME TypeOK, QueueInvariant, IngestTypeOK, BaseInvariant, [IngestNext]_ingestVars
    PROVE  IngestTypeOK' /\ UNCHANGED disruptions
<1>1. ASSUME job' \in [Workers -> Job], StoresTyped', purge' \in [Docs -> Purge],
             abandoned' \in [Docs -> SUBSET Nat], UNCHANGED disruptions
      PROVE  IngestTypeOK'
  BY <1>1 DEF IngestTypeOK, StoresTyped
<1>2. StoresTyped /\ (UNCHANGED stores => StoresTyped')
  BY DEF IngestTypeOK, StoresTyped, stores
<1>3. CASE Elsewhere
  BY <1>1, <1>2, <1>3, ElsewhereIs DEF IngestTypeOK
<1>4. ASSUME NEW d \in Docs, Purges(d) PROVE IngestTypeOK' /\ UNCHANGED disruptions
  BY <1>1, <1>4, PurgeSteps DEF Purges, IngestTypeOK
<1>5. ASSUME NEW w \in Workers, Works(w) PROVE IngestTypeOK' /\ UNCHANGED disruptions
  <2>1. job[w].armed => job[w].stage \in Guarded
    BY <1>5 DEF BaseInvariant, JobFits
  <2>2. WorksOn(w) /\ WorkStages(w) /\ UNCHANGED <<purge, disruptions>>
    BY <1>5, <2>1, WorkIs
  <2>3. StoresTyped' /\ abandoned' \in [Docs -> SUBSET Nat]
    BY <2>2, WorkStores, AbandonTyped
  <2> QED  BY <1>1, <2>2, <2>3 DEF WorksOn, IngestTypeOK
<1>6. ASSUME NEW w \in Workers, Ends(w) PROVE IngestTypeOK' /\ UNCHANGED disruptions
  BY <1>1, <1>6, EndsAre, AbandonTyped DEF IngestTypeOK
<1>7. ASSUME NEW w \in Workers, NEW d \in Docs, StartAttempt(w, d)
      PROVE  IngestTypeOK' /\ UNCHANGED disruptions
  BY <1>1, <1>2, <1>7, StartIs DEF IngestTypeOK
<1> QED  BY <1>3, <1>4, <1>5, <1>6, <1>7, IngestSteps

LEMMA BaseStep ==
    ASSUME TypeOK, QueueInvariant, IngestTypeOK, BaseInvariant, [IngestNext]_ingestVars
    PROVE  BaseInvariant'
<1>1. LostForever
  BY QueueHolds
<1>2. CASE Elsewhere
  BY <1>1, <1>2, ElsewhereRows, ElsewhereIs, BaseFrame
<1>3. ASSUME NEW d \in Docs, Purges(d) PROVE BaseInvariant'
  BY <1>3, PurgesBase
<1>4. ASSUME NEW w \in Workers, Works(w) PROVE BaseInvariant'
  <2>1. job[w].armed => job[w].stage \in Guarded
    BY <1>4 DEF BaseInvariant, JobFits
  <2> QED  BY <1>4, <2>1, WorkIs, WorksBase
<1>5. ASSUME NEW w \in Workers, Ends(w) PROVE BaseInvariant'
  BY <1>1, <1>5, EndsBase, CommitBase
<1>6. ASSUME NEW w \in Workers, NEW d \in Docs, StartAttempt(w, d) PROVE BaseInvariant'
  BY <1>1, <1>6, StartBase
<1> QED  BY <1>2, <1>3, <1>4, <1>5, <1>6, IngestSteps

-----------------------------------------------------------------------------
(* Published vectors and text *)

\* What an owner has stored so far, nobody has taken away.
OwnerWrote(w) ==
    Owns(w) =>
        LET j == job[w]
            d == job[w].doc
        IN  /\ j.stage \in FromDense => <<j.attempt, "MARKDOWN">> \in objects[d]
            /\ j.stage \in FromSparse => j.attempt \in dense[d]
            /\ j.stage \in FromClear => j.attempt \in sparse[d]

\* What d points to has its vectors, unless a DELETE is or was under way.
PointsIn(d) ==
    Off("PURGE_ABORTED") /\ Settled(d) => doc[d].parsed \in dense[d] \cap sparse[d]

TextIn(d) ==
    Off("PURGE_ABORTED") /\ Off("CANCEL") /\ Off("LOST_COMMIT")
        /\ doc[d].chunks # 0 /\ ~Purging(d)
    => <<doc[d].parsed, "MARKDOWN">> \in objects[d]

ContentInvariant ==
    /\ \A w \in Workers : OwnerWrote(w)
    /\ \A d \in Docs : PointsIn(d) /\ TextIn(d)

LEMMA ContentStarts == IngestInit => ContentInvariant
<1> SUFFICES ASSUME IngestInit PROVE ContentInvariant
  OBVIOUS
<1>1. /\ \A w \in Workers : ~Owns(w)
      /\ \A d \in Docs : doc[d] = NoRow
  BY DEF IngestInit, QueueInit, Owns, Working
<1>2. NoRow.status = "ABSENT" /\ NoRow.chunks = 0
  BY DEF NoRow
<1> QED  BY <1>1, <1>2 DEF ContentInvariant, OwnerWrote, PointsIn, TextIn, Settled

\* An owner works on the document its claim names.
LEMMA OwnerWorks ==
    ASSUME TypeOK, QueueInvariant, IngestTypeOK, BaseInvariant, NEW w \in Workers, Owns(w)
    PROVE  LET d == job[w].doc IN
           /\ held[w].doc = d /\ doc[d].status = "PROCESSING" /\ ~Purging(d) /\ Working(w)
           /\ job[w].attempt = issued[d] /\ job[w].old < job[w].attempt
           /\ job[w].stage \notin {Idle, "SWEEP"} /\ ~Historic(d, job[w].attempt)
<1>1. PICK d : d = held[w].doc
  OBVIOUS
<1>2. /\ d \in Docs /\ doc[d].status = "PROCESSING" /\ Working(w) /\ held[w].lease = issued[d]
  BY <1>1, OwnerFacts DEF Owns
<1>3. ClaimFits(w) /\ JobFits(w) /\ PurgeFits(d)
  BY <1>2 DEF BaseInvariant
<1> QED  BY <1>1, <1>2, <1>3 DEF ClaimFits, JobFits, PurgeFits, Deletable

\* Two workers at the same document: what one may remove is not of the other's
\* attempt, nor what the row publishes.
LEMMA NotMine ==
    ASSUME TypeOK, QueueInvariant, IngestTypeOK, BaseInvariant,
           NEW w \in Workers, job[w].stage # Idle, NEW d \in Docs, d = job[w].doc
    PROVE  /\ \A v \in Workers : v # w /\ Owns(v) /\ job[v].doc = d
                 => job[v].attempt # job[w].attempt /\ job[v].attempt # job[w].old
           /\ Working(w) => job[w].attempt # doc[d].parsed
           /\ doc[d].status = "READY" => job[w].old # doc[d].parsed
<1>1. ASSUME NEW v \in Workers, v # w, Owns(v), job[v].doc = d
      PROVE  job[v].attempt # job[w].attempt /\ job[v].attempt # job[w].old
  <2>1. job[v].stage # Idle /\ ~Historic(d, job[v].attempt)
    BY <1>1, OwnerWorks
  <2> QED  BY <1>1, <2>1 DEF BaseInvariant, JobsApart, At, Historic
<1>2. Working(w) => job[w].attempt # doc[d].parsed
  BY DEF BaseInvariant, ClaimFits, Historic
<1>3. ASSUME doc[d].status = "READY" PROVE job[w].old # doc[d].parsed
  <2>1. doc[d].parsed = issued[d]
    BY <1>3 DEF QueueInvariant, ReadyServesLatestAttempt
  <2>2. JobFits(w) /\ job[w].old \in Nat /\ job[w].attempt \in Nat /\ issued[d] \in Nat
    BY JobTyped DEF BaseInvariant, TypeOK
  <2> QED  BY <2>1, <2>2 DEF JobFits
<1> QED  BY <1>1, <1>2, <1>3

\* What a worker stores while it owns the document.
LEMMA WorkWrites ==
    ASSUME TypeOK, QueueInvariant, IngestTypeOK, BaseInvariant, ContentInvariant,
           NEW w \in Workers, Owns(w), WorksOn(w), WorkStages(w), UNCHANGED <<doc, held>>
    PROVE  OwnerWrote(w)'
<1>1. PICK s, r, d, t : /\ s = job[w].stage /\ r = job'[w].stage /\ d = job[w].doc
                        /\ t = job[w].attempt
  OBVIOUS
<1>2. /\ s \in FromDense => <<t, "MARKDOWN">> \in objects[d]
      /\ s \in FromSparse => t \in dense[d]
      /\ s \in FromClear => t \in sparse[d]
  BY <1>1 DEF ContentInvariant, OwnerWrote
<1>3. job'[w].doc = d /\ job'[w].attempt = t
  BY <1>1 DEF WorksOn
<1>4. ASSUME /\ r \in FromDense => <<t, "MARKDOWN">> \in objects'[d]
             /\ r \in FromSparse => t \in dense'[d]
             /\ r \in FromClear => t \in sparse'[d]
      PROVE  OwnerWrote(w)'
  BY <1>1, <1>3, <1>4 DEF OwnerWrote
<1>5. CASE r = s /\ UNCHANGED stores
  BY <1>2, <1>4, <1>5 DEF stores
<1>6. CASE s \in Running \ {"COMMIT"} /\ Effect(w) /\ r = StageAfter(s)
  <2>1. EffectOn(w) /\ job[w].old # t
    <3>1. job[w].old \in Nat /\ job[w].attempt \in Nat /\ job[w].old < job[w].attempt
      BY JobTyped, OwnerWorks
    <3> QED  BY <1>1, <1>6, <3>1, EffectIs
  <2>2. /\ s = "MARKDOWN" \/ <<t, "MARKDOWN">> \in objects[d] => <<t, "MARKDOWN">> \in objects'[d]
        /\ s = "DENSE" \/ t \in dense[d] => t \in dense'[d]
        /\ s = "SPARSE" \/ t \in sparse[d] => t \in sparse'[d]
    BY <1>1, <2>1 DEF EffectOn
  <2>3. /\ r \in FromDense => s = "MARKDOWN" \/ s \in FromDense
        /\ r \in FromSparse => s = "DENSE" \/ s \in FromSparse
        /\ r \in FromClear => s = "SPARSE" \/ s \in FromClear
    BY <1>6, StagesListed, StagesFollow DEF FromDense, FromSparse, FromClear
  <2> QED  BY <1>2, <1>4, <2>2, <2>3
<1>7. CASE r \notin FromDense
  BY <1>4, <1>7 DEF FromSparse, FromClear
<1>8. \/ r = s /\ UNCHANGED stores
      \/ s \in Running \ {"COMMIT"} /\ Effect(w) /\ r = StageAfter(s)
      \/ r \notin FromDense
  BY <1>1 DEF WorkStages, FromDense
<1> QED  BY <1>5, <1>6, <1>7, <1>8

LEMMA WorksContent ==
    ASSUME TypeOK, QueueInvariant, IngestTypeOK, BaseInvariant, ContentInvariant,
           NEW w \in Workers, Works(w)
    PROVE  ContentInvariant'
<1>1. job[w].armed => job[w].stage \in Guarded
  BY DEF BaseInvariant, JobFits
<1>2. /\ WorksOn(w) /\ WorkStages(w) /\ UNCHANGED <<doc, issued, held, purge, disruptions>>
  BY <1>1, WorkIs
<1>3. OnlyStoresOf(job[w].doc) /\ WorkCalls(w)
  BY <1>2, WorkStores
<1>4. PICK d \in Docs : d = job[w].doc
  BY JobTyped
<1>5. job[w].stage # Idle /\ KeepsClaim(w) /\ JobFits(w)
  BY <1>2, WorkMoves DEF BaseInvariant
<1>6. At(w, "CLEAN_POINTS") => Working(w)
  BY <1>5 DEF KeepsClaim, At
<1>7. ASSUME NEW v \in Workers PROVE OwnerWrote(v)'
  <2>1. Owns(v)' <=> Owns(v)
    BY <1>2 DEF Owns, Working
  <2>2. CASE v = w
    BY <1>2, <2>1, <2>2, WorkWrites DEF OwnerWrote
  <2>3. CASE v # w /\ Owns(v)
    <3>1. job'[v] = job[v] /\ OwnerWrote(v)
      BY <1>2, <2>3 DEF WorksOn, ContentInvariant
    <3>2. PICK e \in Docs, t \in Nat : e = job[v].doc /\ t = job[v].attempt
      BY JobTyped
    <3>3. /\ t \in dense[e] => t \in dense'[e]
          /\ t \in sparse[e] => t \in sparse'[e]
          /\ <<t, "MARKDOWN">> \in objects[e] => <<t, "MARKDOWN">> \in objects'[e]
      <4>1. CASE e # d
        BY <1>3, <1>4, <4>1 DEF OnlyStoresOf
      <4>2. CASE e = d
        <5>1. t # job[w].attempt /\ t # job[w].old
          BY <1>4, <1>5, <2>3, <3>2, <4>2, NotMine
        <5>2. <<t, "MARKDOWN">>[1] = t
          OBVIOUS
        <5> QED  BY <1>3, <1>4, <4>2, <5>1, <5>2, WorkRemoves
      <4> QED  BY <4>1, <4>2
    <3> QED  BY <2>1, <3>1, <3>2, <3>3 DEF OwnerWrote
  <2> QED  BY <2>1, <2>2, <2>3 DEF OwnerWrote
<1>8. ASSUME NEW e \in Docs PROVE PointsIn(e)' /\ TextIn(e)'
  <2>1. PointsIn(e) /\ TextIn(e)
    BY <1>8 DEF ContentInvariant
  <2>2. CASE e # d
    BY <1>2, <1>3, <1>4, <2>1, <2>2 DEF OnlyStoresOf, PointsIn, TextIn, Off, Settled, Purging
  <2>3. CASE e = d
    <3>1. ASSUME Settled(d)
          PROVE  /\ doc[d].parsed \in dense[d] => doc[d].parsed \in dense'[d]
                 /\ doc[d].parsed \in sparse[d] => doc[d].parsed \in sparse'[d]
      <4>1. job[w].old # doc[d].parsed
        BY <1>4, <1>5, <3>1, NotMine DEF Settled
      <4>2. At(w, "CLEAN_POINTS") => job[w].attempt # doc[d].parsed
        BY <1>4, <1>5, <1>6, NotMine
      <4> QED  BY <1>3, <1>4, <4>1, <4>2, WorkRemoves
    <3>2. PointsIn(e)'
      BY <1>2, <2>1, <2>3, <3>1 DEF PointsIn, Off, Settled, Purging
    <3>3. ASSUME Off("CANCEL"), Off("LOST_COMMIT"), <<doc[d].parsed, "MARKDOWN">> \in objects[d]
          PROVE  <<doc[d].parsed, "MARKDOWN">> \in objects'[d]
      <4>1. job[w].stage \in {"CLEAN_PREFIX", "DROP_PREFIX"} => job[w].attempt # doc[d].parsed
        BY <1>4, <1>5, <3>3, NotMine DEF KeepsClaim, Idle
      <4>2. PICK o \in objects[d] : o = <<doc[d].parsed, "MARKDOWN">> /\ o[1] = doc[d].parsed
        BY <3>3
      <4> QED  BY <1>3, <1>4, <4>1, <4>2, WorkRemoves
    <3>4. TextIn(e)'
      BY <1>2, <2>1, <2>3, <3>3 DEF TextIn, Off, Purging
    <3> QED  BY <3>2, <3>4
  <2> QED  BY <2>2, <2>3
<1> QED  BY <1>7, <1>8 DEF ContentInvariant

\* A step that publishes nothing and starts or ends no work of an owner.
LEMMA ElsewhereContent ==
    ASSUME IngestTypeOK, ContentInvariant, RowsKept, UNCHANGED <<stores, purge, disruptions>>,
           \A v \in Workers : \/ Stays(v) /\ job'[v] = job[v]
                              \/ job'[v].stage \notin FromDense
    PROVE  ContentInvariant'
<1>1. ASSUME NEW v \in Workers PROVE OwnerWrote(v)'
  <2>1. OwnerWrote(v)
    BY DEF ContentInvariant
  <2>2. CASE Stays(v) /\ job'[v] = job[v]
    BY <2>1, <2>2 DEF OwnerWrote, Stays, stores
  <2>3. CASE job'[v].stage \notin FromDense
    BY <2>3 DEF OwnerWrote, FromSparse, FromClear
  <2> QED  BY <2>2, <2>3
<1>2. ASSUME NEW d \in Docs PROVE PointsIn(d)' /\ TextIn(d)'
  <2>1. /\ PointsIn(d) /\ TextIn(d)
        /\ doc'[d].parsed = doc[d].parsed /\ doc'[d].chunks = doc[d].chunks
        /\ doc'[d].status = "READY" => doc[d].status = "READY"
    BY DEF ContentInvariant, RowsKept
  <2> QED  BY <2>1 DEF PointsIn, TextIn, Settled, Purging, Off, stores
<1> QED  BY <1>1, <1>2 DEF ContentInvariant

LEMMA PurgesContent ==
    ASSUME TypeOK, QueueInvariant, IngestTypeOK, BaseInvariant, ContentInvariant, LostForever,
           NEW d \in Docs, Purges(d)
    PROVE  ContentInvariant'
<1>1. /\ UNCHANGED <<job, held, disruptions>> /\ PurgeCalls(d) /\ OnlyStoresOf(d)
      /\ \A e \in Docs : e # d => doc'[e] = doc[e] /\ purge'[e] = purge[e]
      /\ \/ doc'[d] = doc[d]
         \/ doc'[d].status = "DELETED"
  BY PurgesBase, PurgeStores, PurgeSteps DEF Purges
<1>2. \/ UNCHANGED stores
      \/ Purging(d) /\ Purging(d)'
  BY <1>1 DEF PurgeCalls, Purging, Idle
<1>3. ASSUME NEW v \in Workers PROVE OwnerWrote(v)'
  <2>1. Stays(v) /\ OwnerWrote(v)
    BY <1>1, HeldStays DEF ContentInvariant
  <2>2. PICK e \in Docs, t \in Nat : e = job[v].doc /\ t = job[v].attempt
    BY JobTyped
  <2>3. Owns(v) => /\ dense'[e] = dense[e] /\ sparse'[e] = sparse[e] /\ objects'[e] = objects[e]
    <3>1. Owns(v) => ~Purging(e)
      BY <2>2, OwnerWorks
    <3> QED  BY <1>1, <1>2, <3>1 DEF OnlyStoresOf, stores
  <2> QED  BY <1>1, <2>1, <2>2, <2>3 DEF OwnerWrote, Stays
<1>4. ASSUME NEW e \in Docs PROVE PointsIn(e)' /\ TextIn(e)'
  <2>1. PointsIn(e) /\ TextIn(e)
    BY DEF ContentInvariant
  <2>2. CASE e # d
    BY <1>1, <2>1, <2>2 DEF OnlyStoresOf, PointsIn, TextIn, Off, Settled, Purging
  <2>3. CASE e = d
    <3>1. CASE ~Purging(d)' /\ Off("PURGE_ABORTED")
      <4>1. \/ ~Purging(d) /\ UNCHANGED <<stores, doc>>
            \/ PurgeRow(d)
        BY <1>1, <3>1 DEF PurgeCalls, Purging, Idle
      <4>2. CASE PurgeRow(d)
        <5>1. RowsHistory
          BY DEF BaseInvariant
        <5>2. doc'[d].status = "DELETED" /\ doc'[d].chunks = 0
          BY <4>2, <5>1, DeleteRows DEF PurgeRow
        <5> QED  BY <2>3, <5>2 DEF PointsIn, TextIn, Settled
      <4>3. CASE ~Purging(d) /\ UNCHANGED <<stores, doc>>
        BY <1>1, <2>1, <2>3, <4>3 DEF PointsIn, TextIn, Off, Settled, stores
      <4> QED  BY <4>1, <4>2, <4>3
    <3>2. CASE Purging(d)' \/ ~Off("PURGE_ABORTED")
      BY <1>1, <2>3, <3>2 DEF PointsIn, TextIn, Off, Settled
    <3> QED  BY <3>1, <3>2
  <2> QED  BY <2>2, <2>3
<1> QED  BY <1>3, <1>4 DEF ContentInvariant

\* The commit publishes what its owner has stored.
LEMMA CommitContent ==
    ASSUME TypeOK, QueueInvariant, IngestTypeOK, BaseInvariant, ContentInvariant, LostForever,
           NEW w \in Workers, Commit(w)
    PROVE  ContentInvariant'
<1>1. PICK d \in Docs, t \in Nat : d = job[w].doc /\ t = issued[d]
  BY JobTyped DEF TypeOK
<1>2. /\ Owns(w) /\ job[w].attempt = t /\ doc'[d].parsed = t
      /\ \A e \in Docs : e # d => doc'[e] = doc[e]
      /\ job'[w].stage \in {"SWEEP", "CHECK"}
  BY <1>1, CommitIs
<1>3. /\ \A v \in Workers : v # w => job'[v] = job[v] /\ Stays(v)
      /\ UNCHANGED <<stores, purge, disruptions>>
  BY EndClaims, EndsAre DEF Ends, Commit
<1>4. /\ <<t, "MARKDOWN">> \in objects[d] /\ t \in dense[d] /\ t \in sparse[d]
  <2>1. At(w, "COMMIT") /\ OwnerWrote(w)
    BY DEF Commit, ContentInvariant
  <2> QED  BY <1>1, <1>2, <2>1 DEF OwnerWrote, At, FromClear, FromSparse, FromDense
<1>5. ASSUME NEW v \in Workers PROVE OwnerWrote(v)'
  <2>1. CASE v = w
    BY <1>2, <2>1 DEF OwnerWrote, FromClear, FromSparse, FromDense
  <2>2. CASE v # w
    BY <1>3, <2>2 DEF ContentInvariant, OwnerWrote, Stays, stores
  <2> QED  BY <2>1, <2>2
<1>6. ASSUME NEW e \in Docs PROVE PointsIn(e)' /\ TextIn(e)'
  <2>1. CASE e = d
    BY <1>2, <1>3, <1>4, <2>1 DEF PointsIn, TextIn, stores
  <2>2. CASE e # d
    BY <1>2, <1>3, <1>6, <2>2
    DEF ContentInvariant, PointsIn, TextIn, Off, Settled, Purging, stores
  <2> QED  BY <2>1, <2>2
<1> QED  BY <1>5, <1>6 DEF ContentInvariant

\* The removal of a superseded directory takes nothing that is published.
LEMMA EndsContent ==
    ASSUME TypeOK, QueueInvariant, IngestTypeOK, BaseInvariant, ContentInvariant, LostForever,
           NEW w \in Workers, Ends(w)
    PROVE  ContentInvariant'
<1>0. CASE Commit(w)
  BY <1>0, CommitContent
<1>1. CASE ~Commit(w)
  <2>1. /\ \A v \in Workers : v # w => job'[v] = job[v] /\ Stays(v)
        /\ job'[w] = IdleJob /\ RowsKept
        /\ UNCHANGED <<dense, sparse, purge, disruptions>> /\ OnlyStoresOf(job[w].doc)
        /\ \A o \in objects[job[w].doc] :
                 o \in objects'[job[w].doc] \/ (At(w, "SWEEP") /\ o[1] = job[w].old)
    BY <1>1, EndClaims, EndsAre
  <2>2. PICK d \in Docs : d = job[w].doc
    BY JobTyped
  <2>3. \A t : /\ <<t, "MARKDOWN">> \in objects[d]
               /\ ~At(w, "SWEEP") \/ t # job[w].old
               => <<t, "MARKDOWN">> \in objects'[d]
    BY <2>1, <2>2
  <2>4. ASSUME NEW v \in Workers PROVE OwnerWrote(v)'
    <3>1. CASE v = w
      <4>1. job'[w].stage = Idle
        BY <2>1 DEF IdleJob
      <4> QED  BY <3>1, <4>1 DEF OwnerWrote, FromClear, FromSparse, FromDense, Idle
    <3>2. CASE v # w
      <4>1. PICK e \in Docs, t \in Nat : e = job[v].doc /\ t = job[v].attempt
        BY JobTyped
      <4>2. Owns(v) /\ <<t, "MARKDOWN">> \in objects[e] => <<t, "MARKDOWN">> \in objects'[e]
        <5>1. CASE e # d
          BY <2>1, <2>2, <5>1 DEF OnlyStoresOf
        <5>2. CASE e = d
          <6>1. Owns(v) /\ At(w, "SWEEP") => t # job[w].old
            BY <2>2, <3>2, <4>1, <5>2, NotMine DEF At, Idle
          <6> QED  BY <2>3, <5>2, <6>1
        <5> QED  BY <5>1, <5>2
      <4>3. OwnerWrote(v) /\ job'[v] = job[v] /\ (Owns(v)' => Owns(v))
        BY <2>1, <3>2 DEF ContentInvariant, Stays
      <4> QED  BY <2>1, <4>1, <4>2, <4>3 DEF OwnerWrote
    <3> QED  BY <3>1, <3>2
  <2>5. ASSUME NEW e \in Docs PROVE PointsIn(e)' /\ TextIn(e)'
    <3>1. /\ PointsIn(e) /\ TextIn(e)
          /\ doc'[e].parsed = doc[e].parsed /\ doc'[e].chunks = doc[e].chunks
          /\ doc'[e].status = "READY" => doc[e].status = "READY"
      BY <2>1 DEF ContentInvariant, RowsKept
    <3>2. PointsIn(e)'
      BY <2>1, <3>1 DEF PointsIn, Settled, Purging, Off
    <3>3. doc[e].chunks # 0 /\ <<doc[e].parsed, "MARKDOWN">> \in objects[e]
             => <<doc[e].parsed, "MARKDOWN">> \in objects'[e]
      <4>1. CASE e # d
        BY <2>1, <2>2, <4>1 DEF OnlyStoresOf
      <4>2. CASE e = d
        <5>1. At(w, "SWEEP") => doc[d].chunks = 0 \/ job[w].old # doc[d].parsed
          BY <2>2 DEF BaseInvariant, JobFits, At
        <5> QED  BY <2>3, <4>2, <5>1
      <4> QED  BY <4>1, <4>2
    <3>4. TextIn(e)'
      BY <2>1, <3>1, <3>3 DEF TextIn, Purging, Off
    <3> QED  BY <3>2, <3>4
  <2> QED  BY <2>4, <2>5 DEF ContentInvariant
<1> QED  BY <1>0, <1>1

LEMMA ContentStep ==
    ASSUME TypeOK, QueueInvariant, IngestTypeOK, BaseInvariant, ContentInvariant,
           [IngestNext]_ingestVars
    PROVE  ContentInvariant'
<1>1. LostForever
  BY QueueHolds
<1>2. CASE Elsewhere
  BY <1>1, <1>2, ElsewhereRows, ElsewhereIs, ElsewhereContent
<1>3. ASSUME NEW d \in Docs, Purges(d) PROVE ContentInvariant'
  BY <1>1, <1>3, PurgesContent
<1>4. ASSUME NEW w \in Workers, Works(w) PROVE ContentInvariant'
  BY <1>4, WorksContent
<1>5. ASSUME NEW w \in Workers, Ends(w) PROVE ContentInvariant'
  BY <1>1, <1>5, EndsContent
<1>6. ASSUME NEW w \in Workers, NEW d \in Docs, StartAttempt(w, d) PROVE ContentInvariant'
  <2>1. /\ RowsKept /\ UNCHANGED <<stores, purge, disruptions>>
        /\ \A v \in Workers : v # w => Stays(v) /\ job'[v] = job[v]
        /\ job'[w].stage = "PARSE"
    BY <1>1, <1>6, StartBase, StartIs
  <2>2. "PARSE" \notin FromDense
    BY DEF FromDense
  <2> QED  BY <2>1, <2>2, ElsewhereContent
<1> QED  BY <1>2, <1>3, <1>4, <1>5, <1>6, IngestSteps

-----------------------------------------------------------------------------
(* The keyword index *)

\* Past its lease check and changing a shared index, owner or not.
Mid(w) ==
    \/ job[w].armed /\ job[w].stage \notin {"PARSE", "MARKDOWN"}
    \/ job[w].stage \in {"BM25_WRITE", "CLEAN_POINTS", "CLEAN_BM25"}

\* Without stalls whoever changes the index still owns the document, and knows
\* what is in it.
IndexOfOwner(w) ==
    /\ Mid(w) => Owns(w)
    /\ Owns(w) /\ At(w, "BM25_WRITE") => bm25[job[w].doc] = {}
    /\ Owns(w) /\ job[w].stage \in {"UNLINK", "COMMIT"} => bm25[job[w].doc] = {job[w].attempt}

IndexOfRow(d) ==
    /\ doc[d].status = "DELETED" \/ purge[d].stage \in {"OBJECTS", "ROW"} => bm25[d] = {}
    /\ Off("PURGE_ABORTED") /\ Settled(d) => bm25[d] = {doc[d].parsed}

IndexInvariant ==
    Off("STALL") => /\ \A w \in Workers : IndexOfOwner(w)
                    /\ \A d \in Docs : IndexOfRow(d)

LEMMA IndexStarts == IngestInit => IndexInvariant
<1> SUFFICES ASSUME IngestInit PROVE IndexInvariant
  OBVIOUS
<1>1. /\ \A w \in Workers : ~Owns(w) /\ job[w].stage = Idle /\ job[w].armed = FALSE
      /\ \A d \in Docs : doc[d] = NoRow /\ purge[d].stage = Idle
  BY DEF IngestInit, QueueInit, Owns, Working, IdleJob, IdlePurge
<1>2. NoRow.status = "ABSENT"
  BY DEF NoRow
<1> QED  BY <1>1, <1>2 DEF IndexInvariant, IndexOfOwner, IndexOfRow, Mid, Settled, Idle

\* Without stalls no lease is lost in the middle of a write.
LEMMA MidKeepsOwner ==
    ASSUME TypeOK, QueueInvariant, IngestTypeOK, BaseInvariant, LostForever, Off("STALL"),
           NEW v \in Workers, Owns(v), Mid(v), Elsewhere
    PROVE  Owns(v)'
<1>1. RowsHistory /\ MidWrite(v)
  BY DEF BaseInvariant, Mid, MidWrite
<1>2. ASSUME NEW d \in Docs, OtherRequest(d) PROVE Owns(v)'
  <2>1. Requested(d)
    BY <1>2 DEF OtherRequest, Requested
  <2> QED  BY <1>1, <2>1, RequestKeepsOwner
<1>3. ASSUME NEW d \in Docs, TimePasses(d) PROVE Owns(v)'
  <2>1. RetryDue(d) \/ (LeaseLapse(d) /\ held[v].doc # d)
    BY <1>1, <1>3 DEF TimePasses, Off
  <2> QED  BY <1>1, <2>1, RequestKeepsOwner
<1>4. ASSUME NEW w \in Workers, LeaseStep(w) PROVE Owns(v)'
  <2>1. WorkerStep(w)
    BY <1>4 DEF LeaseStep, WorkerStep
  <2>2. CASE w # v
    BY <2>1, <2>2, OthersKeepOwner
  <2>3. CASE w = v
    <3>1. Heartbeat(v) \/ HeartbeatCrash(v)
      BY <1>4, <2>3 DEF LeaseStep, Exhaust, Owns
    <3> QED  BY <3>1, HeartbeatKeepsOwner
  <2> QED  BY <2>2, <2>3
<1>5. ASSUME UNCHANGED ingestVars PROVE Owns(v)'
  BY <1>5 DEF ingestVars, queueVars, Owns, Working
<1> QED  BY <1>2, <1>3, <1>4, <1>5 DEF Elsewhere

\* An attempt that neither began nor ended, the index as it was.
LEMMA OwnerIndexStays ==
    ASSUME NEW v \in Workers, IndexOfOwner(v), job'[v] = job[v], Stays(v),
           Owns(v) /\ Mid(v) => Owns(v)',
           Owns(v) => bm25'[job[v].doc] = bm25[job[v].doc]
    PROVE  IndexOfOwner(v)'
  BY DEF IndexOfOwner, Stays, Mid, At

LEMMA RowIndexStays ==
    ASSUME NEW d \in Docs, IndexOfRow(d), bm25'[d] = bm25[d], RowsKept,
           purge'[d] = purge[d], UNCHANGED disruptions
    PROVE  IndexOfRow(d)'
  BY DEF IndexOfRow, RowsKept, Settled, Purging, Off

LEMMA ElsewhereIndex ==
    ASSUME TypeOK, QueueInvariant, IngestTypeOK, BaseInvariant, LostForever, IndexInvariant,
           Elsewhere
    PROVE  IndexInvariant'
<1>1. /\ UNCHANGED <<job, stores, purge, disruptions>> /\ RowsKept /\ \A v \in Workers : Stays(v)
  BY ElsewhereIs, ElsewhereRows
<1>2. ASSUME Off("STALL"), NEW v \in Workers PROVE IndexOfOwner(v)'
  BY <1>1, <1>2, MidKeepsOwner, OwnerIndexStays DEF IndexInvariant, stores
<1>3. ASSUME Off("STALL"), NEW d \in Docs PROVE IndexOfRow(d)'
  BY <1>1, <1>3, RowIndexStays DEF IndexInvariant, stores
<1> QED  BY <1>1, <1>2, <1>3 DEF IndexInvariant, Off

LEMMA PurgesIndex ==
    ASSUME TypeOK, QueueInvariant, IngestTypeOK, BaseInvariant, LostForever, IndexInvariant,
           NEW d \in Docs, Purges(d)
    PROVE  IndexInvariant'
<1>1. /\ UNCHANGED <<job, held, disruptions>> /\ PurgeCalls(d) /\ OnlyStoresOf(d)
      /\ \A e \in Docs : e # d => doc'[e] = doc[e] /\ purge'[e] = purge[e]
      /\ \/ doc'[d] = doc[d]
         \/ PurgeRow(d) /\ doc'[d].status = "DELETED"
  BY PurgesBase, PurgeStores, PurgeSteps DEF Purges
<1>2. RowsHistory
  BY DEF BaseInvariant
<1>3. ASSUME Off("STALL"), NEW v \in Workers PROVE IndexOfOwner(v)'
  <2>1. Stays(v) /\ IndexOfOwner(v)
    BY <1>1, <1>3, HeldStays DEF IndexInvariant
  <2>2. PICK e \in Docs : e = job[v].doc
    BY JobTyped
  <2>3. Owns(v) => ~Purging(e) /\ held[v].doc = e /\ doc[e].status = "PROCESSING"
    BY <2>2, OwnerWorks
  <2>4. Owns(v) => bm25'[e] = bm25[e]
    BY <1>1, <2>3 DEF OnlyStoresOf, PurgeCalls, Purging, Idle, stores
  <2>5. Owns(v) => doc'[e] = doc[e]
    <3>1. PurgeRow(d) => Purging(d)
      BY DEF PurgeRow, Purging, Idle
    <3> QED  BY <1>1, <2>3, <3>1
  <2>6. Owns(v) => Owns(v)'
    BY <1>1, <2>3, <2>5 DEF Owns, Working
  <2> QED  BY <1>1, <2>1, <2>2, <2>4, <2>6, OwnerIndexStays
<1>4. ASSUME Off("STALL"), NEW e \in Docs PROVE IndexOfRow(e)'
  <2>1. IndexOfRow(e)
    BY <1>4 DEF IndexInvariant
  <2>2. CASE e # d
    BY <1>1, <2>1, <2>2 DEF IndexOfRow, OnlyStoresOf, Settled, Purging, Off
  <2>3. CASE e = d
    <3>1. CASE PurgeRow(d)
      <4>1. /\ purge[d].stage = "ROW" /\ bm25' = bm25 /\ Delete(d)
        BY <3>1 DEF PurgeRow, stores
      <4>2. doc'[d].status = "DELETED"
        BY <1>2, <4>1, DeleteRows
      <4> QED  BY <2>1, <2>3, <4>1, <4>2 DEF IndexOfRow, Settled
    <3>2. CASE ~PurgeRow(d)
      <4>1. doc'[d] = doc[d]
        BY <1>1, <3>2
      <4>2. CASE bm25'[d] = {} /\ Purging(d)'
        BY <2>3, <4>2 DEF IndexOfRow, Settled
      <4>3. CASE bm25' = bm25 /\ (purge'[d].stage \in {"OBJECTS", "ROW"}
                                    => purge[d].stage \in {"OBJECTS", "ROW"})
                 /\ (Purging(d)' \/ ~Purging(d) \/ ~Off("PURGE_ABORTED"))
        BY <1>1, <2>1, <2>3, <4>1, <4>3 DEF IndexOfRow, Settled, Off
      <4>4. \/ bm25'[d] = {} /\ Purging(d)'
            \/ bm25' = bm25 /\ (purge'[d].stage \in {"OBJECTS", "ROW"}
                                  => purge[d].stage \in {"OBJECTS", "ROW"})
                 /\ (Purging(d)' \/ ~Purging(d) \/ ~Off("PURGE_ABORTED"))
        BY <1>1, <3>2 DEF PurgeCalls, Purging, Idle, stores
      <4> QED  BY <4>2, <4>3, <4>4
    <3> QED  BY <3>1, <3>2
  <2> QED  BY <2>2, <2>3
<1> QED  BY <1>1, <1>3, <1>4 DEF IndexInvariant, Off

\* A worker at work changes the index only while it owns the document.
LEMMA WorksIndex ==
    ASSUME TypeOK, QueueInvariant, IngestTypeOK, BaseInvariant, LostForever, IndexInvariant,
           NEW w \in Workers, Works(w)
    PROVE  IndexInvariant'
<1>1. job[w].armed => job[w].stage \in Guarded
  BY DEF BaseInvariant, JobFits
<1>2. WorksOn(w) /\ WorkStages(w) /\ UNCHANGED <<doc, issued, held, purge, disruptions>>
  BY <1>1, WorkIs
<1>3. OnlyStoresOf(job[w].doc) /\ WorkCalls(w)
  BY <1>2, WorkStores
<1>4. PICK d, s, r, t : /\ d = job[w].doc /\ s = job[w].stage /\ r = job'[w].stage
                        /\ t = job[w].attempt
  OBVIOUS
<1>5. d \in Docs /\ job'[w].doc = d /\ job'[w].attempt = t
  BY <1>2, <1>4, JobTyped DEF WorksOn
<1>6. \A v \in Workers : Owns(v)' <=> Owns(v)
  BY <1>2 DEF Owns, Working
<1>7. bm25'[d] = bm25[d] \/ Mid(w)
  BY <1>3, <1>4 DEF WorkCalls, EffectOn, CleanedBy, Allowed, At, Mid, stores
<1>8. ASSUME Off("STALL"), NEW v \in Workers, v # w PROVE IndexOfOwner(v)'
  <2>1. job'[v] = job[v] /\ IndexOfOwner(v) /\ Stays(v)
    BY <1>2, <1>6, <1>8 DEF WorksOn, IndexInvariant, Stays, Working
  <2>2. PICK e \in Docs : e = job[v].doc
    BY JobTyped
  <2>3. Owns(v) => bm25'[e] = bm25[e]
    <3>1. CASE e # d
      BY <1>3, <1>4, <3>1 DEF OnlyStoresOf
    <3>2. CASE e = d /\ Owns(v)
      <4>1. ~Mid(w)
        <5>1. Mid(w) => Owns(w)
          BY <1>8 DEF IndexInvariant, IndexOfOwner
        <5> QED  BY <1>4, <1>8, <2>2, <3>2, <5>1, OwnerWorks, OneOwner DEF SingleOwner
      <4> QED  BY <1>7, <3>2, <4>1
    <3> QED  BY <3>1, <3>2
  <2> QED  BY <1>6, <2>1, <2>2, <2>3, OwnerIndexStays
<1>9. ASSUME Off("STALL") PROVE IndexOfOwner(w)'
  <2>1. IndexOfOwner(w)
    BY <1>9 DEF IndexInvariant
  <2>2. Mid(w)' => Owns(w)
    <3>1. CASE s \in Guarded /\ Owns(w)
      BY <3>1
    <3>2. CASE ~job'[w].armed /\ r = StageAfter(s) /\ s \in Running \ {"COMMIT"} /\ Allowed(w)
      <4>1. r = "BM25_WRITE" => s = "BM25_CLEAR"
        BY <3>2, StagesListed, StagesFollow
      <4>2. Mid(w)' => r = "BM25_WRITE"
        BY <1>4, <3>2, StagesListed, StagesFollow DEF Mid
      <4>3. s = "BM25_CLEAR" => Mid(w)
        BY <1>4, <3>2 DEF Allowed, At, Mid
      <4> QED  BY <2>1, <4>1, <4>2, <4>3 DEF IndexOfOwner
    <3>3. CASE ~job'[w].armed /\ r \in {"DROP_PREFIX", "CHECK", "CLEAN_PREFIX", "REPORT", "LEAVE"}
      BY <1>4, <3>3 DEF Mid
    <3>4. CASE r = "CLEAN_POINTS" /\ Owns(w)
      BY <3>4
    <3>5. CASE s = "CLEAN_POINTS"
      BY <1>4, <2>1, <3>5 DEF Mid, IndexOfOwner
    <3>6. \/ s \in Guarded /\ Owns(w)
          \/ ~job'[w].armed /\ r = StageAfter(s) /\ s \in Running \ {"COMMIT"} /\ Allowed(w)
          \/ ~job'[w].armed /\ r \in {"DROP_PREFIX", "CHECK", "CLEAN_PREFIX", "REPORT", "LEAVE"}
          \/ r = "CLEAN_POINTS" /\ Owns(w)
          \/ s = "CLEAN_POINTS"
      BY <1>2, <1>4 DEF WorkStages
    <3> QED  BY <3>1, <3>2, <3>3, <3>4, <3>5, <3>6
  <2>3. ASSUME Owns(w) PROVE /\ r = "BM25_WRITE" => bm25'[d] = {}
                             /\ r \in {"UNLINK", "COMMIT"} => bm25'[d] = {t}
    <3>1. /\ s = "BM25_WRITE" => bm25[d] = {}
          /\ s \in {"UNLINK", "COMMIT"} => bm25[d] = {t}
      BY <1>4, <2>1, <2>3 DEF IndexOfOwner, At
    <3>2. CASE s \in Guarded /\ r = s /\ UNCHANGED stores
      BY <3>1, <3>2, StagesListed DEF stores
    <3>3. CASE s \in Running \ {"COMMIT"} /\ Effect(w) /\ r = StageAfter(s)
      <4>1. EffectOn(w)
        BY <3>3, EffectIs
      <4>2. bm25'[d] = IF s = "BM25_CLEAR" THEN {}
                       ELSE IF s = "BM25_WRITE" THEN bm25[d] \cup {t} ELSE bm25[d]
        BY <1>4, <4>1 DEF EffectOn
      <4> QED  BY <3>1, <3>3, <4>2, StagesListed, StagesFollow
    <3>4. CASE r \notin {"BM25_WRITE", "UNLINK", "COMMIT"}
      BY <3>4
    <3>5. \/ s \in Guarded /\ r = s /\ UNCHANGED stores
          \/ s \in Running \ {"COMMIT"} /\ Effect(w) /\ r = StageAfter(s)
          \/ r \notin {"BM25_WRITE", "UNLINK", "COMMIT"}
      BY <1>2, <1>4 DEF WorkStages
    <3> QED  BY <3>2, <3>3, <3>4, <3>5
  <2> QED  BY <1>4, <1>5, <1>6, <2>2, <2>3 DEF IndexOfOwner, At
<1>10. ASSUME Off("STALL"), NEW e \in Docs PROVE IndexOfRow(e)'
  <2>1. IndexOfRow(e)
    BY <1>10 DEF IndexInvariant
  <2>2. CASE bm25'[e] = bm25[e]
    BY <1>2, <2>1, <2>2 DEF IndexOfRow, Settled, Purging, Off
  <2>3. CASE bm25'[e] # bm25[e]
    <3>1. e = d /\ Mid(w)
      BY <1>3, <1>4, <1>7, <2>3 DEF OnlyStoresOf
    <3>2. Owns(w)
      BY <1>10, <3>1 DEF IndexInvariant, IndexOfOwner
    <3>3. doc[e].status = "PROCESSING" /\ ~Purging(e)
      BY <1>4, <3>1, <3>2, OwnerWorks
    <3> QED  BY <1>2, <3>3 DEF IndexOfRow, Settled, Purging, Idle
  <2> QED  BY <2>2, <2>3
<1> QED  BY <1>2, <1>8, <1>9, <1>10 DEF IndexInvariant, Off

LEMMA EndsIndex ==
    ASSUME TypeOK, QueueInvariant, IngestTypeOK, BaseInvariant, LostForever, IndexInvariant,
           NEW w \in Workers, Ends(w)
    PROVE  IndexInvariant'
<1>1. /\ \A v \in Workers : v # w => job'[v] = job[v] /\ held'[v] = held[v] /\ Stays(v)
      /\ ~Working(w)' /\ UNCHANGED <<bm25, purge, disruptions>>
      /\ Commit(w) \/ (job'[w] = IdleJob /\ RowsKept)
  BY EndClaims, EndsAre
<1>2. ASSUME Off("STALL"), NEW v \in Workers, v # w PROVE IndexOfOwner(v)'
  <2>1. Owns(v) => Owns(v)'
    <3>1. CASE WorkerStep(w)
      BY <1>2, <3>1, OthersKeepOwner
    <3>2. CASE UNCHANGED doc
      BY <1>1, <1>2, <3>2 DEF Owns, Working
    <3> QED  BY <3>1, <3>2, EndsKind DEF queueVars, FaultOnly
  <2> QED  BY <1>1, <1>2, <2>1, OwnerIndexStays DEF IndexInvariant
<1>3. IndexOfOwner(w)'
  <2>1. ~Mid(w)' /\ ~Owns(w)'
    <3>1. CASE Commit(w)
      BY <1>1, <3>1, CommitIs DEF Mid, Owns
    <3>2. CASE job'[w] = IdleJob
      BY <1>1, <3>2 DEF IdleJob, Idle, Mid, Owns
    <3> QED  BY <1>1, <3>1, <3>2
  <2> QED  BY <2>1 DEF IndexOfOwner
<1>4. ASSUME Off("STALL"), NEW e \in Docs PROVE IndexOfRow(e)'
  <2>1. CASE ~Commit(w)
    BY <1>1, <1>4, <2>1, RowIndexStays DEF IndexInvariant
  <2>2. CASE Commit(w)
    <3>1. PICK d \in Docs, t \in Nat : d = job[w].doc /\ t = issued[d]
      BY JobTyped DEF TypeOK
    <3>2. /\ Owns(w) /\ job[w].attempt = t /\ doc'[d].status = "READY" /\ doc'[d].parsed = t
          /\ ~Purging(d) /\ \A f \in Docs : f # d => doc'[f] = doc[f]
      BY <2>2, <3>1, CommitIs
    <3>3. bm25[d] = {t}
      BY <1>4, <2>2, <3>1, <3>2 DEF IndexInvariant, IndexOfOwner, Commit, At
    <3>4. CASE e = d
      BY <1>1, <3>2, <3>3, <3>4 DEF IndexOfRow, Purging, Idle
    <3>5. CASE e # d
      BY <1>1, <1>4, <3>2, <3>5 DEF IndexInvariant, IndexOfRow, Settled, Purging, Off
    <3> QED  BY <3>4, <3>5
  <2> QED  BY <2>1, <2>2
<1> QED  BY <1>1, <1>2, <1>3, <1>4 DEF IndexInvariant, Off

LEMMA IndexStep ==
    ASSUME TypeOK, QueueInvariant, IngestTypeOK, BaseInvariant, IndexInvariant,
           [IngestNext]_ingestVars
    PROVE  IndexInvariant'
<1>1. LostForever
  BY QueueHolds
<1>2. CASE Elsewhere
  BY <1>1, <1>2, ElsewhereIndex
<1>3. ASSUME NEW d \in Docs, Purges(d) PROVE IndexInvariant'
  BY <1>1, <1>3, PurgesIndex
<1>4. ASSUME NEW w \in Workers, Works(w) PROVE IndexInvariant'
  BY <1>1, <1>4, WorksIndex
<1>5. ASSUME NEW w \in Workers, Ends(w) PROVE IndexInvariant'
  BY <1>1, <1>5, EndsIndex
<1>6. ASSUME NEW w \in Workers, NEW d \in Docs, StartAttempt(w, d) PROVE IndexInvariant'
  <2>1. /\ RowsKept /\ UNCHANGED <<stores, purge, disruptions>>
        /\ \A v \in Workers : v # w => Stays(v) /\ job'[v] = job[v]
        /\ job'[w].stage = "PARSE" /\ ~job'[w].armed /\ WorkerStep(w)
    BY <1>1, <1>6, StartBase, StartIs DEF WorkerStep
  <2>2. ASSUME Off("STALL"), NEW v \in Workers PROVE IndexOfOwner(v)'
    <3>1. CASE v = w
      BY <2>1, <3>1 DEF IndexOfOwner, Mid, At
    <3>2. CASE v # w
      <4>1. Owns(v) => Owns(v)'
        BY <1>1, <2>1, <3>2, OthersKeepOwner
      <4> QED  BY <2>1, <2>2, <3>2, <4>1, OwnerIndexStays DEF IndexInvariant, stores
    <3> QED  BY <3>1, <3>2
  <2>3. ASSUME Off("STALL"), NEW d2 \in Docs PROVE IndexOfRow(d2)'
    BY <2>1, <2>3, RowIndexStays DEF IndexInvariant, stores
  <2> QED  BY <2>1, <2>2, <2>3 DEF IndexInvariant, Off
<1> QED  BY <1>2, <1>3, <1>4, <1>5, <1>6, IngestSteps

-----------------------------------------------------------------------------
(* Every vector is accounted for *)

Points(d) == dense[d] \cup sparse[d]

\* Attempts whose clean-up of their vectors is still to come, if they wrote any.
Uncleaned == Running \cup {"CHECK", "CLEAN_POINTS", "DROP_PREFIX", "LEAVE"}

Pending(d) == {job[w].attempt : w \in {v \in Workers : job[v].doc = d /\ job[v].stage \in Uncleaned}}

PointsOf(d) ==
    /\ \A t \in Points(d) : t <= issued[d]
    /\ Points(d) \subseteq {doc[d].parsed} \cup abandoned[d] \cup Pending(d)
    /\ purge[d].stage \in {"BM25", "OBJECTS", "ROW"} => doc[d].parsed \notin Points(d)

\* A job whose vectors are there knows it, and has unlinked the published ones
\* by the time it commits.
PointsBy(w) ==
    /\ ~At(w, Idle) /\ job[w].attempt \in Points(job[w].doc) => "POINTS" \in job[w].touched
    /\ Owns(w) /\ At(w, "COMMIT") => job[w].old \notin Points(job[w].doc)

PointsInvariant ==
    Off("LOST_COMMIT") /\ Off("STALE_VIEW") =>
        /\ \A d \in Docs : PointsOf(d)
        /\ \A w \in Workers : PointsBy(w)

LEMMA PointsStart == IngestInit => PointsInvariant
<1> SUFFICES ASSUME IngestInit PROVE PointsInvariant
  OBVIOUS
<1>1. /\ \A w \in Workers : ~Owns(w) /\ job[w].stage = Idle /\ job[w].doc \in Docs
      /\ \A d \in Docs : Points(d) = {} /\ purge[d].stage = Idle
  BY IdleTyped DEF IngestInit, QueueInit, Owns, Working, IdleJob, Job, IdlePurge, Points
<1> QED  BY <1>1 DEF PointsInvariant, PointsOf, PointsBy, At, Idle

\* A pending attempt of another worker stays pending.
LEMMA PendingStays ==
    ASSUME NEW w \in Workers, NEW d, \A v \in Workers : v # w => job'[v] = job[v]
    PROVE  \A t \in Pending(d) :
              \/ t \in Pending(d)'
              \/ /\ t = job[w].attempt /\ job[w].doc = d /\ job[w].stage \in Uncleaned
                 /\ ~(job'[w].doc = d /\ job'[w].attempt = t /\ job'[w].stage \in Uncleaned)
<1>1. ASSUME NEW t \in Pending(d)
      PROVE  \/ t \in Pending(d)'
             \/ /\ t = job[w].attempt /\ job[w].doc = d /\ job[w].stage \in Uncleaned
                /\ ~(job'[w].doc = d /\ job'[w].attempt = t /\ job'[w].stage \in Uncleaned)
  <2>1. PICK v \in Workers : job[v].doc = d /\ job[v].stage \in Uncleaned /\ t = job[v].attempt
    BY <1>1 DEF Pending
  <2>2. CASE job'[v].doc = d /\ job'[v].stage \in Uncleaned /\ job'[v].attempt = t
    BY <2>2 DEF Pending
  <2> QED  BY <2>1, <2>2
<1> QED  BY <1>1

\* Steps that add no vector, publish nothing and leave the jobs alone, but for
\* one that w ends with its vectors abandoned or cleaned up.
LEMMA QuietPoints ==
    ASSUME TypeOK, IngestTypeOK, PointsInvariant, NEW w \in Workers,
           UNCHANGED <<dense, sparse, purge, disruptions>>, RowsKept,
           \A d \in Docs : issued[d] <= issued'[d] /\ issued'[d] \in Nat,
           \A d \in Docs : abandoned[d] \subseteq abandoned'[d],
           \A v \in Workers : v # w => job'[v] = job[v] /\ Stays(v),
           job[w].stage \in Uncleaned =>
               \/ job'[w] = job[w]
               \/ job[w].attempt \in abandoned'[job[w].doc],
           PointsBy(w)'
    PROVE  PointsInvariant'
<1>1. \A d \in Docs : Points(d)' = Points(d) /\ \A t \in Points(d) : t \in Nat
  BY DEF Points, IngestTypeOK
<1>2. ASSUME NEW d \in Docs, PointsOf(d) PROVE PointsOf(d)'
  <2>1. /\ doc'[d].parsed = doc[d].parsed /\ purge'[d] = purge[d] /\ issued[d] \in Nat
        /\ issued[d] <= issued'[d] /\ issued'[d] \in Nat
    BY DEF RowsKept, TypeOK
  <2>2. \A t \in Pending(d) : t \in Pending(d)' \/ t \in abandoned'[d]
    BY PendingStays
  <2>3. Points(d)' \subseteq {doc'[d].parsed} \cup abandoned'[d] \cup Pending(d)'
    BY <1>1, <1>2, <2>1, <2>2 DEF PointsOf
  <2>4. \A t \in Points(d)' : t <= issued'[d]
    BY <1>1, <1>2, <2>1 DEF PointsOf
  <2> QED  BY <1>1, <1>2, <2>1, <2>3, <2>4 DEF PointsOf
<1>3. ASSUME NEW v \in Workers, PointsBy(v), v # w PROVE PointsBy(v)'
  BY <1>1, <1>3, JobTyped DEF PointsBy, At, Stays
<1> QED  BY <1>2, <1>3 DEF PointsInvariant, Off

LEMMA ElsewherePoints ==
    ASSUME TypeOK, QueueInvariant, IngestTypeOK, BaseInvariant, LostForever, PointsInvariant,
           Elsewhere
    PROVE  PointsInvariant'
<1>1. /\ UNCHANGED <<job, stores, purge, disruptions, abandoned, issued>> /\ RowsKept
      /\ \A v \in Workers : Stays(v)
  BY ElsewhereIs, ElsewhereRows
<1>2. \A d \in Docs : Points(d)' = Points(d) /\ Pending(d)' = Pending(d)
  BY <1>1 DEF Points, Pending, stores
<1>3. ASSUME NEW d \in Docs, PointsOf(d) PROVE PointsOf(d)'
  BY <1>1, <1>2, <1>3 DEF PointsOf, RowsKept
<1>4. ASSUME NEW v \in Workers, PointsBy(v) PROVE PointsBy(v)'
  BY <1>1, <1>2, <1>4, JobTyped DEF PointsBy, At, Stays
<1> QED  BY <1>1, <1>3, <1>4 DEF PointsInvariant, Off

\* A DELETE removes the published vectors before the row that names them.
LEMMA PurgesPoints ==
    ASSUME TypeOK, QueueInvariant, IngestTypeOK, BaseInvariant, LostForever, PointsInvariant,
           NEW d \in Docs, Purges(d)
    PROVE  PointsInvariant'
<1>1. /\ UNCHANGED <<job, held, issued, abandoned, disruptions>> /\ PurgeCalls(d) /\ OnlyStoresOf(d)
      /\ \A e \in Docs : e # d => doc'[e] = doc[e] /\ purge'[e] = purge[e]
      /\ \/ doc'[d] = doc[d]
         \/ PurgeRow(d)
  BY PurgesBase, PurgeStores, PurgeSteps DEF Purges
<1>2. \A e \in Docs : Points(e)' \subseteq Points(e) /\ Pending(e)' = Pending(e)
  <2>1. dense'[d] \subseteq dense[d] /\ sparse'[d] \subseteq sparse[d]
    BY <1>1 DEF PurgeCalls, stores
  <2> QED  BY <1>1, <2>1 DEF OnlyStoresOf, Points, Pending
<1>3. ASSUME NEW v \in Workers, PointsBy(v) PROVE PointsBy(v)'
  <2>1. Stays(v)
    BY <1>1, HeldStays
  <2> QED  BY <1>1, <1>2, <1>3, <2>1, JobTyped DEF PointsBy, At, Stays
<1>4. ASSUME NEW e \in Docs, PointsOf(e), e # d PROVE PointsOf(e)'
  <2>1. Points(e)' = Points(e) /\ doc'[e] = doc[e] /\ purge'[e] = purge[e] /\ issued'[e] = issued[e]
    BY <1>1, <1>4 DEF Points, OnlyStoresOf
  <2> QED  BY <1>1, <1>2, <1>4, <2>1 DEF PointsOf
<1>5. ASSUME PointsOf(d), Off("STALE_VIEW") PROVE PointsOf(d)'
  <2>1. \A t \in Points(d)' : t <= issued'[d]
    BY <1>1, <1>2, <1>5 DEF PointsOf
  <2>2. CASE PurgeRow(d)
    <3>1. purge[d].stage = "ROW" /\ purge'[d].stage = Idle
      BY <2>2 DEF PurgeRow, IngestTypeOK, IdlePurge
    <3>2. doc[d].parsed \notin Points(d)
      BY <1>5, <3>1 DEF PointsOf
    <3> QED  BY <1>1, <1>2, <1>5, <2>1, <3>1, <3>2 DEF PointsOf, Idle
  <2>3. CASE doc'[d] = doc[d]
    <3>1. CASE purge'[d].stage = "BM25"
      <4>1. /\ purge[d].stage = "POINTS" /\ dense'[d] = dense[d] \ {purge[d].seen}
            /\ sparse'[d] = sparse[d] \ {purge[d].seen}
        BY <1>1, <3>1 DEF PurgeCalls, Idle
      <4>2. purge[d].seen = Published(doc[d]) /\ RowHistory(d)
        BY <1>5, <4>1 DEF BaseInvariant, PurgeFits, Purging, Idle, RowsHistory
      <4>3. Published(doc[d]) = doc[d].parsed
        BY <4>2 DEF Published, RowHistory
      <4> QED  BY <1>1, <1>2, <1>5, <2>1, <2>3, <4>1, <4>2, <4>3 DEF PointsOf, Points
    <3>2. CASE purge'[d].stage \in {"OBJECTS", "ROW"}
      <4>1. purge[d].stage \in {"BM25", "OBJECTS"}
        BY <1>1, <3>2 DEF PurgeCalls, Idle
      <4> QED  BY <1>1, <1>2, <1>5, <2>1, <2>3, <4>1 DEF PointsOf
    <3>3. CASE purge'[d].stage \notin {"BM25", "OBJECTS", "ROW"}
      BY <1>1, <1>2, <1>5, <2>1, <2>3, <3>3 DEF PointsOf
    <3> QED  BY <3>1, <3>2, <3>3
  <2> QED  BY <1>1, <2>2, <2>3
<1> QED  BY <1>1, <1>3, <1>4, <1>5 DEF PointsInvariant, Off

\* A worker adds only vectors of its own attempt, while it is running.
LEMMA WorkAdds ==
    ASSUME TypeOK, IngestTypeOK, BaseInvariant, NEW w \in Workers, WorksOn(w), WorkStages(w),
           NEW d \in Docs, d = job[w].doc
    PROVE  /\ \A x \in Points(d)' :
                 \/ x \in Points(d)
                 \/ /\ x = job[w].attempt /\ Working(w)
                    /\ job[w].stage \in Running /\ job'[w].stage \in Uncleaned
                    /\ "POINTS" \in job'[w].touched
           /\ OnlyStoresOf(d)
<1>1. PICK s, r, t : s = job[w].stage /\ r = job'[w].stage /\ t = job[w].attempt
  OBVIOUS
<1>2. OnlyStoresOf(d) /\ WorkCalls(w) /\ JobFits(w) /\ KeepsClaim(w)
  BY WorkStores DEF BaseInvariant
<1>3. CASE dense'[d] \subseteq dense[d] /\ sparse'[d] \subseteq sparse[d]
  BY <1>2, <1>3 DEF Points
<1>4. CASE s \in {"DENSE", "SPARSE"} /\ Allowed(w) /\ EffectOn(w)
  <2>1. /\ dense'[d] \subseteq dense[d] \cup {t} /\ sparse'[d] \subseteq sparse[d] \cup {t}
    BY <1>1, <1>4 DEF EffectOn
  <2>2. s \in Running /\ Working(w)
    BY <1>1, <1>2, <1>4, StagesListed DEF KeepsClaim
  <2>3. "POINTS" \in job[w].touched
    BY <1>1, <1>2, <1>4 DEF JobFits, Allowed, At, FromSparse, FromDense
  <2>4. r \in Uncleaned
    BY <1>1, <1>4, StagesListed, StagesFollow DEF WorkStages, Uncleaned
  <2>5. "POINTS" \in job'[w].touched
    BY <2>3 DEF WorksOn
  <2> QED  BY <1>1, <1>2, <2>1, <2>2, <2>4, <2>5 DEF Points
<1>5. \/ dense'[d] \subseteq dense[d] /\ sparse'[d] \subseteq sparse[d]
      \/ s \in {"DENSE", "SPARSE"} /\ Allowed(w) /\ EffectOn(w)
  BY <1>1, <1>2 DEF WorkCalls, EffectOn, CleanedBy, stores
<1> QED  BY <1>3, <1>4, <1>5

\* It stops being accountable when its vectors are gone, or known to be left.
LEMMA WorkSettles ==
    ASSUME IngestTypeOK, NEW w \in Workers, WorksOn(w), WorkStages(w), PointsBy(w),
           job[w].stage \in Uncleaned, job'[w].stage \notin Uncleaned,
           NEW d \in Docs, d = job[w].doc
    PROVE  job[w].attempt \notin Points(d)' \/ job[w].attempt \in abandoned'[d]
<1>1. PICK s, r, t : s = job[w].stage /\ r = job'[w].stage /\ t = job[w].attempt
  OBVIOUS
<1>2. /\ s = "CLEAN_POINTS"
      /\ \/ CleanedBy(w, s)
         \/ Abandon(w) /\ UNCHANGED stores
  BY <1>1, StagesListed, StagesFollow DEF WorkStages, Uncleaned
<1>3. CASE CleanedBy(w, s)
  <2>1. t \in Points(d) => "POINTS" \in job[w].touched
    BY <1>1, <1>2 DEF PointsBy, At, Idle
  <2>2. /\ dense'[d] = dense[d] \ (IF "POINTS" \in job[w].touched THEN {t} ELSE {})
        /\ sparse'[d] = sparse[d] \ (IF "POINTS" \in job[w].touched THEN {t} ELSE {})
    BY <1>1, <1>2, <1>3 DEF CleanedBy
  <2> QED  BY <1>1, <2>1, <2>2 DEF Points
<1>4. CASE Abandon(w)
  BY <1>4, AbandonTyped
<1> QED  BY <1>2, <1>3, <1>4

LEMMA WorksPoints ==
    ASSUME TypeOK, QueueInvariant, IngestTypeOK, BaseInvariant, PointsInvariant,
           NEW w \in Workers, Works(w)
    PROVE  PointsInvariant'
<1>1. job[w].armed => job[w].stage \in Guarded
  BY DEF BaseInvariant, JobFits
<1>2. WorksOn(w) /\ WorkStages(w) /\ UNCHANGED <<doc, issued, held, purge, disruptions>>
  BY <1>1, WorkIs
<1>3. PICK d \in Docs, t \in Nat : d = job[w].doc /\ t = job[w].attempt
  BY JobTyped
<1>4. /\ OnlyStoresOf(d)
      /\ \A x \in Points(d)' : \/ x \in Points(d)
                               \/ /\ x = t /\ Working(w) /\ job'[w].stage \in Uncleaned
                                  /\ "POINTS" \in job'[w].touched
  BY <1>2, <1>3, WorkAdds
<1>5. job[w].stage # Idle /\ JobFits(w) /\ job'[w].doc = d /\ job'[w].attempt = t
  BY <1>2, <1>3, WorkMoves DEF BaseInvariant, WorksOn
<1>6. /\ \A v \in Workers : v # w => job'[v] = job[v]
      /\ \A e \in Docs : abandoned[e] \subseteq abandoned'[e]
      /\ \A v \in Workers : Owns(v)' <=> Owns(v)
  BY <1>2, WorkStores, AbandonTyped DEF WorksOn, Owns, Working
<1>7. Working(w) => ~Historic(d, t)
  BY <1>3 DEF BaseInvariant, ClaimFits
<1>8. ASSUME NEW e \in Docs, PointsOf(e), \A v \in Workers : PointsBy(v) PROVE PointsOf(e)'
  <2>1. doc' = doc /\ purge' = purge /\ issued' = issued
    BY <1>2
  <2>2. \A x \in Pending(e) : \/ x \in Pending(e)'
                              \/ x \in abandoned'[e]
                              \/ x \notin Points(e)'
    <3>1. ASSUME e = d, job[w].stage \in Uncleaned, job'[w].stage \notin Uncleaned
          PROVE  t \notin Points(d)' \/ t \in abandoned'[d]
      BY <1>2, <1>3, <1>8, <3>1, WorkSettles
    <3> QED  BY <1>3, <1>5, <1>6, <3>1, PendingStays
  <2>3. CASE e # d
    <3>1. Points(e)' = Points(e)
      BY <1>4, <2>3 DEF OnlyStoresOf, Points
    <3> QED  BY <1>6, <1>8, <2>1, <2>2, <3>1 DEF PointsOf
  <2>4. CASE e = d
    <3>1. t <= issued[d]
      BY <1>3, <1>5 DEF JobFits
    <3>2. \A x \in Points(d)' : x <= issued'[d]
      BY <1>4, <1>8, <2>1, <2>4, <3>1 DEF PointsOf
    <3>3. job'[w].stage \in Uncleaned => t \in Pending(d)'
      BY <1>5 DEF Pending
    <3>4. Points(d)' \subseteq {doc'[d].parsed} \cup abandoned'[d] \cup Pending(d)'
      BY <1>4, <1>6, <1>8, <2>1, <2>2, <2>4, <3>3 DEF PointsOf
    <3>5. purge'[d].stage \in {"BM25", "OBJECTS", "ROW"} => doc'[d].parsed \notin Points(d)'
      BY <1>4, <1>7, <1>8, <2>1, <2>4 DEF PointsOf, Historic
    <3> QED  BY <2>4, <3>2, <3>4, <3>5 DEF PointsOf
  <2> QED  BY <2>3, <2>4
<1>9. ASSUME NEW v \in Workers, PointsBy(v), v # w PROVE PointsBy(v)'
  <2>1. PICK e \in Docs, u \in Nat : e = job[v].doc /\ u = job[v].attempt
    BY JobTyped
  <2>2. CASE e # d
    <3>1. Points(e)' = Points(e)
      BY <1>4, <2>2 DEF OnlyStoresOf, Points
    <3> QED  BY <1>6, <1>9, <2>1, <3>1 DEF PointsBy, At
  <2>3. CASE e = d
    <3>1. ~At(v, Idle) => u # t
      BY <1>3, <1>5, <1>9, <2>1, <2>3 DEF BaseInvariant, JobsApart, At
    <3>2. Working(w) => job[v].old # t
      BY <1>7, <2>1, <2>3 DEF Historic
    <3> QED  BY <1>4, <1>6, <1>9, <2>1, <2>3, <3>1, <3>2 DEF PointsBy, At
  <2> QED  BY <2>2, <2>3
<1>10. ASSUME PointsBy(w) PROVE PointsBy(w)'
  <2>1. t \in Points(d)' => "POINTS" \in job'[w].touched
    BY <1>2, <1>3, <1>4, <1>5, <1>10 DEF PointsBy, At, WorksOn
  <2>2. ASSUME At(w, "COMMIT")' PROVE job[w].old \notin Points(d)'
    <3>1. job[w].stage = "UNLINK" /\ Effect(w)
      <4>1. /\ job[w].stage \in Running \ {"COMMIT"} /\ Effect(w)
            /\ StageAfter(job[w].stage) = "COMMIT"
        BY <1>2, <2>2, StagesListed DEF WorkStages, At
      <4> QED  BY <4>1, StagesListed, StagesFollow
    <3>2. EffectOn(w)
      BY <3>1, EffectIs
    <3> QED  BY <1>3, <3>1, <3>2 DEF EffectOn, Points
  <2> QED  BY <1>2, <1>5, <2>1, <2>2 DEF PointsBy, WorksOn
<1> QED  BY <1>2, <1>8, <1>9, <1>10 DEF PointsInvariant, Off

\* The commit publishes its own vectors when those it replaces are gone.
LEMMA CommitPoints ==
    ASSUME TypeOK, QueueInvariant, IngestTypeOK, BaseInvariant, LostForever, PointsInvariant,
           NEW w \in Workers, Commit(w)
    PROVE  PointsInvariant'
<1>1. PICK d \in Docs, t \in Nat : d = job[w].doc /\ t = issued[d]
  BY JobTyped DEF TypeOK
<1>2. /\ Owns(w) /\ job[w].attempt = t /\ doc'[d].parsed = t /\ ~Purging(d) /\ WorksOn(w)
      /\ \A e \in Docs : e # d => doc'[e] = doc[e]
      /\ UNCHANGED issued
  BY <1>1, CommitIs
<1>3. /\ \A v \in Workers : v # w => job'[v] = job[v] /\ Stays(v)
      /\ UNCHANGED <<stores, purge, disruptions, abandoned>> /\ ~Working(w)' /\ At(w, "COMMIT")
  BY EndClaims, EndsAre DEF Ends, Commit
<1>4. \A e \in Docs : Points(e)' = Points(e)
  BY <1>3 DEF Points, stores
<1>5. ASSUME NEW e \in Docs, PointsOf(e), PointsBy(w) PROVE PointsOf(e)'
  <2>1. CASE e # d
    <3>1. \A x \in Pending(e) : x \in Pending(e)'
      BY <1>1, <1>3, <2>1, PendingStays
    <3> QED  BY <1>2, <1>3, <1>4, <1>5, <2>1, <3>1 DEF PointsOf
  <2>2. CASE e = d
    <3>1. \A x \in Pending(d) : x \in Pending(d)' \/ x = t
      BY <1>1, <1>2, <1>3, PendingStays
    <3>2. doc[d].parsed \notin Points(d)
      <4>1. JobFits(w) /\ RowHistory(d)
        BY DEF BaseInvariant, RowsHistory
      <4>2. job[w].old = doc[d].parsed
        BY <1>1, <1>2, <4>1 DEF JobFits, Published, RowHistory
      <4> QED  BY <1>1, <1>2, <1>3, <1>5, <4>2 DEF PointsBy
    <3>3. purge'[d].stage \notin {"BM25", "OBJECTS", "ROW"}
      BY <1>2, <1>3 DEF Purging, Idle
    <3> QED  BY <1>2, <1>3, <1>4, <1>5, <2>2, <3>1, <3>2, <3>3 DEF PointsOf
  <2> QED  BY <2>1, <2>2
<1>6. ASSUME NEW v \in Workers, PointsBy(v), v # w PROVE PointsBy(v)'
  BY <1>3, <1>4, <1>6, JobTyped DEF PointsBy, At, Stays
<1>7. ASSUME PointsBy(w) PROVE PointsBy(w)'
  BY <1>1, <1>2, <1>3, <1>4, <1>7 DEF PointsBy, At, WorksOn, Owns, Idle
<1> QED  BY <1>3, <1>5, <1>6, <1>7 DEF PointsInvariant, Off

LEMMA EndsPoints ==
    ASSUME TypeOK, QueueInvariant, IngestTypeOK, BaseInvariant, LostForever, PointsInvariant,
           NEW w \in Workers, Ends(w), ~Commit(w)
    PROVE  PointsInvariant'
<1>1. /\ \A v \in Workers : v # w => job'[v] = job[v] /\ Stays(v)
      /\ job'[w] = IdleJob /\ RowsKept /\ ~Working(w)' /\ UNCHANGED issued
      /\ UNCHANGED <<dense, sparse, purge, disruptions>>
      /\ UNCHANGED abandoned \/ Abandon(w)
  BY EndClaims, EndsAre
<1>2. \A d \in Docs : abandoned[d] \subseteq abandoned'[d]
  BY <1>1, AbandonTyped
<1>3. job[w].stage \in Uncleaned => job[w].attempt \in abandoned'[job[w].doc]
  <2>1. CASE Leave(w) \/ WorkerDies(w)
    BY <2>1, AbandonTyped DEF Leave, WorkerDies
  <2>2. CASE Sweep(w) \/ Report(w)
    BY <2>2, StagesListed DEF Sweep, Report, At, Uncleaned
  <2> QED  BY <2>1, <2>2 DEF Ends
<1>4. PointsBy(w)'
  BY <1>1 DEF PointsBy, At, IdleJob, Owns
<1>5. \A d \in Docs : issued[d] <= issued'[d] /\ issued'[d] \in Nat
  BY <1>1 DEF TypeOK
<1> QED  BY <1>1, <1>2, <1>3, <1>4, <1>5, QuietPoints

LEMMA StartPoints ==
    ASSUME TypeOK, QueueInvariant, IngestTypeOK, BaseInvariant, LostForever, PointsInvariant,
           NEW w \in Workers, NEW d \in Docs, StartAttempt(w, d)
    PROVE  PointsInvariant'
<1>1. /\ \A v \in Workers : v # w => job'[v] = job[v] /\ Stays(v)
      /\ RowsKept /\ UNCHANGED <<stores, purge, disruptions, abandoned>>
      /\ job'[w].doc = d /\ job'[w].attempt = issued[d] + 1 /\ job'[w].stage = "PARSE"
      /\ issued'[d] = issued[d] + 1 /\ \A e \in Docs : e # d => issued'[e] = issued[e]
      /\ job[w].stage = Idle
  BY StartBase, StartIs DEF At
<1>2. \A e \in Docs : issued[e] <= issued'[e] /\ issued'[e] \in Nat /\ issued[e] \in Nat
  BY <1>1 DEF TypeOK
<1>3. UNCHANGED <<dense, sparse>>
  BY <1>1 DEF stores
<1>4. job[w].stage \notin Uncleaned
  BY <1>1, StagesListed DEF Uncleaned, Idle
<1>5. ASSUME Off("LOST_COMMIT"), Off("STALE_VIEW") PROVE PointsBy(w)'
  <2>1. PointsOf(d)
    BY <1>5 DEF PointsInvariant
  <2>2. job'[w].attempt \notin Points(d)'
    BY <1>1, <1>2, <1>3, <2>1 DEF PointsOf, Points
  <2> QED  BY <1>1, <2>2 DEF PointsBy, At
<1>6. CASE Off("LOST_COMMIT") /\ Off("STALE_VIEW")
  BY <1>1, <1>2, <1>3, <1>4, <1>5, <1>6, QuietPoints
<1>7. CASE ~(Off("LOST_COMMIT") /\ Off("STALE_VIEW"))
  BY <1>1, <1>7 DEF PointsInvariant, Off
<1> QED  BY <1>6, <1>7

LEMMA PointsStep ==
    ASSUME TypeOK, QueueInvariant, IngestTypeOK, BaseInvariant, PointsInvariant,
           [IngestNext]_ingestVars
    PROVE  PointsInvariant'
<1>1. LostForever
  BY QueueHolds
<1>2. CASE Elsewhere
  BY <1>1, <1>2, ElsewherePoints
<1>3. ASSUME NEW d \in Docs, Purges(d) PROVE PointsInvariant'
  BY <1>1, <1>3, PurgesPoints
<1>4. ASSUME NEW w \in Workers, Works(w) PROVE PointsInvariant'
  BY <1>4, WorksPoints
<1>5. ASSUME NEW w \in Workers, Ends(w) PROVE PointsInvariant'
  BY <1>1, <1>5, CommitPoints, EndsPoints
<1>6. ASSUME NEW w \in Workers, NEW d \in Docs, StartAttempt(w, d) PROVE PointsInvariant'
  BY <1>1, <1>6, StartPoints
<1> QED  BY <1>2, <1>3, <1>4, <1>5, <1>6, IngestSteps

-----------------------------------------------------------------------------
(* The theorems *)

IngestInvariant ==
    /\ TypeOK /\ QueueInvariant
    /\ IngestTypeOK
    /\ BaseInvariant
    /\ ContentInvariant
    /\ IndexInvariant
    /\ PointsInvariant

\* The inductive invariant: an attempt holds the claim it works under, what an
\* owner has stored stays, a published attempt is whole, the keyword index is
\* only changed by an owner, and every vector belongs to somebody.
THEOREM IngestInvariantHolds == IngestSpec => []IngestInvariant
<1>1. IngestInit => IngestInvariant
  BY BaseStarts, ContentStarts, IndexStarts, PointsStart DEF IngestInvariant
<1>2. IngestInvariant /\ [IngestNext]_ingestVars => IngestInvariant'
  <2> SUFFICES ASSUME IngestInvariant, [IngestNext]_ingestVars PROVE IngestInvariant'
    OBVIOUS
  <2>1. TypeOK' /\ QueueInvariant'
    BY QueueHolds DEF IngestInvariant
  <2>2. IngestTypeOK' /\ BaseInvariant'
    BY IngestTypeStep, BaseStep DEF IngestInvariant
  <2>3. ContentInvariant' /\ IndexInvariant' /\ PointsInvariant'
    BY ContentStep, IndexStep, PointsStep DEF IngestInvariant
  <2> QED  BY <2>1, <2>2, <2>3 DEF IngestInvariant
<1> QED  BY <1>1, <1>2, PTL DEF IngestSpec

\* Rows, claims, jobs, stores and deletions have their types.
THEOREM IngestTypeCorrect == IngestSpec => [](TypeOK /\ IngestTypeOK)
<1>1. IngestInvariant => TypeOK /\ IngestTypeOK
  BY DEF IngestInvariant
<1> QED  BY <1>1, IngestInvariantHolds, PTL

\* A READY document is found through all three indexes, and the keyword index
\* knows no other attempt of it, whatever shutdowns, ambiguous commits and
\* stale deletes do: only a store call that outlasts its lease, or a DELETE that
\* died half way, can change that.
THEOREM SearchableUnlessStalledHolds == IngestSpec => []SearchableUnlessStalled
<1>1. IngestInvariant => SearchableUnlessStalled
  <2> SUFFICES ASSUME IngestInvariant, Only({"CANCEL", "LOST_COMMIT", "STALE_VIEW"}),
                      NEW d \in Docs, Settled(d)
               PROVE  doc[d].parsed \in dense[d] \cap sparse[d] /\ bm25[d] = {doc[d].parsed}
    BY DEF SearchableUnlessStalled, ReadySearchable
  <2>1. Off("STALL") /\ Off("PURGE_ABORTED")
    BY DEF Only, Off
  <2> QED  BY <2>1 DEF IngestInvariant, ContentInvariant, PointsIn, IndexInvariant, IndexOfRow
<1> QED  BY <1>1, IngestInvariantHolds, PTL

\* The vectors of the published attempt outlive every other worker, even with
\* stalled stores.
THEOREM ReadyPointsIntactHolds == IngestSpec => []ReadyPointsIntact
<1>1. IngestInvariant => ReadyPointsIntact
  <2> SUFFICES ASSUME IngestInvariant, Only({"STALL", "CANCEL", "LOST_COMMIT"}),
                      NEW d \in Docs, Settled(d)
               PROVE  doc[d].parsed \in dense[d] \cap sparse[d]
    BY DEF ReadyPointsIntact
  <2>1. Off("PURGE_ABORTED")
    BY DEF Only, Off
  <2> QED  BY <2>1 DEF IngestInvariant, ContentInvariant, PointsIn
<1> QED  BY <1>1, IngestInvariantHolds, PTL

\* The parsed text a row points to is never overwritten or removed by an attempt
\* that runs, fails or loses its lease.
THEOREM PublishedArtifactKeptHolds == IngestSpec => []PublishedArtifactKept
<1>1. IngestInvariant => PublishedArtifactKept
  <2> SUFFICES ASSUME IngestInvariant, Only({"STALL", "STALE_VIEW"}),
                      NEW d \in Docs, doc[d].chunks # 0, ~Purging(d)
               PROVE  <<doc[d].parsed, "MARKDOWN">> \in objects[d]
    BY DEF PublishedArtifactKept, ParsedTextKept
  <2>1. Off("PURGE_ABORTED") /\ Off("CANCEL") /\ Off("LOST_COMMIT")
    BY DEF Only, Off
  <2> QED  BY <2>1 DEF IngestInvariant, ContentInvariant, TextIn
<1> QED  BY <1>1, IngestInvariantHolds, PTL

\* No vector leaks: it is published, pending, or left by an attempt known to
\* have ended without its clean-up.
THEOREM PointsAccountedHolds == IngestSpec => []PointsAccounted
<1>1. IngestInvariant => PointsAccounted
  <2> SUFFICES ASSUME IngestInvariant, Only({"STALL", "CANCEL", "PURGE_ABORTED"}), NEW d \in Docs
               PROVE  dense[d] \cup sparse[d] \subseteq
                          {doc[d].parsed} \cup abandoned[d]
                              \cup {job[w].attempt : w \in {v \in Workers : job[v].doc = d}}
    BY DEF PointsAccounted
  <2>1. Off("LOST_COMMIT") /\ Off("STALE_VIEW")
    BY DEF Only, Off
  <2>2. Points(d) \subseteq {doc[d].parsed} \cup abandoned[d] \cup Pending(d)
    BY <2>1 DEF IngestInvariant, PointsInvariant, PointsOf
  <2>3. Pending(d) \subseteq {job[w].attempt : w \in {v \in Workers : job[v].doc = d}}
    BY DEF Pending
  <2> QED  BY <2>2, <2>3 DEF Points
<1> QED  BY <1>1, IngestInvariantHolds, PTL

\* Without stalled stores a deleted document leaves nothing in the keyword
\* index, even when an earlier DELETE of it died half way.
THEOREM NoBm25AfterDeleteHolds == IngestSpec => []NoBm25AfterDelete
<1>1. IngestInvariant => NoBm25AfterDelete
  BY DEF IngestInvariant, IndexInvariant, IndexOfRow, NoBm25AfterDelete, Off
<1> QED  BY <1>1, IngestInvariantHolds, PTL

\* With the stores and their failures in the picture, the documents still go
\* through the lifecycle of DocumentLifecycle.
THEOREM IngestImplementsLifecycle == IngestSpec => LifecycleImplemented
<1>1. IngestInit => Lifecycle!LifecycleInit
  BY InitRefines DEF IngestInit
<1>2. IngestInvariant /\ [IngestNext]_ingestVars
         => [Lifecycle!LifecycleNext]_(Lifecycle!lifecycleVars)
  BY QueueHolds DEF IngestInvariant
<1> QED  BY <1>1, <1>2, IngestInvariantHolds, PTL
         DEF IngestSpec, LifecycleImplemented, Lifecycle!LifecycleSpec

\* At most one attempt per document passes the lease fence, while it writes to
\* the stores too.
THEOREM SingleOwnerUnderIngestion == IngestSpec => []SingleOwner
<1>1. IngestInvariant => SingleOwner
  BY OneOwner DEF IngestInvariant
<1> QED  BY <1>1, IngestInvariantHolds, PTL

\* A lease lost between two stages is not won back.
THEOREM LostLeasesStayLostUnderIngestion == IngestSpec => LostLeaseStaysLost
<1>1. IngestInvariant /\ [IngestNext]_ingestVars => [LostForever]_queueVars
  BY QueueHolds DEF IngestInvariant
<1> QED  BY <1>1, IngestInvariantHolds, PTL DEF IngestSpec, LostLeaseStaysLost

=============================================================================
