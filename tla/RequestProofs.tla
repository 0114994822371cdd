----------------------------- MODULE RequestProofs -----------------------------
(***************************************************************************)
(* Proofs about four components of the API that share no state: the local  *)
(* copies of tables (QueryCache), the versions of a structured asset       *)
(* (StructuredImport), one conversation (Conversation) and the folders of  *)
(* a dataset (DatasetFolders).  Each has its types and an inductive        *)
(* invariant of its own, under its own specification.                      *)
(***************************************************************************)
EXTENDS DatasetFolders, StructuredImport, Conversation, QueryCache,
        FiniteSetTheorems, TLAPS

-----------------------------------------------------------------------------
(* QueryCache *)

CacheTypeOK ==
    /\ content \in [Files -> SUBSET Blocks]
    /\ partial \in Files \cup {NoFile} /\ cached \in Files \cup {NoFile}
    /\ download \in [Queries -> Download \cup {NoDownload}]
    /\ shared \subseteq Files /\ abandoned \subseteq Files
    /\ \A q \in Queries : download[q] # NoDownload /\ download[q].at # "MISSED"
                             => download[q].file \in Files

\* What the threads that still write to the file will add to it.
Coming(f) == UNION {download[q].left : q \in Users(f)}

\* A path leads to a file that is abandoned or complete but for what is coming.
PathsComplete ==
    \A f \in {partial, cached} \cap Files :
       f \in abandoned \/ Blocks \ content[f] \subseteq Coming(f)

\* Only a shared file has two users, or one user and somebody who broke off.
OneUserUnlessShared ==
    \A f \in Files \ shared :
       /\ \A p, q \in Users(f) : p = q
       /\ f \in abandoned => Users(f) = {}

\* The inductive invariant of the cache.
CacheInvariant ==
    /\ partial = NoFile \/ partial # cached
    /\ PathsComplete
    /\ OneUserUnlessShared
    /\ cached \in Files \ shared => content[cached] = Blocks
    /\ \A q \in Queries : Downloading(q, "MISSED")
                             => download[q].file = NoFile /\ download[q].left = Blocks

LEMMA DownloadTyped ==
    ASSUME CacheTypeOK, NEW q \in Queries, download[q] # NoDownload
    PROVE  /\ download[q] \in Download
           /\ download[q].at \in {"MISSED", "FETCHING", "CANCELLED"}
           /\ download[q].left \in SUBSET Blocks
           /\ download[q].at # "MISSED" => download[q].file \in Files
  BY DEF CacheTypeOK, Download

LEMMA CacheTypeStep ==
    ASSUME CacheTypeOK, [CacheNext]_cacheVars
    PROVE  CacheTypeOK'
<1>1. CASE UNCHANGED cacheVars
  BY <1>1 DEF CacheTypeOK, cacheVars
<1>2. ASSUME NEW q \in Queries, LookUp(q) PROVE CacheTypeOK'
  <2>1. [at |-> "MISSED", file |-> NoFile, left |-> Blocks] \in Download
    BY DEF Download
  <2> QED  BY <1>2, <2>1 DEF LookUp, CacheTypeOK
<1>3. ASSUME NEW q \in Queries, OpenPartial(q) PROVE CacheTypeOK'
  <2>1. PICK f \in Files : OpenFile(q, f) /\ partial' = f
    BY <1>3 DEF OpenPartial
  <2>2. download[q] # NoDownload
    BY <1>3 DEF OpenPartial, Downloading
  <2>3. download' = [download EXCEPT ![q] = [download[q] EXCEPT !.at = "FETCHING", !.file = f]]
    BY <2>1 DEF OpenFile, CacheTypeOK
  <2>4. [download[q] EXCEPT !.at = "FETCHING", !.file = f] \in Download
    BY <2>2, DownloadTyped DEF Download
  <2>5. [download[q] EXCEPT !.at = "FETCHING", !.file = f].file = f
    BY <2>2, DownloadTyped DEF Download
  <2> QED  BY <1>3, <2>1, <2>3, <2>4, <2>5 DEF OpenPartial, OpenFile, CacheTypeOK
<1>4. ASSUME NEW q \in Queries, NEW b \in Blocks, WriteBlock(q, b) PROVE CacheTypeOK'
  <2>1. download[q] # NoDownload /\ download[q].file \in Files
    BY <1>4, DownloadTyped DEF WriteBlock, Downloading
  <2>2. [download[q] EXCEPT !.left = @ \ {b}] \in Download
    BY <2>1, DownloadTyped DEF Download
  <2>3. [download[q] EXCEPT !.left = @ \ {b}].file = download[q].file
    BY <2>1, DownloadTyped DEF Download
  <2> QED  BY <1>4, <2>1, <2>2, <2>3 DEF WriteBlock, CacheTypeOK
<1>5. ASSUME NEW q \in Queries, Publish(q) PROVE CacheTypeOK'
  BY <1>5 DEF Publish, CacheTypeOK
<1>6. ASSUME NEW q \in Queries, Cancel(q) PROVE CacheTypeOK'
  <2>1. download[q] # NoDownload /\ download[q].file \in Files
    BY <1>6, DownloadTyped DEF Cancel, Downloading
  <2>2. [download[q] EXCEPT !.at = "CANCELLED"] \in Download
    BY <2>1, DownloadTyped DEF Download
  <2>3. [download[q] EXCEPT !.at = "CANCELLED"].file = download[q].file
    BY <2>1, DownloadTyped DEF Download
  <2> QED  BY <1>6, <2>1, <2>2, <2>3 DEF Cancel, CacheTypeOK
<1>7. ASSUME NEW q \in Queries, Leave(q) PROVE CacheTypeOK'
  BY <1>7 DEF Leave, CacheTypeOK
<1>8. ASSUME NEW q \in Queries, BreakOffDownload(q) PROVE CacheTypeOK'
  <2>1. download[q].file \in Files
    BY <1>8, DownloadTyped DEF BreakOffDownload, Downloading
  <2> QED  BY <1>8, <2>1 DEF BreakOffDownload, CacheTypeOK
<1> QED
  BY <1>1, <1>2, <1>3, <1>4, <1>5, <1>6, <1>7, <1>8 DEF CacheNext

\* One download goes from what it was to x.
Becomes(q, x) == download' = [download EXCEPT ![q] = x]

\* A step of a query moves no other query in or out of a file.
LEMMA OthersStay ==
    ASSUME CacheTypeOK, NEW q \in Queries, NEW x, Becomes(q, x),
           NEW f \in Files
    PROVE  /\ Users(f)' \ {q} = Users(f) \ {q}
           /\ \A p \in Users(f) \ {q} : download'[p] = download[p]
           /\ q \in Users(f)' <=> /\ x # NoDownload /\ x.file = f
                                  /\ x.at = "FETCHING" \/ x.left # {}
<1>1. download'[q] = x /\ \A p \in Queries \ {q} : download'[p] = download[p]
  BY DEF CacheTypeOK, Becomes
<1> QED  BY <1>1 DEF Users

\* What is coming, as q adds to it before and after.
LEMMA ComingSplit ==
    ASSUME CacheTypeOK, NEW q \in Queries, NEW x, Becomes(q, x),
           NEW f \in Files
    PROVE  /\ Coming(f) = (UNION {download[p].left : p \in Users(f) \ {q}})
                          \cup (IF q \in Users(f) THEN download[q].left ELSE {})
           /\ Coming(f)' = (UNION {download[p].left : p \in Users(f) \ {q}})
                           \cup (IF q \in Users(f)' THEN x.left ELSE {})
<1> DEFINE U == Users(f)
           V == Users(f)'
           old == UNION {download[p].left : p \in U \ {q}}
<1>1. V \ {q} = U \ {q} /\ \A p \in U \ {q} : download'[p] = download[p]
  BY OthersStay
<1>2. download'[q] = x
  BY DEF CacheTypeOK, Becomes
<1>3. Coming(f) = UNION {download[p].left : p \in U}
  BY DEF Coming
<1>4. Coming(f)' = UNION {download'[p].left : p \in V}
  BY DEF Coming
<1> HIDE DEF U, V
<1>5. UNION {download[p].left : p \in U} = old \cup (IF q \in U THEN download[q].left ELSE {})
  OBVIOUS
<1>6. UNION {download'[p].left : p \in V} = old \cup (IF q \in V THEN x.left ELSE {})
  BY <1>1, <1>2
<1> QED  BY <1>3, <1>4, <1>5, <1>6 DEF U, V

LEMMA CacheQuietStep ==
    ASSUME CacheInvariant, UNCHANGED <<content, partial, cached, shared, abandoned>>,
           \A f \in Files : Users(f)' \subseteq Users(f) /\ Coming(f)' = Coming(f),
           \A q \in Queries : Downloading(q, "MISSED")'
              => download'[q].file = NoFile /\ download'[q].left = Blocks
    PROVE  CacheInvariant'
<1>1. PathsComplete'
  BY DEF CacheInvariant, PathsComplete
<1>2. OneUserUnlessShared'
  BY DEF CacheInvariant, OneUserUnlessShared
<1> QED  BY <1>1, <1>2 DEF CacheInvariant

\* No query but q can become one that has yet to open its file.
LEMMA MissedStay ==
    ASSUME CacheTypeOK, CacheInvariant, NEW q \in Queries, NEW x, Becomes(q, x),
           x # NoDownload /\ x.at = "MISSED" => x.file = NoFile /\ x.left = Blocks
    PROVE  \A p \in Queries : Downloading(p, "MISSED")'
              => download'[p].file = NoFile /\ download'[p].left = Blocks
<1>1. download'[q] = x /\ \A p \in Queries \ {q} : download'[p] = download[p]
  BY DEF CacheTypeOK, Becomes
<1> QED  BY <1>1 DEF CacheInvariant, Downloading

LEMMA LookUpKeeps ==
    ASSUME CacheTypeOK, CacheInvariant, NEW q \in Queries, LookUp(q)
    PROVE  CacheInvariant'
<1> DEFINE x == [at |-> "MISSED", file |-> NoFile, left |-> Blocks]
<1>1. Becomes(q, x) /\ download[q] = NoDownload
  BY DEF LookUp, Becomes
<1>2. x.file = NoFile /\ x.left = Blocks /\ x.at = "MISSED"
  OBVIOUS
<1> HIDE DEF x
<1>3. ASSUME NEW f \in Files PROVE Users(f)' \subseteq Users(f) /\ Coming(f)' = Coming(f)
  <2>1. q \notin Users(f)
    BY <1>1 DEF Users
  <2>2. q \notin Users(f)'
    BY <1>1, <1>2, OthersStay, CacheAssumption
  <2>3. Users(f)' = Users(f)
    BY <1>1, <2>1, <2>2, OthersStay
  <2> QED  BY <1>1, <2>1, <2>2, <2>3, ComingSplit
<1> QED  BY <1>1, <1>2, <1>3, MissedStay, CacheQuietStep DEF LookUp

LEMMA CancelKeeps ==
    ASSUME CacheTypeOK, CacheInvariant, NEW q \in Queries, Cancel(q)
    PROVE  CacheInvariant'
<1> DEFINE x == [download[q] EXCEPT !.at = "CANCELLED"]
<1>1. /\ Becomes(q, x)
      /\ download[q] # NoDownload /\ download[q].at = "FETCHING"
  BY DEF Cancel, Downloading, Becomes
<1>2. /\ x.file = download[q].file /\ x.left = download[q].left /\ x.at = "CANCELLED"
      /\ x # NoDownload
  <2>1. x \in Download /\ x.file = download[q].file /\ x.left = download[q].left /\ x.at = "CANCELLED"
    BY <1>1, DownloadTyped DEF Download
  <2> QED  BY <2>1, CacheAssumption
<1> HIDE DEF x
<1>3. ASSUME NEW f \in Files PROVE Users(f)' \subseteq Users(f) /\ Coming(f)' = Coming(f)
  <2>1. q \in Users(f) <=> download[q].file = f
    BY <1>1 DEF Users
  <2>2. q \in Users(f)' <=> download[q].file = f /\ download[q].left # {}
    BY <1>1, <1>2, OthersStay
  <2>3. Users(f)' \subseteq Users(f)
    BY <1>1, <2>1, <2>2, OthersStay
  <2>4. Coming(f)' = Coming(f)
    <3>1. CASE download[q].left = {}
      BY <1>1, <1>2, <3>1, ComingSplit
    <3>2. CASE q \in Users(f) <=> q \in Users(f)'
      BY <1>1, <1>2, <3>2, ComingSplit
    <3> QED  BY <2>1, <2>2, <3>1, <3>2
  <2> QED  BY <2>3, <2>4
<1> QED  BY <1>1, <1>2, <1>3, MissedStay, CacheQuietStep DEF Cancel

LEMMA LeaveKeeps ==
    ASSUME CacheTypeOK, CacheInvariant, NEW q \in Queries, Leave(q)
    PROVE  CacheInvariant'
<1>1. Becomes(q, NoDownload)
  BY DEF Leave, Becomes
<1>2. ASSUME NEW f \in Files PROVE Users(f)' \subseteq Users(f) /\ Coming(f)' = Coming(f)
  <2>1. q \notin Users(f)
    BY CacheAssumption DEF Leave, Users, Downloading, CacheInvariant
  <2>2. q \notin Users(f)'
    BY <1>1, OthersStay
  <2>3. Users(f)' = Users(f)
    BY <1>1, <2>1, <2>2, OthersStay
  <2> QED  BY <1>1, <2>1, <2>2, <2>3, ComingSplit
<1> QED  BY <1>1, <1>2, MissedStay, CacheQuietStep DEF Leave

LEMMA OpenPartialKeeps ==
    ASSUME CacheTypeOK, CacheInvariant, NEW q \in Queries, OpenPartial(q)
    PROVE  CacheInvariant'
<1>1. PICK f \in Files : /\ IF partial = NoFile THEN f \in Unused ELSE f = partial
                         /\ OpenFile(q, f)
                         /\ partial' = f
  BY DEF OpenPartial
<1> DEFINE x == [download[q] EXCEPT !.at = "FETCHING", !.file = f]
<1>2. /\ download[q] # NoDownload /\ download[q].at = "MISSED"
      /\ download[q].file = NoFile /\ download[q].left = Blocks
  BY DEF OpenPartial, Downloading, CacheInvariant
<1>3. /\ x \in Download /\ x # NoDownload
      /\ x.file = f /\ x.left = Blocks /\ x.at = "FETCHING"
  <2>1. x \in Download /\ x.file = f /\ x.left = Blocks /\ x.at = "FETCHING"
    BY <1>2, DownloadTyped DEF Download
  <2> QED  BY <2>1, CacheAssumption
<1>4. Becomes(q, x)
  BY <1>1 DEF OpenFile, CacheTypeOK, Becomes
<1> HIDE DEF x
<1>5. ASSUME NEW g \in Files PROVE q \notin Users(g)
  BY <1>2, CacheAssumption DEF Users
<1>6. ASSUME NEW g \in Files, g # f PROVE Users(g)' = Users(g) /\ Coming(g)' = Coming(g)
  <2>1. q \notin Users(g) /\ q \notin Users(g)'
    BY <1>3, <1>4, <1>5, <1>6, OthersStay
  <2>2. Users(g)' = Users(g)
    BY <1>4, <2>1, OthersStay
  <2> QED  BY <1>4, <2>1, <2>2, ComingSplit
<1>7. q \in Users(f)' /\ Users(f)' \ {q} = Users(f)
  BY <1>3, <1>4, <1>5, OthersStay
<1>8. Blocks \subseteq Coming(f)'
  BY <1>3, <1>4, <1>7, ComingSplit
<1>9. cached' = cached /\ partial' = f /\ cached # f
  BY <1>1, CacheAssumption DEF OpenPartial, Unused, CacheInvariant
<1>10. /\ \A g \in Files : g # f => content'[g] = content[g]
       /\ \A g \in Files \ {f} : (g \in shared' <=> g \in shared)
                                 /\ (g \in abandoned' <=> g \in abandoned)
       /\ f \notin abandoned' /\ (f \notin shared' => Users(f) = {})
  BY <1>1 DEF OpenFile, CacheTypeOK
<1>11. PathsComplete'
  <2> SUFFICES ASSUME NEW g \in {partial', cached'} \cap Files
               PROVE  g \in abandoned' \/ Blocks \ content'[g] \subseteq Coming(g)'
    BY DEF PathsComplete
  <2>1. CASE g = f
    BY <2>1, <1>8
  <2>2. CASE g # f
    BY <2>2, <1>6, <1>9, <1>10 DEF CacheInvariant, PathsComplete
  <2> QED  BY <2>1, <2>2
<1>12. OneUserUnlessShared'
  <2> SUFFICES ASSUME NEW g \in Files \ shared'
               PROVE  /\ \A p, r \in Users(g)' : p = r
                      /\ g \in abandoned' => Users(g)' = {}
    BY DEF OneUserUnlessShared
  <2>1. CASE g = f
    BY <2>1, <1>7, <1>10
  <2>2. CASE g # f
    BY <2>2, <1>6, <1>10 DEF CacheInvariant, OneUserUnlessShared
  <2> QED  BY <2>1, <2>2
<1>13. cached' \in Files \ shared' => content'[cached'] = Blocks
  BY <1>9, <1>10 DEF CacheInvariant
<1>14. \A p \in Queries : Downloading(p, "MISSED")'
          => download'[p].file = NoFile /\ download'[p].left = Blocks
  BY <1>3, <1>4, MissedStay
<1> QED  BY <1>9, <1>11, <1>12, <1>13, <1>14 DEF CacheInvariant

LEMMA WriteBlockKeeps ==
    ASSUME CacheTypeOK, CacheInvariant, NEW q \in Queries, NEW b \in Blocks, WriteBlock(q, b)
    PROVE  CacheInvariant'
<1> DEFINE x == [download[q] EXCEPT !.left = @ \ {b}]
<1>0. PICK f \in Files : f = download[q].file
  BY DownloadTyped DEF WriteBlock, Downloading
<1>1. /\ download[q] # NoDownload /\ download[q].at # "MISSED"
      /\ b \in download[q].left
  BY DEF WriteBlock, Downloading
<1>2. /\ x # NoDownload /\ x.file = f /\ x.left = download[q].left \ {b}
      /\ x.at = download[q].at
  <2>1. /\ x \in Download /\ x.file = f /\ x.left = download[q].left \ {b}
        /\ x.at = download[q].at
    BY <1>0, <1>1, DownloadTyped DEF Download
  <2> QED  BY <2>1, CacheAssumption
<1>3. Becomes(q, x)
  BY DEF WriteBlock, CacheTypeOK, Becomes
<1> HIDE DEF x
<1>4. ASSUME NEW g \in Files PROVE Users(g)' \subseteq Users(g)
  <2>1. q \in Users(g)' => q \in Users(g)
    BY <1>1, <1>2, <1>3, <1>0, OthersStay DEF Users
  <2> QED  BY <1>3, <2>1, OthersStay
<1>5. ASSUME NEW g \in Files, g # f PROVE Coming(g)' = Coming(g)
  <2>1. q \notin Users(g)
    BY <1>0, <1>5 DEF Users
  <2> QED  BY <1>3, <1>4, <2>1, ComingSplit
<1>6. Coming(f) \ {b} \subseteq Coming(f)'
  <2>1. q \notin Users(f)' => x.left = {}
    BY <1>1, <1>2, <1>3, OthersStay
  <2>2. q \in Users(f)
    BY <1>0, <1>1 DEF Users
  <2> QED  BY <1>1, <1>2, <1>3, <2>1, <2>2, ComingSplit
<1>7. /\ content'[f] = content[f] \cup {b}
      /\ \A g \in Files : g # f => content'[g] = content[g]
      /\ UNCHANGED <<partial, cached, shared, abandoned>>
  BY <1>0, <1>1 DEF WriteBlock, CacheTypeOK
<1>8. PathsComplete'
  <2> SUFFICES ASSUME NEW g \in {partial', cached'} \cap Files
               PROVE  g \in abandoned' \/ Blocks \ content'[g] \subseteq Coming(g)'
    BY DEF PathsComplete
  <2>1. g \in abandoned \/ Blocks \ content[g] \subseteq Coming(g)
    BY <1>7 DEF CacheInvariant, PathsComplete
  <2>2. CASE g = f
    <3>1. f \in abandoned \/ Blocks \ content[f] \subseteq Coming(f)
      BY <2>1, <2>2
    <3>2. Blocks \ content'[f] = (Blocks \ content[f]) \ {b}
      BY <1>7
    <3> QED  BY <2>2, <3>1, <3>2, <1>6, <1>7
  <2>3. CASE g # f
    BY <2>1, <2>3, <1>5, <1>7
  <2> QED  BY <2>2, <2>3
<1>9. OneUserUnlessShared'
  BY <1>4, <1>7 DEF CacheInvariant, OneUserUnlessShared
<1>10. cached' \in Files \ shared' => content'[cached'] = Blocks
  BY <1>7 DEF CacheInvariant
<1>11. \A p \in Queries : Downloading(p, "MISSED")'
          => download'[p].file = NoFile /\ download'[p].left = Blocks
  BY <1>1, <1>2, <1>3, MissedStay
<1> QED  BY <1>7, <1>8, <1>9, <1>10, <1>11 DEF CacheInvariant

\* A download that ends takes away what it would have written.
LEMMA Ended ==
    ASSUME CacheTypeOK, NEW q \in Queries, Becomes(q, NoDownload), NEW g \in Files
    PROVE  /\ Users(g)' = Users(g) \ {q}
           /\ q \notin Users(g) \/ download[q].left = {} => Coming(g)' = Coming(g)
<1>1. q \notin Users(g)'
  BY OthersStay
<1>2. Users(g)' = Users(g) \ {q}
  BY <1>1, OthersStay
<1>3. CASE q \notin Users(g)
  BY <1>1, <1>2, <1>3, ComingSplit
<1>4. CASE download[q].left = {}
  BY <1>1, <1>2, <1>4, ComingSplit
<1> QED  BY <1>2, <1>3, <1>4

LEMMA PublishKeeps ==
    ASSUME CacheTypeOK, CacheInvariant, NEW q \in Queries, Publish(q)
    PROVE  CacheInvariant'
<1>1. /\ Becomes(q, NoDownload) /\ download[q].left = {}
      /\ download[q] # NoDownload /\ download[q].at = "FETCHING"
      /\ UNCHANGED <<content, abandoned>> /\ partial' = NoFile
  BY DEF Publish, Becomes, Downloading
<1>2. ASSUME NEW g \in Files
      PROVE  Users(g)' \subseteq Users(g) /\ Coming(g)' = Coming(g)
  BY <1>1, Ended
<1>3. \A p \in Queries : Downloading(p, "MISSED")'
         => download'[p].file = NoFile /\ download'[p].left = Blocks
  BY <1>1, MissedStay
<1>4. CASE partial = NoFile
  BY <1>1, <1>2, <1>3, <1>4, CacheQuietStep DEF Publish
<1>5. CASE partial # NoFile
  <2>1. /\ cached' = partial /\ partial \in Files /\ shared \subseteq shared'
        /\ partial \notin shared' => partial \notin shared /\ partial = download[q].file
    BY <1>5 DEF Publish, CacheTypeOK
  <2>2. PathsComplete'
    BY <1>1, <1>2, <2>1, CacheAssumption DEF CacheInvariant, PathsComplete
  <2>3. OneUserUnlessShared'
    BY <1>1, <1>2, <2>1 DEF CacheInvariant, OneUserUnlessShared
  <2>4. ASSUME partial \notin shared' PROVE content[partial] = Blocks
    <3>1. q \in Users(partial)
      BY <1>1, <2>1, <2>4 DEF Users
    <3>2. Users(partial) = {q} /\ partial \notin abandoned
      BY <2>1, <2>4, <3>1 DEF CacheInvariant, OneUserUnlessShared
    <3>3. Coming(partial) = {}
      BY <1>1, <3>2 DEF Coming
    <3>4. Blocks \ content[partial] \subseteq {}
      BY <2>1, <3>2, <3>3 DEF CacheInvariant, PathsComplete
    <3> QED  BY <2>1, <3>4 DEF CacheTypeOK
  <2> QED  BY <1>1, <1>3, <2>1, <2>2, <2>3, <2>4 DEF CacheInvariant
<1> QED  BY <1>4, <1>5

LEMMA BreakOffKeeps ==
    ASSUME CacheTypeOK, CacheInvariant, NEW q \in Queries, BreakOffDownload(q)
    PROVE  CacheInvariant'
<1> DEFINE f == download[q].file
<1>1. /\ Becomes(q, NoDownload) /\ download[q] # NoDownload
      /\ UNCHANGED <<content, partial, cached, shared>>
      /\ abandoned' = IF download[q].left # {} THEN abandoned \cup {f} ELSE abandoned
  BY DEF BreakOffDownload, Becomes, Downloading
<1>2. ASSUME NEW g \in Files
      PROVE  /\ Users(g)' = Users(g) \ {q}
             /\ g \in abandoned' \/ Coming(g)' = Coming(g)
  <2>1. Users(g)' = Users(g) \ {q}
    BY <1>1, Ended
  <2>2. q \notin Users(g) \/ download[q].left = {} => Coming(g)' = Coming(g)
    BY <1>1, Ended
  <2>3. q \in Users(g) => g = f
    BY DEF Users
  <2> QED  BY <1>1, <2>1, <2>2, <2>3
<1>3. \A p \in Queries : Downloading(p, "MISSED")'
         => download'[p].file = NoFile /\ download'[p].left = Blocks
  BY <1>1, MissedStay
<1>4. PathsComplete'
  BY <1>1, <1>2 DEF CacheInvariant, PathsComplete
<1>5. OneUserUnlessShared'
  <2> SUFFICES ASSUME NEW g \in Files \ shared
               PROVE  /\ \A p, r \in Users(g)' : p = r
                      /\ g \in abandoned' => Users(g)' = {}
    BY <1>1 DEF OneUserUnlessShared
  <2>1. /\ \A p, r \in Users(g) : p = r
        /\ g \in abandoned => Users(g) = {}
    BY DEF CacheInvariant, OneUserUnlessShared
  <2>2. g \in abandoned' /\ g \notin abandoned => q \in Users(g)
    BY <1>1 DEF Users
  <2> QED  BY <1>2, <2>1, <2>2
<1> QED  BY <1>1, <1>3, <1>4, <1>5 DEF CacheInvariant

\* The types of the cache: a query that has opened a file knows which.
THEOREM CacheTypeCorrect == CacheSpec => []CacheTypeOK
<1>1. CacheInit => CacheTypeOK
  BY DEF CacheInit, CacheTypeOK
<1> QED  BY <1>1, CacheTypeStep, PTL DEF CacheSpec

\* The inductive invariant of the cache: a path leads to a file that is complete
\* but for what its users are still to write, unless one of them broke off.
THEOREM CacheInvariantHolds == CacheSpec => []CacheInvariant
<1>1. CacheInit => CacheInvariant
  <2> SUFFICES ASSUME CacheInit PROVE CacheInvariant
    OBVIOUS
  <2>1. \A f \in Files : Users(f) = {}
    BY DEF CacheInit, Users
  <2> QED  BY <2>1, CacheAssumption
           DEF CacheInit, CacheInvariant, PathsComplete, OneUserUnlessShared, Downloading
<1>2. CacheTypeOK /\ CacheInvariant /\ [CacheNext]_cacheVars => CacheInvariant'
  <2>1. ASSUME CacheInvariant, UNCHANGED cacheVars PROVE CacheInvariant'
    BY <2>1 DEF CacheInvariant, PathsComplete, OneUserUnlessShared, Downloading, Coming, Users,
                cacheVars
  <2> QED  BY <2>1, LookUpKeeps, OpenPartialKeeps, WriteBlockKeeps, PublishKeeps, CancelKeeps,
              LeaveKeeps, BreakOffKeeps DEF CacheNext
<1> QED  BY <1>1, <1>2, CacheTypeCorrect, PTL DEF CacheSpec

\* Queries read a whole table, unless two downloads had one file, and then until
\* the later has written it or for good if it breaks off (_materialize).
THEOREM CopyIsWholeHolds == CacheSpec => []CopyIsWhole
<1>1. CacheTypeOK /\ CacheInvariant => CopyIsWhole
  <2> SUFFICES ASSUME CacheTypeOK, CacheInvariant, cached # NoFile, Blocks \ content[cached] # {}
               PROVE  /\ cached \in shared
                      /\ \/ cached \in abandoned
                         \/ Blocks \ content[cached] \subseteq Coming(cached)
    BY DEF CopyIsWhole, Coming
  <2>1. cached \in Files
    BY DEF CacheTypeOK
  <2> QED  BY <2>1 DEF CacheInvariant, PathsComplete
<1> QED  BY <1>1, CacheTypeCorrect, CacheInvariantHolds, PTL

-----------------------------------------------------------------------------
(* StructuredImport *)

ImportTypeOK ==
    /\ asset \in BOOLEAN /\ blind \in BOOLEAN /\ mishaps \in Nat
    /\ current \in Workbooks \cup {NoWorkbook}
    /\ versions \subseteq Workbooks /\ torn \subseteq Workbooks
    /\ raw \subseteq Workbooks /\ tables \subseteq Workbooks /\ stripped \subseteq Workbooks
    /\ import \in [Imports -> Transfer \cup {NoImport}]

LEMMA TransferTyped ==
    ASSUME ImportTypeOK, NEW i \in Imports, import[i] # NoImport
    PROVE  /\ import[i] \in Transfer /\ import[i].book \in Workbooks
           /\ import[i].seen \subseteq Workbooks /\ import[i].stored \in 0..2
  BY DEF ImportTypeOK, Transfer

LEMMA PromotedTyped ==
    ASSUME ImportTypeOK, NEW b \in Workbooks, NEW seen
    PROVE  Promoted(b, seen) \in {b, current}
  BY DEF Promoted

\* What a commit writes to the asset.
LEMMA WriteTyped ==
    ASSUME ImportTypeOK, NEW i \in Imports, import[i] # NoImport, Write(i)
    PROVE  /\ asset' \in BOOLEAN /\ blind' \in BOOLEAN
           /\ versions' = versions \cup {import[i].book}
           /\ versions' \subseteq Workbooks
           /\ current' \in {import[i].book, current}
           /\ current' \in Workbooks \cup {NoWorkbook}
<1>1. import[i].book \in Workbooks
  BY TransferTyped
<1>2. current' \in {import[i].book, current}
  BY <1>1, PromotedTyped DEF Write
<1> QED  BY <1>1, <1>2 DEF Write, ImportTypeOK

LEMMA ImportTypeStep ==
    ASSUME ImportTypeOK, [ImportNext]_importVars
    PROVE  ImportTypeOK'
<1>1. CASE UNCHANGED importVars
  BY <1>1 DEF ImportTypeOK, importVars, objects
<1>2. ASSUME NEW i \in Imports, NEW t, import' = [import EXCEPT ![i] = t],
             t \in Transfer \cup {NoImport},
             UNCHANGED <<asset, current, versions, objects, mishaps, blind, torn>>
      PROVE  ImportTypeOK'
  BY <1>2 DEF ImportTypeOK, objects
<1>3. ASSUME NEW i \in Imports, NEW at \in Stage,
             import[i] # NoImport, Advance(i, at),
             UNCHANGED <<asset, current, versions, objects, mishaps, blind, torn>>
      PROVE  ImportTypeOK'
  <2>1. [import[i] EXCEPT !.at = at] \in Transfer
    BY <1>3, TransferTyped DEF Transfer
  <2> QED  BY <1>2, <1>3, <2>1 DEF Advance, ImportTypeOK
<1>4. ASSUME NEW i \in Imports, EndImport(i),
             UNCHANGED <<asset, current, versions, objects, mishaps, blind, torn>>
      PROVE  ImportTypeOK'
  BY <1>2, <1>4 DEF EndImport
<1>5. ASSUME NEW i \in Imports, BeginImport(i) PROVE ImportTypeOK'
  <2>1. PICK b \in Workbooks : import' = [import EXCEPT ![i] =
                       [book |-> b, at |-> "BEGUN", seen |-> versions, stored |-> 0]]
    BY <1>5 DEF BeginImport
  <2>2. [book |-> b, at |-> "BEGUN", seen |-> versions, stored |-> 0] \in Transfer
    BY DEF ImportTypeOK, Transfer, Stage
  <2> QED  BY <1>5, <2>1, <2>2, <1>2 DEF BeginImport
<1>6. ASSUME NEW i \in Imports, LockAsset(i) \/ CreateAsset(i) PROVE ImportTypeOK'
  BY <1>3, <1>6 DEF LockAsset, CreateAsset, Step, Stage
<1>7. ASSUME NEW i \in Imports,
             Duplicate(i) \/ FlushVersion(i) \/ GiveUpRemoval(i) \/ RollBackImport(i)
      PROVE  ImportTypeOK'
  BY <1>3, <1>4, <1>7 DEF Duplicate, FlushVersion, GiveUpRemoval, RollBackImport, Step, Stage
<1>8. ASSUME NEW i \in Imports, StoreObjects(i) PROVE ImportTypeOK'
  <2>1. import[i] # NoImport /\ import[i].stored < 2
    BY <1>8 DEF StoreObjects, Step
  <2>2. [import[i] EXCEPT !.stored = @ + 1] \in Transfer
    BY <2>1, TransferTyped DEF Transfer
  <2>3. import' \in [Imports -> Transfer \cup {NoImport}]
    BY <1>8, <2>2 DEF StoreObjects, ImportTypeOK
  <2>4. raw' \subseteq Workbooks
    BY <1>8, <2>1, TransferTyped DEF StoreObjects, ImportTypeOK
  <2> QED  BY <1>8, <2>3, <2>4 DEF StoreObjects, ImportTypeOK
<1>9. ASSUME NEW i \in Imports, Commit(i) \/ CommitAnswerLost(i) PROVE ImportTypeOK'
  <2>1. import[i] # NoImport /\ Write(i) /\ (EndImport(i) \/ Advance(i, "LOST"))
    BY <1>9 DEF Commit, CommitAnswerLost, Step
  <2>2. /\ asset' \in BOOLEAN /\ blind' \in BOOLEAN /\ versions' \subseteq Workbooks
        /\ current' \in Workbooks \cup {NoWorkbook}
    BY <2>1, WriteTyped
  <2>3. /\ tables' \subseteq Workbooks /\ torn' \subseteq Workbooks /\ mishaps' \in Nat
        /\ raw' = raw /\ stripped' = stripped
    BY <1>9, <2>1, TransferTyped DEF Commit, CommitAnswerLost, Mishap, ImportTypeOK
  <2>4. [import[i] EXCEPT !.at = "LOST"] \in Transfer
    BY <2>1, TransferTyped DEF Transfer, Stage
  <2>5. import' \in [Imports -> Transfer \cup {NoImport}]
    BY <2>1, <2>4 DEF EndImport, Advance, ImportTypeOK
  <2> QED  BY <2>2, <2>3, <2>5 DEF ImportTypeOK
<1>10. ASSUME NEW i \in Imports, ImportBreaksOff(i) \/ ImportFails(i) PROVE ImportTypeOK'
  <2>1. import[i] # NoImport /\ (EndImport(i) \/ Advance(i, "FAILED"))
    BY <1>10 DEF ImportBreaksOff, ImportFails, Step
  <2>2. [import[i] EXCEPT !.at = "FAILED"] \in Transfer
    BY <2>1, TransferTyped DEF Transfer, Stage
  <2>3. import' \in [Imports -> Transfer \cup {NoImport}]
    BY <2>1, <2>2 DEF EndImport, Advance, ImportTypeOK
  <2>4. raw' \subseteq Workbooks /\ mishaps' \in Nat
    BY <1>10 DEF ImportBreaksOff, ImportFails, Mishap, ImportTypeOK
  <2> QED  BY <1>10, <2>3, <2>4 DEF ImportBreaksOff, ImportFails, ImportTypeOK
<1>11. ASSUME NEW i \in Imports, RemoveTables(i) PROVE ImportTypeOK'
  <2>1. import[i] # NoImport
    BY <1>11 DEF RemoveTables, Removing, Step
  <2>2. [import[i] EXCEPT !.stored = 1] \in Transfer
    BY <2>1, TransferTyped DEF Transfer
  <2>3. import' \in [Imports -> Transfer \cup {NoImport}]
    BY <1>11, <2>2 DEF RemoveTables, ImportTypeOK
  <2>4. tables' \subseteq Workbooks
    BY <1>11 DEF RemoveTables, ImportTypeOK
  <2> QED  BY <1>11, <2>3, <2>4 DEF RemoveTables, ImportTypeOK
<1>12. ASSUME NEW i \in Imports, RemoveRaw(i) PROVE ImportTypeOK'
  <2>1. import[i] # NoImport
    BY <1>12 DEF RemoveRaw, Removing, Step
  <2>2. raw' \subseteq Workbooks /\ stripped' \subseteq Workbooks
    BY <1>12, <2>1, TransferTyped DEF RemoveRaw, ImportTypeOK
  <2>3. import' \in [Imports -> Transfer \cup {NoImport}]
    BY <1>12 DEF RemoveRaw, EndImport, ImportTypeOK
  <2> QED  BY <1>12, <2>2, <2>3 DEF RemoveRaw, ImportTypeOK
<1> QED
  BY <1>1, <1>5, <1>6, <1>7, <1>8, <1>9, <1>10, <1>11, <1>12 DEF ImportNext, ImportStep

\* Whatever step an import takes, either it commits or the versions stay as they are.
LEMMA ImportCommits ==
    ASSUME [ImportNext]_importVars
    PROVE  \/ UNCHANGED <<current, versions, blind>>
           \/ \E i \in Imports : import[i] # NoImport /\ Write(i)
<1>1. ASSUME NEW i \in Imports, Commit(i) \/ CommitAnswerLost(i)
      PROVE  import[i] # NoImport /\ Write(i)
  BY <1>1 DEF Commit, CommitAnswerLost, Step
<1> QED
  BY <1>1 DEF ImportNext, ImportStep, importVars, BeginImport, LockAsset, CreateAsset, Duplicate,
              FlushVersion, StoreObjects, ImportBreaksOff, ImportFails, RemoveTables, RemoveRaw,
              GiveUpRemoval, RollBackImport

\* A promotion serves the newest edition if it saw the one served so far.
LEMMA PromotionServesNewest ==
    ASSUME ImportTypeOK, NewestIsServed, NEW i \in Imports, import[i] # NoImport, Write(i)
    PROVE  NewestIsServed'
<1> DEFINE b == import[i].book
           seen == import[i].seen
<1>1. b \in Workbooks /\ Years \in [Workbooks -> Nat]
  BY TransferTyped, ImportAssumption
<1> SUFFICES ASSUME ~blind', NEW c \in versions' \ Unparsed
             PROVE  current' # NoWorkbook /\ Years[current'] >= Years[c]
  BY DEF NewestIsServed
<1>2. ~blind /\ (current' = current \/ current \in seen \cup {NoWorkbook})
  BY DEF Write, ImportTypeOK
<1>3. \A v \in versions \ Unparsed : current # NoWorkbook /\ Years[current] >= Years[v]
  BY <1>2 DEF NewestIsServed
<1>4. c \in versions \/ c = b
  BY DEF Write
<1>5. Years[b] \in Nat /\ Years[c] \in Nat /\ (current # NoWorkbook => Years[current] \in Nat)
  BY <1>1, <1>4 DEF ImportTypeOK
<1>6. CASE b \in Unparsed
  BY <1>3, <1>4, <1>6 DEF Write
<1>7. CASE b \notin Unparsed
  <2> DEFINE year == IF current \in seen THEN Years[current] ELSE 0
  <2>1. current' = IF current = NoWorkbook \/ (Years[b] > 0 /\ Years[b] >= year)
                   THEN b ELSE current
    BY <1>7 DEF Write, Promoted
  <2>2. CASE current = NoWorkbook
    BY <1>1, <1>3, <1>4, <1>5, <2>1, <2>2, NoImportAssumption
  <2>3. CASE current # NoWorkbook /\ current \in seen
    BY <1>1, <1>3, <1>4, <1>5, <2>1, <2>3, NoImportAssumption
  <2>4. CASE current # NoWorkbook /\ current \notin seen
    <3>1. current' = current /\ (Years[b] = 0 \/ b = current)
      BY <1>2, <1>5, <2>1, <2>4
    <3> QED  BY <1>3, <1>4, <1>5, <2>4, <3>1
  <2> QED  BY <2>2, <2>3, <2>4
<1> QED  BY <1>6, <1>7

\* The types of the import.
THEOREM ImportTypeCorrect == ImportSpec => []ImportTypeOK
<1>1. ImportInit => ImportTypeOK
  <2> SUFFICES ASSUME ImportInit PROVE ImportTypeOK
    OBVIOUS
  <2>1. asset \in BOOLEAN /\ blind \in BOOLEAN
    BY DEF ImportInit
  <2>2. import \in [Imports -> Transfer \cup {NoImport}]
    BY DEF ImportInit
  <2> QED  BY <2>1, <2>2 DEF ImportInit, ImportTypeOK
<1> QED  BY <1>1, ImportTypeStep, PTL DEF ImportSpec

\* The import has locked the asset, or has created it.
Holding(i) == Step(i, "HOLDS") \/ Step(i, "FLUSHED")

\* The import has yet to flush its version.
Early(i) == \E at \in {"BEGUN", "GAP", "HOLDS"} : Step(i, at)

\* The inductive invariant of the import.  What it says of the raw objects needs
\* that nobody else stores when an import fails that has created the asset.
ImportInvariant ==
    /\ \A i, j \in Imports : Holding(i) /\ Holding(j) => i = j
    /\ ~asset => versions = {}
    /\ \A i \in Imports : HasStored(i) => import[i].book \in raw \cup stripped
    /\ \A i \in Imports : Early(i) => import[i].stored = 0
    /\ \A i \in Imports : Step(i, "LOST") => import[i].book \in torn
    /\ \A b \in versions : b \in tables \cup torn /\ b \in raw \cup stripped
    /\ current # NoWorkbook => current \in versions \ Unparsed

\* An import that goes from one stage to another leaves the others where they are.
LEMMA OtherImports ==
    ASSUME ImportTypeOK, NEW i \in Imports, NEW t, import' = [import EXCEPT ![i] = t]
    PROVE  /\ import'[i] = t
           /\ \A j \in Imports \ {i} :
                 /\ import'[j] = import[j]
                 /\ \A at : Step(j, at)' <=> Step(j, at)
                 /\ HasStored(j)' <=> HasStored(j)
                 /\ Holding(j)' <=> Holding(j)
                 /\ Early(j)' <=> Early(j)
  BY DEF ImportTypeOK, Step, HasStored, Holding, Early

\* A step that changes no object and no version: the import ends or moves on, and
\* nobody but an import that locks the asset begins to hold it.
LEMMA QuietImport ==
    ASSUME ImportTypeOK, ImportInvariant, NEW i \in Imports, NEW t,
           import' = [import EXCEPT ![i] = t],
           UNCHANGED <<asset, current, versions, raw, tables, torn, stripped>>,
           Holding(i)' => Holding(i) \/ ~Locked(i),
           HasStored(i)' => import'[i].book \in raw \cup stripped,
           Early(i)' => import'[i].stored = 0,
           Step(i, "LOST")' => import'[i].book \in torn
    PROVE  ImportInvariant'
<1>1. \A j \in Imports \ {i} :
         /\ import'[j] = import[j]
         /\ \A at : Step(j, at)' <=> Step(j, at)
         /\ HasStored(j)' <=> HasStored(j)
         /\ Holding(j)' <=> Holding(j)
         /\ Early(j)' <=> Early(j)
  BY OtherImports
<1>2. \A j, k \in Imports : Holding(j)' /\ Holding(k)' => j = k
  <2>1. ~Locked(i) => \A j \in Imports \ {i} : ~Holding(j)
    BY DEF Locked, Holding
  <2> QED  BY <1>1, <2>1 DEF ImportInvariant
<1>3. \A j \in Imports : HasStored(j)' => import'[j].book \in raw \cup stripped
  BY <1>1 DEF ImportInvariant
<1>4. \A j \in Imports : Step(j, "LOST")' => import'[j].book \in torn
  BY <1>1 DEF ImportInvariant
<1>5. \A j \in Imports : Early(j)' => import'[j].stored = 0
  BY <1>1 DEF ImportInvariant
<1> QED  BY <1>2, <1>3, <1>4, <1>5 DEF ImportInvariant

\* The import ends.
LEMMA EndImportKeeps ==
    ASSUME ImportTypeOK, ImportInvariant, NEW i \in Imports, EndImport(i),
           UNCHANGED <<asset, current, versions, raw, tables, torn, stripped>>
    PROVE  ImportInvariant'
<1>1. import'[i] = NoImport
  BY OtherImports DEF EndImport
<1>2. ~Holding(i)' /\ ~HasStored(i)' /\ ~Early(i)' /\ ~Step(i, "LOST")'
  BY <1>1 DEF Holding, HasStored, Early, Step
<1> QED  BY <1>2, QuietImport DEF EndImport

\* The import moves on to another stage.
LEMMA Advanced ==
    ASSUME ImportTypeOK, NEW i \in Imports, import[i] # NoImport, NEW at \in Stage, Advance(i, at)
    PROVE  /\ import' = [import EXCEPT ![i] = import'[i]]
           /\ import'[i].book = import[i].book /\ import'[i].stored = import[i].stored
           /\ \A a : Step(i, a)' <=> at = a
<1>1. PICK t : t = [import[i] EXCEPT !.at = at]
  OBVIOUS
<1>2. /\ t \in Transfer /\ t.at = at /\ t.book = import[i].book /\ t.stored = import[i].stored
  BY <1>1, TransferTyped DEF Transfer
<1>3. import' = [import EXCEPT ![i] = t] /\ import'[i] = t
  BY <1>1 DEF Advance, ImportTypeOK
<1> QED  BY <1>2, <1>3, NoImportAssumption DEF Step

LEMMA EarlyImportKeeps ==
    ASSUME ImportTypeOK, ImportInvariant, NEW i \in Imports,
           \/ BeginImport(i) \/ LockAsset(i) \/ CreateAsset(i) \/ Duplicate(i) \/ FlushVersion(i)
           \/ GiveUpRemoval(i) \/ RollBackImport(i)
    PROVE  ImportInvariant'
<1>1. UNCHANGED <<asset, current, versions, raw, tables, torn, stripped>>
  BY DEF BeginImport, LockAsset, CreateAsset, Duplicate, FlushVersion, GiveUpRemoval,
         RollBackImport, objects
<1>2. CASE EndImport(i)
  BY <1>1, <1>2, EndImportKeeps
<1>3. CASE BeginImport(i)
  <2>1. PICK b \in Workbooks : import' = [import EXCEPT ![i] =
                       [book |-> b, at |-> "BEGUN", seen |-> versions, stored |-> 0]]
    BY <1>3 DEF BeginImport
  <2>2. import'[i].at = "BEGUN" /\ import'[i].stored = 0
    BY <2>1 DEF ImportTypeOK
  <2>3. ~Holding(i)' /\ ~HasStored(i)' /\ ~Step(i, "LOST")'
    BY <2>2 DEF Holding, HasStored, Step
  <2> QED  BY <1>1, <2>1, <2>2, <2>3, QuietImport
<1>4. CASE LockAsset(i) \/ CreateAsset(i)
  <2>1. PICK at \in {"HOLDS", "GAP"} : Advance(i, at)
    BY <1>4 DEF LockAsset, CreateAsset
  <2>2. import[i] # NoImport /\ ~Locked(i)
    BY <1>4 DEF LockAsset, CreateAsset, Step
  <2>3. /\ import' = [import EXCEPT ![i] = import'[i]]
        /\ import'[i].stored = import[i].stored
        /\ \A a : Step(i, a)' <=> at = a
    BY <2>1, <2>2, Advanced DEF Stage
  <2>4. ~HasStored(i)' /\ ~Step(i, "LOST")' /\ import'[i].stored = 0
    BY <1>4, <2>3 DEF HasStored, ImportInvariant, Early, LockAsset, CreateAsset
  <2> QED  BY <1>1, <2>2, <2>3, <2>4, QuietImport
<1>5. CASE FlushVersion(i) /\ ~EndImport(i)
  <2>1. Step(i, "HOLDS") /\ Advance(i, "FLUSHED") /\ import[i] # NoImport
    BY <1>5 DEF FlushVersion, Step
  <2>2. import[i].stored = 0 /\ Holding(i)
    BY <2>1 DEF ImportInvariant, Early, Holding
  <2>3. /\ import' = [import EXCEPT ![i] = import'[i]]
        /\ import'[i].stored = 0
        /\ \A a : Step(i, a)' <=> a = "FLUSHED"
    BY <2>1, <2>2, Advanced DEF Stage
  <2>4. ~HasStored(i)' /\ ~Early(i)' /\ ~Step(i, "LOST")'
    BY <2>3 DEF HasStored, Early
  <2> QED  BY <1>1, <2>2, <2>3, <2>4, QuietImport
<1> QED
  BY <1>2, <1>3, <1>4, <1>5 DEF Duplicate, GiveUpRemoval, RollBackImport

LEMMA StoreKeeps ==
    ASSUME ImportTypeOK, ImportInvariant, NEW i \in Imports, StoreObjects(i)
    PROVE  ImportInvariant'
<1>1. PICK t : t = [import[i] EXCEPT !.stored = @ + 1]
  OBVIOUS
<1>2. import[i] # NoImport /\ import[i].at = "FLUSHED" /\ Step(i, "FLUSHED")
  BY DEF StoreObjects, Step
<1>3. t \in Transfer /\ t.at = "FLUSHED" /\ t.book = import[i].book
  BY <1>1, <1>2, TransferTyped DEF Transfer, StoreObjects
<1>4. import' = [import EXCEPT ![i] = t] /\ t # NoImport
  BY <1>1, <1>3, NoImportAssumption DEF StoreObjects, ImportTypeOK
<1>5. /\ raw \subseteq raw' /\ import[i].book \in raw' \cup stripped
      /\ UNCHANGED <<asset, current, versions, tables, torn, stripped>>
  <2>1. import[i].stored = 0 \/ HasStored(i)
    BY <1>2, TransferTyped DEF HasStored
  <2> QED  BY <2>1 DEF StoreObjects, ImportInvariant
<1>6. import'[i] = t /\ \A j \in Imports \ {i} :
         /\ import'[j] = import[j]
         /\ \A at : Step(j, at)' <=> Step(j, at)
         /\ HasStored(j)' <=> HasStored(j)
         /\ Holding(j)' <=> Holding(j)
         /\ Early(j)' <=> Early(j)
  BY <1>4, OtherImports
<1>7. Holding(i) /\ ~Early(i)' /\ ~Step(i, "LOST")'
  BY <1>2, <1>3, <1>6 DEF Holding, Early, Step
<1>8. \A j, k \in Imports : Holding(j)' /\ Holding(k)' => j = k
  BY <1>6, <1>7 DEF ImportInvariant
<1>9. \A j \in Imports : HasStored(j)' => import'[j].book \in raw' \cup stripped'
  BY <1>3, <1>5, <1>6 DEF ImportInvariant
<1>10. \A j \in Imports : /\ Early(j)' => import'[j].stored = 0
                          /\ Step(j, "LOST")' => import'[j].book \in torn'
  BY <1>5, <1>6, <1>7 DEF ImportInvariant
<1> QED  BY <1>5, <1>8, <1>9, <1>10 DEF ImportInvariant

LEMMA CommitKeeps ==
    ASSUME ImportTypeOK, ImportInvariant, NEW i \in Imports, Commit(i) \/ CommitAnswerLost(i)
    PROVE  ImportInvariant'
<1>1. /\ import[i] # NoImport /\ import[i].at = "FLUSHED" /\ import[i].stored = 2
      /\ Step(i, "FLUSHED") /\ Write(i) /\ raw' = raw /\ stripped' = stripped
      /\ tables' = tables \cup {import[i].book}
      /\ EndImport(i) \/ (Advance(i, "LOST") /\ import[i].book \in torn')
      /\ torn \subseteq torn'
  BY DEF Commit, CommitAnswerLost, Step
<1>2. import' = [import EXCEPT ![i] = import'[i]]
  BY <1>1, Advanced DEF EndImport, ImportTypeOK, Stage
<1>3. \A j \in Imports \ {i} :
         /\ import'[j] = import[j]
         /\ \A at : Step(j, at)' <=> Step(j, at)
         /\ HasStored(j)' <=> HasStored(j)
         /\ Holding(j)' <=> Holding(j)
         /\ Early(j)' <=> Early(j)
  BY <1>2, OtherImports
<1>4. /\ ~Holding(i)' /\ ~HasStored(i)' /\ ~Early(i)'
      /\ Step(i, "LOST")' => import'[i].book \in torn'
  <2>1. CASE EndImport(i)
    <3>1. import'[i] = NoImport
      BY <2>1 DEF EndImport, ImportTypeOK
    <3> QED  BY <3>1 DEF Holding, HasStored, Early, Step
  <2>2. CASE Advance(i, "LOST") /\ import[i].book \in torn'
    <3>1. import'[i].book = import[i].book /\ \A a : Step(i, a)' <=> a = "LOST"
      BY <1>1, <2>2, Advanced DEF Stage
    <3> QED  BY <2>2, <3>1 DEF Holding, HasStored, Early
  <2> QED  BY <1>1, <2>1, <2>2
<1>5. import[i].book \in raw \cup stripped
  BY <1>1 DEF HasStored, ImportInvariant
<1>6. asset' /\ versions' = versions \cup {import[i].book}
  BY <1>1 DEF Write
<1>7. current' = current \/ (current' = import[i].book /\ import[i].book \notin Unparsed)
  BY <1>1 DEF Write, Promoted
<1>8. \A b \in versions' : b \in tables' \cup torn' /\ b \in raw' \cup stripped'
  BY <1>1, <1>5, <1>6 DEF ImportInvariant
<1>9. current' # NoWorkbook => current' \in versions' \ Unparsed
  BY <1>6, <1>7 DEF ImportInvariant
<1>10. \A j, k \in Imports : Holding(j)' /\ Holding(k)' => j = k
  BY <1>3, <1>4 DEF ImportInvariant
<1>11. \A j \in Imports : /\ HasStored(j)' => import'[j].book \in raw' \cup stripped'
                          /\ Early(j)' => import'[j].stored = 0
                          /\ Step(j, "LOST")' => import'[j].book \in torn'
  BY <1>1, <1>3, <1>4 DEF ImportInvariant
<1> QED  BY <1>6, <1>8, <1>9, <1>10, <1>11 DEF ImportInvariant

LEMMA FailedKeeps ==
    ASSUME ImportTypeOK, ImportInvariant, NEW i \in Imports, ImportBreaksOff(i) \/ ImportFails(i)
    PROVE  ImportInvariant'
<1>1. /\ import[i] # NoImport /\ Step(i, "FLUSHED")
      /\ EndImport(i) \/ Advance(i, "FAILED")
      /\ raw' = (IF asset THEN raw ELSE {})
      /\ UNCHANGED <<asset, current, versions, tables, torn, stripped>>
  BY DEF ImportBreaksOff, ImportFails, Step
<1>2. import' = [import EXCEPT ![i] = import'[i]]
  BY <1>1, Advanced DEF EndImport, ImportTypeOK, Stage
<1>3. \A j \in Imports \ {i} :
         /\ import'[j] = import[j]
         /\ \A at : Step(j, at)' <=> Step(j, at)
         /\ HasStored(j)' <=> HasStored(j)
         /\ Holding(j)' <=> Holding(j)
         /\ Early(j)' <=> Early(j)
  BY <1>2, OtherImports
<1>4. ~Holding(i)' /\ ~HasStored(i)' /\ ~Early(i)' /\ ~Step(i, "LOST")'
  <2>1. CASE EndImport(i)
    <3>1. import'[i] = NoImport
      BY <2>1 DEF EndImport, ImportTypeOK
    <3> QED  BY <3>1 DEF Holding, HasStored, Early, Step
  <2>2. CASE Advance(i, "FAILED")
    <3>1. \A a : Step(i, a)' <=> a = "FAILED"
      BY <1>1, <2>2, Advanced DEF Stage
    <3> QED  BY <3>1 DEF Holding, HasStored, Early
  <2> QED  BY <1>1, <2>1, <2>2
<1>5. \A j \in Imports : ~HasStored(j)' \/ asset
  BY <1>1, <1>3, <1>4 DEF ImportInvariant, Holding, HasStored
<1>6. \A j, k \in Imports : Holding(j)' /\ Holding(k)' => j = k
  BY <1>3, <1>4 DEF ImportInvariant
<1>7. \A j \in Imports : /\ HasStored(j)' => import'[j].book \in raw' \cup stripped'
                         /\ Early(j)' => import'[j].stored = 0
                         /\ Step(j, "LOST")' => import'[j].book \in torn'
  BY <1>1, <1>3, <1>4, <1>5 DEF ImportInvariant
<1>8. \A b \in versions' : b \in tables' \cup torn' /\ b \in raw' \cup stripped'
  BY <1>1 DEF ImportInvariant
<1> QED  BY <1>1, <1>6, <1>7, <1>8 DEF ImportInvariant

LEMMA RemoveTablesKeeps ==
    ASSUME ImportTypeOK, ImportInvariant, NEW i \in Imports, RemoveTables(i)
    PROVE  ImportInvariant'
<1>1. PICK t : t = [import[i] EXCEPT !.stored = 1]
  OBVIOUS
<1>2. /\ import[i] # NoImport /\ import[i].at \in {"FAILED", "LOST"}
      /\ UNCHANGED <<asset, current, versions, raw, torn, stripped>>
  BY DEF RemoveTables, Removing, Step
<1>3. t \in Transfer /\ t.at = import[i].at /\ t.book = import[i].book
  BY <1>1, <1>2, TransferTyped DEF Transfer
<1>4. import' = [import EXCEPT ![i] = t] /\ t # NoImport
  BY <1>1, <1>3, NoImportAssumption DEF RemoveTables, ImportTypeOK
<1>5. import'[i] = t /\ \A j \in Imports \ {i} :
         /\ import'[j] = import[j]
         /\ \A at : Step(j, at)' <=> Step(j, at)
         /\ HasStored(j)' <=> HasStored(j)
         /\ Holding(j)' <=> Holding(j)
         /\ Early(j)' <=> Early(j)
  BY <1>4, OtherImports
<1>6. /\ ~Holding(i)' /\ ~HasStored(i)' /\ ~Early(i)'
      /\ Step(i, "LOST")' => Step(i, "LOST")
  BY <1>2, <1>3, <1>5 DEF Holding, HasStored, Early, Step
<1>7. \A b \in tables : b \in tables' \cup torn
  BY <1>2 DEF RemoveTables, ImportInvariant, Step
<1>8. \A j, k \in Imports : Holding(j)' /\ Holding(k)' => j = k
  BY <1>5, <1>6 DEF ImportInvariant
<1>9. \A j \in Imports : /\ HasStored(j)' => import'[j].book \in raw' \cup stripped'
                         /\ Early(j)' => import'[j].stored = 0
                         /\ Step(j, "LOST")' => import'[j].book \in torn'
  BY <1>2, <1>3, <1>5, <1>6 DEF ImportInvariant
<1>10. \A b \in versions' : b \in tables' \cup torn' /\ b \in raw' \cup stripped'
  BY <1>2, <1>7 DEF ImportInvariant
<1> QED  BY <1>2, <1>8, <1>9, <1>10 DEF ImportInvariant

LEMMA RemoveRawKeeps ==
    ASSUME ImportTypeOK, ImportInvariant, NEW i \in Imports, RemoveRaw(i)
    PROVE  ImportInvariant'
<1>1. PICK b : b = import[i].book
  OBVIOUS
<1>2. /\ import' = [import EXCEPT ![i] = NoImport]
      /\ raw' = raw \ {b} /\ stripped \subseteq stripped'
      /\ Needed(b) => b \in stripped'
      /\ UNCHANGED <<asset, current, versions, tables, torn>>
  BY <1>1 DEF RemoveRaw, EndImport
<1>3. import'[i] = NoImport /\ \A j \in Imports \ {i} :
         /\ import'[j] = import[j]
         /\ \A at : Step(j, at)' <=> Step(j, at)
         /\ HasStored(j)' <=> HasStored(j)
         /\ Holding(j)' <=> Holding(j)
         /\ Early(j)' <=> Early(j)
  BY <1>2, OtherImports
<1>4. ~Holding(i)' /\ ~HasStored(i)' /\ ~Early(i)' /\ ~Step(i, "LOST")'
  BY <1>3 DEF Holding, HasStored, Early, Step
<1>5. \A j, k \in Imports : Holding(j)' /\ Holding(k)' => j = k
  BY <1>3, <1>4 DEF ImportInvariant
<1>6. ASSUME NEW j \in Imports, HasStored(j)' PROVE import'[j].book \in raw' \cup stripped'
  <2>1. j # i /\ HasStored(j) /\ import'[j] = import[j]
    BY <1>3, <1>4, <1>6
  <2>2. import[j].book \in raw \cup stripped
    BY <2>1 DEF ImportInvariant
  <2>3. import[j].book = b => Needed(b)
    BY <2>1 DEF Needed
  <2> QED  BY <1>2, <2>1, <2>2, <2>3
<1>7. \A j \in Imports : /\ Early(j)' => import'[j].stored = 0
                         /\ Step(j, "LOST")' => import'[j].book \in torn'
  BY <1>2, <1>3, <1>4 DEF ImportInvariant
<1>8. \A c \in versions' : c \in tables' \cup torn' /\ c \in raw' \cup stripped'
  BY <1>2 DEF ImportInvariant, Needed
<1> QED  BY <1>2, <1>5, <1>6, <1>7, <1>8 DEF ImportInvariant

LEMMA ImportInvariantStep ==
    ASSUME ImportTypeOK, ImportInvariant, [ImportNext]_importVars
    PROVE  ImportInvariant'
<1>1. CASE UNCHANGED importVars
  BY <1>1 DEF importVars, objects, ImportInvariant, Holding, HasStored, Early, Step
<1>2. ASSUME NEW i \in Imports, ImportStep(i) PROVE ImportInvariant'
  BY <1>2, EarlyImportKeeps, StoreKeeps, CommitKeeps, FailedKeeps, RemoveTablesKeeps,
     RemoveRawKeeps DEF ImportStep
<1> QED  BY <1>1, <1>2 DEF ImportNext

\* The version queries read is parsed, committed and has its tables unless the
\* commit lost its answer, and its raw object unless an attempt at the same
\* workbook removed it after its rollback (StructuredAssetPublisher).
THEOREM CurrentIsServableHolds == ImportSpec => []CurrentIsServable
<1>1. ImportInit => ImportInvariant
  BY DEF ImportInit, ImportInvariant, Holding, HasStored, Early, Step
<1>2. ImportInvariant => CurrentIsServable
  BY DEF ImportInvariant, CurrentIsServable
<1> QED  BY <1>1, <1>2, ImportInvariantStep, ImportTypeCorrect, PTL DEF ImportSpec

\* The newest edition is served in whatever order the editions are imported,
\* unless an import did not see the version it replaced (_promote_if_newer).
THEOREM NewestIsServedHolds == ImportSpec => []NewestIsServed
<1>1. ImportInit => NewestIsServed
  BY DEF ImportInit, NewestIsServed
<1>2. ImportTypeOK /\ NewestIsServed /\ [ImportNext]_importVars => NewestIsServed'
  <2>1. ASSUME NewestIsServed, UNCHANGED <<current, versions, blind>>
        PROVE  NewestIsServed'
    BY <2>1 DEF NewestIsServed
  <2> QED  BY <2>1, ImportCommits, PromotionServesNewest
<1> QED  BY <1>1, <1>2, ImportTypeCorrect, PTL DEF ImportSpec

-----------------------------------------------------------------------------
(* Conversation *)

ConversationTypeOK ==
    /\ open \in BOOLEAN
    /\ turn \in [Turns -> Turn \cup {NoTurn}]
    /\ reports \in [Turns -> Nat]
    /\ call \in [Callers -> Call \cup {NoCall}]
    /\ breaks \in Nat /\ hung \subseteq Turns /\ reopened \subseteq Turns
    /\ \A c \in Callers : call[c] # NoCall /\ call[c].at # "ASKED" => call[c].turn \in Turns

LEMMA CallTyped ==
    ASSUME ConversationTypeOK, NEW c \in Callers, call[c] # NoCall
    PROVE  /\ call[c] \in Call
           /\ call[c].at \in {"ASKED", "RUNNING", "FAILED", "REPORTING", "CREATING", "CREATED"}
           /\ call[c].newest \in Nat
           /\ call[c].at # "ASKED" => call[c].turn \in Turns
  BY DEF ConversationTypeOK, Call

LEMMA TurnTyped ==
    ASSUME ConversationTypeOK, NEW t \in Stored
    PROVE  t \in Turns /\ turn[t] \in Turn /\ turn[t].number \in Nat
  BY DEF ConversationTypeOK, Stored, Turn

\* Settling a turn changes neither which turns there are nor their numbers.
LEMMA Settled ==
    ASSUME ConversationTypeOK, NEW t \in Turns, NEW status \in TurnStatus,
           NEW question \in {"NONE", "OPEN", "ANSWERED"}, NEW linked \in BOOLEAN,
           Settle(t, status, question, linked)
    PROVE  /\ turn' \in [Turns -> Turn \cup {NoTurn}]
           /\ Stored' = Stored
           /\ \A s \in Stored : turn'[s].number = turn[s].number
           /\ \A s \in Turns : s # t => turn'[s] = turn[s]
           /\ t \in Stored => turn'[t].status = status /\ turn'[t].question = question
<1>1. CASE t \notin Stored
  BY <1>1 DEF Settle, ConversationTypeOK, Stored
<1>2. CASE t \in Stored
  <2> DEFINE r == [turn[t] EXCEPT !.status = status, !.question = question, !.linked = linked]
  <2>1. turn' = [turn EXCEPT ![t] = r]
    BY <1>2 DEF Settle, ConversationTypeOK
  <2>2. /\ r \in Turn /\ r.number = turn[t].number
        /\ r.status = status /\ r.question = question
    BY <1>2, TurnTyped DEF Turn
  <2> HIDE DEF r
  <2>3. turn' \in [Turns -> Turn \cup {NoTurn}]
    BY <2>1, <2>2 DEF ConversationTypeOK
  <2>4. turn'[t] = r /\ \A s \in Turns : s # t => turn'[s] = turn[s]
    BY <2>1 DEF ConversationTypeOK
  <2>5. r # NoTurn
    BY <2>2, NoRowsAssumption
  <2>6. Stored' = Stored
    BY <1>2, <2>4, <2>5 DEF Stored
  <2>7. \A s \in Stored : turn'[s].number = turn[s].number
    BY <2>2, <2>4, TurnTyped
  <2> QED  BY <2>2, <2>3, <2>4, <2>6, <2>7
<1> QED  BY <1>1, <1>2

\* The number of the newest turn is one of theirs, or 0.
LEMMA NewestTyped == ASSUME ConversationTypeOK, TurnsNumberedInOrder, IsFiniteSet(Stored)
                     PROVE  Newest = Cardinality(Stored) /\ Newest \in Nat
<1>1. Cardinality(Stored) \in Nat
  BY FS_CardinalityType
<1>2. Numbers = 1..Cardinality(Stored)
  BY DEF TurnsNumberedInOrder
<1>3. /\ Cardinality(Stored) \in Numbers \cup {0}
      /\ \A m \in Numbers : m <= Cardinality(Stored)
      /\ \A n \in Numbers \cup {0} : (\A m \in Numbers : m <= n) => n = Cardinality(Stored)
  BY <1>1, <1>2
<1> QED  BY <1>1, <1>3 DEF Newest


\* The call of c becomes x.
CallBecomes(c, x) == call' = [call EXCEPT ![c] = x]

\* c goes on to one of these steps with the turn it has.
GoesOn(c, at, t) ==
    [at |-> at, turn |-> t, newest |-> call[c].newest]

LEMMA CallMoves ==
    ASSUME ConversationTypeOK, NEW c \in Callers, call[c] # NoCall,
           NEW at \in {"RUNNING", "FAILED", "REPORTING", "CREATING", "CREATED"},
           Goes(c, at)
    PROVE  CallBecomes(c, GoesOn(c, at, call[c].turn))
<1>1. [call[c] EXCEPT !.at = at] = GoesOn(c, at, call[c].turn)
  BY CallTyped DEF GoesOn, Call
<1> QED  BY <1>1 DEF Goes, CallBecomes, ConversationTypeOK

\* How a step of one call may change the conversation without breaking types.
LEMMA ConversationTypeKept ==
    ASSUME ConversationTypeOK, NEW c \in Callers, NEW x \in Call \cup {NoCall}, CallBecomes(c, x),
           x # NoCall /\ x.at # "ASKED" => x.turn \in Turns,
           turn' \in [Turns -> Turn \cup {NoTurn}], reports' \in [Turns -> Nat],
           open' \in BOOLEAN, breaks' \in Nat, hung' \subseteq Turns, reopened' \subseteq Turns
    PROVE  ConversationTypeOK'
<1>1. call'[c] = x /\ \A d \in Callers : d # c => call'[d] = call[d]
  BY DEF CallBecomes, ConversationTypeOK
<1>2. call' \in [Callers -> Call \cup {NoCall}]
  BY DEF CallBecomes, ConversationTypeOK
<1>3. \A d \in Callers : call'[d] # NoCall /\ call'[d].at # "ASKED" => call'[d].turn \in Turns
  BY <1>1 DEF ConversationTypeOK
<1> QED  BY <1>2, <1>3 DEF ConversationTypeOK

\* What a request with turn t does in one step to its call, the turn and the
\* count of its reports; it asks the user only before it creates a report, or
\* owns up to having created one.
Progress(c, t) ==
    /\ call[c] # NoCall /\ call[c].at # "ASKED" /\ call[c].turn = t
    /\ \/ CallBecomes(c, NoCall)
       \/ \E at \in {"FAILED", "REPORTING", "CREATED"} : CallBecomes(c, GoesOn(c, at, t))
    /\ \/ UNCHANGED turn
       \/ \E status \in TurnStatus, question \in {"NONE", "OPEN", "ANSWERED"}, linked \in BOOLEAN :
             /\ Settle(t, status, question, linked)
             /\ status = "NEEDS_INPUT" /\ question = "OPEN"
                   => /\ CallBecomes(c, NoCall)
                      /\ t \in reopened' \/ call[c].at \in {"RUNNING", "CREATING"}
    /\ \/ UNCHANGED reports
       \/ /\ call[c].at \in {"RUNNING", "CREATING"}
          /\ reports' = [reports EXCEPT ![t] = @ + 1]
          /\ UNCHANGED turn
    /\ reopened' \in {reopened, reopened \cup {t}}
    /\ UNCHANGED <<open, hung>> /\ breaks' \in {breaks, breaks + 1}

Progresses(c) ==
    \/ StreamEnds(c) \/ StreamReportsError(c) \/ StreamEndsFailed(c) \/ StreamCancelled(c)
    \/ ReportRefused(c) \/ AskReportType(c)
    \/ CreateReport(c) \/ LinkReport(c) \/ CreateReportFails(c)
    \/ CreateChosen(c) \/ LinkChosen(c) \/ CreateChosenFails(c) \/ CreatedButFails(c)

\* Steps that settle the turn and end the call, or say so first.
LEMMA SettleProgress ==
    ASSUME ConversationTypeOK, NEW c \in Callers, NEW t \in Turns,
           call[c] # NoCall, call[c].at # "ASKED", call[c].turn = t,
           NEW status \in TurnStatus, NEW question \in {"NONE", "OPEN", "ANSWERED"},
           NEW linked \in BOOLEAN, Settle(t, status, question, linked),
           Ends(c) \/ (Goes(c, "FAILED") /\ status = "FAILED"),
           status = "NEEDS_INPUT" /\ question = "OPEN"
              => t \in reopened' \/ call[c].at \in {"RUNNING", "CREATING"},
           reopened' \in {reopened, reopened \cup {t}},
           UNCHANGED <<open, hung, reports>>, breaks' \in {breaks, breaks + 1}
    PROVE  Progress(c, t)
<1>1. CASE Ends(c)
  <2>1. CallBecomes(c, NoCall)
    BY <1>1 DEF Ends, CallBecomes
  <2> QED  BY <2>1 DEF Progress
<1>2. CASE Goes(c, "FAILED") /\ status = "FAILED"
  <2>1. CallBecomes(c, GoesOn(c, "FAILED", t))
    BY <1>2, CallMoves
  <2> QED  BY <1>2, <2>1 DEF Progress
<1> QED  BY <1>1, <1>2

LEMMA StepsProgress ==
    ASSUME ConversationTypeOK, NEW c \in Callers, Progresses(c)
    PROVE  \E t \in Turns : Progress(c, t)
<1>1. PICK t \in Turns : call[c] # NoCall /\ call[c].at # "ASKED" /\ call[c].turn = t
  <2>1. call[c] # NoCall /\ call[c].at # "ASKED"
    BY DEF Progresses, In, StreamEnds, StreamReportsError, StreamEndsFailed, StreamCancelled,
           ReportRefused, AskReportType, CreateReport, LinkReport, CreateReportFails,
           CreateChosen, LinkChosen, CreateChosenFails, CreatedButFails
  <2> QED  BY <2>1, CallTyped
<1>2. {"SUCCEEDED", "FAILED", "NEEDS_INPUT", "CANCELLED"} \subseteq TurnStatus
  BY DEF TurnStatus
<1>3. CASE StreamEnds(c)
  <2>1. PICK status \in {"SUCCEEDED", "FAILED"} : Settle(t, status, "NONE", FALSE)
    BY <1>1, <1>3 DEF StreamEnds
  <2> QED  BY <1>1, <1>2, <1>3, <2>1, SettleProgress DEF StreamEnds
<1>4. CASE StreamReportsError(c)
  BY <1>1, <1>2, <1>4, SettleProgress DEF StreamReportsError
<1>5. CASE StreamEndsFailed(c)
  <2>1. CallBecomes(c, NoCall)
    BY <1>5 DEF StreamEndsFailed, Ends, CallBecomes
  <2> QED  BY <1>1, <1>5, <2>1 DEF StreamEndsFailed, Progress
<1>6. CASE StreamCancelled(c)
  BY <1>1, <1>2, <1>6, SettleProgress DEF StreamCancelled
<1>7. CASE ReportRefused(c)
  <2>1. PICK status \in {"FAILED", "NEEDS_INPUT"} : Settle(t, status, "NONE", FALSE)
    BY <1>1, <1>7 DEF ReportRefused
  <2> QED  BY <1>1, <1>2, <1>7, <2>1, SettleProgress DEF ReportRefused
<1>8. CASE AskReportType(c)
  BY <1>1, <1>2, <1>8, SettleProgress DEF AskReportType, In
<1>9. CASE CreateReport(c)
  <2>1. CallBecomes(c, GoesOn(c, "REPORTING", t))
    BY <1>1, <1>9, CallMoves DEF CreateReport
  <2> QED  BY <1>1, <1>9, <2>1 DEF CreateReport, Progress, In
<1>10. CASE LinkReport(c)
  BY <1>1, <1>2, <1>10, SettleProgress DEF LinkReport
<1>11. CASE CreateReportFails(c)
  BY <1>1, <1>2, <1>11, SettleProgress DEF CreateReportFails, Break
<1>12. CASE CreateChosen(c)
  <2>1. CallBecomes(c, GoesOn(c, "CREATED", t))
    BY <1>1, <1>12, CallMoves DEF CreateChosen
  <2> QED  BY <1>1, <1>12, <2>1 DEF CreateChosen, Progress, In
<1>13. CASE LinkChosen(c)
  BY <1>1, <1>2, <1>13, SettleProgress DEF LinkChosen
<1>14. CASE CreateChosenFails(c)
  BY <1>1, <1>2, <1>14, SettleProgress DEF CreateChosenFails, In
<1>15. CASE CreatedButFails(c)
  BY <1>1, <1>2, <1>15, SettleProgress DEF CreatedButFails, Break
<1> QED
  BY <1>3, <1>4, <1>5, <1>6, <1>7, <1>8, <1>9, <1>10, <1>11, <1>12, <1>13, <1>14, <1>15
     DEF Progresses

LEMMA ProgressTyped ==
    ASSUME ConversationTypeOK, NEW c \in Callers, NEW t \in Turns, Progress(c, t)
    PROVE  ConversationTypeOK'
<1>1. PICK x \in Call \cup {NoCall} : /\ CallBecomes(c, x)
                                      /\ x # NoCall /\ x.at # "ASKED" => x.turn \in Turns
  <2>1. CASE CallBecomes(c, NoCall)
    BY <2>1
  <2>2. ASSUME NEW at \in {"FAILED", "REPORTING", "CREATED"}, CallBecomes(c, GoesOn(c, at, t))
        PROVE  \E x \in Call \cup {NoCall} : /\ CallBecomes(c, x)
                                             /\ x # NoCall /\ x.at # "ASKED" => x.turn \in Turns
    <3>1. GoesOn(c, at, t) \in Call /\ GoesOn(c, at, t).turn = t
      BY CallTyped DEF GoesOn, Call, Progress
    <3> DEFINE y == GoesOn(c, at, t)
    <3>2. y \in Call /\ y.turn \in Turns /\ CallBecomes(c, y)
      BY <2>2, <3>1
    <3> HIDE DEF y
    <3> QED  BY <3>2
  <2> QED  BY <2>1, <2>2 DEF Progress
<1>2. turn' \in [Turns -> Turn \cup {NoTurn}]
  BY Settled DEF Progress, ConversationTypeOK
<1>3. reports' \in [Turns -> Nat]
  BY DEF Progress, ConversationTypeOK
<1>4. open' \in BOOLEAN /\ breaks' \in Nat /\ hung' \subseteq Turns /\ reopened' \subseteq Turns
  BY DEF Progress, ConversationTypeOK
<1> QED  BY <1>1, <1>2, <1>3, <1>4, ConversationTypeKept

LEMMA StartedCall ==
    ASSUME NEW r \in Call, NEW t \in Turns
    PROVE  [r EXCEPT !.at = "RUNNING", !.turn = t]
              = [at |-> "RUNNING", turn |-> t, newest |-> r.newest]
<1> DEFINE a == [r EXCEPT !.at = "RUNNING", !.turn = t]
<1>1. a \in Call /\ a.at = "RUNNING" /\ a.turn = t /\ a.newest = r.newest
  BY DEF Call
<1> HIDE DEF a
<1>2. a = [at |-> a.at, turn |-> a.turn, newest |-> a.newest]
  BY <1>1 DEF Call
<1> QED  BY <1>1, <1>2 DEF a

LEMMA ConversationTypeStep ==
    ASSUME ConversationTypeOK, TurnsNumberedInOrder, IsFiniteSet(Stored),
           [ConversationNext]_conversationVars
    PROVE  ConversationTypeOK'
<1>1. CASE UNCHANGED conversationVars
  BY <1>1 DEF ConversationTypeOK, conversationVars
<1>2. ASSUME NEW c \in Callers, Send(c) PROVE ConversationTypeOK'
  <2>1. [at |-> "ASKED", turn |-> NoTurn, newest |-> Newest] \in Call
    BY NewestTyped DEF Call
  <2> QED  BY <1>2, <2>1, ConversationTypeKept DEF Send, CallBecomes, ConversationTypeOK
<1>3. ASSUME NEW c \in Callers, NEW t \in Turns, StartTurn(c, t) PROVE ConversationTypeOK'
  <2>1. call[c] # NoCall
    BY <1>3 DEF StartTurn, In
  <2> DEFINE x == [at |-> "RUNNING", turn |-> t, newest |-> call[c].newest]
             r == [number |-> call[c].newest + 1, status |-> "STREAMING",
                   question |-> "NONE", linked |-> FALSE]
  <2>2. x \in Call /\ [call[c] EXCEPT !.at = "RUNNING", !.turn = t] = x
    <3>1. call[c] \in Call
      BY <2>1, CallTyped
    <3>2. x \in Call
      BY <3>1 DEF Call
    <3>3. [call[c] EXCEPT !.at = "RUNNING", !.turn = t] = x
      BY <3>1, StartedCall
    <3> QED  BY <3>2, <3>3
  <2>3. CallBecomes(c, x)
    BY <1>3, <2>2 DEF StartTurn, CallBecomes, ConversationTypeOK
  <2>4. r \in Turn
    BY <2>1, CallTyped DEF Turn, TurnStatus
  <2>5. turn' \in [Turns -> Turn \cup {NoTurn}]
    BY <1>3, <2>4 DEF StartTurn, ConversationTypeOK
  <2>6. x.turn \in Turns
    OBVIOUS
  <2> HIDE DEF x
  <2> QED  BY <1>3, <2>2, <2>3, <2>5, <2>6, ConversationTypeKept
           DEF StartTurn, ConversationTypeOK
<1>4. ASSUME NEW c \in Callers, SendRefused(c) \/ BreaksOff(c) PROVE ConversationTypeOK'
  BY <1>4, ConversationTypeKept
     DEF SendRefused, BreaksOff, Ends, CallBecomes, Break, ConversationTypeOK
<1>5. ASSUME NEW c \in Callers, Progresses(c) PROVE ConversationTypeOK'
  BY <1>5, StepsProgress, ProgressTyped
<1>6. ASSUME NEW c \in Callers, NEW t \in Turns, Confirm(c, t) PROVE ConversationTypeOK'
  <2>1. [at |-> "CREATING", turn |-> t, newest |-> 0] \in Call
    BY DEF Call
  <2>2. turn' \in [Turns -> Turn \cup {NoTurn}]
    BY <1>6, Settled DEF Confirm, TurnStatus
  <2> QED  BY <1>6, <2>1, <2>2, ConversationTypeKept DEF Confirm, CallBecomes, ConversationTypeOK
<1>7. CASE DeleteConversation
  BY <1>7 DEF DeleteConversation, ConversationTypeOK
<1> QED
  BY <1>1, <1>2, <1>3, <1>4, <1>5, <1>6, <1>7 DEF ConversationNext, Work, Progresses

About(c, t) == call[c] # NoCall /\ call[c].turn = t

\* The user can choose the report type of the turn.
Askable(t) == t \in Stored /\ turn[t].status = "NEEDS_INPUT" /\ turn[t].question = "OPEN"

\* A request that has read the conversation knows at most the turns there are.
ViewsBehind ==
    \A c \in Callers :
       In(c, "ASKED") => /\ call[c].turn = NoTurn
                         /\ open => call[c].newest <= Cardinality(Stored)

\* One request works on a turn, which nobody else can take up meanwhile.
OneCallPerTurn ==
    \A t \in Turns, c \in Callers :
       About(c, t) => /\ \A d \in Callers : About(d, t) => d = c
                      /\ open => t \in Stored
                      /\ ~Askable(t)

\* A turn that has its report leads to no other.
ReportIsLast ==
    \A t \in Turns \ reopened :
       /\ reports[t] \in {0, 1}
       /\ reports[t] = 1 => /\ ~Askable(t)
                            /\ \A c \in Callers : About(c, t)
                                  => call[c].at \notin {"RUNNING", "CREATING"}

\* The inductive invariant of a conversation.
ConversationInvariant ==
    /\ IsFiniteSet(Stored) /\ (~open => Stored = {})
    /\ TurnsNumberedInOrder
    /\ ViewsBehind
    /\ OneCallPerTurn
    /\ ReportIsLast

\* What keeps the turns and their numbers keeps their order.
LEMMA NumbersKept ==
    ASSUME ConversationInvariant, UNCHANGED open, Stored' = Stored,
           \A s \in Stored : turn'[s].number = turn[s].number
    PROVE  /\ IsFiniteSet(Stored') /\ (~open' => Stored' = {})
           /\ TurnsNumberedInOrder'
<1>1. Numbers' = Numbers
  BY DEF Numbers
<1> QED  BY <1>1 DEF ConversationInvariant, TurnsNumberedInOrder

\* Neither does the call of anybody but c change.
LEMMA OtherCalls ==
    ASSUME ConversationTypeOK, NEW c \in Callers, NEW x, CallBecomes(c, x)
    PROVE  /\ call'[c] = x /\ \A d \in Callers : d # c => call'[d] = call[d]
           /\ \A t : About(c, t)' <=> x # NoCall /\ x.turn = t
           /\ \A d \in Callers : d # c => \A t : About(d, t)' <=> About(d, t)
<1>1. call'[c] = x /\ \A d \in Callers : d # c => call'[d] = call[d]
  BY DEF CallBecomes, ConversationTypeOK
<1> QED  BY <1>1 DEF About

LEMMA ProgressKeeps ==
    ASSUME ConversationTypeOK, ConversationInvariant, NEW c \in Callers, NEW t \in Turns,
           Progress(c, t)
    PROVE  ConversationInvariant'
<1>1. PICK x : /\ CallBecomes(c, x)
               /\ x = NoCall \/ (x.turn = t /\ x.at \in {"FAILED", "REPORTING", "CREATED"})
  <2>1. CASE CallBecomes(c, NoCall)
    BY <2>1
  <2>2. ASSUME NEW at \in {"FAILED", "REPORTING", "CREATED"}, CallBecomes(c, GoesOn(c, at, t))
        PROVE  \E x : /\ CallBecomes(c, x)
                      /\ x = NoCall \/ (x.turn = t /\ x.at \in {"FAILED", "REPORTING", "CREATED"})
    <3> DEFINE y == GoesOn(c, at, t)
    <3>1. CallBecomes(c, y) /\ y.turn = t /\ y.at = at
      BY <2>2 DEF GoesOn
    <3> HIDE DEF y
    <3> QED  BY <3>1
  <2> QED  BY <2>1, <2>2 DEF Progress
<1>2. About(c, t)
  BY DEF Progress, About
<1>3. /\ Stored' = Stored
      /\ \A s \in Stored : turn'[s].number = turn[s].number
      /\ \A s \in Turns : s # t => turn'[s] = turn[s]
  <2>1. CASE UNCHANGED turn
    BY <2>1 DEF Stored
  <2>2. CASE ~UNCHANGED turn
    BY <2>2, Settled DEF Progress
  <2> QED  BY <2>1, <2>2
<1>4. \A s \in Turns : s # t => (Askable(s)' <=> Askable(s)) /\ reports'[s] = reports[s]
  BY <1>3 DEF Askable, Progress, ConversationTypeOK
<1>5. Askable(t)' => /\ x = NoCall /\ reports'[t] = reports[t]
                     /\ t \in reopened' \/ call[c].at \in {"RUNNING", "CREATING"}
  <2> SUFFICES ASSUME Askable(t)'
               PROVE  /\ x = NoCall /\ reports'[t] = reports[t]
                      /\ t \in reopened' \/ call[c].at \in {"RUNNING", "CREATING"}
    OBVIOUS
  <2>1. ~Askable(t) /\ t \in Stored
    BY <1>2, <1>3 DEF ConversationInvariant, OneCallPerTurn, Askable
  <2>2. turn' # turn
    BY <1>3, <2>1 DEF Askable
  <2>3. PICK status \in TurnStatus, question \in {"NONE", "OPEN", "ANSWERED"}, linked \in BOOLEAN :
             /\ Settle(t, status, question, linked)
             /\ status = "NEEDS_INPUT" /\ question = "OPEN"
                   => /\ CallBecomes(c, NoCall)
                      /\ t \in reopened' \/ call[c].at \in {"RUNNING", "CREATING"}
    BY <2>2 DEF Progress
  <2>4. status = "NEEDS_INPUT" /\ question = "OPEN"
    BY <2>1, <2>3, Settled DEF Askable
  <2>5. CallBecomes(c, NoCall)
    BY <2>3, <2>4
  <2>6. x = NoCall
    BY <1>1, <2>5, OtherCalls
  <2> QED  BY <2>2, <2>3, <2>4, <2>6 DEF Progress
<1>6. UNCHANGED open
  BY DEF Progress
<1>7. ViewsBehind'
  <2> SUFFICES ASSUME NEW d \in Callers, In(d, "ASKED")'
               PROVE  /\ call'[d].turn = NoTurn
                      /\ open' => call'[d].newest <= Cardinality(Stored')
    BY DEF ViewsBehind
  <2>1. call'[d] = call[d]
    BY <1>1, OtherCalls DEF In
  <2> QED  BY <1>3, <1>6, <2>1 DEF In, ConversationInvariant, ViewsBehind
<1>8. OneCallPerTurn'
  <2> SUFFICES ASSUME NEW s \in Turns, NEW d \in Callers, About(d, s)'
               PROVE  /\ \A e \in Callers : About(e, s)' => e = d
                      /\ open' => s \in Stored'
                      /\ ~Askable(s)'
    BY DEF OneCallPerTurn
  <2>1. \A e \in Callers, u \in Turns : About(e, u)' => About(e, u)
    BY <1>1, <1>2, OtherCalls
  <2>2. /\ \A e \in Callers : About(e, s) => e = d
        /\ open => s \in Stored
        /\ ~Askable(s)
    BY <2>1 DEF ConversationInvariant, OneCallPerTurn
  <2>3. ~Askable(s)'
    <3>1. CASE s # t
      BY <2>2, <3>1, <1>4
    <3>2. CASE s = t
      <4>1. d = c /\ x # NoCall
        BY <1>1, <1>2, <2>2, <3>2, OtherCalls
      <4> QED  BY <3>2, <4>1, <1>5
    <3> QED  BY <3>1, <3>2
  <2> QED  BY <1>3, <1>6, <2>1, <2>2, <2>3
<1>9. ReportIsLast'
  <2> SUFFICES ASSUME NEW s \in Turns \ reopened'
               PROVE  /\ reports'[s] \in {0, 1}
                      /\ reports'[s] = 1 => /\ ~Askable(s)'
                                            /\ \A d \in Callers : About(d, s)'
                                                  => call'[d].at \notin {"RUNNING", "CREATING"}
    BY DEF ReportIsLast
  <2>1. s \notin reopened
    BY DEF Progress
  <2>2. /\ reports[s] \in {0, 1}
        /\ reports[s] = 1 => /\ ~Askable(s)
                             /\ \A d \in Callers : About(d, s)
                                   => call[d].at \notin {"RUNNING", "CREATING"}
    BY <2>1 DEF ConversationInvariant, ReportIsLast
  <2>3. CASE s # t
    <3>1. \A d \in Callers : About(d, s)' => d # c
      BY <1>1, <2>3, OtherCalls
    <3>2. \A d \in Callers : About(d, s)' => About(d, s) /\ call'[d] = call[d]
      BY <1>1, <3>1, OtherCalls
    <3> QED  BY <1>4, <2>2, <2>3, <3>2
  <2>4. CASE s = t
    <3>1. \A d \in Callers : About(d, t)' => call'[d].at \notin {"RUNNING", "CREATING"}
      <4> SUFFICES ASSUME NEW d \in Callers, About(d, t)'
                   PROVE  call'[d].at \notin {"RUNNING", "CREATING"}
        OBVIOUS
      <4>1. d = c
        BY <1>1, <1>2, OtherCalls DEF ConversationInvariant, OneCallPerTurn
      <4>2. call'[c] = x /\ x # NoCall
        BY <1>1, <4>1, OtherCalls
      <4> QED  BY <1>1, <4>1, <4>2
    <3>2. reports'[t] = reports[t]
          \/ (call[c].at \in {"RUNNING", "CREATING"} /\ reports'[t] = reports[t] + 1)
      BY DEF Progress, ConversationTypeOK
    <3>3. call[c].at \in {"RUNNING", "CREATING"} => reports[t] = 0
      BY <1>2, <2>2, <2>4
    <3>4. reports'[t] \in {0, 1}
      BY <2>2, <2>4, <3>2, <3>3
    <3>5. reports'[t] = 1 => ~Askable(t)'
      BY <1>5, <2>4, <3>3
    <3> QED  BY <2>4, <3>1, <3>4, <3>5
  <2> QED  BY <2>3, <2>4
<1> QED  BY <1>3, <1>6, <1>7, <1>8, <1>9, NumbersKept DEF ConversationInvariant

\* A call that ends while the turns stay as they are.
LEMMA EndKeeps ==
    ASSUME ConversationTypeOK, ConversationInvariant, NEW c \in Callers, Ends(c),
           UNCHANGED <<open, turn, reports, reopened>>
    PROVE  ConversationInvariant'
<1>1. CallBecomes(c, NoCall)
  BY DEF Ends, CallBecomes
<1>2. \A d \in Callers : call'[d] # NoCall => call'[d] = call[d]
  BY <1>1, OtherCalls
<1>3. Stored' = Stored /\ (\A t \in Turns : Askable(t)' <=> Askable(t))
  BY DEF Stored, Askable
<1>4. \A d \in Callers, t \in Turns : About(d, t)' => About(d, t)
  BY <1>2 DEF About
<1>5. ViewsBehind'
  BY <1>2, <1>3 DEF ConversationInvariant, ViewsBehind, In
<1>6. OneCallPerTurn'
  BY <1>3, <1>4 DEF ConversationInvariant, OneCallPerTurn
<1>7. ReportIsLast'
  <2> SUFFICES ASSUME NEW s \in Turns \ reopened
               PROVE  /\ reports[s] \in {0, 1}
                      /\ reports[s] = 1 => /\ ~Askable(s)'
                                           /\ \A d \in Callers : About(d, s)'
                                                 => call'[d].at \notin {"RUNNING", "CREATING"}
    BY DEF ReportIsLast
  <2>1. \A d \in Callers : About(d, s)' => About(d, s) /\ call'[d] = call[d]
    BY <1>2, <1>4 DEF About
  <2> QED  BY <1>3, <2>1 DEF ConversationInvariant, ReportIsLast
<1>8. \A s \in Stored : turn'[s].number = turn[s].number
  OBVIOUS
<1> QED  BY <1>3, <1>5, <1>6, <1>7, <1>8, NumbersKept DEF ConversationInvariant

LEMMA SendKeeps ==
    ASSUME ConversationTypeOK, ConversationInvariant, NEW c \in Callers, Send(c)
    PROVE  ConversationInvariant'
<1> DEFINE x == [at |-> "ASKED", turn |-> NoTurn, newest |-> Newest]
<1>1. CallBecomes(c, x) /\ x.turn = NoTurn /\ x.at = "ASKED" /\ x.newest = Cardinality(Stored)
  BY NewestTyped DEF Send, CallBecomes, ConversationInvariant
<1> HIDE DEF x
<1>2. call'[c] = x /\ \A d \in Callers : d # c => call'[d] = call[d]
  BY <1>1, OtherCalls
<1>3. Stored' = Stored /\ (\A t \in Turns : Askable(t)' <=> Askable(t))
  BY DEF Stored, Askable, Send
<1>4. \A d \in Callers, t \in Turns : About(d, t)' => About(d, t) /\ call'[d] = call[d]
  BY <1>1, <1>2, NoRowsAssumption DEF About
<1>5. ViewsBehind'
  <2> SUFFICES ASSUME NEW d \in Callers, In(d, "ASKED")'
               PROVE  /\ call'[d].turn = NoTurn
                      /\ open' => call'[d].newest <= Cardinality(Stored')
    BY DEF ViewsBehind
  <2>1. CASE d = c
    <3>1. Cardinality(Stored) \in Nat
      BY FS_CardinalityType DEF ConversationInvariant
    <3> QED  BY <1>1, <1>2, <1>3, <2>1, <3>1
  <2>2. CASE d # c
    BY <1>2, <1>3, <2>2 DEF Send, In, ConversationInvariant, ViewsBehind
  <2> QED  BY <2>1, <2>2
<1>6. OneCallPerTurn'
  BY <1>3, <1>4 DEF Send, ConversationInvariant, OneCallPerTurn
<1>7. ReportIsLast'
  BY <1>3, <1>4 DEF Send, ConversationInvariant, ReportIsLast
<1>8. UNCHANGED open /\ \A s \in Stored : turn'[s].number = turn[s].number
  BY DEF Send
<1> QED  BY <1>3, <1>5, <1>6, <1>7, <1>8, NumbersKept DEF ConversationInvariant

\* The number a request has counted is free only if it has seen every turn.
LEMMA StartTurnKeeps ==
    ASSUME ConversationTypeOK, ConversationInvariant, NEW c \in Callers, NEW t \in Turns,
           StartTurn(c, t)
    PROVE  ConversationInvariant'
<1> DEFINE n == Cardinality(Stored)
           r == [number |-> call[c].newest + 1, status |-> "STREAMING",
                 question |-> "NONE", linked |-> FALSE]
           x == [at |-> "RUNNING", turn |-> t, newest |-> call[c].newest]
<1>1. /\ call[c] # NoCall /\ call[c].at = "ASKED" /\ open /\ open'
      /\ t \notin Stored /\ reports[t] = 0 /\ UNCHANGED <<reports, reopened>>
      /\ turn' = [turn EXCEPT ![t] = r]
  BY DEF StartTurn, In
<1>2. n \in Nat /\ IsFiniteSet(Stored) /\ Numbers = 1..n
  BY FS_CardinalityType DEF ConversationInvariant, TurnsNumberedInOrder
<1>3. call[c].newest = n
  <2>1. call[c].newest \in Nat /\ call[c].newest <= n
    BY <1>1, CallTyped DEF ConversationInvariant, ViewsBehind, In
  <2>2. call[c].newest + 1 \notin Numbers
    BY DEF StartTurn
  <2> HIDE DEF n
  <2> QED  BY <1>2, <2>1, <2>2
<1>4. CallBecomes(c, x)
  <2>1. [call[c] EXCEPT !.at = "RUNNING", !.turn = t] = x
    BY <1>1, CallTyped, StartedCall
  <2>2. call' = [call EXCEPT ![c] = [call[c] EXCEPT !.at = "RUNNING", !.turn = t]]
    BY DEF StartTurn, ConversationTypeOK
  <2> QED  BY <2>1, <2>2 DEF CallBecomes
<1>5. x.turn = t /\ x.at = "RUNNING"
  OBVIOUS
<1>6. r.number = n + 1 /\ r.status = "STREAMING" /\ r # NoTurn
  <2>1. r \in Turn
    BY <1>2, <1>3 DEF Turn, TurnStatus
  <2> QED  BY <1>3, <2>1, NoRowsAssumption
<1> HIDE DEF r, x
<1>7. turn'[t] = r /\ \A s \in Turns : s # t => turn'[s] = turn[s]
  BY <1>1 DEF ConversationTypeOK
<1>8. Stored' = Stored \cup {t}
  BY <1>6, <1>7 DEF Stored
<1>9. IsFiniteSet(Stored') /\ Cardinality(Stored') = n + 1
  BY <1>1, <1>2, <1>8, FS_AddElement
<1>10. TurnsNumberedInOrder'
  <2>1. \A s \in Stored : turn'[s].number = turn[s].number
    BY <1>1, <1>7 DEF Stored
  <2>2. Numbers' = Numbers \cup {n + 1}
    BY <1>6, <1>7, <1>8, <2>1 DEF Numbers
  <2>3. Numbers' = 1..(n + 1)
    <3> HIDE DEF n
    <3> QED  BY <1>2, <2>2
  <2>4. \A s \in Stored : turn'[s].number \in 1..n
    BY <1>2, <2>1 DEF Numbers
  <2>5. ASSUME NEW s \in Stored, NEW u \in Stored, turn'[s].number = turn'[u].number PROVE s = u
    BY <2>1, <2>5 DEF ConversationInvariant, TurnsNumberedInOrder
  <2>6. ASSUME NEW s \in Stored PROVE turn'[s].number # turn'[t].number
    <3> HIDE DEF n
    <3> QED  BY <1>2, <1>6, <1>7, <2>4
  <2>7. \A s, u \in Stored' : turn'[s].number = turn'[u].number => s = u
    BY <1>8, <2>5, <2>6
  <2> QED  BY <1>9, <2>3, <2>7 DEF TurnsNumberedInOrder
<1>11. \A s \in Turns : ~(s = t) => (Askable(s)' <=> Askable(s))
  BY <1>7, <1>8 DEF Askable
<1>12. ~Askable(t)' /\ ~Askable(t)
  BY <1>1, <1>6, <1>7 DEF Askable
<1>13. \A d \in Callers : ~About(d, t)
  BY <1>1 DEF ConversationInvariant, OneCallPerTurn
<1>14. ViewsBehind'
  <2> SUFFICES ASSUME NEW d \in Callers, In(d, "ASKED")'
               PROVE  /\ call'[d].turn = NoTurn
                      /\ open' => call'[d].newest <= Cardinality(Stored')
    BY DEF ViewsBehind
  <2>1. d # c
    BY <1>4, <1>5, OtherCalls DEF In
  <2>2. In(d, "ASKED") /\ call'[d] = call[d]
    BY <1>4, <2>1, OtherCalls DEF In
  <2>3. call[d].turn = NoTurn /\ call[d].newest \in Nat /\ call[d].newest <= n
    BY <1>1, <2>2, CallTyped DEF In, ConversationInvariant, ViewsBehind
  <2> HIDE DEF n
  <2> QED  BY <1>2, <1>9, <2>2, <2>3
<1>15. OneCallPerTurn'
  <2> SUFFICES ASSUME NEW s \in Turns, NEW d \in Callers, About(d, s)'
               PROVE  /\ \A e \in Callers : About(e, s)' => e = d
                      /\ open' => s \in Stored'
                      /\ ~Askable(s)'
    BY DEF OneCallPerTurn
  <2>1. CASE s = t
    BY <1>4, <1>8, <1>12, <1>13, <2>1, OtherCalls
  <2>2. CASE s # t
    <3>1. \A e \in Callers : About(e, s)' => About(e, s)
      BY <1>4, <1>5, <2>2, OtherCalls
    <3> QED  BY <1>1, <1>8, <1>11, <2>2, <3>1 DEF ConversationInvariant, OneCallPerTurn
  <2> QED  BY <2>1, <2>2
<1>16. ReportIsLast'
  <2> SUFFICES ASSUME NEW s \in Turns \ reopened
               PROVE  /\ reports[s] \in {0, 1}
                      /\ reports[s] = 1 => /\ ~Askable(s)'
                                           /\ \A d \in Callers : About(d, s)'
                                                 => call'[d].at \notin {"RUNNING", "CREATING"}
    BY <1>1 DEF ReportIsLast
  <2>1. CASE s = t
    BY <1>1, <2>1
  <2>2. CASE s # t
    <3>1. \A d \in Callers : About(d, s)' => d # c
      BY <1>4, <1>5, <2>2, OtherCalls
    <3>2. \A d \in Callers : About(d, s)' => About(d, s) /\ call'[d] = call[d]
      BY <1>4, <3>1, OtherCalls
    <3> QED  BY <1>11, <2>2, <3>2 DEF ConversationInvariant, ReportIsLast
  <2> QED  BY <2>1, <2>2
<1> QED  BY <1>1, <1>9, <1>10, <1>14, <1>15, <1>16 DEF ConversationInvariant

LEMMA ConfirmKeeps ==
    ASSUME ConversationTypeOK, ConversationInvariant, NEW c \in Callers, NEW t \in Turns,
           Confirm(c, t)
    PROVE  ConversationInvariant'
<1> DEFINE x == [at |-> "CREATING", turn |-> t, newest |-> 0]
<1>1. /\ CallBecomes(c, x) /\ call[c] = NoCall /\ Askable(t)
      /\ UNCHANGED <<open, reports, reopened>>
  BY DEF Confirm, CallBecomes, Askable
<1>2. x.turn = t /\ x.at = "CREATING"
  OBVIOUS
<1> HIDE DEF x
<1>3. /\ Stored' = Stored
      /\ \A s \in Stored : turn'[s].number = turn[s].number
      /\ \A s \in Turns : s # t => turn'[s] = turn[s]
      /\ turn'[t].status = "PROCESSING_ACTION"
  BY <1>1, Settled DEF Confirm, TurnStatus, Askable
<1>4. \A s \in Turns : s # t => (Askable(s)' <=> Askable(s))
  BY <1>3 DEF Askable
<1>5. ~Askable(t)' /\ t \in Stored'
  BY <1>1, <1>3 DEF Askable
<1>6. \A d \in Callers : ~About(d, t)
  BY <1>1 DEF ConversationInvariant, OneCallPerTurn
<1>7. ViewsBehind'
  <2> SUFFICES ASSUME NEW d \in Callers, In(d, "ASKED")'
               PROVE  /\ call'[d].turn = NoTurn
                      /\ open' => call'[d].newest <= Cardinality(Stored')
    BY DEF ViewsBehind
  <2>1. d # c
    BY <1>1, <1>2, OtherCalls DEF In
  <2>2. In(d, "ASKED") /\ call'[d] = call[d]
    BY <1>1, <2>1, OtherCalls DEF In
  <2> QED  BY <1>1, <1>3, <2>2 DEF ConversationInvariant, ViewsBehind
<1>8. OneCallPerTurn'
  <2> SUFFICES ASSUME NEW s \in Turns, NEW d \in Callers, About(d, s)'
               PROVE  /\ \A e \in Callers : About(e, s)' => e = d
                      /\ open' => s \in Stored'
                      /\ ~Askable(s)'
    BY DEF OneCallPerTurn
  <2>1. CASE s = t
    BY <1>1, <1>5, <1>6, <2>1, OtherCalls
  <2>2. CASE s # t
    <3>1. \A e \in Callers : About(e, s)' => About(e, s)
      BY <1>1, <1>2, <2>2, OtherCalls
    <3> QED  BY <1>1, <1>3, <1>4, <2>2, <3>1 DEF ConversationInvariant, OneCallPerTurn
  <2> QED  BY <2>1, <2>2
<1>9. ReportIsLast'
  <2> SUFFICES ASSUME NEW s \in Turns \ reopened
               PROVE  /\ reports[s] \in {0, 1}
                      /\ reports[s] = 1 => /\ ~Askable(s)'
                                           /\ \A d \in Callers : About(d, s)'
                                                 => call'[d].at \notin {"RUNNING", "CREATING"}
    BY <1>1 DEF ReportIsLast
  <2>1. CASE s = t
    <3>1. reports[t] = 0
      BY <1>1, <2>1 DEF ConversationInvariant, ReportIsLast
    <3> QED  BY <2>1, <3>1
  <2>2. CASE s # t
    <3>1. \A d \in Callers : About(d, s)' => d # c
      BY <1>1, <1>2, <2>2, OtherCalls
    <3>2. \A d \in Callers : About(d, s)' => About(d, s) /\ call'[d] = call[d]
      BY <1>1, <3>1, OtherCalls
    <3> QED  BY <1>4, <2>2, <3>2 DEF ConversationInvariant, ReportIsLast
  <2> QED  BY <2>1, <2>2
<1> QED  BY <1>1, <1>3, <1>7, <1>8, <1>9, NumbersKept DEF ConversationInvariant

LEMMA DeleteConversationKeeps ==
    ASSUME ConversationTypeOK, ConversationInvariant, DeleteConversation
    PROVE  ConversationInvariant'
<1>1. ~open' /\ Stored' = {} /\ Numbers' = {} /\ UNCHANGED <<reports, call, reopened>>
  BY DEF DeleteConversation, Stored, Numbers
<1>2. IsFiniteSet(Stored') /\ Cardinality(Stored') = 0
  BY <1>1, FS_EmptySet
<1>3. TurnsNumberedInOrder'
  <2>1. 1..0 = {}
    OBVIOUS
  <2> QED  BY <1>1, <1>2, <2>1 DEF TurnsNumberedInOrder
<1>4. \A t \in Turns : ~Askable(t)'
  BY <1>1 DEF Askable
<1>5. ViewsBehind'
  BY <1>1 DEF ConversationInvariant, ViewsBehind, In
<1>6. OneCallPerTurn'
  BY <1>1, <1>4 DEF ConversationInvariant, OneCallPerTurn, About
<1>7. ReportIsLast'
  BY <1>1, <1>4 DEF ConversationInvariant, ReportIsLast, About
<1> QED  BY <1>1, <1>2, <1>3, <1>5, <1>6, <1>7 DEF ConversationInvariant

LEMMA ConversationInvariantStep ==
    ASSUME ConversationTypeOK, ConversationInvariant, [ConversationNext]_conversationVars
    PROVE  ConversationInvariant'
<1>1. CASE UNCHANGED conversationVars
  <2>1. UNCHANGED <<open, turn, reports, call, reopened>>
    BY <1>1 DEF conversationVars
  <2>2. /\ Stored' = Stored /\ Numbers' = Numbers
        /\ \A t : Askable(t)' <=> Askable(t)
        /\ \A c, t : About(c, t)' <=> About(c, t)
    BY <2>1 DEF Stored, Numbers, Askable, About
  <2> QED  BY <2>1, <2>2 DEF ConversationInvariant, TurnsNumberedInOrder, ViewsBehind, In,
                             OneCallPerTurn, ReportIsLast
<1>2. ASSUME NEW c \in Callers, SendRefused(c) \/ BreaksOff(c) PROVE ConversationInvariant'
  BY <1>2, EndKeeps DEF SendRefused, BreaksOff
<1>3. ASSUME NEW c \in Callers, Progresses(c) PROVE ConversationInvariant'
  BY <1>3, StepsProgress, ProgressKeeps
<1> QED
  BY <1>1, <1>2, <1>3, SendKeeps, StartTurnKeeps, ConfirmKeeps, DeleteConversationKeeps
     DEF ConversationNext, Work, Progresses

LEMMA ConversationStarts ==
    ASSUME ConversationInit
    PROVE  ConversationTypeOK /\ ConversationInvariant
<1>1. Stored = {} /\ Numbers = {}
  BY DEF ConversationInit, Stored, Numbers
<1>2. IsFiniteSet(Stored) /\ Cardinality(Stored) = 0
  BY <1>1, FS_EmptySet
<1>3. TurnsNumberedInOrder
  <2>1. 1..0 = {}
    OBVIOUS
  <2> QED  BY <1>1, <1>2, <2>1 DEF TurnsNumberedInOrder
<1>4. ConversationTypeOK
  <2>1. turn \in [Turns -> Turn \cup {NoTurn}] /\ call \in [Callers -> Call \cup {NoCall}]
    BY DEF ConversationInit
  <2> QED  BY <2>1 DEF ConversationInit, ConversationTypeOK
<1>5. ViewsBehind /\ OneCallPerTurn
  BY DEF ConversationInit, ViewsBehind, OneCallPerTurn, In, About
<1>6. ReportIsLast
  BY DEF ConversationInit, ReportIsLast
<1> QED  BY <1>1, <1>2, <1>3, <1>4, <1>5, <1>6 DEF ConversationInvariant

\* Types and inductive invariant of a conversation, which need each other: a
\* request counts the turns, and no request works on a turn another one has.
THEOREM ConversationInvariantHolds ==
    ConversationSpec => [](ConversationTypeOK /\ ConversationInvariant)
<1>1. /\ ConversationTypeOK /\ ConversationInvariant /\ [ConversationNext]_conversationVars
      => ConversationTypeOK' /\ ConversationInvariant'
  BY ConversationTypeStep, ConversationInvariantStep DEF ConversationInvariant
<1> QED  BY <1>1, ConversationStarts, PTL DEF ConversationSpec

\* Turns are numbered from 1 without a gap or a repetition (start_turn).
THEOREM TurnsNumberedInOrderHolds == ConversationSpec => []TurnsNumberedInOrder
<1>1. ConversationInvariant => TurnsNumberedInOrder
  BY DEF ConversationInvariant
<1> QED  BY <1>1, ConversationInvariantHolds, PTL

\* A question leads to one report, unless a failure after the report was created
\* reopened it (confirm_template_selection).
THEOREM OneReportPerQuestionHolds == ConversationSpec => []OneReportPerQuestion
<1>1. ConversationInvariant => OneReportPerQuestion
  BY DEF ConversationInvariant, ReportIsLast, OneReportPerQuestion
<1> QED  BY <1>1, ConversationInvariantHolds, PTL

-----------------------------------------------------------------------------
(* DatasetFolders *)

FolderTypeOK ==
    /\ dataset \in BOOLEAN
    /\ parent \in [Folders -> Folders \cup {Root, Absent}]
    /\ filed \in [Documents -> Folders \cup {Root, Absent}]
    /\ tx \in [Requests -> Transaction \cup {NoRequest}]
    /\ assets \subseteq Assets /\ missed \subseteq Folders \cup Documents

\* No row is locked by two transactions.
LocksApart ==
    \A p, q \in Requests :
       p # q /\ tx[p] # NoRequest /\ tx[q] # NoRequest => tx[p].locks \cap tx[q].locks = {}

\* FoldersRooted as an induction needs it: whatever walks from a folder cannot
\* leave contains the root.
EveryWalkEnds ==
    \A f \in Folder, S \in SUBSET Places : f \in S /\ Closed(S) => Root \in S

\* The walk a transaction has checked is locked from its first folder on, and
\* does not pass the folder that is to move.
WalkHeld(q) ==
    \E W \in SUBSET (Folder \cap tx[q].locks) :
       /\ tx[q].to \in W /\ tx[q].folder \notin W
       /\ \A f \in W : parent[f] \in W \cup {Root}

\* What a transaction has looked up under a lock is still so.
HoldsWhatItSaw(q) ==
    /\ \A at : At(q, "CREATE", at) => tx[q].folder \in Folders
    /\ \A at : At(q, "IMPORT", at) => tx[q].doc \in Assets
    /\ At(q, "CREATE", "CHECKED") \/ At(q, "MOVE", "CHECKED") => WalkHeld(q)
    /\ \A op \in {"MOVE", "DELETE_FOLDER"}, at \in {"HOLDS", "CHECKED"} :
          At(q, op, at) => tx[q].folder \in Folder \cap tx[q].locks
    /\ At(q, "FILE", "HOLDS") => tx[q].doc \in Filed \cap tx[q].locks
    /\ At(q, "UPLOAD", "HOLDS") \/ At(q, "DELETE_DATASET", "HOLDS")
          => dataset /\ Dataset \in tx[q].locks

\* The inductive invariant of a dataset.
FolderInvariant ==
    /\ LocksApart
    /\ \A q \in Requests : HoldsWhatItSaw(q)
    /\ EveryWalkEnds
    /\ FiledWhereItExists
    /\ NoOrphanedFiling

TxBecomes(q, x) == tx' = [tx EXCEPT ![q] = x]

\* The transaction of q with other locks and at another step.
With(q, locks, at) ==
    [op |-> tx[q].op, folder |-> tx[q].folder, to |-> tx[q].to, doc |-> tx[q].doc,
     at |-> at, locks |-> locks, view |-> tx[q].view]

LEMMA TxTyped ==
    ASSUME FolderTypeOK, NEW q \in Requests, tx[q] # NoRequest
    PROVE  /\ tx[q] \in Transaction /\ tx[q].op \in Operation
           /\ tx[q].folder \in Folders \cup {Root} /\ tx[q].to \in Folders \cup {Root}
           /\ tx[q].doc \in Documents \cup Assets \cup {Absent}
           /\ tx[q].locks \subseteq Rows /\ tx[q].view \subseteq Documents \cup Assets
  BY DEF FolderTypeOK, Transaction

LEMMA LockBecomes ==
    ASSUME FolderTypeOK, NEW q \in Requests, tx[q] # NoRequest, NEW rows \in SUBSET Rows,
           NEW next \in {"BEGUN", "HOLDS", "CHECKED"}, Lock(q, rows, next)
    PROVE  /\ TxBecomes(q, With(q, tx[q].locks \cup rows, next))
           /\ With(q, tx[q].locks \cup rows, next) \in Transaction
           /\ Free(q, rows)
<1> DEFINE a == [tx[q] EXCEPT !.locks = @ \cup rows, !.at = next]
           b == With(q, tx[q].locks \cup rows, next)
<1>1. tx' = [tx EXCEPT ![q] = a]
  BY DEF Lock, FolderTypeOK
<1>2. tx[q] \in Transaction
  BY TxTyped
<1>3. a \in Transaction
  BY <1>2 DEF Transaction
<1>4. /\ a.op = tx[q].op /\ a.folder = tx[q].folder /\ a.to = tx[q].to /\ a.doc = tx[q].doc
      /\ a.at = next /\ a.locks = tx[q].locks \cup rows /\ a.view = tx[q].view
  BY <1>2 DEF Transaction
<1> HIDE DEF a
<1>5. a = [op |-> a.op, folder |-> a.folder, to |-> a.to, doc |-> a.doc,
           at |-> a.at, locks |-> a.locks, view |-> a.view]
  BY <1>3 DEF Transaction
<1>6. a = b
  BY <1>4, <1>5 DEF With
<1> QED  BY <1>1, <1>3, <1>6 DEF TxBecomes, Lock

LEMMA OtherTx ==
    ASSUME FolderTypeOK, NEW q \in Requests, NEW x, TxBecomes(q, x)
    PROVE  tx'[q] = x /\ \A p \in Requests : p # q => tx'[p] = tx[p]
  BY DEF TxBecomes, FolderTypeOK

\* Steps that only look, lock or end.
LEMMA LooksTyped ==
    ASSUME FolderTypeOK, NEW q \in Requests, NEW x \in Transaction \cup {NoRequest},
           TxBecomes(q, x), UNCHANGED <<dataset, parent, filed, assets, missed>>
    PROVE  FolderTypeOK'
  BY DEF TxBecomes, FolderTypeOK

\* A transaction that locks more rows, or ends, sees nothing change.
LEMMA LooksKeep ==
    ASSUME FolderTypeOK, FolderInvariant, NEW q \in Requests,
           NEW x \in Transaction \cup {NoRequest}, TxBecomes(q, x),
           UNCHANGED <<dataset, parent, filed, assets, missed>>,
           x # NoRequest => /\ \E rows : Free(q, rows)
                                         /\ x.locks = rows \cup (IF tx[q] = NoRequest THEN {}
                                                                 ELSE tx[q].locks)
                            /\ HoldsWhatItSaw(q)'
    PROVE  FolderInvariant'
<1>1. tx'[q] = x /\ \A p \in Requests : p # q => tx'[p] = tx[p]
  BY OtherTx
<1>2. LocksApart'
  <2>1. ASSUME NEW p \in Requests, p # q, tx[p] # NoRequest, x # NoRequest
        PROVE  x.locks \cap tx[p].locks = {}
    <3>1. PICK rows : Free(q, rows) /\ x.locks = rows \cup (IF tx[q] = NoRequest THEN {}
                                                           ELSE tx[q].locks)
      BY <2>1
    <3>2. tx[p].locks \cap rows = {}
      BY <2>1, <3>1 DEF Free
    <3>3. tx[q] # NoRequest => tx[p].locks \cap tx[q].locks = {}
      BY <2>1 DEF FolderInvariant, LocksApart
    <3>4. CASE tx[q] = NoRequest
      BY <3>1, <3>2, <3>4
    <3>5. CASE tx[q] # NoRequest
      BY <3>1, <3>2, <3>3, <3>5
    <3> QED  BY <3>4, <3>5
  <2> SUFFICES ASSUME NEW p \in Requests, NEW r \in Requests, p # r,
                      tx'[p] # NoRequest, tx'[r] # NoRequest
               PROVE  tx'[p].locks \cap tx'[r].locks = {}
    BY DEF LocksApart
  <2>2. CASE p = q
    BY <1>1, <2>1, <2>2
  <2>3. CASE r = q
    BY <1>1, <2>1, <2>3
  <2>4. CASE p # q /\ r # q
    BY <1>1, <2>4 DEF FolderInvariant, LocksApart
  <2> QED  BY <2>2, <2>3, <2>4
<1>3. Folder' = Folder /\ Filed' = Filed
  BY DEF Folder, Filed
<1>4. ASSUME NEW p \in Requests PROVE HoldsWhatItSaw(p)'
  <2>1. CASE p # q
    <3>1. tx'[p] = tx[p] /\ HoldsWhatItSaw(p)
      BY <1>1, <2>1 DEF FolderInvariant
    <3>2. WalkHeld(p) => WalkHeld(p)'
      BY <1>3, <3>1 DEF WalkHeld
    <3>3. \A op, at : At(p, op, at)' => At(p, op, at)
      BY <3>1 DEF At
    <3> QED  BY <1>3, <3>1, <3>2, <3>3 DEF HoldsWhatItSaw
  <2>2. CASE p = q /\ x = NoRequest
    BY <1>1, <2>2 DEF HoldsWhatItSaw, At
  <2> QED  BY <2>1, <2>2
<1>5. EveryWalkEnds'
  BY <1>3 DEF FolderInvariant, EveryWalkEnds, Closed
<1>6. FiledWhereItExists' /\ NoOrphanedFiling'
  BY <1>3 DEF FolderInvariant, FiledWhereItExists, NoOrphanedFiling
<1> QED  BY <1>2, <1>4, <1>5, <1>6 DEF FolderInvariant

\* A folder hangs from another folder or from the root.
LEMMA ParentsExist ==
    ASSUME FolderTypeOK, EveryWalkEnds, NEW f \in Folder
    PROVE  parent[f] \in (Folder \ {f}) \cup {Root}
<1>1. f \in Folders /\ parent[f] \in Folders \cup {Root} /\ Root # Absent /\ Root \notin Folders
  BY RowsAssumption DEF Folder, FolderTypeOK
<1> SUFFICES ASSUME parent[f] # Root, parent[f] \notin Folder \ {f} PROVE FALSE
  BY <1>1
<1> DEFINE S == {f, parent[f], Absent}
<1>2. S \in SUBSET Places /\ Root \notin S
  BY <1>1 DEF Places
<1>3. Closed(S)
  <2>1. Absent \notin Folders
    BY RowsAssumption
  <2>2. parent[f] # f => parent[parent[f]] = Absent
    BY <1>1 DEF Folder
  <2>3. ASSUME NEW g \in S \cap Folders PROVE parent[g] \in S
    BY <2>1, <2>2, <2>3
  <2> QED  BY <2>3 DEF Closed
<1> QED  BY <1>2, <1>3 DEF EveryWalkEnds

\* What _validate_folder_parent has walked through, once it is locked.
LEMMA ScanHoldsWalk ==
    ASSUME FolderTypeOK, EveryWalkEnds, NEW f \in Folders \cup {Root}, NEW to, ValidParent(f, to)
    PROVE  \E W \in SUBSET Folder : /\ to \in W /\ f \notin W
                                    /\ \A g \in W : parent[g] \in W \cup {Root}
<1> DEFINE W == Above(to) \ {Root}
<1>1. to \in Folder /\ to \in Folders /\ f \notin Above(to) /\ to # Root /\ Absent # Root
  BY RowsAssumption DEF ValidParent, Folder
<1>2. to \in Above(to)
  BY <1>1 DEF Above, Places
<1>3. Folder \cup {Root} \in SUBSET Places
  BY DEF Folder, Places
<1>4. Closed(Folder \cup {Root})
  <2>1. ASSUME NEW g \in (Folder \cup {Root}) \cap Folders PROVE parent[g] \in Folder \cup {Root}
    BY <2>1, ParentsExist, RowsAssumption
  <2> QED  BY <2>1 DEF Closed
<1>5. W \in SUBSET Folder
  BY <1>1, <1>3, <1>4 DEF Above
<1>6. ASSUME NEW g \in W PROVE parent[g] \in W \cup {Root}
  <2>1. g \in Folders /\ parent[g] \in Places
    BY <1>5, <1>6 DEF Folder, FolderTypeOK, Places
  <2>2. ASSUME NEW S \in SUBSET Places, to \in S, Closed(S) PROVE parent[g] \in S
    <3>1. g \in S
      BY <1>6, <2>2 DEF Above
    <3> QED  BY <2>1, <2>2, <3>1 DEF Closed
  <2> QED  BY <2>1, <2>2 DEF Above
<1> QED  BY <1>1, <1>2, <1>5, <1>6

Looks(q) ==
    \/ BeginCreate(q) \/ CreateScan(q) \/ CreateConflicts(q)
    \/ BeginMove(q) \/ MoveHold(q) \/ MoveScan(q)
    \/ BeginDeleteFolder(q) \/ DeleteHold(q) \/ DeleteDocuments(q)
    \/ BeginUpload(q) \/ UploadHold(q) \/ UploadConflicts(q)
    \/ BeginFile(q) \/ FileHold(q)
    \/ BeginAssetUpload(q)
    \/ BeginDeleteDataset(q) \/ DeleteDatasetHold(q) \/ DeleteDatasetRefused(q)
    \/ RollBack(q)

LEMMA BeginKeeps ==
    ASSUME FolderTypeOK, FolderInvariant, NEW q \in Requests, NEW op \in Operation,
           NEW f \in Folders \cup {Root}, NEW to \in Folders \cup {Root},
           NEW d \in Documents \cup Assets \cup {Absent}, Begin(q, op, f, to, d),
           op = "CREATE" => f \in Folders, op = "IMPORT" => d \in Assets
    PROVE  FolderTypeOK' /\ FolderInvariant'
<1> DEFINE view == IF op = "DELETE_DATASET" THEN Filed \cup assets ELSE {}
           x == [op |-> op, folder |-> f, to |-> to, doc |-> d, at |-> "BEGUN", locks |-> {},
                 view |-> view]
<1>1. TxBecomes(q, x) /\ tx[q] = NoRequest /\ UNCHANGED <<dataset, parent, filed, assets, missed>>
  BY DEF Begin, TxBecomes
<1>2. view \subseteq Documents \cup Assets
  BY DEF Filed, FolderTypeOK
<1> HIDE DEF view
<1>3. x \in Transaction
  BY <1>2 DEF Transaction
<1>4. x.at = "BEGUN" /\ x.locks = {} /\ x.op = op /\ x.folder = f /\ x.doc = d
  OBVIOUS
<1> HIDE DEF x
<1>5. HoldsWhatItSaw(q)'
  BY <1>1, <1>4, OtherTx DEF HoldsWhatItSaw, At
<1>6. Free(q, {})
  BY DEF Free
<1> QED  BY <1>1, <1>3, <1>4, <1>5, <1>6, LooksTyped, LooksKeep

LEMMA EndKeepsFolders ==
    ASSUME FolderTypeOK, FolderInvariant, NEW q \in Requests, End(q),
           UNCHANGED <<dataset, parent, filed, assets, missed>>
    PROVE  FolderTypeOK' /\ FolderInvariant'
<1>1. TxBecomes(q, NoRequest)
  BY DEF End, TxBecomes
<1> QED  BY <1>1, LooksTyped, LooksKeep

\* The operation and the step of a transaction that has just locked rows.
LEMMA LockAt ==
    ASSUME FolderTypeOK, NEW q \in Requests, tx[q] # NoRequest, NEW rows \in SUBSET Rows,
           NEW next \in {"BEGUN", "HOLDS", "CHECKED"}, Lock(q, rows, next)
    PROVE  /\ \A op, at : At(q, op, at)' <=> tx[q].op = op /\ next = at
           /\ tx'[q].locks = tx[q].locks \cup rows /\ tx'[q].folder = tx[q].folder
           /\ tx'[q].to = tx[q].to /\ tx'[q].doc = tx[q].doc
<1> DEFINE x == With(q, tx[q].locks \cup rows, next)
<1>1. TxBecomes(q, x) /\ x \in Transaction
  BY LockBecomes
<1>2. /\ x.op = tx[q].op /\ x.at = next /\ x.locks = tx[q].locks \cup rows
      /\ x.folder = tx[q].folder /\ x.to = tx[q].to /\ x.doc = tx[q].doc
  BY DEF With
<1> HIDE DEF x
<1>3. tx'[q] = x /\ x # NoRequest
  BY <1>1, OtherTx, NoRequestAssumption
<1> QED  BY <1>2, <1>3 DEF At

\* A transaction that locks rows, and then holds what it has seen in them.
LEMMA LockKeeps ==
    ASSUME FolderTypeOK, FolderInvariant, NEW q \in Requests, tx[q] # NoRequest,
           NEW rows \in SUBSET Rows, NEW next \in {"BEGUN", "HOLDS", "CHECKED"},
           Lock(q, rows, next), UNCHANGED <<dataset, parent, filed, assets, missed>>,
           HoldsWhatItSaw(q)'
    PROVE  FolderTypeOK' /\ FolderInvariant'
<1> DEFINE x == With(q, tx[q].locks \cup rows, next)
<1>1. TxBecomes(q, x) /\ x \in Transaction /\ Free(q, rows)
  BY LockBecomes
<1>2. x.locks = rows \cup (IF tx[q] = NoRequest THEN {} ELSE tx[q].locks)
  BY DEF With
<1> HIDE DEF x
<1> QED  BY <1>1, <1>2, LooksTyped, LooksKeep

LEMMA ScanKeeps ==
    ASSUME FolderTypeOK, FolderInvariant, NEW q \in Requests,
           CreateScan(q) \/ MoveScan(q)
    PROVE  FolderTypeOK' /\ FolderInvariant'
<1>1. PICK op \in {"CREATE", "MOVE"} : Scan(q, op, IF op = "CREATE" THEN "BEGUN" ELSE "HOLDS")
  BY DEF CreateScan, MoveScan
<1>2. /\ tx[q] # NoRequest /\ tx[q].op = op
      /\ op = "MOVE" => tx[q].at = "HOLDS"
      /\ UNCHANGED <<dataset, parent, filed, assets, missed>>
      /\ IF ValidParent(tx[q].folder, tx[q].to) THEN Lock(q, Folder, "CHECKED") ELSE End(q)
  BY <1>1 DEF Scan, At
<1>3. CASE ~ValidParent(tx[q].folder, tx[q].to)
  BY <1>2, <1>3, EndKeepsFolders
<1>4. CASE ValidParent(tx[q].folder, tx[q].to)
  <2>1. Lock(q, Folder, "CHECKED") /\ Folder \in SUBSET Rows /\ Folder' = Folder
    BY <1>2, <1>4 DEF Folder, Rows
  <2>2. /\ \A o, at : At(q, o, at)' <=> op = o /\ at = "CHECKED"
        /\ tx'[q].locks = tx[q].locks \cup Folder /\ tx'[q].folder = tx[q].folder
        /\ tx'[q].to = tx[q].to
    BY <1>2, <2>1, LockAt
  <2>3. PICK W \in SUBSET Folder : /\ tx[q].to \in W /\ tx[q].folder \notin W
                                   /\ \A g \in W : parent[g] \in W \cup {Root}
    <3>1. tx[q].folder \in Folders \cup {Root} /\ EveryWalkEnds
      BY <1>2, TxTyped DEF FolderInvariant
    <3> QED  BY <1>4, <3>1, ScanHoldsWalk
  <2>4. WalkHeld(q)'
    BY <1>2, <2>1, <2>2, <2>3 DEF WalkHeld
  <2>5. op = "CREATE" => tx'[q].folder \in Folders
    BY <1>2, <2>2 DEF FolderInvariant, HoldsWhatItSaw, At
  <2>6. op = "MOVE" => tx'[q].folder \in Folder' \cap tx'[q].locks
    BY <1>2, <2>1, <2>2 DEF FolderInvariant, HoldsWhatItSaw, At
  <2>7. HoldsWhatItSaw(q)'
    BY <1>1, <2>2, <2>4, <2>6, <2>5 DEF HoldsWhatItSaw
  <2> QED  BY <1>2, <2>1, <2>7, LockKeeps
<1> QED  BY <1>3, <1>4

LEMMA HoldKeeps ==
    ASSUME FolderTypeOK, FolderInvariant, NEW q \in Requests,
           \/ MoveHold(q) \/ DeleteHold(q) \/ DeleteDocuments(q)
           \/ UploadHold(q) \/ FileHold(q) \/ DeleteDatasetHold(q)
    PROVE  FolderTypeOK' /\ FolderInvariant'
<1>1. /\ Folder' = Folder /\ Filed' = Filed
      /\ tx[q] # NoRequest /\ UNCHANGED <<dataset, parent, filed, assets, missed>>
  BY DEF MoveHold, DeleteHold, HoldFolder, DeleteDocuments, UploadHold, FileHold,
         DeleteDatasetHold, Folder, Filed, At
<1>2. CASE End(q)
  BY <1>1, <1>2, EndKeepsFolders
<1>3. ASSUME NEW op \in {"MOVE", "DELETE_FOLDER"}, HoldFolder(q, op), ~End(q)
      PROVE  FolderTypeOK' /\ FolderInvariant'
  <2> DEFINE f == tx[q].folder
  <2>1. f \in Folder /\ Lock(q, {f}, "HOLDS") /\ tx[q].op = op
    BY <1>3 DEF HoldFolder, At
  <2>2. {f} \in SUBSET Rows
    BY <2>1 DEF Rows, Folder
  <2>3. /\ \A o, at : At(q, o, at)' <=> op = o /\ at = "HOLDS"
        /\ tx'[q].locks = tx[q].locks \cup {f} /\ tx'[q].folder = tx[q].folder
    BY <1>1, <2>1, <2>2, LockAt
  <2>4. HoldsWhatItSaw(q)'
    BY <1>1, <2>1, <2>3 DEF HoldsWhatItSaw
  <2> QED  BY <1>1, <2>1, <2>2, <2>4, LockKeeps
<1>4. CASE DeleteDocuments(q)
  <2> DEFINE rows == {d \in Documents : filed[d] = tx[q].folder}
  <2>1. /\ Lock(q, rows, "CHECKED") /\ tx[q].op = "DELETE_FOLDER"
        /\ tx[q].folder \in Folder \cap tx[q].locks
    BY <1>4 DEF DeleteDocuments, At, FolderInvariant, HoldsWhatItSaw
  <2>2. rows \in SUBSET Rows
    BY DEF Rows
  <2> HIDE DEF rows
  <2>3. /\ \A o, at : At(q, o, at)' <=> o = "DELETE_FOLDER" /\ at = "CHECKED"
        /\ tx'[q].locks = tx[q].locks \cup rows /\ tx'[q].folder = tx[q].folder
    BY <1>1, <2>1, <2>2, LockAt
  <2>4. HoldsWhatItSaw(q)'
    BY <1>1, <2>1, <2>3 DEF HoldsWhatItSaw
  <2> QED  BY <1>1, <2>1, <2>2, <2>4, LockKeeps
<1>5. ASSUME NEW op \in {"UPLOAD", "DELETE_DATASET"}, tx[q].op = op, dataset,
             Lock(q, {Dataset}, "HOLDS")
      PROVE  FolderTypeOK' /\ FolderInvariant'
  <2>1. {Dataset} \in SUBSET Rows
    BY DEF Rows
  <2>2. /\ \A o, at : At(q, o, at)' <=> o = op /\ at = "HOLDS"
        /\ tx'[q].locks = tx[q].locks \cup {Dataset}
    BY <1>1, <1>5, <2>1, LockAt
  <2>3. HoldsWhatItSaw(q)'
    BY <1>1, <1>5, <2>2 DEF HoldsWhatItSaw
  <2> QED  BY <1>1, <1>5, <2>1, <2>3, LockKeeps
<1>6. ASSUME FileHold(q), ~End(q) PROVE FolderTypeOK' /\ FolderInvariant'
  <2> DEFINE d == tx[q].doc
  <2>1. d \in Filed /\ Lock(q, {d}, "HOLDS") /\ tx[q].op = "FILE"
    BY <1>6 DEF FileHold, At
  <2>2. {d} \in SUBSET Rows
    BY <2>1 DEF Rows, Filed
  <2>3. /\ \A o, at : At(q, o, at)' <=> o = "FILE" /\ at = "HOLDS"
        /\ tx'[q].locks = tx[q].locks \cup {d} /\ tx'[q].doc = tx[q].doc
    BY <1>1, <2>1, <2>2, LockAt
  <2>4. HoldsWhatItSaw(q)'
    BY <1>1, <2>1, <2>3 DEF HoldsWhatItSaw
  <2> QED  BY <1>1, <2>1, <2>2, <2>4, LockKeeps
<1>7. CASE UploadHold(q) /\ ~End(q)
  BY <1>5, <1>7 DEF UploadHold, At
<1>8. CASE DeleteDatasetHold(q) /\ ~End(q)
  BY <1>5, <1>8 DEF DeleteDatasetHold, At
<1> QED  BY <1>2, <1>3, <1>4, <1>6, <1>7, <1>8 DEF MoveHold, DeleteHold

LEMMA LooksStep ==
    ASSUME FolderTypeOK, FolderInvariant, NEW q \in Requests, Looks(q)
    PROVE  FolderTypeOK' /\ FolderInvariant'
<1>1. /\ Folder \subseteq Folders /\ Filed \subseteq Documents
      /\ Operation = {"CREATE", "MOVE", "DELETE_FOLDER", "UPLOAD", "FILE", "IMPORT",
                      "DELETE_DATASET"}
  BY DEF Folder, Filed, Operation
<1>2. CASE BeginCreate(q) \/ BeginMove(q) \/ BeginDeleteFolder(q)
  BY <1>1, <1>2, BeginKeeps DEF BeginCreate, BeginMove, BeginDeleteFolder
<1>3. CASE BeginUpload(q) \/ BeginFile(q) \/ BeginAssetUpload(q) \/ BeginDeleteDataset(q)
  BY <1>1, <1>3, BeginKeeps DEF BeginUpload, BeginFile, BeginAssetUpload, BeginDeleteDataset
<1>4. CASE CreateConflicts(q) \/ UploadConflicts(q) \/ DeleteDatasetRefused(q) \/ RollBack(q)
  BY <1>4, EndKeepsFolders DEF CreateConflicts, UploadConflicts, DeleteDatasetRefused, RollBack
<1> QED  BY <1>2, <1>3, <1>4, ScanKeeps, HoldKeeps DEF Looks

\* Whatever another transaction writes, p still holds what it saw if none of the
\* rows it has locked is touched.
LEMMA OthersHold ==
    ASSUME FolderInvariant, NEW p \in Requests, tx'[p] = tx[p],
           tx[p] # NoRequest =>
              /\ \A f \in Folder \cap tx[p].locks : f \in Folder' /\ parent'[f] = parent[f]
              /\ Filed \cap tx[p].locks \subseteq Filed'
              /\ Dataset \in tx[p].locks /\ dataset => dataset'
    PROVE  HoldsWhatItSaw(p)'
<1>1. \A op, at : At(p, op, at)' <=> At(p, op, at)
  BY DEF At
<1>2. CASE tx[p] = NoRequest
  BY <1>1, <1>2 DEF HoldsWhatItSaw, At
<1>3. CASE tx[p] # NoRequest
  <2>1. HoldsWhatItSaw(p)
    BY DEF FolderInvariant
  <2>2. WalkHeld(p) => WalkHeld(p)'
    <3> SUFFICES ASSUME WalkHeld(p) PROVE WalkHeld(p)'
      OBVIOUS
    <3>1. PICK W \in SUBSET (Folder \cap tx[p].locks) :
             /\ tx[p].to \in W /\ tx[p].folder \notin W
             /\ \A f \in W : parent[f] \in W \cup {Root}
      BY DEF WalkHeld
    <3>2. /\ W \in SUBSET (Folder' \cap tx'[p].locks)
          /\ \A f \in W : parent'[f] \in W \cup {Root}
      BY <1>3, <3>1
    <3> QED  BY <3>1, <3>2 DEF WalkHeld
  <2>3. \A f \in Folder \cap tx[p].locks : f \in Folder' \cap tx'[p].locks
    BY <1>3
  <2>4. \A d \in Filed \cap tx[p].locks : d \in Filed' \cap tx'[p].locks
    BY <1>3
  <2> QED  BY <1>1, <1>3, <2>1, <2>2, <2>3, <2>4 DEF HoldsWhatItSaw
<1> QED  BY <1>2, <1>3

\* The end of a transaction frees its locks.
LEMMA LocksFreed ==
    ASSUME FolderTypeOK, FolderInvariant, NEW q \in Requests, End(q)
    PROVE  /\ tx' \in [Requests -> Transaction \cup {NoRequest}]
           /\ LocksApart' /\ HoldsWhatItSaw(q)'
           /\ \A p \in Requests : p # q => tx'[p] = tx[p]
<1>1. TxBecomes(q, NoRequest)
  BY DEF End, TxBecomes
<1>2. tx'[q] = NoRequest /\ \A p \in Requests : p # q => tx'[p] = tx[p]
  BY <1>1, OtherTx
<1>3. tx' \in [Requests -> Transaction \cup {NoRequest}]
  BY <1>1 DEF TxBecomes, FolderTypeOK
<1>4. LocksApart'
  BY <1>2 DEF FolderInvariant, LocksApart
<1>5. HoldsWhatItSaw(q)'
  BY <1>2 DEF HoldsWhatItSaw, At
<1> QED  BY <1>2, <1>3, <1>4, <1>5

LEMMA CreateKeeps ==
    ASSUME FolderTypeOK, FolderInvariant, NEW q \in Requests, CreateCommit(q)
    PROVE  FolderTypeOK' /\ FolderInvariant'
<1>1. PICK f, to : f = tx[q].folder /\ to = tx[q].to
  OBVIOUS
<1>2. /\ tx[q] # NoRequest /\ tx[q].op = "CREATE" /\ parent[f] = Absent
      /\ to # Root => At(q, "CREATE", "CHECKED")
      /\ parent' = [parent EXCEPT ![f] = to]
      /\ missed' = IF dataset THEN missed ELSE missed \cup {f}
      /\ End(q) /\ UNCHANGED <<dataset, filed, assets>>
  BY <1>1 DEF CreateCommit, At
<1>3. to \in Folder \cup {Root} /\ to \in Folders \cup {Root} /\ f \in Folders \cup {Root}
  <2>1. to # Root => to \in Folder
    BY <1>1, <1>2 DEF FolderInvariant, HoldsWhatItSaw, WalkHeld
  <2> QED  BY <1>1, <1>2, <2>1, TxTyped
<1>4. f \in Folders
  BY <1>1, <1>2 DEF FolderInvariant, HoldsWhatItSaw, At
<1>5. FolderTypeOK' /\ FolderInvariant'
  <2>1. /\ Folder' = Folder \cup {f} /\ f \notin Folder /\ Filed' = Filed
        /\ parent'[f] = to /\ \A g \in Folders : g # f => parent'[g] = parent[g]
    BY <1>2, <1>3, <1>4, RowsAssumption DEF Folder, Filed, FolderTypeOK
  <2>2. FolderTypeOK'
    BY <1>2, <1>3, <1>4, LocksFreed DEF FolderTypeOK
  <2>3. ASSUME NEW p \in Requests PROVE HoldsWhatItSaw(p)'
    BY <1>2, <2>1, LocksFreed, OthersHold DEF Folder
  <2>4. EveryWalkEnds'
    <3> SUFFICES ASSUME NEW h \in Folder', NEW S \in SUBSET Places, h \in S, Closed(S)'
                 PROVE  Root \in S
      BY DEF EveryWalkEnds, Places
    <3>1. CASE f \notin S
      <4>1. Closed(S)
        BY <2>1, <3>1 DEF Closed
      <4>2. h \in Folder
        BY <2>1, <3>1
      <4> QED  BY <4>1, <4>2 DEF FolderInvariant, EveryWalkEnds
    <3>2. CASE f \in S /\ to # Root
      <4>1. to \in S
        BY <1>4, <2>1, <3>2 DEF Closed
      <4> DEFINE T == S \cup {Absent}
      <4>2. T \in SUBSET Places
        BY DEF Places
      <4>3. Closed(T)
        BY <1>2, <2>1, RowsAssumption DEF Closed
      <4>4. Root \in T
        BY <1>3, <3>2, <4>1, <4>2, <4>3 DEF FolderInvariant, EveryWalkEnds
      <4> QED  BY <4>4, RowsAssumption
    <3>3. CASE f \in S /\ to = Root
      BY <1>4, <2>1, <3>3 DEF Closed
    <3> QED  BY <3>1, <3>2, <3>3
  <2>5. FiledWhereItExists'
    BY <1>2, <1>4, <2>1, RowsAssumption DEF FolderInvariant, FiledWhereItExists, Filed
  <2>6. NoOrphanedFiling'
    BY <1>2, <2>1 DEF FolderInvariant, NoOrphanedFiling
  <2> QED  BY <1>2, <2>2, <2>3, <2>4, <2>5, <2>6, LocksFreed DEF FolderInvariant
<1> QED  BY <1>5

LEMMA MoveKeeps ==
    ASSUME FolderTypeOK, FolderInvariant, NEW q \in Requests, MoveCommit(q)
    PROVE  FolderTypeOK' /\ FolderInvariant'
<1>1. PICK f, to : f = tx[q].folder /\ to = tx[q].to
  OBVIOUS
<1>2. /\ tx[q] # NoRequest
      /\ to # Root => At(q, "MOVE", "CHECKED")
      /\ At(q, "MOVE", "HOLDS") \/ At(q, "MOVE", "CHECKED")
      /\ parent' = [parent EXCEPT ![f] = to]
      /\ End(q) /\ UNCHANGED <<dataset, filed, assets, missed>>
  BY <1>1 DEF MoveCommit, At
<1>3. f \in Folder /\ f \in tx[q].locks /\ f \in Folders
  BY <1>1, <1>2 DEF FolderInvariant, HoldsWhatItSaw, Folder
<1>4. to \in Folder \cup {Root} /\ to \in Folders \cup {Root}
  <2>1. to # Root => to \in Folder
    BY <1>1, <1>2 DEF FolderInvariant, HoldsWhatItSaw, WalkHeld
  <2> QED  BY <1>1, <1>2, <2>1, TxTyped
<1>5. /\ Folder' = Folder /\ Filed' = Filed
      /\ parent'[f] = to /\ \A g \in Folders : g # f => parent'[g] = parent[g]
  BY <1>2, <1>3, <1>4, RowsAssumption DEF Folder, Filed, FolderTypeOK
<1>6. FolderTypeOK'
  BY <1>2, <1>3, <1>4, LocksFreed DEF FolderTypeOK
<1>7. ASSUME NEW p \in Requests PROVE HoldsWhatItSaw(p)'
  <2>1. CASE p = q
    BY <1>2, <2>1, LocksFreed
  <2>2. CASE p # q
    <3>1. tx'[p] = tx[p]
      BY <1>2, <2>2, LocksFreed
    <3>2. tx[p] # NoRequest => f \notin tx[p].locks
      BY <1>2, <1>3, <2>2 DEF FolderInvariant, LocksApart
    <3> QED  BY <1>2, <1>5, <3>1, <3>2, OthersHold DEF Folder
  <2> QED  BY <2>1, <2>2
<1>8. EveryWalkEnds'
  <2> SUFFICES ASSUME NEW h \in Folder, NEW S \in SUBSET Places, h \in S, Closed(S)'
               PROVE  Root \in S
    BY <1>5 DEF EveryWalkEnds, Places
  <2>1. CASE f \notin S
    <3>1. Closed(S)
      BY <1>5, <2>1 DEF Closed
    <3> QED  BY <3>1 DEF FolderInvariant, EveryWalkEnds
  <2>2. CASE f \in S /\ to = Root
    BY <1>3, <1>5, <2>2 DEF Closed
  <2>3. CASE f \in S /\ to # Root
    <3>1. PICK W \in SUBSET Folder : /\ to \in W /\ f \notin W
                                     /\ \A g \in W : parent[g] \in W \cup {Root}
      BY <1>1, <1>2, <2>3 DEF FolderInvariant, HoldsWhatItSaw, WalkHeld
    <3> DEFINE T == S \cap (W \cup {Root})
    <3>2. T \in SUBSET Places
      OBVIOUS
    <3>3. to \in T
      BY <1>3, <1>5, <2>3, <3>1 DEF Closed
    <3>4. Closed(T)
      <4> SUFFICES ASSUME NEW g \in T \cap Folders PROVE parent[g] \in T
        BY DEF Closed
      <4>1. g \in W /\ g # f /\ g \in S
        BY <3>1, RowsAssumption
      <4>2. parent[g] \in S
        BY <1>5, <4>1 DEF Closed
      <4> QED  BY <3>1, <4>1, <4>2
    <3>5. Root \in T
      BY <3>1, <3>2, <3>3, <3>4 DEF FolderInvariant, EveryWalkEnds
    <3> QED  BY <3>5
  <2> QED  BY <2>1, <2>2, <2>3
<1>9. FiledWhereItExists' /\ NoOrphanedFiling'
  BY <1>2, <1>5 DEF FolderInvariant, FiledWhereItExists, NoOrphanedFiling
<1> QED  BY <1>2, <1>6, <1>7, <1>8, <1>9, LocksFreed DEF FolderInvariant

LEMMA DeleteKeeps ==
    ASSUME FolderTypeOK, FolderInvariant, NEW q \in Requests, DeleteCommit(q)
    PROVE  FolderTypeOK' /\ FolderInvariant'
<1>1. PICK f : f = tx[q].folder
  OBVIOUS
<1> DEFINE children == {g \in Folders : parent[g] = f}
           documents == {d \in Documents : filed[d] = f}
<1>2. /\ tx[q] # NoRequest /\ At(q, "DELETE_FOLDER", "CHECKED") /\ Free(q, children)
      /\ parent' = [g \in Folders |-> CASE g = f -> Absent
                                        [] g \in children -> parent[f]
                                        [] OTHER -> parent[g]]
      /\ filed' = [d \in Documents |-> IF d \in documents THEN parent[f] ELSE filed[d]]
      /\ End(q) /\ UNCHANGED <<dataset, assets, missed>>
  BY <1>1 DEF DeleteCommit, At
<1>3. f \in Folder /\ f \in tx[q].locks /\ f \in Folders
  BY <1>1, <1>2 DEF FolderInvariant, HoldsWhatItSaw, Folder
<1>4. /\ parent[f] \in (Folder \ {f}) \cup {Root} /\ parent[f] # f /\ parent[f] # Absent
      /\ parent[f] \in Folders \cup {Root}
  <2>1. EveryWalkEnds /\ f # Root
    BY <1>3, RowsAssumption DEF FolderInvariant
  <2>2. parent[f] \in (Folder \ {f}) \cup {Root}
    BY <1>3, <2>1, ParentsExist
  <2>3. Folder \subseteq Folders /\ Absent \notin Folders \cup {Root}
    BY RowsAssumption DEF Folder
  <2> QED  BY <2>1, <2>2, <2>3
<1>5. /\ parent'[f] = Absent
      /\ \A g \in Folders \ {f} : parent'[g] = IF parent[g] = f THEN parent[f] ELSE parent[g]
      /\ \A d \in Documents : filed'[d] = IF filed[d] = f THEN parent[f] ELSE filed[d]
  <2> HIDE DEF children, documents
  <2>1. parent'[f] = Absent
    <3>1. f \notin children
      BY <1>4 DEF children
    <3> QED  BY <1>2, <1>3, <3>1
  <2>2. ASSUME NEW g \in Folders \ {f}
        PROVE  parent'[g] = IF g \in children THEN parent[f] ELSE parent[g]
    BY <1>2
  <2>3. ASSUME NEW d \in Documents
        PROVE  filed'[d] = IF d \in documents THEN parent[f] ELSE filed[d]
    BY <1>2
  <2> QED  BY <2>1, <2>2, <2>3 DEF children, documents
<1>6. Folder' = Folder \ {f} /\ Filed' = Filed
  <2>1. f # Absent
    BY <1>3, RowsAssumption
  <2> QED  BY <1>3, <1>4, <1>5, <2>1 DEF Folder, Filed
<1>7. FolderTypeOK'
  <2>1. parent' \in [Folders -> Folders \cup {Root, Absent}]
    <3>1. \A g \in Folders : parent'[g] \in Folders \cup {Root, Absent}
      BY <1>4, <1>5 DEF FolderTypeOK
    <3>2. parent' = [g \in Folders |-> parent'[g]]
      BY <1>2
    <3> QED  BY <3>1, <3>2
  <2>2. filed' \in [Documents -> Folders \cup {Root, Absent}]
    BY <1>2, <1>4 DEF FolderTypeOK
  <2> QED  BY <1>2, <2>1, <2>2, LocksFreed DEF FolderTypeOK
<1>8. ASSUME NEW p \in Requests PROVE HoldsWhatItSaw(p)'
  <2>1. CASE p = q
    BY <1>2, <2>1, LocksFreed
  <2>2. CASE p # q
    <3>1. tx'[p] = tx[p]
      BY <1>2, <2>2, LocksFreed
    <3>2. tx[p] # NoRequest => f \notin tx[p].locks /\ tx[p].locks \cap children = {}
      BY <1>2, <1>3, <2>2 DEF FolderInvariant, LocksApart, Free
    <3>3. tx[p] # NoRequest => \A g \in Folder \cap tx[p].locks : g \in Folder' /\ parent'[g] = parent[g]
      BY <1>5, <1>6, <3>2 DEF Folder
    <3> QED  BY <1>2, <1>6, <3>1, <3>3, OthersHold
  <2> QED  BY <2>1, <2>2
<1>9. EveryWalkEnds'
  <2> SUFFICES ASSUME NEW h \in Folder \ {f}, NEW S \in SUBSET Places, h \in S, Closed(S)'
               PROVE  Root \in S
    BY <1>6 DEF EveryWalkEnds, Places
  <2>1. CASE (S \cap children) \ {f} = {}
    <3> DEFINE T == S \ {f}
    <3>1. T \in SUBSET Places /\ h \in T
      OBVIOUS
    <3>2. Closed(T)
      <4> SUFFICES ASSUME NEW g \in T \cap Folders PROVE parent[g] \in T
        BY DEF Closed
      <4>1. g # f /\ parent[g] # f
        BY <2>1
      <4>2. parent'[g] = parent[g] /\ parent'[g] \in S
        BY <1>5, <4>1 DEF Closed
      <4> QED  BY <4>1, <4>2
    <3> QED  BY <3>1, <3>2 DEF FolderInvariant, EveryWalkEnds
  <2>2. ASSUME NEW g \in S, g \in Folders, g # f, parent[g] = f PROVE Root \in S
    <3> DEFINE T == S \cup {f}
    <3>1. T \in SUBSET Places /\ h \in T
      BY <1>3 DEF Places
    <3>2. parent[f] \in S
      BY <1>5, <2>2 DEF Closed
    <3>3. Closed(T)
      <4> SUFFICES ASSUME NEW e \in T \cap Folders PROVE parent[e] \in T
        BY DEF Closed
      <4>1. CASE e = f
        BY <3>2, <4>1
      <4>2. CASE e # f
        <5>1. parent'[e] \in S
          BY <4>2 DEF Closed
        <5> QED  BY <1>5, <4>2, <5>1
      <4> QED  BY <4>1, <4>2
    <3>4. Root \in T
      BY <3>1, <3>3 DEF FolderInvariant, EveryWalkEnds
    <3> QED  BY <1>3, <3>4, RowsAssumption
  <2> QED  BY <2>1, <2>2
<1>10. FiledWhereItExists'
  <2> SUFFICES ASSUME NEW d \in Filed \ missed PROVE filed'[d] \in (Folder \ {f}) \cup {Root}
    BY <1>2, <1>6 DEF FiledWhereItExists
  <2>1. d \in Documents /\ filed[d] \in Folder \cup {Root}
    BY DEF FolderInvariant, FiledWhereItExists, Filed
  <2> QED  BY <1>3, <1>4, <1>5, <2>1, RowsAssumption
<1>11. NoOrphanedFiling'
  BY <1>2, <1>6 DEF FolderInvariant, NoOrphanedFiling
<1> QED  BY <1>2, <1>7, <1>8, <1>9, <1>10, <1>11, LocksFreed DEF FolderInvariant

LEMMA PlaceKeeps ==
    ASSUME FolderTypeOK, FolderInvariant, NEW q \in Requests, Place(q)
    PROVE  FolderTypeOK' /\ FolderInvariant'
<1>1. PICK d, to : d = tx[q].doc /\ to = tx[q].to
  OBVIOUS
<1>2. /\ tx[q] # NoRequest /\ (At(q, "UPLOAD", "HOLDS") \/ At(q, "FILE", "HOLDS"))
      /\ filed' = IF to \in Folder \cup {Root} THEN [filed EXCEPT ![d] = to] ELSE filed
      /\ End(q) /\ UNCHANGED <<dataset, parent, assets, missed>>
  BY <1>1 DEF Place, Placing, At
<1>3. Folder' = Folder /\ (\A S : Closed(S)' <=> Closed(S))
  BY <1>2 DEF Folder, Closed
<1>4. \A e \in Documents : filed'[e] = filed[e] \/ (e = d /\ filed'[e] = to /\ to \in Folder \cup {Root})
  BY <1>2 DEF FolderTypeOK
<1>5. Filed \subseteq Filed' /\ Filed' \subseteq Filed \cup {d}
  <2>1. Absent \notin Folder \cup {Root}
    BY RowsAssumption DEF Folder
  <2> QED  BY <1>4, <2>1 DEF Filed
<1>6. FolderTypeOK'
  <2>1. Folder \subseteq Folders
    BY DEF Folder
  <2>2. filed' \in [Documents -> Folders \cup {Root, Absent}]
    BY <1>2, <2>1 DEF FolderTypeOK
  <2> QED  BY <1>2, <2>2, LocksFreed DEF FolderTypeOK
<1>7. ASSUME NEW p \in Requests PROVE HoldsWhatItSaw(p)'
  <2>1. CASE p = q
    BY <1>2, <2>1, LocksFreed
  <2>2. CASE p # q
    BY <1>2, <1>3, <1>5, <2>2, LocksFreed, OthersHold
  <2> QED  BY <2>1, <2>2
<1>8. EveryWalkEnds'
  BY <1>3 DEF FolderInvariant, EveryWalkEnds, Places
<1>9. FiledWhereItExists'
  BY <1>2, <1>3, <1>4, <1>5 DEF FolderInvariant, FiledWhereItExists, Filed
<1>10. NoOrphanedFiling'
  <2>1. ~dataset => d \in Filed
    BY <1>1, <1>2 DEF FolderInvariant, HoldsWhatItSaw
  <2> QED  BY <1>2, <1>3, <1>5, <2>1 DEF FolderInvariant, NoOrphanedFiling
<1> QED  BY <1>2, <1>6, <1>7, <1>8, <1>9, <1>10, LocksFreed DEF FolderInvariant

LEMMA AssetUploadKeeps ==
    ASSUME FolderTypeOK, FolderInvariant, NEW q \in Requests, AssetUploadCommit(q)
    PROVE  FolderTypeOK' /\ FolderInvariant'
<1>1. /\ At(q, "IMPORT", "BEGUN") /\ assets' = assets \cup {tx[q].doc}
      /\ End(q) /\ UNCHANGED <<dataset, parent, filed, missed>>
  BY DEF AssetUploadCommit
<1>2. /\ Folder' = Folder /\ Filed' = Filed /\ (\A S : Closed(S)' <=> Closed(S))
      /\ tx[q].doc \in Assets
  BY <1>1 DEF Folder, Filed, Closed, FolderInvariant, HoldsWhatItSaw
<1>3. FolderTypeOK'
  BY <1>1, <1>2, LocksFreed DEF FolderTypeOK
<1>4. ASSUME NEW p \in Requests PROVE HoldsWhatItSaw(p)'
  <2>1. CASE p = q
    BY <1>1, <2>1, LocksFreed
  <2>2. CASE p # q
    BY <1>1, <1>2, <2>2, LocksFreed, OthersHold
  <2> QED  BY <2>1, <2>2
<1>5. EveryWalkEnds' /\ FiledWhereItExists' /\ NoOrphanedFiling'
  BY <1>1, <1>2 DEF FolderInvariant, EveryWalkEnds, Places, FiledWhereItExists, NoOrphanedFiling
<1> QED  BY <1>1, <1>3, <1>4, <1>5, LocksFreed DEF FolderInvariant

LEMMA DeleteDatasetKeeps ==
    ASSUME FolderTypeOK, FolderInvariant, NEW q \in Requests, DeleteDatasetCommit(q)
    PROVE  FolderTypeOK' /\ FolderInvariant'
<1>1. /\ tx[q] # NoRequest /\ At(q, "DELETE_DATASET", "HOLDS") /\ Free(q, Folder)
      /\ dataset' = FALSE /\ parent' = [f \in Folders |-> Absent] /\ missed' = missed \cup Filed
      /\ End(q) /\ UNCHANGED <<filed, assets>>
  <2>1. Filed \ tx[q].view = Filed
    BY DEF DeleteDatasetCommit, Filed
  <2> QED  BY <2>1 DEF DeleteDatasetCommit, DeleteDataset, At
<1>2. Folder' = {} /\ Filed' = Filed /\ Filed \subseteq Documents
  BY <1>1 DEF Folder, Filed
<1>3. FolderTypeOK'
  BY <1>1, <1>2, LocksFreed DEF FolderTypeOK
<1>4. Dataset \in tx[q].locks
  BY <1>1 DEF FolderInvariant, HoldsWhatItSaw
<1>5. ASSUME NEW p \in Requests PROVE HoldsWhatItSaw(p)'
  <2>1. CASE p = q
    BY <1>1, <2>1, LocksFreed
  <2>2. CASE p # q
    <3>1. tx'[p] = tx[p]
      BY <1>1, <2>2, LocksFreed
    <3>2. tx[p] # NoRequest => Dataset \notin tx[p].locks /\ tx[p].locks \cap Folder = {}
      BY <1>1, <1>4, <2>2 DEF FolderInvariant, LocksApart, Free
    <3> QED  BY <1>2, <3>1, <3>2, OthersHold
  <2> QED  BY <2>1, <2>2
<1>6. EveryWalkEnds' /\ FiledWhereItExists' /\ NoOrphanedFiling'
  BY <1>1, <1>2 DEF EveryWalkEnds, FiledWhereItExists, NoOrphanedFiling
<1> QED  BY <1>1, <1>3, <1>5, <1>6, LocksFreed DEF FolderInvariant

LEMMA DiscardKeeps ==
    ASSUME FolderTypeOK, FolderInvariant, NEW d \in Documents, Discard(d)
    PROVE  FolderTypeOK' /\ FolderInvariant'
<1>1. /\ filed' = [filed EXCEPT ![d] = Absent] /\ missed' = missed \ {d}
      /\ UNCHANGED <<dataset, parent, assets, tx>>
      /\ \A q \in Requests : tx[q] # NoRequest => d \notin tx[q].locks
  BY DEF Discard
<1>2. /\ Folder' = Folder /\ Filed' = Filed \ {d} /\ (\A S : Closed(S)' <=> Closed(S))
      /\ \A e \in Documents : e # d => filed'[e] = filed[e]
  BY <1>1 DEF Folder, Filed, Closed, FolderTypeOK
<1>3. FolderTypeOK'
  BY <1>1 DEF FolderTypeOK
<1>4. ASSUME NEW p \in Requests PROVE HoldsWhatItSaw(p)'
  BY <1>1, <1>2, OthersHold
<1>5. LocksApart' /\ EveryWalkEnds'
  BY <1>1, <1>2 DEF FolderInvariant, LocksApart, EveryWalkEnds, Places
<1>6. FiledWhereItExists'
  BY <1>1, <1>2 DEF FolderInvariant, FiledWhereItExists, Filed
<1>7. NoOrphanedFiling'
  <2>1. d \notin Folder
    BY RowsAssumption DEF Folder
  <2> QED  BY <1>1, <1>2, <2>1 DEF FolderInvariant, NoOrphanedFiling
<1> QED  BY <1>3, <1>4, <1>5, <1>6, <1>7 DEF FolderInvariant

LEMMA FolderStarts ==
    ASSUME FolderInit
    PROVE  FolderTypeOK /\ FolderInvariant
<1>1. Folder = {} /\ Filed = {} /\ \A q \in Requests : tx[q] = NoRequest
  BY DEF FolderInit, Folder, Filed
<1>2. FolderTypeOK
  BY DEF FolderInit, FolderTypeOK
<1>3. \A q \in Requests : HoldsWhatItSaw(q)
  BY <1>1 DEF HoldsWhatItSaw, At
<1>4. LocksApart /\ EveryWalkEnds /\ FiledWhereItExists /\ NoOrphanedFiling
  BY <1>1 DEF FolderInit, LocksApart, EveryWalkEnds, FiledWhereItExists, NoOrphanedFiling
<1> QED  BY <1>2, <1>3, <1>4 DEF FolderInvariant

LEMMA FolderStep ==
    ASSUME FolderTypeOK, FolderInvariant, [FolderNext]_folderVars
    PROVE  FolderTypeOK' /\ FolderInvariant'
<1>1. ASSUME NEW q \in Requests, FolderRequest(q) PROVE FolderTypeOK' /\ FolderInvariant'
  <2>1. Looks(q) \/ CreateCommit(q) \/ MoveCommit(q) \/ DeleteCommit(q) \/ Place(q)
        \/ AssetUploadCommit(q) \/ DeleteDatasetCommit(q)
    BY <1>1 DEF FolderRequest, Looks
  <2>2. CASE Looks(q)
    BY <2>2, LooksStep
  <2>3. CASE CreateCommit(q)
    BY <2>3, CreateKeeps
  <2>4. CASE MoveCommit(q)
    BY <2>4, MoveKeeps
  <2>5. CASE DeleteCommit(q)
    BY <2>5, DeleteKeeps
  <2>6. CASE Place(q)
    BY <2>6, PlaceKeeps
  <2>7. CASE DeleteDatasetCommit(q)
    BY <2>7, DeleteDatasetKeeps
  <2>8. CASE AssetUploadCommit(q)
    BY <2>8, AssetUploadKeeps
  <2> QED  BY <2>1, <2>2, <2>3, <2>4, <2>5, <2>6, <2>7, <2>8
<1>2. ASSUME UNCHANGED folderVars PROVE FolderTypeOK' /\ FolderInvariant'
  <2>1. /\ Folder' = Folder /\ Filed' = Filed /\ (\A S : Closed(S)' <=> Closed(S))
        /\ UNCHANGED <<dataset, parent, filed, assets, tx, missed>>
    BY <1>2 DEF folderVars, Folder, Filed, Closed
  <2>2. FolderTypeOK'
    BY <2>1 DEF FolderTypeOK
  <2>3. ASSUME NEW p \in Requests PROVE HoldsWhatItSaw(p)'
    BY <2>1, OthersHold
  <2>4. LocksApart' /\ EveryWalkEnds'
    BY <2>1 DEF FolderInvariant, LocksApart, EveryWalkEnds, Places
  <2>5. FiledWhereItExists' /\ NoOrphanedFiling'
    BY <2>1 DEF FolderInvariant, FiledWhereItExists, NoOrphanedFiling
  <2> QED  BY <2>2, <2>3, <2>4, <2>5 DEF FolderInvariant
<1>3. ASSUME NEW d \in Documents, Discard(d) PROVE FolderTypeOK' /\ FolderInvariant'
  BY <1>3, DiscardKeeps
<1> QED  BY <1>1, <1>2, <1>3 DEF FolderNext

\* Types and inductive invariant of a dataset: what a request has looked up
\* under a lock is still so when it commits.
THEOREM FolderInvariantHolds == FolderSpec => [](FolderTypeOK /\ FolderInvariant)
  BY FolderStarts, FolderStep, PTL DEF FolderSpec

\* However moves, creations and deletions overlap, every folder hangs from the
\* root (_validate_folder_parent).
THEOREM FoldersRootedHolds == FolderSpec => []FoldersRooted
<1>1. FolderInvariant => FoldersRooted
  <2> SUFFICES ASSUME FolderInvariant, NEW f \in Folder PROVE Root \in Above(f)
    BY DEF FoldersRooted
  <2> QED  BY DEF FolderInvariant, EveryWalkEnds, Above, Places
<1> QED  BY <1>1, FolderInvariantHolds, PTL

\* No document is filed in a folder that is gone (delete_document_folder,
\* queue_document_from_path and update_document).
THEOREM FiledWhereItExistsHolds == FolderSpec => []FiledWhereItExists
<1>1. FolderInvariant => FiledWhereItExists
  BY DEF FolderInvariant
<1> QED  BY <1>1, FolderInvariantHolds, PTL

\* No document or folder outlives its dataset but what the deletion cannot see
\* (delete_dataset).
THEOREM NoOrphanedFilingHolds == FolderSpec => []NoOrphanedFiling
<1>1. FolderInvariant => NoOrphanedFiling
  BY DEF FolderInvariant
<1> QED  BY <1>1, FolderInvariantHolds, PTL

=============================================================================
