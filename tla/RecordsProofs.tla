---------------------------- MODULE RecordsProofs ----------------------------
(***************************************************************************)
(* Rows stay whole, and deleted rows as they were, for any number of       *)
(* overlapping requests, records and contents.  The reason is Loaded: on a *)
(* server that refuses stale writes a request that may still write has in  *)
(* memory exactly the row it is about to write to.                         *)
(*                                                                         *)
(* And the paged list: a page has as many rows as its total leaves for it, *)
(* and a walk through the pages misses nothing.  The reason for the one is *)
(* that ranks are the numbers from 0 on, each once; for the other, that an *)
(* insert never brings a row forward.                                      *)
(***************************************************************************)
EXTENDS Records, FiniteSetTheorems, TLAPS

\* What the provers need to know of a sequence.
LEMMA SeqParts ==
  ASSUME NEW S, NEW s \in Seq(S)
  PROVE  /\ Len(s) \in Nat /\ DOMAIN s = 1..Len(s)
         /\ \A k \in 1..Len(s) : s[k] \in S
OBVIOUS

\* The first of consecutive ids.
LEMMA MinOfInterval ==
  ASSUME NEW a \in Int, NEW b \in Int, a <= b
  PROVE  Min(a..b) = a
<1>1. a \in a..b /\ \A y \in a..b : a <= y
  OBVIOUS
<1>2. Min(a..b) \in a..b /\ \A y \in a..b : Min(a..b) <= y
  BY <1>1 DEF Min
<1> QED
  BY <1>1, <1>2

\* Numbers can be put in order: each has a rank, and no two have the same.
LEMMA OrderExists ==
  ASSUME NEW n \in Nat, NEW E \in SUBSET (1..n)
  PROVE  \E p \in [1..Cardinality(E) -> E] :
           \A i, j \in DOMAIN p : i < j => p[i] < p[j]
<1> DEFINE m == Cardinality(E)
           below(e) == {x \in E : x < e}
           rank == [e \in E |-> Cardinality(below(e))]
<1>1. /\ IsFiniteSet(E) /\ m \in Nat /\ \A x \in E : x \in Nat
      /\ \A B \in SUBSET E : IsFiniteSet(B) /\ Cardinality(B) \in Nat
  <2>1. IsFiniteSet(1..n)
    BY FS_Interval
  <2>2. IsFiniteSet(E)
    BY <2>1, FS_Subset
  <2>3. \A B \in SUBSET E : IsFiniteSet(B)
    BY <2>2, FS_Subset
  <2>4. \A x \in E : x \in Nat
    OBVIOUS
  <2> QED
    BY <2>2, <2>3, <2>4, FS_CardinalityType
<1>2. ASSUME NEW e \in E, NEW B \in SUBSET E, below(e) \subseteq B, e \in B
      PROVE  Cardinality(below(e)) < Cardinality(B)
  <2>1. below(e) \in SUBSET B /\ e \notin below(e)
    BY <1>1, <1>2
  <2> HIDE DEF below
  <2>2. /\ Cardinality(below(e)) <= Cardinality(B)
        /\ Cardinality(B) # Cardinality(below(e))
    BY <1>1, <1>2, <2>1, FS_Subset
  <2>3. Cardinality(below(e)) \in Nat /\ Cardinality(B) \in Nat
    BY <1>1, <2>1
  <2> QED
    BY <2>2, <2>3
<1>3. ASSUME NEW e \in E PROVE rank[e] \in 0..(m - 1)
  <2>1. below(e) \in SUBSET E
    OBVIOUS
  <2>2. rank[e] < m /\ rank[e] \in Nat
    BY <1>1, <1>2, <2>1
  <2> QED
    BY <1>1, <2>2
<1>4. ASSUME NEW e \in E, NEW f \in E, e < f PROVE rank[e] < rank[f]
  <2>1. below(e) \subseteq below(f) /\ e \in below(f) /\ below(f) \in SUBSET E
    <3>1. \A x \in E : x < e => x < f
      <4>1. \A x \in E : x \in Nat
        OBVIOUS
      <4> QED
        BY <1>4, <4>1
    <3> QED
      BY <1>4, <3>1
  <2>2. Cardinality(below(e)) < Cardinality(below(f))
    BY <1>2, <2>1
  <2> QED
    BY <2>2
<1> HIDE DEF rank
<1>5. IsFiniteSet(0..(m - 1)) /\ Cardinality(0..(m - 1)) = m
  <2>1. 0 \in Int /\ m - 1 \in Int
    BY <1>1
  <2>2. IsFiniteSet(0..(m - 1))
        /\ Cardinality(0..(m - 1)) = IF 0 > m - 1 THEN 0 ELSE m - 1 - 0 + 1
    BY <2>1, FS_Interval
  <2> QED
    BY <1>1, <2>2
<1>6. \A e, f \in E : rank[e] = rank[f] => e = f
  <2>1. SUFFICES ASSUME NEW e \in E, NEW f \in E, e # f PROVE rank[e] # rank[f]
    OBVIOUS
  <2>2. e < f \/ f < e
    BY <1>1, <2>1
  <2>3. rank[e] \in Int /\ rank[f] \in Int
    BY <1>3
  <2> QED
    BY <1>4, <2>2, <2>3
<1>7. rank \in Surjection(E, 0..(m - 1))
  <2>1. rank \in [E -> 0..(m - 1)]
    BY <1>3 DEF rank
  <2>2. rank \in Injection(E, 0..(m - 1))
    BY <1>6, <2>1 DEF Injection, IsInjective
  <2> QED
    BY <1>1, <1>5, <2>2, FS_Injection
<1> DEFINE p == [k \in 1..m |-> CHOOSE e \in E : rank[e] = k - 1]
<1>8. ASSUME NEW k \in 1..m PROVE p[k] \in E /\ rank[p[k]] = k - 1
  <2>1. k - 1 \in 0..(m - 1)
    BY <1>1
  <2>2. \E e \in E : rank[e] = k - 1
    BY <1>7, <2>1 DEF Surjection
  <2> QED
    BY <2>2
<1>9. p \in [1..m -> E] /\ DOMAIN p = 1..m
  BY <1>8
<1> HIDE DEF p
<1>10. ASSUME NEW i \in 1..m, NEW j \in 1..m, i < j PROVE p[i] < p[j]
  <2>1. rank[p[i]] < rank[p[j]] /\ p[i] \in E /\ p[j] \in E
    BY <1>1, <1>8, <1>10
  <2>2. rank[p[i]] \in Int /\ rank[p[j]] \in Int
    <3>1. rank[p[i]] \in 0..(m - 1) /\ rank[p[j]] \in 0..(m - 1)
      BY <1>3, <2>1
    <3> QED
      BY <3>1
  <2>3. p[i] # p[j] /\ ~(p[j] < p[i])
    <3>1. ASSUME p[j] < p[i] PROVE FALSE
      <4>1. rank[p[j]] < rank[p[i]]
        BY <1>4, <2>1, <3>1
      <4> QED
        BY <2>1, <2>2, <4>1
    <3> QED
      BY <2>1, <2>2, <3>1
  <2>4. p[i] \in Nat /\ p[j] \in Nat
    BY <1>1, <2>1, Zenon
  <2> QED
    BY <2>3, <2>4
<1> QED
  BY <1>9, <1>10 DEF m

\* What an import keeps of its rows are some of its rows.
LEMMA KeptTyped ==
  ASSUME NEW ds \in Seq(Content), NEW A
  PROVE  Kept(ds, A) \in Seq(Content)
<1> DEFINE valid == {i \in DOMAIN ds : ds[i].category \in A}
           place == CHOOSE p \in [1..Cardinality(valid) -> valid] :
                      \A i, j \in DOMAIN p : i < j => p[i] < p[j]
<1>1. /\ Len(ds) \in Nat /\ valid \in SUBSET (1..Len(ds))
      /\ \A i \in valid : ds[i] \in Content
  BY SeqParts
<1>2. Cardinality(valid) \in Nat
  <2>1. IsFiniteSet(1..Len(ds))
    BY <1>1, FS_Interval
  <2> QED
    BY <1>1, <2>1, FS_Subset, FS_CardinalityType
<1>3. place \in [1..Cardinality(valid) -> valid]
  BY <1>1, OrderExists
<1>4. Kept(ds, A) = [k \in DOMAIN place |-> ds[place[k]]]
  BY DEF Kept
<1> HIDE DEF valid, place
<1>5. Kept(ds, A) \in [1..Cardinality(valid) -> Content]
  BY <1>1, <1>3, <1>4
<1> QED
  BY <1>2, <1>5

LEMMA RowParts ==
  ASSUME NEW row \in Row
  PROVE  /\ row.title \in Titles /\ row.category \in Categories
         /\ row.day \in Days /\ row.deleted \in BOOLEAN
         /\ ContentOf(row) \in Content
BY DEF Row, ContentOf, Content

\* A slot that holds no request meets every demand.
LEMMA IdleTyped == Idle \in Request /\ Idle.pc = "idle" /\ Idle.ids = {}
BY DEF Idle, Request, Pcs

-----------------------------------------------------------------------------

LEMMA InitRowsInv == Init => RowsInv
<1> SUFFICES ASSUME Init PROVE RowsInv
  OBVIOUS
<1>1. /\ DOMAIN Seeds = 1..Len(Seeds) /\ Len(Seeds) \in 0..MaxRecords
      /\ \A i \in DOMAIN Seeds : Seeds[i] \in Content
  BY ContentsAssumption, RecordsAssumption, SeqParts
<1>2. /\ DOMAIN rows = 1..Len(Seeds)
      /\ \A i \in DOMAIN rows : rows[i] \in Row /\ ContentOf(rows[i]) = Seeds[i]
  BY <1>1, RecordsAssumption DEF Init, Row, ContentOf, Content, Days
<1>3. asked \in [Ids -> SUBSET Content] /\ \A i \in DOMAIN rows : asked[i] = {Seeds[i]}
  BY <1>1, <1>2, RecordsAssumption DEF Init, Ids
<1>4. TypeOK
  BY <1>1, <1>2, <1>3, IdleTyped, RecordsAssumption DEF Init, TypeOK, Resting, Ids, Days
<1>5. Numbered
  <2>1. DOMAIN rows \subseteq 1..(nextId - 1)
    BY <1>1, <1>2, RecordsAssumption DEF Init
  <2>2. \A r \in Requests : req[r].ids = {} /\ req[r].pc = "idle"
    BY IdleTyped DEF Init
  <2> QED
    BY <2>1, <2>2 DEF Numbered
<1>6. Loaded
  BY IdleTyped DEF Init, Loaded
<1>7. WholeRows
  BY <1>2, <1>3 DEF WholeRows
<1> QED
  BY <1>4, <1>5, <1>6, <1>7 DEF RowsInv

\* A request that begins has no ids yet, and what it has loaded is the row.
LEMMA BeginKeeps ==
  ASSUME RowsInv, NEW r \in Requests, NEW state \in Request, Begin(r, state),
         state.ids = {}, state.pc \notin {"commit", "commitOne"},
         state.pc = "insertOne" => Len(state.drafts) = 1,
         state.pc \in {"update", "delete"} =>
           /\ state.id \in DOMAIN rows /\ ~rows[state.id].deleted
           /\ state.pc = "update" => /\ state.sent \in Content
                                     /\ state.loaded = ContentOf(rows[state.id])
  PROVE  RowsInv'
<1>1. /\ req' = [req EXCEPT ![r] = state] /\ ops < MaxOps /\ ops' = ops + 1
      /\ UNCHANGED << rows, nextId, active, today, conflicts, list, asked >>
  BY DEF Begin
<1>2. req' \in [Requests -> Request] /\ req'[r] = state
      /\ \A s \in Requests \ {r} : req'[s] = req[s]
  BY <1>1 DEF RowsInv, TypeOK
<1>3. TypeOK'
  <2>1. ops \in 0..MaxOps /\ MaxOps \in Nat /\ ops < MaxOps /\ ops' = ops + 1
    BY <1>1, RecordsAssumption DEF RowsInv, TypeOK
  <2> QED
    BY <1>1, <1>2, <2>1 DEF RowsInv, TypeOK
<1>4. Numbered'
  <2>1. \A s \in Requests : req[s].ids \cap DOMAIN rows = {}
    BY DEF RowsInv, Numbered
  <2> QED
    BY <1>1, <1>2, <2>1 DEF RowsInv, Numbered
<1>5. Loaded'
  <2> SUFFICES ASSUME NEW s \in Requests, req'[s].pc \in {"update", "delete"}
               PROVE  /\ req'[s].id \in DOMAIN rows
                      /\ req'[s].pc = "update" => req'[s].loaded \in Content /\ req'[s].sent \in Content
                      /\ req'[s].id \notin req'[s].stale =>
                           /\ ~rows[req'[s].id].deleted
                           /\ req'[s].pc = "update" => ContentOf(rows[req'[s].id]) = req'[s].loaded
    BY <1>1 DEF Loaded, ContentOf
  <2>1. CASE s = r
    BY <1>2, <2>1, RowParts DEF RowsInv, TypeOK
  <2>2. CASE s # r
    BY <1>2, <2>2 DEF RowsInv, Loaded
  <2> QED
    BY <2>1, <2>2
<1>6. WholeRows'
  BY <1>1 DEF RowsInv, WholeRows, ContentOf
<1> QED
  BY <1>3, <1>4, <1>5, <1>6 DEF RowsInv

\* A request that ends, or has its answer still to give, writes no more.
LEMMA EndKeeps ==
  ASSUME RowsInv, NEW r \in Requests, NEW state \in Request,
         state.ids = {}, state.pc \in {"idle", "reread"},
         req' = [req EXCEPT ![r] = state],
         asked' \in [Ids -> SUBSET Content], \A i \in Ids : asked[i] \subseteq asked'[i],
         UNCHANGED << rows, nextId, active, today, conflicts, ops, list >>
  PROVE  RowsInv'
<1>1. req' \in [Requests -> Request] /\ req'[r] = state
      /\ \A s \in Requests \ {r} : req'[s] = req[s]
  BY DEF RowsInv, TypeOK
<1>2. TypeOK'
  BY <1>1 DEF RowsInv, TypeOK
<1>3. Numbered'
  BY <1>1 DEF RowsInv, Numbered
<1>4. Loaded'
  BY <1>1 DEF RowsInv, Loaded, ContentOf
<1>5. WholeRows'
  BY DEF RowsInv, TypeOK, WholeRows, ContentOf
<1> QED
  BY <1>2, <1>3, <1>4, <1>5 DEF RowsInv

LEMMA InsertKeeps ==
  ASSUME RowsInv, NEW r \in Requests, Insert(r)
  PROVE  RowsInv'
<1> DEFINE n == Len(req[r].drafts)
           given == nextId..(nextId + n - 1)
           state == [req[r] EXCEPT !.pc = IF @ = "insert" THEN "commit" ELSE "commitOne",
                                   !.ids = given]
<1>1. req[r] \in Request /\ n \in Nat /\ nextId \in 1..(MaxRecords + 1)
  BY DEF RowsInv, TypeOK, Request
<1>2. /\ nextId + n <= MaxRecords + 1 /\ nextId' = nextId + n
      /\ req' = [req EXCEPT ![r] = state]
      /\ UNCHANGED << rows, active, today, conflicts, ops, list, asked >>
  BY <1>1 DEF Insert, RowsInv, TypeOK, Request
<1>3. /\ state \in Request /\ state.pc \in {"commit", "commitOne"}
      /\ state.ids = given /\ state.drafts = req[r].drafts
      /\ state.pc = "commitOne" => req[r].pc = "insertOne"
  <2>1. given \subseteq Ids
    BY <1>1, <1>2, RecordsAssumption DEF Ids
  <2>2. req[r].pc \in {"insert", "insertOne"}
    BY DEF Insert
  <2> HIDE DEF given
  <2> QED
    BY <1>1, <2>1, <2>2 DEF Request, Pcs
<1> HIDE DEF state
<1>4. /\ req' \in [Requests -> Request] /\ req'[r] = state
      /\ \A s \in Requests \ {r} : req'[s] = req[s]
  BY <1>2, <1>3 DEF RowsInv, TypeOK
<1>5. TypeOK'
  BY <1>1, <1>2, <1>4, RecordsAssumption DEF RowsInv, TypeOK
<1>6. Numbered'
  <2>1. DOMAIN rows' \subseteq 1..(nextId' - 1) /\ given \cap DOMAIN rows = {}
    BY <1>1, <1>2 DEF RowsInv, Numbered
  \* The ids others hold were given before.
  <2>2. \A s \in Requests : req[s].ids \subseteq 1..(nextId - 1)
    <3> SUFFICES ASSUME NEW s \in Requests, NEW i \in req[s].ids PROVE i \in 1..(nextId - 1)
      OBVIOUS
    <3>1. PICK first \in 1..nextId :
            /\ req[s].ids = first..(first + Len(req[s].drafts) - 1)
            /\ first + Len(req[s].drafts) <= nextId
      BY DEF RowsInv, Numbered
    <3>2. Len(req[s].drafts) \in Nat
      BY DEF RowsInv, TypeOK, Request
    <3> QED
      BY <1>1, <3>1, <3>2
  <2>3. \A s \in Requests : req[s].ids \cap given = {}
    BY <1>1, <2>2
  <2>4. ASSUME NEW s \in Requests
        PROVE  /\ req'[s].ids \cap DOMAIN rows' = {}
               /\ req'[s].pc \in {"insertOne", "commitOne"} => Len(req'[s].drafts) = 1
    <3>1. CASE s = r
      BY <1>2, <1>3, <1>4, <2>1, <3>1 DEF RowsInv, Numbered
    <3>2. CASE s # r
      BY <1>2, <1>4, <3>2 DEF RowsInv, Numbered
    <3> QED
      BY <3>1, <3>2
  <2>5. ASSUME NEW s \in Requests
        PROVE  IF req'[s].pc \in {"commit", "commitOne"}
               THEN \E first \in 1..nextId' :
                      /\ req'[s].ids = first..(first + Len(req'[s].drafts) - 1)
                      /\ first + Len(req'[s].drafts) <= nextId'
               ELSE req'[s].ids = {}
    <3>1. CASE s = r
      <4>1. nextId \in 1..nextId' /\ nextId + n <= nextId'
        BY <1>1, <1>2
      <4> QED
        BY <1>3, <1>4, <3>1, <4>1
    <3>2. CASE s # r /\ req[s].pc \in {"commit", "commitOne"}
      <4>1. PICK first \in 1..nextId :
              /\ req[s].ids = first..(first + Len(req[s].drafts) - 1)
              /\ first + Len(req[s].drafts) <= nextId
        BY <3>2 DEF RowsInv, Numbered
      <4>2. Len(req[s].drafts) \in Nat /\ first \in 1..nextId' /\ nextId <= nextId'
        BY <1>1, <1>2 DEF RowsInv, TypeOK, Request
      <4>3. first + Len(req[s].drafts) <= nextId'
        BY <1>1, <1>2, <4>1, <4>2
      <4> QED
        BY <1>4, <3>2, <4>1, <4>2, <4>3
    <3>3. CASE s # r /\ req[s].pc \notin {"commit", "commitOne"}
      BY <1>4, <3>3 DEF RowsInv, Numbered
    <3> QED
      BY <3>1, <3>2, <3>3
  <2>6. ASSUME NEW s \in Requests, NEW t \in Requests, s # t
        PROVE  req'[s].ids \cap req'[t].ids = {}
    <3> HIDE DEF given
    <3>1. CASE s = r
      BY <1>3, <1>4, <2>3, <2>6, <3>1
    <3>2. CASE t = r
      BY <1>3, <1>4, <2>3, <2>6, <3>2
    <3>3. CASE s # r /\ t # r
      BY <1>4, <2>6, <3>3 DEF RowsInv, Numbered
    <3> QED
      BY <3>1, <3>2, <3>3
  <2> QED
    BY <2>1, <2>4, <2>5, <2>6 DEF Numbered
<1>7. Loaded'
  BY <1>2, <1>3, <1>4 DEF RowsInv, Loaded, ContentOf
<1>8. WholeRows'
  BY <1>2 DEF RowsInv, WholeRows, ContentOf
<1> QED
  BY <1>5, <1>6, <1>7, <1>8 DEF RowsInv

\* The ids of an insert that commits, and the rows it adds.
LEMMA InsertedRows ==
  ASSUME RowsInv, NEW r \in Requests, req[r].pc \in {"commit", "commitOne"}
  PROVE  /\ req[r].ids \subseteq 1..(nextId - 1)
         /\ \A i \in req[r].ids : Inserted(r)[i] \in Row /\ ~Inserted(r)[i].deleted
         /\ req[r].ids # {} => Min(req[r].ids) \in req[r].ids
<1>1. PICK first \in 1..nextId :
        /\ req[r].ids = first..(first + Len(req[r].drafts) - 1)
        /\ first + Len(req[r].drafts) <= nextId
  BY DEF RowsInv, Numbered
<1>2. req[r].drafts \in Seq(Content) /\ nextId \in Nat /\ today \in Days
  BY RecordsAssumption DEF RowsInv, TypeOK, Request
<1> DEFINE n == Len(req[r].drafts)
<1>3. n \in Nat /\ \A k \in 1..n : req[r].drafts[k] \in Content
  BY <1>2
<1>4. ASSUME NEW i \in req[r].ids
      PROVE  /\ Min(req[r].ids) = first
             /\ Inserted(r)[i] \in Row /\ ~Inserted(r)[i].deleted
  <2>1. first <= first + n - 1 /\ i - first + 1 \in 1..n
    BY <1>1, <1>2, <1>3
  <2>2. Min(req[r].ids) = first
    BY <1>1, <1>2, <1>3, <2>1, MinOfInterval
  <2>3. req[r].drafts[i - first + 1] \in Content
    BY <1>3, <2>1
  <2>4. Inserted(r)[i] = [title |-> req[r].drafts[i - first + 1].title,
                          category |-> req[r].drafts[i - first + 1].category,
                          day |-> today, deleted |-> FALSE]
    BY <2>2 DEF Inserted
  <2> QED
    BY <1>2, <2>2, <2>3, <2>4 DEF Row, Content
<1> QED
  BY <1>1, <1>2, <1>3, <1>4

LEMMA InsertCommitKeeps ==
  ASSUME RowsInv, NEW r \in Requests, InsertCommit(r)
  PROVE  RowsInv'
<1> DEFINE ids == req[r].ids
           state == IF req[r].pc = "commit" THEN Idle
                    ELSE [Idle EXCEPT !.pc = "reread", !.id = Min(ids), !.sent = req[r].sent]
<1>1. /\ rows' = [i \in DOMAIN rows \cup ids |->
                    IF i \in ids THEN Inserted(r)[i] ELSE rows[i]]
      /\ asked' = [i \in Ids |-> IF i \in ids THEN {ContentOf(rows'[i])} ELSE asked[i]]
      /\ req' = [req EXCEPT ![r] = state]
      /\ UNCHANGED << nextId, active, today, conflicts, ops, list >>
  BY DEF InsertCommit
<1>2. /\ ids \subseteq 1..(nextId - 1) /\ ids \cap DOMAIN rows = {}
      /\ \A i \in ids : rows'[i] \in Row
      /\ \A i \in DOMAIN rows : rows'[i] = rows[i]
      /\ DOMAIN rows' = DOMAIN rows \cup ids
  BY <1>1, InsertedRows DEF InsertCommit, RowsInv, Numbered
<1>3. 1..(nextId - 1) \subseteq Ids
  BY RecordsAssumption DEF RowsInv, TypeOK, Ids
<1>4. state \in Request /\ state.ids = {} /\ state.pc \in {"idle", "reread"}
  <2>1. CASE req[r].pc = "commit"
    BY <2>1, IdleTyped
  <2>2. CASE req[r].pc = "commitOne"
    <3>1. PICK first \in 1..nextId : ids = first..(first + Len(req[r].drafts) - 1)
      BY <2>2 DEF RowsInv, Numbered
    <3>2. Len(req[r].drafts) = 1 /\ first \in Int /\ ids = first..first
      <4>1. Len(req[r].drafts) = 1
        BY <2>2 DEF RowsInv, Numbered
      <4>2. first \in Int
        BY <3>1 DEF RowsInv, TypeOK
      <4>3. first + 1 - 1 = first
        BY <4>2
      <4> QED
        BY <3>1, <4>1, <4>2, <4>3
    <3>3. Min(ids) \in Ids
      <4>1. Min(first..first) = first
        <5>1. first \in Int /\ first <= first
          BY <3>2
        <5> HIDE DEF ids
        <5> QED
          BY <5>1, MinOfInterval
      <4>2. first \in ids
        BY <3>2
      <4>3. Min(ids) = first
        BY <3>2, <4>1
      <4> QED
        BY <1>2, <1>3, <4>2, <4>3
    <3>4. req[r].sent \in Content \cup {None}
      BY DEF RowsInv, TypeOK, Request
    <3>5. state = [Idle EXCEPT !.pc = "reread", !.id = Min(ids), !.sent = req[r].sent]
      BY <2>2
    <3> HIDE DEF state, ids
    <3> QED
      BY <3>3, <3>4, <3>5, IdleTyped DEF Request, Pcs
  <2> QED
    BY <2>1, <2>2 DEF InsertCommit
<1> HIDE DEF state
<1>5. /\ req' \in [Requests -> Request] /\ req'[r] = state
      /\ \A s \in Requests \ {r} : req'[s] = req[s]
  BY <1>1, <1>4 DEF RowsInv, TypeOK
<1>6. TypeOK'
  <2>1. ASSUME NEW i \in Ids PROVE asked'[i] \in SUBSET Content
    <3>1. CASE i \in ids
      BY <1>1, <1>2, <3>1, RowParts
    <3>2. CASE i \notin ids
      BY <1>1, <3>2 DEF RowsInv, TypeOK
    <3> QED
      BY <3>1, <3>2
  <2>2. asked' \in [Ids -> SUBSET Content]
    BY <1>1, <2>1
  <2> QED
    BY <1>1, <1>2, <1>3, <1>5, <2>2 DEF RowsInv, TypeOK
<1>7. Numbered'
  <2>1. \A s \in Requests \ {r} : req[s].ids \cap ids = {}
    BY DEF RowsInv, Numbered
  <2> QED
    BY <1>1, <1>2, <1>4, <1>5, <2>1 DEF RowsInv, Numbered
<1>8. Loaded'
  BY <1>2, <1>4, <1>5 DEF RowsInv, Loaded
<1>9. WholeRows'
  <2> SUFFICES ASSUME conflicts, NEW i \in DOMAIN rows'
               PROVE  ContentOf(rows'[i]) \in asked'[i]
    BY <1>1 DEF WholeRows, ContentOf
  <2>1. i \in Ids
    BY <1>2, <1>3 DEF RowsInv, TypeOK
  <2>2. CASE i \in ids
    BY <1>1, <2>1, <2>2
  <2>3. CASE i \notin ids
    <3>1. i \in DOMAIN rows /\ rows'[i] = rows[i] /\ asked'[i] = asked[i]
      BY <1>1, <1>2, <2>1, <2>3
    <3> QED
      BY <3>1 DEF RowsInv, WholeRows
  <2> QED
    BY <2>2, <2>3
<1> QED
  BY <1>6, <1>7, <1>8, <1>9 DEF RowsInv

-----------------------------------------------------------------------------
(* Writing an existing row *)

\* Every other request learns that row i has changed, and nothing else.
LEMMA NoticedParts ==
  ASSUME RowsInv, NEW r \in Requests, NEW i \in Ids, NEW state \in Request,
         Noticed(r, i, state)
  PROVE  /\ req' \in [Requests -> Request] /\ req'[r] = state
         /\ \A s \in Requests \ {r} :
              /\ req'[s].pc = req[s].pc /\ req'[s].id = req[s].id /\ req'[s].ids = req[s].ids
              /\ req'[s].drafts = req[s].drafts
              /\ req'[s].loaded = req[s].loaded /\ req'[s].sent = req[s].sent
              /\ req[s].pc # "idle" => req'[s].stale = req[s].stale \cup {i}
         /\ DOMAIN list' = DOMAIN list /\ list'.pc = list.pc
<1>1. \A s \in Requests : req[s] \in Request
  BY DEF RowsInv, TypeOK
<1>2. \A s \in Requests \ {r} :
        req'[s] = IF req[s].pc = "idle" THEN req[s]
                  ELSE [req[s] EXCEPT !.stale = @ \cup {i}]
  BY DEF Noticed
<1>3. ASSUME NEW s \in Requests \ {r}
      PROVE  /\ req'[s] \in Request
             /\ req'[s].pc = req[s].pc /\ req'[s].id = req[s].id /\ req'[s].ids = req[s].ids
             /\ req'[s].drafts = req[s].drafts
             /\ req'[s].loaded = req[s].loaded /\ req'[s].sent = req[s].sent
             /\ req[s].pc # "idle" => req'[s].stale = req[s].stale \cup {i}
  <2>1. CASE req[s].pc = "idle"
    BY <1>1, <1>2, <2>1
  <2>2. CASE req[s].pc # "idle"
    <3>1. req'[s] = [req[s] EXCEPT !.stale = @ \cup {i}]
      BY <1>2, <2>2
    <3>2. req[s].stale \cup {i} \in SUBSET Ids /\ req[s] \in Request
      BY <1>1 DEF Request
    <3> QED
      BY <2>2, <3>1, <3>2 DEF Request
  <2> QED
    BY <2>1, <2>2
<1>4. req' \in [Requests -> Request] /\ req'[r] = state
  BY <1>3 DEF Noticed
<1>5. DOMAIN list' = DOMAIN list /\ list'.pc = list.pc
  BY DEF Noticed, RowsInv, TypeOK, Resting
<1> QED
  BY <1>3, <1>4, <1>5

\* The invariant survives a write that every other request learns of.
LEMMA WriteKeeps ==
  ASSUME RowsInv, NEW r \in Requests, NEW i \in DOMAIN rows, NEW row \in Row, NEW state \in Request,
         state.ids = {}, state.pc \in {"idle", "reread"},
         rows' = [rows EXCEPT ![i] = row], Noticed(r, i, state),
         asked' \in [Ids -> SUBSET Content], \A j \in Ids : asked[j] \subseteq asked'[j],
         conflicts => ContentOf(row) \in asked'[i],
         UNCHANGED << nextId, active, today, conflicts, ops >>
  PROVE  RowsInv'
<1>1. i \in Ids /\ DOMAIN rows \subseteq Ids
  BY DEF RowsInv, TypeOK
<1>2. /\ DOMAIN rows' = DOMAIN rows /\ rows'[i] = row
      /\ \A j \in DOMAIN rows \ {i} : rows'[j] = rows[j]
  OBVIOUS
<1>3. /\ req' \in [Requests -> Request] /\ req'[r] = state
      /\ \A s \in Requests \ {r} :
           /\ req'[s].pc = req[s].pc /\ req'[s].id = req[s].id /\ req'[s].ids = req[s].ids
           /\ req'[s].drafts = req[s].drafts
           /\ req'[s].loaded = req[s].loaded /\ req'[s].sent = req[s].sent
           /\ req[s].pc # "idle" => req'[s].stale = req[s].stale \cup {i}
      /\ DOMAIN list' = DOMAIN list /\ list'.pc = list.pc
  BY <1>1, NoticedParts
<1>4. TypeOK'
  BY <1>2, <1>3 DEF RowsInv, TypeOK
<1>5. Numbered'
  <2>1. DOMAIN rows' \subseteq 1..(nextId' - 1)
    BY <1>2 DEF RowsInv, Numbered
  <2>2. ASSUME NEW s \in Requests
        PROVE  /\ req'[s].ids \cap DOMAIN rows' = {}
               /\ req'[s].pc \in {"insertOne", "commitOne"} => Len(req'[s].drafts) = 1
               /\ IF req'[s].pc \in {"commit", "commitOne"}
                  THEN \E first \in 1..nextId' :
                         /\ req'[s].ids = first..(first + Len(req'[s].drafts) - 1)
                         /\ first + Len(req'[s].drafts) <= nextId'
                  ELSE req'[s].ids = {}
    <3>1. CASE s = r
      BY <1>3, <3>1
    <3>2. CASE s # r
      BY <1>2, <1>3, <3>2 DEF RowsInv, Numbered
    <3> QED
      BY <3>1, <3>2
  <2>3. \A s, t \in Requests : s # t => req'[s].ids \cap req'[t].ids = {}
    BY <1>3 DEF RowsInv, Numbered
  <2> QED
    BY <2>1, <2>2, <2>3 DEF Numbered
<1>6. Loaded'
  <2> SUFFICES ASSUME NEW s \in Requests, req'[s].pc \in {"update", "delete"}
               PROVE  /\ req'[s].id \in DOMAIN rows'
                      /\ req'[s].pc = "update" => req'[s].loaded \in Content /\ req'[s].sent \in Content
                      /\ req'[s].id \notin req'[s].stale =>
                           /\ ~rows'[req'[s].id].deleted
                           /\ req'[s].pc = "update" => ContentOf(rows'[req'[s].id]) = req'[s].loaded
    BY DEF Loaded, ContentOf
  <2>1. s # r /\ req[s].pc = req'[s].pc /\ req[s].id = req'[s].id
        /\ req'[s].stale = req[s].stale \cup {i}
    BY <1>3
  <2>2. req'[s].id \notin req'[s].stale => rows'[req'[s].id] = rows[req[s].id]
    BY <1>2, <2>1 DEF RowsInv, Loaded
  <2> QED
    BY <1>2, <1>3, <2>1, <2>2 DEF RowsInv, Loaded
<1>7. WholeRows'
  <2> SUFFICES ASSUME conflicts, NEW j \in DOMAIN rows'
               PROVE  ContentOf(rows'[j]) \in asked'[j]
    BY DEF WholeRows, ContentOf
  <2>1. CASE j = i
    BY <1>2, <2>1
  <2>2. CASE j # i
    BY <1>1, <1>2, <2>2 DEF RowsInv, WholeRows
  <2> QED
    BY <2>1, <2>2
<1> QED
  BY <1>4, <1>5, <1>6, <1>7 DEF RowsInv

LEMMA UpdateCommitKeeps ==
  ASSUME RowsInv, NEW r \in Requests, UpdateCommit(r)
  PROVE  RowsInv'
<1> DEFINE i == req[r].id
           sent == req[r].sent
           reread == [Idle EXCEPT !.pc = "reread", !.id = i, !.sent = sent]
           row == [rows[i] EXCEPT
                     !.title    = IF sent.title # req[r].loaded.title THEN sent.title ELSE @,
                     !.category = IF sent.category # req[r].loaded.category THEN sent.category ELSE @]
<1>1. /\ i \in DOMAIN rows /\ i \in Ids /\ sent \in Content /\ req[r].loaded \in Content
      /\ i \notin req[r].stale => ContentOf(rows[i]) = req[r].loaded
  BY DEF UpdateCommit, RowsInv, TypeOK, Loaded
<1>2. reread \in Request /\ reread.ids = {} /\ reread.pc = "reread"
  BY <1>1, IdleTyped DEF Request, Pcs
<1>3. asked' = [asked EXCEPT ![i] = @ \cup {sent}]
  BY DEF UpdateCommit
<1>4. /\ asked' \in [Ids -> SUBSET Content] /\ sent \in asked'[i]
      /\ \A j \in Ids : asked[j] \subseteq asked'[j]
  BY <1>1, <1>3 DEF RowsInv, TypeOK
<1>5. CASE sent = req[r].loaded
  <2>1. req' = [req EXCEPT ![r] = reread] /\ UNCHANGED << rows, list >>
        /\ UNCHANGED << nextId, active, today, conflicts, ops >>
    BY <1>5 DEF UpdateCommit
  <2> HIDE DEF reread
  <2> QED
    BY <1>2, <1>4, <2>1, EndKeeps
<1>6. CASE sent # req[r].loaded
  <2>1. /\ ~Refused(r) /\ rows' = [rows EXCEPT ![i] = row] /\ Noticed(r, i, reread)
        /\ UNCHANGED << nextId, active, today, conflicts, ops >>
    BY <1>6 DEF UpdateCommit
  <2>2. rows[i] \in Row
    BY <1>1 DEF RowsInv, TypeOK
  <2>3. row \in Row
    BY <1>1, <2>2 DEF Row, Content
  \* Not stale, the row is the one that was loaded: what is not sent is as loaded.
  <2>4. conflicts => ContentOf(row) = sent
    <3> SUFFICES ASSUME conflicts PROVE ContentOf(row) = sent
      OBVIOUS
    <3>1. ContentOf(rows[i]) = req[r].loaded
      BY <1>1, <2>1 DEF Refused
    <3>2. rows[i].title = req[r].loaded.title /\ rows[i].category = req[r].loaded.category
      BY <3>1 DEF ContentOf
    <3>3. row.title = sent.title /\ row.category = sent.category
      BY <2>2, <3>2 DEF Row
    <3> HIDE DEF row
    <3> QED
      BY <1>1, <3>3 DEF ContentOf, Content
  <2> HIDE DEF row, reread
  <2> QED
    BY <1>1, <1>2, <1>4, <2>1, <2>3, <2>4, WriteKeeps
<1> QED
  BY <1>5, <1>6

LEMMA DeleteCommitKeeps ==
  ASSUME RowsInv, NEW r \in Requests, DeleteCommit(r)
  PROVE  RowsInv'
<1> DEFINE i == req[r].id
           row == [rows[i] EXCEPT !.deleted = TRUE]
<1>1. i \in DOMAIN rows
  BY DEF DeleteCommit, RowsInv, Loaded
<1>2. rows[i] \in Row /\ asked \in [Ids -> SUBSET Content]
  BY <1>1 DEF RowsInv, TypeOK
<1>3. /\ rows' = [rows EXCEPT ![i] = row] /\ Noticed(r, i, Idle)
      /\ UNCHANGED << nextId, active, today, conflicts, ops, asked >>
  BY DEF DeleteCommit
<1>4. row \in Row /\ ContentOf(row) = ContentOf(rows[i])
  BY <1>2 DEF Row, ContentOf
<1>5. conflicts => ContentOf(row) \in asked'[i]
  BY <1>1, <1>3, <1>4 DEF RowsInv, WholeRows
<1> HIDE DEF row
<1> QED
  BY <1>1, <1>2, <1>3, <1>4, <1>5, IdleTyped, WriteKeeps

-----------------------------------------------------------------------------

\* What a request finds may be loaded.
LEMMA ReadKeeps ==
  ASSUME RowsInv, NEW r \in Requests, NEW i \in Ids, Found(i)
  PROVE  /\ \A d \in Contents : UpdateRead(r, i, d) => RowsInv'
         /\ DeleteRead(r, i) => RowsInv'
<1>1. i \in DOMAIN rows /\ ~rows[i].deleted /\ ContentOf(rows[i]) \in Content
  BY RowParts DEF Found, RowsInv, TypeOK
<1>2. ASSUME NEW d \in Contents, UpdateRead(r, i, d) PROVE RowsInv'
  <2> DEFINE state == [Idle EXCEPT !.pc = "update", !.id = i,
                                   !.loaded = ContentOf(rows[i]), !.sent = d]
  <2>1. /\ state \in Request /\ state.ids = {} /\ state.pc = "update" /\ state.id = i
        /\ state.sent \in Content /\ state.loaded = ContentOf(rows[i])
    <3>1. d \in Content
      BY ContentsAssumption
    <3> QED
      BY <1>1, <3>1, IdleTyped DEF Request, Pcs
  <2>2. Begin(r, state)
    BY <1>2 DEF UpdateRead
  <2> HIDE DEF state
  <2> QED
    BY <1>1, <2>1, <2>2, BeginKeeps
<1>3. ASSUME DeleteRead(r, i) PROVE RowsInv'
  <2> DEFINE state == [Idle EXCEPT !.pc = "delete", !.id = i]
  <2>1. state \in Request /\ state.ids = {} /\ state.pc = "delete" /\ state.id = i
    BY IdleTyped DEF Request, Pcs
  <2>2. Begin(r, state)
    BY <1>3 DEF DeleteRead
  <2> HIDE DEF state
  <2> QED
    BY <1>1, <2>1, <2>2, BeginKeeps
<1> QED
  BY <1>2, <1>3

\* A request that creates has nothing of the table in memory.
LEMMA CreateKeeps ==
  ASSUME RowsInv, NEW r \in Requests
  PROVE  /\ \A d \in Contents : CreateRead(r, d) => RowsInv'
         /\ \A ds \in Bulks : BulkRead(r, ds) => RowsInv'
<1>1. ASSUME NEW d \in Contents, CreateRead(r, d) PROVE RowsInv'
  <2> DEFINE state == [Idle EXCEPT !.pc = "insertOne", !.drafts = << d >>, !.sent = d]
  <2>1. d \in Content /\ << d >> \in Seq(Content) /\ Len(<< d >>) = 1
    BY ContentsAssumption
  <2>2. state \in Request /\ state.ids = {} /\ state.pc = "insertOne" /\ Len(state.drafts) = 1
    BY <2>1 DEF Idle, Request, Pcs
  <2>3. Begin(r, state)
    BY <1>1 DEF CreateRead
  <2> HIDE DEF state
  <2> QED
    BY <2>2, <2>3, BeginKeeps
<1>2. ASSUME NEW ds \in Bulks, BulkRead(r, ds) PROVE RowsInv'
  <2> DEFINE state == [Idle EXCEPT !.pc = "insert", !.drafts = Kept(ds, active)]
  <2>1. Kept(ds, active) \in Seq(Content)
    <3>1. ds \in Seq(Content)
      BY ContentsAssumption
    <3> QED
      BY <3>1, KeptTyped
  <2>2. state \in Request /\ state.ids = {} /\ state.pc = "insert"
    BY <2>1 DEF Idle, Request, Pcs
  <2>3. Begin(r, state)
    BY <1>2 DEF BulkRead
  <2> HIDE DEF state
  <2> QED
    BY <2>2, <2>3, BeginKeeps
<1> QED
  BY <1>1, <1>2

LEMMA ListTyped ==
  ASSUME RowsInv, List
  PROVE  /\ DOMAIN list' = DOMAIN Resting
         /\ list'.pc \in {"resting", "rows", "count", "answered", "done"}
         /\ UNCHANGED << rows, nextId, active, today, conflicts, req, ops, asked >>
<1>1. DOMAIN list = DOMAIN Resting
  BY DEF RowsInv, TypeOK
<1>2. ASSUME NEW q \in Queries, ListBegin(q)
      PROVE  DOMAIN list' = DOMAIN Resting /\ list'.pc = "rows"
  BY <1>2 DEF ListBegin, Resting
<1>3. CASE ListRows
  BY <1>1, <1>3 DEF ListRows, Resting
<1>4. CASE ListCount
  BY <1>1, <1>4 DEF ListCount, Resting
<1>5. CASE ListNext
  BY <1>1, <1>5 DEF ListNext, Resting
<1>6. CASE ListEnd
  BY <1>6 DEF ListEnd, Resting
<1>7. UNCHANGED << rows, nextId, active, today, conflicts, req, ops, asked >>
  BY DEF List, ListBegin, ListRows, ListCount, ListNext, ListEnd
<1> QED
  BY <1>2, <1>3, <1>4, <1>5, <1>6, <1>7 DEF List

\* The list, the calendar and the categories leave rows and requests alone.
LEMMA ApartKeeps ==
  ASSUME RowsInv, TypeOK', UNCHANGED << rows, nextId, conflicts, req, asked >>
  PROVE  RowsInv'
BY DEF RowsInv, Numbered, Loaded, WholeRows, ContentOf

LEMMA NextRowsInv == RowsInv /\ [Next]_vars => RowsInv'
<1> SUFFICES ASSUME RowsInv, [Next]_vars PROVE RowsInv'
  OBVIOUS
<1>1. ASSUME NEW r \in Requests, Write(r) PROVE RowsInv'
  <2>1. ASSUME NEW d \in Contents, CreateRead(r, d) PROVE RowsInv'
    BY <2>1, CreateKeeps
  <2>2. ASSUME NEW ds \in Bulks, BulkRead(r, ds) PROVE RowsInv'
    BY <2>2, CreateKeeps
  <2>3. CASE Insert(r)
    BY <2>3, InsertKeeps
  <2>4. CASE InsertCommit(r)
    BY <2>4, InsertCommitKeeps
  <2>5. ASSUME NEW i \in Ids, NEW d \in Contents, UpdateRead(r, i, d) PROVE RowsInv'
    <3>1. Found(i)
      BY <2>5 DEF UpdateRead
    <3> QED
      BY <2>5, <3>1, ReadKeeps
  <2>6. ASSUME NEW i \in Ids, DeleteRead(r, i) PROVE RowsInv'
    <3>1. Found(i)
      BY <2>6 DEF DeleteRead
    <3> QED
      BY <2>6, <3>1, ReadKeeps
  <2>7. CASE UpdateCommit(r)
    BY <2>7, UpdateCommitKeeps
  <2>8. CASE DeleteCommit(r)
    BY <2>8, DeleteCommitKeeps
  <2>9. CASE Reread(r) \/ Rollback(r)
    <3>1. /\ req' = [req EXCEPT ![r] = Idle]
          /\ UNCHANGED << rows, nextId, active, today, conflicts, ops, list, asked >>
      BY <2>9 DEF Reread, Rollback
    <3>2. asked' \in [Ids -> SUBSET Content] /\ \A i \in Ids : asked[i] \subseteq asked'[i]
      BY <3>1 DEF RowsInv, TypeOK
    <3> QED
      BY <3>1, <3>2, IdleTyped, EndKeeps
  <2> QED
    BY <1>1, <2>1, <2>2, <2>3, <2>4, <2>5, <2>6, <2>7, <2>8, <2>9 DEF Write
<1>2. CASE List
  <2>1. TypeOK'
    BY <1>2, ListTyped DEF RowsInv, TypeOK
  <2> QED
    BY <1>2, <2>1, ListTyped, ApartKeeps
<1>3. ASSUME NEW c \in Withdrawn, Retire(c) PROVE RowsInv'
  <2>1. TypeOK'
    BY <1>3 DEF Retire, RowsInv, TypeOK
  <2> QED
    BY <1>3, <2>1, ApartKeeps DEF Retire
<1>4. CASE Midnight
  <2>1. today' \in Days
    BY <1>4, RecordsAssumption DEF Midnight, RowsInv, TypeOK, Days
  <2>2. TypeOK'
    BY <1>4, <2>1 DEF Midnight, RowsInv, TypeOK
  <2> QED
    BY <1>4, <2>2, ApartKeeps DEF Midnight
<1>5. CASE UNCHANGED vars
  <2>1. TypeOK'
    BY <1>5 DEF vars, RowsInv, TypeOK
  <2> QED
    BY <1>5, <2>1, ApartKeeps DEF vars
<1> QED
  BY <1>1, <1>2, <1>3, <1>4, <1>5 DEF Next

\* A request that is about to write has loaded the row as it is, unless it will
\* be refused; and ids that were given out are nobody else's
\* (service_record.py, models/record.py).
THEOREM RowsInvariant == Spec => []RowsInv
BY InitRowsInv, NextRowsInv, PTL DEF Spec

\* Partial UPDATEs never mix where stale writes are refused
\* (service_record.py, update_record).
THEOREM RowsStayWhole == Spec => []WholeRows
<1>1. RowsInv => WholeRows
  BY DEF RowsInv
<1> QED
  BY <1>1, RowsInvariant, PTL

-----------------------------------------------------------------------------

\* Who writes row i has loaded it before it was deleted, or is refused.
LEMMA WriteSparesDeleted ==
  ASSUME RowsInv, NEW r \in Requests, NEW i \in DOMAIN rows, rows[i].deleted,
         UpdateCommit(r) \/ DeleteCommit(r)
  PROVE  rows'[i].deleted /\ (conflicts => rows'[i] = rows[i])
<1>1. rows[i] \in Row
  BY DEF RowsInv, TypeOK
<1>2. req[r].pc \in {"update", "delete"}
  BY DEF UpdateCommit, DeleteCommit
<1>3. req[r].id \in DOMAIN rows
      /\ (req[r].id \notin req[r].stale => ~rows[req[r].id].deleted)
  BY <1>2 DEF RowsInv, Loaded
<1>4. rows' # rows => ~Refused(r)
  BY DEF UpdateCommit, DeleteCommit
<1>5. rows'[i].deleted /\ (i # req[r].id => rows'[i] = rows[i])
  <2>1. CASE UpdateCommit(r)
    <3>1. rows' = rows \/ \E row : row.deleted = rows[req[r].id].deleted
                                   /\ rows' = [rows EXCEPT ![req[r].id] = row]
      <4>1. rows[req[r].id] \in Row
        BY <1>3 DEF RowsInv, TypeOK
      <4> QED
        BY <2>1, <4>1 DEF UpdateCommit, Row
    <3> QED
      BY <1>3, <3>1
  <2>2. CASE DeleteCommit(r)
    BY <1>1, <1>3, <2>2 DEF DeleteCommit, Row
  <2> QED
    BY <2>1, <2>2
<1>6. conflicts => rows'[i] = rows[i]
  <2> SUFFICES ASSUME conflicts, rows' # rows PROVE i # req[r].id
    BY <1>5
  <2> QED
    BY <1>3, <1>4 DEF Refused
<1> QED
  BY <1>5, <1>6

\* No row but those two actions' changes; new rows have new ids.
LEMMA NextSparesDeleted ==
  ASSUME RowsInv, [Next]_vars, NEW i \in DOMAIN rows, rows[i].deleted
  PROVE  rows'[i].deleted /\ (conflicts => rows'[i] = rows[i])
<1>1. ASSUME NEW r \in Requests, Write(r)
      PROVE  rows'[i].deleted /\ (conflicts => rows'[i] = rows[i])
  <2>1. CASE InsertCommit(r)
    <3>1. i \notin req[r].ids
      BY DEF RowsInv, Numbered
    <3> QED
      BY <2>1, <3>1 DEF InsertCommit
  <2>2. CASE UpdateCommit(r) \/ DeleteCommit(r)
    BY <2>2, WriteSparesDeleted
  <2>3. CASE UNCHANGED rows
    BY <2>3
  <2> QED
    BY <1>1, <2>1, <2>2, <2>3
       DEF Write, CreateRead, BulkRead, UpdateRead, DeleteRead, Begin, Insert, Reread, Rollback
<1>2. CASE UNCHANGED rows
  BY <1>2
<1>3. CASE List
  BY <1>3, ListTyped
<1> QED
  BY <1>1, <1>2, <1>3 DEF Next, Retire, Midnight, vars

\* A deleted record stays deleted; where stale writes are refused, nothing is
\* written to it any more (service_record.py, delete_record).
THEOREM DeletedStaysDeleted == Spec => DeletedIsFinal
<1>1. RowsInv /\ [Next]_vars =>
        [\A i \in DOMAIN rows : rows[i].deleted =>
           rows'[i].deleted /\ (conflicts => rows'[i] = rows[i])]_vars
  BY NextSparesDeleted
<1> QED
  BY <1>1, RowsInvariant, PTL DEF Spec, DeletedIsFinal

-----------------------------------------------------------------------------
(* The order of the list *)

\* A selection is a finite set of ids.
LEMMA SelectedFinite ==
  ASSUME NEW S, Table(S), NEW q
  PROVE  /\ Selected(S, q) \subseteq DOMAIN S /\ Selected(S, q) \subseteq Nat
         /\ IsFiniteSet(Selected(S, q))
         /\ Cardinality(Selected(S, q)) \in Nat
<1>1. Selected(S, q) \subseteq DOMAIN S
  BY DEF Selected
<1>2. MaxRecords \in Int /\ Selected(S, q) \subseteq 1..MaxRecords
  BY <1>1, RecordsAssumption DEF Table, Ids
<1>3. IsFiniteSet(1..MaxRecords)
  BY <1>2, FS_Interval
<1>4. IsFiniteSet(Selected(S, q))
  BY <1>2, <1>3, FS_Subset
<1>5. Selected(S, q) \subseteq Nat
  BY <1>2
<1> QED
  BY <1>1, <1>4, <1>5, FS_CardinalityType

LEMMA KeyTyped ==
  ASSUME NEW S, Table(S), NEW q \in Query, NEW i \in DOMAIN S
  PROVE  Key(S, q, i) \in Nat /\ i \in Nat
<1>1. S[i] \in Row /\ i \in Nat
  BY RecordsAssumption DEF Table, Ids
<1>2. S[i].title \in Nat /\ S[i].category \in Nat /\ S[i].day \in Nat
  <2>1. S[i].title \in Titles /\ S[i].category \in Categories /\ S[i].day \in 1..LastDay
    BY <1>1, RowParts DEF Days
  <2>2. /\ \A t \in Titles : t \in Nat
        /\ \A c \in Categories : c \in Nat
        /\ \A d \in 1..LastDay : d \in Nat
    BY RecordsAssumption
  <2> QED
    BY <2>1, <2>2, Zenon
<1>3. q.sort \in {"id", "title", "category", "created_at"}
  BY DEF Query
<1> QED
  BY <1>1, <1>2, <1>3 DEF Key

\* ORDER BY key, id is a total order of the rows.
LEMMA BeforeOrder ==
  ASSUME NEW S, Table(S), NEW q \in Query
  PROVE  /\ \A i \in DOMAIN S : ~Before(S, q, i, i)
         /\ \A i, j \in DOMAIN S : i # j => Before(S, q, i, j) \/ Before(S, q, j, i)
         /\ \A i, j, k \in DOMAIN S :
              Before(S, q, i, j) /\ Before(S, q, j, k) => Before(S, q, i, k)
<1>1. \A i \in DOMAIN S : Key(S, q, i) \in Nat /\ i \in Nat
  BY KeyTyped
<1>2. \A i \in DOMAIN S : ~Before(S, q, i, i)
  BY <1>1 DEF Before
<1>3. \A i, j \in DOMAIN S : i # j => Before(S, q, i, j) \/ Before(S, q, j, i)
  BY <1>1 DEF Before
<1>4. ASSUME NEW i \in DOMAIN S, NEW j \in DOMAIN S, NEW k \in DOMAIN S,
             Before(S, q, i, j), Before(S, q, j, k)
      PROVE  Before(S, q, i, k)
  BY <1>1, <1>4 DEF Before
<1> QED
  BY <1>2, <1>3, <1>4

\* The rows before one row, among those selected.
Earlier(S, q, i) == {j \in Selected(S, q) : Before(S, q, j, i)}

LEMMA RankRange ==
  ASSUME NEW S, Table(S), NEW q \in Query, NEW i \in Selected(S, q)
  PROVE  /\ IsFiniteSet(Earlier(S, q, i))
         /\ Rank(S, q, i) = Cardinality(Earlier(S, q, i))
         /\ Rank(S, q, i) \in Nat
         /\ Rank(S, q, i) < Cardinality(Selected(S, q))
<1>1. /\ IsFiniteSet(Selected(S, q)) /\ Cardinality(Selected(S, q)) \in Nat
      /\ i \in DOMAIN S
  BY SelectedFinite
<1>2. Earlier(S, q, i) \in SUBSET Selected(S, q) /\ i \notin Earlier(S, q, i)
  BY <1>1, BeforeOrder DEF Earlier
<1>3. /\ IsFiniteSet(Earlier(S, q, i))
      /\ Cardinality(Earlier(S, q, i)) <= Cardinality(Selected(S, q))
      /\ Cardinality(Selected(S, q)) # Cardinality(Earlier(S, q, i))
  BY <1>1, <1>2, FS_Subset
<1>4. Cardinality(Earlier(S, q, i)) \in Nat
  BY <1>3, FS_CardinalityType
<1>5. Rank(S, q, i) = Cardinality(Earlier(S, q, i))
  BY DEF Rank, Earlier
<1> QED
  BY <1>1, <1>3, <1>4, <1>5

LEMMA RankOrder ==
  ASSUME NEW S, Table(S), NEW q \in Query, NEW i \in Selected(S, q), NEW j \in Selected(S, q),
         Before(S, q, i, j)
  PROVE  Rank(S, q, i) < Rank(S, q, j)
<1>1. i \in DOMAIN S /\ j \in DOMAIN S /\ Selected(S, q) \subseteq DOMAIN S
  BY SelectedFinite
<1>2. /\ Earlier(S, q, i) \in SUBSET Earlier(S, q, j)
      /\ i \in Earlier(S, q, j) /\ i \notin Earlier(S, q, i)
  <2>1. ASSUME NEW k \in Earlier(S, q, i) PROVE k \in Earlier(S, q, j)
    <3>1. k \in Selected(S, q) /\ k \in DOMAIN S /\ Before(S, q, k, i)
      BY <1>1 DEF Earlier
    <3>2. Before(S, q, k, j)
      BY <1>1, <3>1, BeforeOrder
    <3> QED
      BY <3>1, <3>2 DEF Earlier
  <2>2. ~Before(S, q, i, i)
    BY <1>1, BeforeOrder
  <2> QED
    BY <2>1, <2>2 DEF Earlier
<1>3. /\ IsFiniteSet(Earlier(S, q, j))
      /\ Rank(S, q, i) = Cardinality(Earlier(S, q, i)) /\ Rank(S, q, i) \in Nat
      /\ Rank(S, q, j) = Cardinality(Earlier(S, q, j)) /\ Rank(S, q, j) \in Nat
  BY RankRange
<1>4. /\ Cardinality(Earlier(S, q, i)) <= Cardinality(Earlier(S, q, j))
      /\ Cardinality(Earlier(S, q, j)) # Cardinality(Earlier(S, q, i))
  BY <1>2, <1>3, FS_Subset
<1> QED
  BY <1>3, <1>4

\* The ranks of n rows are 0 to n - 1, each once.
LEMMA RankBijective ==
  ASSUME NEW S, Table(S), NEW q \in Query
  PROVE  /\ \A i, j \in Selected(S, q) : Rank(S, q, i) = Rank(S, q, j) => i = j
         /\ \A k \in 0..(Cardinality(Selected(S, q)) - 1) :
              \E i \in Selected(S, q) : Rank(S, q, i) = k
<1> DEFINE all == Selected(S, q)
           n == Cardinality(all)
           f == [i \in all |-> Rank(S, q, i)]
<1>1. IsFiniteSet(all) /\ n \in Nat /\ all \subseteq DOMAIN S
  BY SelectedFinite
<1>2. ASSUME NEW i \in all, NEW j \in all, Rank(S, q, i) = Rank(S, q, j) PROVE i = j
  <2>1. Rank(S, q, i) \in Nat
    BY RankRange
  <2>2. ~Before(S, q, i, j) /\ ~Before(S, q, j, i)
    BY <1>2, <2>1, RankOrder
  <2> QED
    BY <1>1, <2>2, BeforeOrder
<1>3. \A i \in all : Rank(S, q, i) \in 0..(n - 1)
  <2> TAKE i \in all
  <2>1. Rank(S, q, i) \in Nat /\ Rank(S, q, i) < n
    BY RankRange
  <2> QED
    BY <1>1, <2>1
<1>4. f \in Injection(all, 0..(n - 1))
  BY <1>2, <1>3 DEF Injection, IsInjective
<1>5. IsFiniteSet(0..(n - 1)) /\ Cardinality(0..(n - 1)) = n
  <2>1. 0 \in Int /\ n - 1 \in Int
    BY <1>1
  <2>2. IsFiniteSet(0..(n - 1))
        /\ Cardinality(0..(n - 1)) = IF 0 > n - 1 THEN 0 ELSE n - 1 - 0 + 1
    BY <2>1, FS_Interval
  <2> QED
    BY <1>1, <2>2
<1>6. f \in Surjection(all, 0..(n - 1))
  BY <1>1, <1>4, <1>5, FS_Injection
<1>7. \A k \in 0..(n - 1) : \E i \in all : Rank(S, q, i) = k
  BY <1>6 DEF Surjection
<1> QED
  BY <1>2, <1>7

\* As many rows before one of them as there were, or more, when rows are added.
LEMMA RankGrows ==
  ASSUME NEW S, Table(S), NEW T, Table(T), NEW q \in Query,
         Selected(S, q) \subseteq Selected(T, q),
         \A i, j \in Selected(S, q) : Before(S, q, j, i) => Before(T, q, j, i),
         NEW i \in Selected(S, q)
  PROVE  Rank(S, q, i) <= Rank(T, q, i)
<1>1. Earlier(S, q, i) \in SUBSET Earlier(T, q, i)
  BY DEF Earlier
<1>2. /\ IsFiniteSet(Earlier(T, q, i))
      /\ Rank(S, q, i) = Cardinality(Earlier(S, q, i))
      /\ Rank(T, q, i) = Cardinality(Earlier(T, q, i))
  BY RankRange
<1> QED
  BY <1>1, <1>2, FS_Subset

-----------------------------------------------------------------------------
(* Pages *)

LEMMA MinOfTwo ==
  ASSUME NEW a \in Int, NEW b \in Int
  PROVE  Min({a, b}) = IF a <= b THEN a ELSE b
<1> DEFINE m == IF a <= b THEN a ELSE b
<1>1. m \in {a, b} /\ \A y \in {a, b} : m <= y
  OBVIOUS
<1>2. \A x \in {a, b} : (\A y \in {a, b} : x <= y) => x = m
  OBVIOUS
<1> HIDE DEF m
<1>3. Min({a, b}) \in {a, b} /\ \A y \in {a, b} : Min({a, b}) <= y
  BY <1>1 DEF Min
<1>4. Min({a, b}) = m
  BY <1>2, <1>3
<1> QED
  BY <1>4 DEF m

LEMMA MaxOfTwo ==
  ASSUME NEW a \in Int, NEW b \in Int
  PROVE  Max({a, b}) = IF a >= b THEN a ELSE b
<1> DEFINE m == IF a >= b THEN a ELSE b
<1>1. m \in {a, b} /\ \A y \in {a, b} : m >= y
  OBVIOUS
<1>2. \A x \in {a, b} : (\A y \in {a, b} : x >= y) => x = m
  OBVIOUS
<1> HIDE DEF m
<1>3. Max({a, b}) \in {a, b} /\ \A y \in {a, b} : Max({a, b}) >= y
  BY <1>1 DEF Max
<1>4. Max({a, b}) = m
  BY <1>2, <1>3
<1> QED
  BY <1>4 DEF m

\* Every page but the last is full, so that the next one begins where it ends.
LEMMA PageSteps ==
  ASSUME NEW q \in Query, NEW page \in Nat \ {0}
  PROVE  /\ SizeOf(q) \in Nat \ {0}
         /\ Offset(q, page) \in Nat
         /\ Offset(q, 1) = 0
         /\ Offset(q, page + 1) = Offset(q, page) + SizeOf(q)
         /\ Offset(q, page + 1) = page * SizeOf(q)
<1>1. q.size \in Nat
  BY DEF Query
<1>2. Max({q.size, 1}) \in Nat \ {0}
  BY <1>1, MaxOfTwo
<1> DEFINE ceiling == IF q.from # None \/ q.to # None THEN AnalyticsMax ELSE ListMax
<1>3. ceiling \in Nat \ {0}
  BY RecordsAssumption
<1>4. SizeOf(q) = Min({Max({q.size, 1}), ceiling})
  BY DEF SizeOf
<1> HIDE DEF ceiling
<1>5. SizeOf(q) \in Nat \ {0}
  BY <1>2, <1>3, <1>4, MinOfTwo
<1>6. \A s \in Nat : /\ (page - 1) * s \in Nat /\ (1 - 1) * s = 0
                     /\ (page + 1 - 1) * s = (page - 1) * s + s
                     /\ (page + 1 - 1) * s = page * s
  OBVIOUS
<1> QED
  BY <1>5, <1>6 DEF Offset

\* LIMIT and OFFSET return as many rows as there are left, at most a page.
LEMMA PageSize ==
  ASSUME NEW S, Table(S), NEW q \in Query, NEW page \in Nat \ {0}
  PROVE  Cardinality(PageOf(S, q, page)) =
           Max({0, Min({SizeOf(q), Count(S, q) - Offset(q, page)})})
<1> DEFINE all == Selected(S, q)
           n == Cardinality(all)
           s == SizeOf(q)
           o == Offset(q, page)
           rows_ == PageOf(S, q, page)
           last == IF n <= o + s THEN n - 1 ELSE o + s - 1
           f == [i \in rows_ |-> Rank(S, q, i)]
<1>1. IsFiniteSet(all) /\ n \in Nat /\ rows_ \in SUBSET all
  BY SelectedFinite DEF PageOf
<1>2. s \in Nat \ {0} /\ o \in Nat
  BY PageSteps
<1>3. ASSUME NEW i \in all
      PROVE  Rank(S, q, i) \in Nat /\ Rank(S, q, i) < n
  BY RankRange
<1>4. \A i \in all : i \in rows_ <=> o <= Rank(S, q, i) /\ Rank(S, q, i) < o + s
  BY DEF PageOf
<1> HIDE DEF n, s, o, rows_
<1>5. last \in Int
  BY <1>1, <1>2
<1>6. f \in Bijection(rows_, o..last)
  <2>1. f \in [rows_ -> o..last]
    BY <1>1, <1>2, <1>3, <1>4
  <2>2. \A i, j \in rows_ : f[i] = f[j] => i = j
    BY <1>1, RankBijective
  <2>3. ASSUME NEW k \in o..last PROVE \E i \in rows_ : f[i] = k
    <3>1. k \in 0..(n - 1) /\ o <= k /\ k < o + s
      BY <1>1, <1>2
    <3>2. PICK i \in all : Rank(S, q, i) = k
      BY <3>1, RankBijective DEF n
    <3>3. i \in rows_
      BY <1>4, <3>1, <3>2
    <3> QED
      BY <3>2, <3>3
  <2> QED
    BY <2>1, <2>2, <2>3 DEF Bijection, Injection, Surjection, IsInjective
<1>7. Cardinality(rows_) = Cardinality(o..last)
  <2>1. IsFiniteSet(rows_)
    BY <1>1, FS_Subset
  <2>2. ExistsBijection(rows_, o..last)
    BY <1>6 DEF ExistsBijection
  <2> HIDE DEF last
  <2> QED
    BY <2>1, <2>2, FS_Bijection
<1>8. Cardinality(o..last) = IF o > last THEN 0 ELSE last - o + 1
  <2> HIDE DEF last
  <2>1. o \in Int
    BY <1>2
  <2> QED
    BY <1>5, <2>1, FS_Interval
<1>9. Max({0, Min({s, n - o})}) = IF o > last THEN 0 ELSE last - o + 1
  <2>1. Min({s, n - o}) = IF s <= n - o THEN s ELSE n - o
    BY <1>1, <1>2, MinOfTwo
  <2>2. Min({s, n - o}) \in Int
    BY <1>1, <1>2, <2>1
  <2>3. Max({0, Min({s, n - o})}) = IF 0 >= Min({s, n - o}) THEN 0 ELSE Min({s, n - o})
    BY <2>2, MaxOfTwo
  <2> QED
    BY <1>1, <1>2, <2>1, <2>3
<1> QED
  BY <1>7, <1>8, <1>9 DEF Count, n, s, o, rows_

-----------------------------------------------------------------------------
(* What others do to the table while the client pages through it *)

\* A row that has not changed is selected as it was, and stands where it was.
LEMMA SameRowsSameOrder ==
  ASSUME NEW S, NEW T, NEW q, DOMAIN S \subseteq DOMAIN T,
         \A i \in DOMAIN S : T[i] = S[i]
  PROVE  /\ Selected(S, q) \subseteq Selected(T, q)
         /\ \A i, j \in Selected(S, q) : Before(S, q, j, i) => Before(T, q, j, i)
<1>1. \A i \in DOMAIN S : i \in DOMAIN T /\ T[i] = S[i]
  OBVIOUS
<1>2. Selected(S, q) \subseteq Selected(T, q)
  BY <1>1 DEF Selected
<1>3. \A i \in Selected(S, q) : i \in DOMAIN S
  BY DEF Selected
<1>4. \A i \in Selected(S, q) : Key(T, q, i) = Key(S, q, i)
  BY <1>1, <1>3 DEF Key
<1> QED
  BY <1>2, <1>4 DEF Before

\* A query that is immune looks at nothing a write can change.
LEMMA ImmuneOrder ==
  ASSUME NEW S, NEW T, NEW q, Immune(q), DOMAIN S \subseteq DOMAIN T,
         \A i \in DOMAIN S : T[i].day = S[i].day
  PROVE  /\ Selected(S, q) \subseteq Selected(T, q)
         /\ \A i, j \in Selected(S, q) : Before(S, q, j, i) => Before(T, q, j, i)
<1>1. \A i \in DOMAIN S : i \in DOMAIN T /\ T[i].day = S[i].day
  OBVIOUS
<1>2. Selected(S, q) \subseteq Selected(T, q)
  BY <1>1 DEF Selected, Immune
<1>3. \A i \in Selected(S, q) : i \in DOMAIN S
  BY DEF Selected
<1>4. \A i \in Selected(S, q) : Key(T, q, i) = Key(S, q, i)
  BY <1>1, <1>3 DEF Key, Immune
<1> QED
  BY <1>2, <1>4 DEF Before

\* What a step that is not the client's own does to rows and list: it adds
\* rows, or it changes rows, though not their day, and the client is disturbed.
Adds     == /\ list' = list /\ DOMAIN rows \subseteq DOMAIN rows'
            /\ \A i \in DOMAIN rows : rows'[i] = rows[i]
Disturbs == /\ list' = [list EXCEPT !.disturbed = list.pc # "resting"]
            /\ DOMAIN rows \subseteq DOMAIN rows'
            /\ \A i \in DOMAIN rows : rows'[i].day = rows[i].day

LEMMA WritesDisturb ==
  ASSUME RowsInv, NEW r \in Requests, Write(r)
  PROVE  Adds \/ Disturbs
<1>1. CASE InsertCommit(r)
  <2>1. req[r].ids \cap DOMAIN rows = {}
    BY DEF RowsInv, Numbered
  <2> QED
    BY <1>1, <2>1 DEF InsertCommit, Adds
<1>2. ASSUME NEW i \in DOMAIN rows, NEW row, row.day = rows[i].day,
             rows' = [rows EXCEPT ![i] = row],
             list' = [list EXCEPT !.disturbed = list.pc # "resting"]
      PROVE  Disturbs
  BY <1>2 DEF Disturbs
<1>3. CASE UpdateCommit(r)
  <2>1. CASE req[r].sent = req[r].loaded
    BY <1>3, <2>1 DEF UpdateCommit, Adds
  <2>2. CASE req[r].sent # req[r].loaded
    <3> DEFINE i == req[r].id
               row == [rows[i] EXCEPT
                 !.title    = IF req[r].sent.title # req[r].loaded.title
                              THEN req[r].sent.title ELSE @,
                 !.category = IF req[r].sent.category # req[r].loaded.category
                              THEN req[r].sent.category ELSE @]
    <3>1. i \in DOMAIN rows /\ rows[i] \in Row
      BY <1>3 DEF UpdateCommit, RowsInv, TypeOK, Loaded
    <3>2. row.day = rows[i].day
      BY <3>1 DEF Row
    <3>3. rows' = [rows EXCEPT ![i] = row]
          /\ list' = [list EXCEPT !.disturbed = list.pc # "resting"]
      BY <1>3, <2>2 DEF UpdateCommit, Noticed
    <3> HIDE DEF row, i
    <3> QED
      BY <1>2, <3>1, <3>2, <3>3
  <2> QED
    BY <2>1, <2>2
<1>4. CASE DeleteCommit(r)
  <2> DEFINE i == req[r].id
             row == [rows[i] EXCEPT !.deleted = TRUE]
  <2>1. i \in DOMAIN rows /\ rows[i] \in Row
    BY <1>4 DEF DeleteCommit, RowsInv, TypeOK, Loaded
  <2>2. row.day = rows[i].day
    BY <2>1 DEF Row
  <2>3. rows' = [rows EXCEPT ![i] = row]
        /\ list' = [list EXCEPT !.disturbed = list.pc # "resting"]
    BY <1>4 DEF DeleteCommit, Noticed
  <2> HIDE DEF row, i
  <2> QED
    BY <1>2, <2>1, <2>2, <2>3
<1>5. CASE UNCHANGED << rows, list >>
  BY <1>5 DEF Adds
<1> QED
  BY <1>1, <1>3, <1>4, <1>5
     DEF Write, CreateRead, BulkRead, UpdateRead, DeleteRead, Begin, Insert, Reread, Rollback

\* Whatever others do, ListInv stays.
LEMMA OthersKeepList ==
  ASSUME RowsInv, RowsInv', ListInv, Adds \/ Disturbs
  PROVE  ListInv'
<1> DEFINE q == list.q
<1>1. /\ DOMAIN list = DOMAIN Resting
      /\ Table(rows) /\ Table(rows')
  BY DEF RowsInv, TypeOK, Table
<1>2. /\ list'.pc = list.pc /\ list'.q = list.q /\ list'.page = list.page
      /\ list'.snap = list.snap /\ list'.shown = list.shown /\ list'.total = list.total
      /\ list'.seen = list.seen /\ list'.start = list.start
      /\ Disturbs => list'.disturbed = (list.pc # "resting")
      /\ Adds => list'.disturbed = list.disturbed
  BY <1>1 DEF Adds, Disturbs, Resting
<1>3. PageAgrees'
  BY <1>2 DEF ListInv, PageAgrees
<1>4. ASSUME list'.pc # "resting", Immune(list'.q) \/ ~list'.disturbed
      PROVE  Ahead(list.q)'
  <2>1. Ahead(q) /\ q \in Query /\ list.pc # "resting"
    <3>1. ~list'.disturbed => ~list.disturbed
      BY <1>2, <1>4
    <3> QED
      BY <1>2, <1>4, <3>1, QueriesAssumption DEF ListInv
  <2>2. /\ Selected(rows, q) \subseteq Selected(rows', q)
        /\ \A i, j \in Selected(rows, q) : Before(rows, q, j, i) => Before(rows', q, j, i)
    <3>1. CASE Adds
      BY <3>1, SameRowsSameOrder DEF Adds
    <3>2. CASE Disturbs
      <4>1. Immune(q)
        BY <1>2, <1>4, <3>2
      <4> QED
        BY <3>2, <4>1, ImmuneOrder DEF Disturbs
    <3> QED
      BY <3>1, <3>2
  <2>3. \A i \in Selected(rows, q) : Rank(rows, q, i) <= Rank(rows', q, i)
    BY <1>1, <2>1, <2>2, RankGrows
  <2>4. \A i \in Selected(rows, q) :
          Rank(rows, q, i) \in Nat /\ Rank(rows', q, i) \in Nat
    BY <1>1, <2>1, <2>2, RankRange
  <2>5. list.start \subseteq Selected(rows, q) /\ list.start \subseteq Selected(rows', q)
    BY <2>1, <2>2 DEF Ahead
  <2>6. \A k \in Nat : \A i \in list.start : k <= Rank(rows, q, i) => k <= Rank(rows', q, i)
    BY <2>3, <2>4, <2>5
  <2>7. /\ Offset(q, list.page) \in Nat /\ Offset(q, list.page + 1) \in Nat
    BY <2>1, PageSteps DEF ListInv
  <2>8. list.pc = "count" =>
          /\ list.start \subseteq Selected(list.snap, q)
          /\ \A i \in list.start : Rank(list.snap, q, i) <= Rank(rows', q, i)
    <3> SUFFICES ASSUME list.pc = "count"
                 PROVE  /\ list.start \subseteq Selected(list.snap, q)
                        /\ \A i \in list.start : Rank(list.snap, q, i) <= Rank(rows', q, i)
      OBVIOUS
    <3>1. list.start \subseteq Selected(list.snap, q)
          /\ \A i \in list.start : Rank(list.snap, q, i) <= Rank(rows, q, i)
      BY <2>1 DEF Ahead
    <3>2. Table(list.snap)
      BY DEF ListInv
    <3>3. \A i \in list.start : Rank(list.snap, q, i) \in Nat
      BY <2>1, <3>1, <3>2, RankRange
    <3> QED
      BY <2>6, <3>1, <3>3
  <2>9. \A i \in list.start \ list.seen :
          /\ list.pc = "rows" => Offset(q, list.page) <= Rank(rows', q, i)
          /\ list.pc = "count" =>
               i \in list.shown \/ Offset(q, list.page + 1) <= Rank(list.snap, q, i)
          /\ list.pc = "answered" => /\ Offset(q, list.page + 1) <= Rank(rows', q, i)
                                     /\ Offset(q, list.page + 1) < list.total
          /\ list.pc # "done"
    BY <2>1, <2>6, <2>7 DEF Ahead
  <2> QED
    BY <1>2, <2>5, <2>8, <2>9 DEF Ahead
<1>5. list'.pc = "count" => Table(list.snap)' /\ list'.shown = PageOf(list'.snap, list'.q, list'.page)
  BY <1>2 DEF ListInv, Table
<1> QED
  BY <1>2, <1>3, <1>4, <1>5 DEF ListInv

-----------------------------------------------------------------------------
(* The client's own steps *)

\* The walk begins: all there is lies ahead of the first page.
LEMMA BeginWalks ==
  ASSUME RowsInv, NEW q \in Queries, ListBegin(q)
  PROVE  ListInv'
<1>1. /\ list'.pc = "rows" /\ list'.q = q /\ list'.page = 1 /\ list'.seen = {}
      /\ list'.start = Selected(rows, q) /\ rows' = rows
  BY DEF ListBegin, Resting
<1>2. q \in Query /\ Table(rows)
  BY QueriesAssumption DEF RowsInv, TypeOK, Table
<1>3. Offset(q, 1) = 0 /\ \A i \in Selected(rows, q) : Rank(rows, q, i) \in Nat
  BY <1>2, PageSteps, RankRange
<1>4. \A i \in Selected(rows, q) : Offset(q, 1) <= Rank(rows, q, i)
  BY <1>3
<1>5. Ahead(list.q)'
  BY <1>1, <1>4 DEF Ahead
<1> QED
  BY <1>1, <1>5 DEF ListInv, PageAgrees

\* The page is read: what is ahead is on it or behind it.
LEMMA RowsWalk ==
  ASSUME RowsInv, ListInv, ListRows
  PROVE  ListInv'
<1> DEFINE q == list.q
<1>1. /\ list'.pc = "count" /\ list'.q = q /\ list'.page = list.page
      /\ list'.snap = rows /\ list'.shown = PageOf(rows, q, list.page)
      /\ list'.seen = list.seen /\ list'.start = list.start
      /\ list'.disturbed = list.disturbed /\ rows' = rows /\ list.pc = "rows"
  BY DEF ListRows, RowsInv, TypeOK, Resting
<1>2. Table(rows) /\ q \in Query /\ list.page \in Nat \ {0}
  BY <1>1, QueriesAssumption DEF RowsInv, TypeOK, Table, ListInv
<1>3. ASSUME Immune(q) \/ ~list.disturbed PROVE Ahead(list.q)'
  <2>1. Ahead(q)
    BY <1>1, <1>3 DEF ListInv
  <2>2. list.start \subseteq Selected(rows, q)
    BY <2>1 DEF Ahead
  <2>3. \A i \in list.start : Rank(rows, q, i) \in Nat
    BY <1>2, <2>2, RankRange
  <2>4. \A i \in list.start : Rank(rows, q, i) <= Rank(rows, q, i)
    BY <2>3
  <2>5. ASSUME NEW i \in list.start \ list.seen
        PROVE  i \in PageOf(rows, q, list.page) \/ Offset(q, list.page + 1) <= Rank(rows, q, i)
    <3>1. Offset(q, list.page) <= Rank(rows, q, i) /\ i \in Selected(rows, q)
      BY <1>1, <2>1, <2>2 DEF Ahead
    <3>2. /\ SizeOf(q) \in Nat /\ Offset(q, list.page) \in Nat
          /\ Offset(q, list.page + 1) = Offset(q, list.page) + SizeOf(q)
      BY <1>2, PageSteps
    <3>3. CASE Rank(rows, q, i) < Offset(q, list.page) + SizeOf(q)
      BY <3>1, <3>3 DEF PageOf
    <3>4. CASE ~(Rank(rows, q, i) < Offset(q, list.page) + SizeOf(q))
      BY <2>3, <3>2, <3>4
    <3> QED
      BY <3>3, <3>4
  <2> QED
    BY <1>1, <2>2, <2>4, <2>5 DEF Ahead
<1>4. Table(list.snap)' /\ list'.shown = PageOf(list'.snap, list'.q, list'.page)
  BY <1>1, <1>2 DEF Table
<1> QED
  BY <1>1, <1>2, <1>3, <1>4 DEF ListInv, PageAgrees

\* The total is that of the state the page was read in.
LEMMA CountWalks ==
  ASSUME RowsInv, ListInv, ListCount
  PROVE  ListInv'
<1> DEFINE q == list.q
<1>1. /\ list'.pc = "answered" /\ list'.q = q /\ list'.page = list.page
      /\ list'.shown = list.shown /\ list'.total = Count(list.snap, q)
      /\ list'.seen = list.seen \cup list.shown /\ list'.start = list.start
      /\ list'.disturbed = list.disturbed /\ rows' = rows /\ list.pc = "count"
  BY DEF ListCount, RowsInv, TypeOK, Resting
<1>2. /\ Table(rows) /\ q \in Query /\ list.page \in Nat \ {0}
      /\ Table(list.snap) /\ list.shown = PageOf(list.snap, q, list.page)
  BY <1>1, QueriesAssumption DEF RowsInv, TypeOK, Table, ListInv
<1>3. PageAgrees'
  BY <1>1, <1>2, PageSize DEF PageAgrees
<1>4. ASSUME Immune(q) \/ ~list.disturbed PROVE Ahead(list.q)'
  <2>1. Ahead(q)
    BY <1>1, <1>4 DEF ListInv
  <2>2. /\ list.start \subseteq Selected(rows, q)
        /\ list.start \subseteq Selected(list.snap, q)
        /\ \A i \in list.start : Rank(list.snap, q, i) <= Rank(rows, q, i)
    BY <1>1, <2>1 DEF Ahead
  <2>3. \A i \in list.start :
          /\ Rank(rows, q, i) \in Nat /\ Rank(list.snap, q, i) \in Nat
          /\ Rank(list.snap, q, i) < Count(list.snap, q)
    BY <1>2, <2>2, RankRange DEF Count
  <2>4. Offset(q, list.page + 1) \in Nat /\ Count(list.snap, q) \in Nat
    BY <1>2, PageSteps, SelectedFinite DEF Count
  <2>5. ASSUME NEW i \in list.start \ list'.seen
        PROVE  /\ Offset(q, list.page + 1) <= Rank(rows, q, i)
               /\ Offset(q, list.page + 1) < Count(list.snap, q)
    <3>1. Offset(q, list.page + 1) <= Rank(list.snap, q, i)
      BY <1>1, <2>1 DEF Ahead
    <3> QED
      BY <2>2, <2>3, <2>4, <3>1
  <2> QED
    BY <1>1, <2>2, <2>5 DEF Ahead
<1> QED
  BY <1>1, <1>2, <1>3, <1>4 DEF ListInv

\* The client goes on to the next page, or has seen it all.
LEMMA NextWalks ==
  ASSUME RowsInv, ListInv, ListNext
  PROVE  ListInv'
<1> DEFINE q == list.q
<1>1. /\ list'.q = q /\ list'.seen = list.seen /\ list'.start = list.start
      /\ list'.disturbed = list.disturbed /\ rows' = rows /\ list.pc = "answered"
      /\ IF list.page * SizeOf(q) < list.total
         THEN list'.pc = "rows" /\ list'.page = list.page + 1
         ELSE list'.pc = "done" /\ list'.page = list.page
  BY DEF ListNext, RowsInv, TypeOK, Resting
<1>2. q \in Query /\ list.page \in Nat \ {0} /\ list.page + 1 \in Nat \ {0}
  BY <1>1, QueriesAssumption DEF ListInv
<1>3. Offset(q, list.page + 1) = list.page * SizeOf(q)
  BY <1>2, PageSteps
<1>4. ASSUME Immune(q) \/ ~list.disturbed PROVE Ahead(list.q)'
  <2>1. Ahead(q)
    BY <1>1, <1>4 DEF ListInv
  <2>2. list.start \subseteq Selected(rows, q)
    BY <2>1 DEF Ahead
  <2>3. \A i \in list.start \ list.seen :
          /\ Offset(q, list.page + 1) <= Rank(rows, q, i)
          /\ Offset(q, list.page + 1) < list.total
    BY <1>1, <2>1 DEF Ahead
  <2> QED
    BY <1>1, <1>3, <2>2, <2>3 DEF Ahead
<1> QED
  BY <1>1, <1>2, <1>4 DEF ListInv, PageAgrees

LEMMA InitListInv == Init => ListInv
  BY DEF Init, ListInv, Resting, PageAgrees

LEMMA NextListInv == IInv /\ RowsInv' /\ [Next]_vars => ListInv'
<1> SUFFICES ASSUME RowsInv, ListInv, RowsInv', [Next]_vars PROVE ListInv'
  BY DEF IInv
<1>1. ASSUME NEW r \in Requests, Write(r) PROVE ListInv'
  BY <1>1, WritesDisturb, OthersKeepList
<1>2. CASE List
  <2>1. CASE ListEnd
    BY <2>1 DEF ListEnd, ListInv, Resting, PageAgrees
  <2> QED
    BY <1>2, <2>1, BeginWalks, RowsWalk, CountWalks, NextWalks DEF List
<1>3. ASSUME UNCHANGED << rows, list >> PROVE ListInv'
  <2>1. Adds
    BY <1>3 DEF Adds
  <2> QED
    BY <2>1, OthersKeepList
<1> QED
  BY <1>1, <1>2, <1>3 DEF Next, Retire, Midnight, vars

-----------------------------------------------------------------------------

\* Requests, rows and the client that pages through them, all together
\* (service_record.py, repo_record.py).
THEOREM Invariant == Spec => []IInv
<1>1. Init => IInv
  BY InitRowsInv, InitListInv DEF IInv
<1>2. IInv /\ [Next]_vars => IInv'
  BY NextRowsInv, NextListInv DEF IInv
<1> QED
  BY <1>1, <1>2, PTL DEF Spec

\* A page has exactly the rows its total leaves for it, though the two are read
\* by two SELECTs (service_record.py, list_records).
THEOREM PagesAgree == Spec => []PageAgrees
<1>1. IInv => PageAgrees
  BY DEF IInv, ListInv
<1> QED
  BY <1>1, Invariant, PTL

\* A client that asks for one page after the other misses no record that was
\* there when it began (repo_record.py, ORDER BY with the id last).
THEOREM WalksAreComplete == Spec => []WalkComplete
<1>1. IInv => WalkComplete
  <2> SUFFICES ASSUME IInv, list.pc = "done", Immune(list.q) \/ ~list.disturbed,
                      NEW i \in list.start, i \notin list.seen
               PROVE  FALSE
    BY DEF WalkComplete
  <2>1. Ahead(list.q)
    BY DEF IInv, ListInv
  <2> QED
    BY <2>1 DEF Ahead
<1> QED
  BY <1>1, Invariant, PTL

=============================================================================
