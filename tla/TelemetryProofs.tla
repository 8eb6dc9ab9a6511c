--------------------------- MODULE TelemetryProofs ---------------------------
(***************************************************************************)
(* Proofs about Telemetry: whatever fails, and whenever the process stops   *)
(* or dies, every reading and every log record is stored or accounted for,  *)
(* for any sizes of the batches and of the queue and any number of faults.  *)
(***************************************************************************)
EXTENDS Telemetry, SequenceTheorems, FiniteSetTheorems, TLAPS

-----------------------------------------------------------------------------
(* Sequences of numbers and their members *)

LEMMA Members ==
  ASSUME NEW S, NEW s \in Seq(S)
  PROVE  /\ DOMAIN s = 1 .. Len(s) /\ Len(s) \in Nat
         /\ ToSet(s) = {s[i] : i \in 1 .. Len(s)} /\ ToSet(s) \subseteq S
         /\ s = <<>> <=> ToSet(s) = {}
<1>1. DOMAIN s = 1 .. Len(s) /\ Len(s) \in Nat
  BY LenProperties
<1>2. ToSet(s) = {s[i] : i \in 1 .. Len(s)} /\ ToSet(s) \subseteq S
  BY <1>1, ElementOfSeq DEF ToSet
<1>3. ASSUME s # <<>> PROVE s[1] \in ToSet(s)
  BY <1>1, <1>2, <1>3, EmptySeq
<1>4. ASSUME s = <<>> PROVE ToSet(s) = {}
  BY <1>2, <1>4, EmptySeq
<1>5. QED
  BY <1>1, <1>2, <1>3, <1>4

LEMMA MembersOfConcat ==
  ASSUME NEW S, NEW s \in Seq(S), NEW t \in Seq(S)
  PROVE  /\ s \o t \in Seq(S)
         /\ ToSet(s \o t) = ToSet(s) \cup ToSet(t)
<1>1. /\ s \o t \in Seq(S) /\ Len(s \o t) = Len(s) + Len(t)
      /\ \A i \in 1 .. Len(s) + Len(t) :
           (s \o t)[i] = IF i <= Len(s) THEN s[i] ELSE t[i - Len(s)]
  BY ConcatProperties
<1>2. /\ Len(s) \in Nat /\ ToSet(s) = {s[i] : i \in 1 .. Len(s)}
      /\ Len(t) \in Nat /\ ToSet(t) = {t[i] : i \in 1 .. Len(t)}
      /\ ToSet(s \o t) = {(s \o t)[i] : i \in 1 .. Len(s) + Len(t)}
  <2>1. ToSet(s \o t) = {(s \o t)[i] : i \in 1 .. Len(s \o t)}
    BY <1>1, Members
  <2>2. QED
    BY <1>1, <2>1, Members
<1>3. ASSUME NEW i \in 1 .. Len(s) PROVE s[i] \in ToSet(s \o t)
  <2>1. i \in 1 .. Len(s) + Len(t) /\ (s \o t)[i] = s[i]
    BY <1>1, <1>2
  <2>2. QED
    BY <1>1, <1>2, <2>1
<1>4. ASSUME NEW i \in 1 .. Len(t) PROVE t[i] \in ToSet(s \o t)
  <2>1. Len(s) + i \in 1 .. Len(s) + Len(t) /\ (s \o t)[Len(s) + i] = t[i]
    BY <1>1, <1>2
  <2>2. QED
    BY <1>1, <1>2, <2>1
<1>5. ASSUME NEW i \in 1 .. Len(s) + Len(t)
      PROVE  (s \o t)[i] \in ToSet(s) \cup ToSet(t)
  <2>1. CASE i <= Len(s)
    BY <1>1, <1>2, <2>1
  <2>2. CASE ~(i <= Len(s))
    <3>1. i - Len(s) \in 1 .. Len(t) /\ (s \o t)[i] = t[i - Len(s)]
      BY <1>1, <1>2, <2>2
    <3>2. QED
      BY <1>2, <3>1
  <2>3. QED
    BY <2>1, <2>2
<1>6. QED
  BY <1>1, <1>2, <1>3, <1>4, <1>5

\* Every member of s is smaller than every member of t.
Before(s, t) == \A a \in ToSet(s), b \in ToSet(t) : a < b

LEMMA IncreasingConcat ==
  ASSUME NEW S \in SUBSET Nat, NEW s \in Seq(S), NEW t \in Seq(S)
  PROVE  Increasing(s \o t) <=> Increasing(s) /\ Increasing(t) /\ Before(s, t)
<1>1. /\ Len(s \o t) = Len(s) + Len(t) /\ DOMAIN (s \o t) = 1 .. Len(s) + Len(t)
      /\ \A i \in 1 .. Len(s) + Len(t) :
           (s \o t)[i] = IF i <= Len(s) THEN s[i] ELSE t[i - Len(s)]
  BY ConcatProperties, LenProperties
<1>2. /\ Len(s) \in Nat /\ ToSet(s) = {s[i] : i \in 1 .. Len(s)} /\ DOMAIN s = 1 .. Len(s)
      /\ Len(t) \in Nat /\ ToSet(t) = {t[i] : i \in 1 .. Len(t)} /\ DOMAIN t = 1 .. Len(t)
  BY Members
<1>3. /\ \A i \in 1 .. Len(s) : i \in DOMAIN (s \o t) /\ (s \o t)[i] = s[i]
      /\ \A i \in 1 .. Len(t) : Len(s) + i \in DOMAIN (s \o t)
                                /\ (s \o t)[Len(s) + i] = t[i]
  BY <1>1, <1>2
<1>4. ASSUME Increasing(s \o t)
      PROVE  Increasing(s) /\ Increasing(t) /\ Before(s, t)
  <2>1. Increasing(s)
    BY <1>2, <1>3, <1>4 DEF Increasing
  <2>2. Increasing(t)
    <3>1. SUFFICES ASSUME NEW i \in 1 .. Len(t), NEW j \in 1 .. Len(t), i < j
                   PROVE  t[i] < t[j]
      BY <1>2 DEF Increasing
    <3>2. Len(s) + i < Len(s) + j
      BY <1>2, <3>1
    <3>3. (s \o t)[Len(s) + i] < (s \o t)[Len(s) + j]
      BY <1>3, <1>4, <3>2 DEF Increasing
    <3>4. QED
      BY <1>3, <3>3
  <2>3. Before(s, t)
    <3>1. SUFFICES ASSUME NEW i \in 1 .. Len(s), NEW j \in 1 .. Len(t)
                   PROVE  s[i] < t[j]
      BY <1>2 DEF Before
    <3>2. i < Len(s) + j
      BY <1>2
    <3>3. (s \o t)[i] < (s \o t)[Len(s) + j]
      BY <1>3, <1>4, <3>2 DEF Increasing
    <3>4. QED
      BY <1>3, <3>3
  <2>4. QED
    BY <2>1, <2>2, <2>3
<1>5. ASSUME Increasing(s), Increasing(t), Before(s, t)
      PROVE  Increasing(s \o t)
  <2>1. SUFFICES ASSUME NEW i \in 1 .. Len(s) + Len(t), NEW j \in 1 .. Len(s) + Len(t),
                        i < j
                 PROVE  (s \o t)[i] < (s \o t)[j]
    BY <1>1 DEF Increasing
  <2>2. CASE j <= Len(s)
    BY <1>1, <1>2, <1>5, <2>1, <2>2 DEF Increasing
  <2>3. CASE i <= Len(s) /\ ~(j <= Len(s))
    <3>1. s[i] \in ToSet(s) /\ t[j - Len(s)] \in ToSet(t)
      BY <1>2, <2>3
    <3>2. QED
      BY <1>1, <1>5, <2>3, <3>1 DEF Before
  <2>4. CASE ~(i <= Len(s))
    <3>1. /\ i - Len(s) \in 1 .. Len(t) /\ j - Len(s) \in 1 .. Len(t)
          /\ i - Len(s) < j - Len(s)
      BY <1>2, <2>1, <2>4
    <3>2. t[i - Len(s)] < t[j - Len(s)]
      BY <1>2, <1>5, <3>1 DEF Increasing
    <3>3. QED
      BY <1>1, <1>2, <2>1, <2>4, <3>2
  <2>5. QED
    BY <1>2, <2>2, <2>3, <2>4
<1>6. QED
  BY <1>4, <1>5

LEMMA Pushed ==
  ASSUME NEW S \in SUBSET Nat, NEW s \in Seq(S), NEW e \in S
  PROVE  /\ Append(s, e) \in Seq(S) /\ Len(Append(s, e)) = Len(s) + 1
         /\ ToSet(Append(s, e)) = ToSet(s) \cup {e}
         /\ Increasing(Append(s, e)) <=> Increasing(s) /\ \A a \in ToSet(s) : a < e
<1>1. /\ Append(s, e) \in Seq(S) /\ Len(Append(s, e)) = Len(s) + 1
      /\ Append(s, e) = s \o << e >>
  BY AppendProperties, AppendIsConcat
<1>2. << e >> \in Seq(S) /\ ToSet(<< e >>) = {e} /\ Increasing(<< e >>)
  BY DEF ToSet, Increasing
<1>3. ToSet(s \o << e >>) = ToSet(s) \cup ToSet(<< e >>)
  BY <1>2, MembersOfConcat
<1>4. /\ Increasing(s \o << e >>) <=> Increasing(s) /\ Before(s, << e >>)
      /\ Before(s, << e >>) <=> \A a \in ToSet(s) : a < e
  BY <1>2, IncreasingConcat DEF Before
<1>5. QED
  BY <1>1, <1>2, <1>3, <1>4

\* A sequence that is cut in two.
LEMMA Cut ==
  ASSUME NEW S \in SUBSET Nat, NEW s \in Seq(S), NEW k \in 0 .. Len(s)
  PROVE  LET p == SubSeq(s, 1, k)
             q == SubSeq(s, k + 1, Len(s))
         IN /\ p \in Seq(S) /\ q \in Seq(S)
            /\ Len(p) = k /\ Len(q) = Len(s) - k
            /\ ToSet(s) = ToSet(p) \cup ToSet(q)
            /\ Increasing(s) <=> Increasing(p) /\ Increasing(q) /\ Before(p, q)
<1> DEFINE p == SubSeq(s, 1, k)
           q == SubSeq(s, k + 1, Len(s))
<1>1. Len(s) \in Nat /\ k \in Nat /\ k <= Len(s)
  BY Members
<1>2. p \in Seq(S) /\ Len(p) = k
  <2>1. \A i \in 1 .. k : s[i] \in S
    BY <1>1, ElementOfSeq
  <2>2. p \in Seq(S) /\ Len(p) = IF 1 <= k THEN k - 1 + 1 ELSE 0
    BY <1>1, <2>1, SubSeqProperties
  <2>3. QED
    BY <1>1, <2>2
<1>3. q \in Seq(S) /\ Len(q) = Len(s) - k
  <2>1. \A i \in k + 1 .. Len(s) : s[i] \in S
    BY <1>1, ElementOfSeq
  <2>2. /\ q \in Seq(S)
        /\ Len(q) = IF k + 1 <= Len(s) THEN Len(s) - (k + 1) + 1 ELSE 0
    BY <1>1, <2>1, SubSeqProperties
  <2>3. QED
    BY <1>1, <2>2
<1>4. s = p \o q
  <2>1. 1 \in 1 .. Len(s) + 1 /\ k \in 1 - 1 .. Len(s) /\ Len(s) \in k .. Len(s)
    BY <1>1
  <2>2. SubSeq(s, 1, k) \o SubSeq(s, k + 1, Len(s)) = SubSeq(s, 1, Len(s))
    BY <2>1, ConcatAdjacentSubSeq
  <2>3. QED
    BY <2>2, SubSeqFull
<1> HIDE DEF p, q
<1>5. /\ ToSet(s) = ToSet(p) \cup ToSet(q)
      /\ Increasing(s) <=> Increasing(p) /\ Increasing(q) /\ Before(p, q)
  BY <1>2, <1>3, <1>4, MembersOfConcat, IncreasingConcat
<1>6. QED
  BY <1>2, <1>3, <1>5 DEF p, q

-----------------------------------------------------------------------------
(* Entries in the order of their ids *)

LEMMA LogsFinite ==
  ASSUME NEW E \in SUBSET Logs
  PROVE  IsFiniteSet(E) /\ Cardinality(E) \in Nat
<1>1. IsFiniteSet(Logs)
  BY TelemetryAssumption, FS_Interval DEF Logs
<1> QED
  BY <1>1, FS_Subset, FS_CardinalityType

\* The entries before one of them.
Below(E, e) == {x \in E : x < e}

LEMMA RankOfEntry ==
  ASSUME NEW E \in SUBSET Logs, NEW e \in E
  PROVE  /\ Cardinality(Below(E, e)) \in 0..(Cardinality(E) - 1)
         /\ \A f \in E : e < f => Cardinality(Below(E, e)) < Cardinality(Below(E, f))
<1>1. \A x \in E : x \in Nat
  BY DEF Logs
<1>2. ASSUME NEW B \in SUBSET E, Below(E, e) \subseteq B, e \in B
      PROVE  Cardinality(Below(E, e)) < Cardinality(B)
  <2>1. IsFiniteSet(B) /\ Cardinality(B) \in Nat /\ Below(E, e) \in SUBSET B
    BY <1>2, LogsFinite
  <2>2. e \notin Below(E, e)
    BY <1>1 DEF Below
  <2>3. /\ Cardinality(Below(E, e)) <= Cardinality(B)
        /\ Cardinality(B) # Cardinality(Below(E, e))
    BY <1>2, <2>1, <2>2, FS_Subset
  <2>4. Cardinality(Below(E, e)) \in Nat
    BY <2>1, LogsFinite DEF Below
  <2> QED
    BY <2>1, <2>3, <2>4
<1>3. Cardinality(Below(E, e)) < Cardinality(E)
  BY <1>2 DEF Below
<1>4. Cardinality(E) \in Nat /\ Cardinality(Below(E, e)) \in Nat
  BY LogsFinite DEF Below
<1>5. ASSUME NEW f \in E, e < f
      PROVE  Cardinality(Below(E, e)) < Cardinality(Below(E, f))
  <2>1. Below(E, e) \subseteq Below(E, f) /\ e \in Below(E, f)
    BY <1>1, <1>5 DEF Below
  <2>2. Below(E, f) \in SUBSET E
    BY DEF Below
  <2> QED
    BY <1>2, <2>1, <2>2
<1> QED
  BY <1>3, <1>4, <1>5

\* XRANGE has an answer: some sequence of all entries is in order.
LEMMA OrderExists ==
  ASSUME NEW E \in SUBSET Logs
  PROVE  \E s \in [1..Cardinality(E) -> E] : Increasing(s)
<1> DEFINE n == Cardinality(E)
           rank == [e \in E |-> Cardinality(Below(E, e))]
<1>1. IsFiniteSet(E) /\ n \in Nat /\ \A x \in E : x \in Nat
  BY LogsFinite DEF Logs
<1>2. \A e \in E : rank[e] \in 0..(n - 1)
  BY RankOfEntry
<1>3. \A e, f \in E : e < f => rank[e] < rank[f]
  BY RankOfEntry
<1>4. IsFiniteSet(0..(n - 1)) /\ Cardinality(0..(n - 1)) = n
  <2>1. 0 \in Int /\ n - 1 \in Int
    BY <1>1
  <2>2. IsFiniteSet(0..(n - 1))
        /\ Cardinality(0..(n - 1)) = IF 0 > n - 1 THEN 0 ELSE n - 1 - 0 + 1
    BY <2>1, FS_Interval
  <2> QED
    BY <1>1, <2>2
<1>5. rank \in Injection(E, 0..(n - 1))
  <2>1. rank \in [E -> 0..(n - 1)]
    BY <1>2
  <2>2. \A e, f \in E : rank[e] = rank[f] => e = f
    <3>1. SUFFICES ASSUME NEW e \in E, NEW f \in E, e # f PROVE rank[e] # rank[f]
      OBVIOUS
    <3>2. e < f \/ f < e
      BY <1>1, <3>1
    <3>3. rank[e] \in Int /\ rank[f] \in Int
      BY <1>2
    <3> QED
      BY <1>3, <3>2, <3>3
  <2> QED
    BY <2>1, <2>2 DEF Injection, IsInjective
<1>6. rank \in Surjection(E, 0..(n - 1))
  BY <1>1, <1>4, <1>5, FS_Injection
<1> DEFINE s == [k \in 1..n |-> CHOOSE e \in E : rank[e] = k - 1]
<1>7. ASSUME NEW k \in 1..n PROVE s[k] \in E /\ rank[s[k]] = k - 1
  <2>1. k - 1 \in 0..(n - 1)
    BY <1>1
  <2>2. \E e \in E : rank[e] = k - 1
    BY <1>6, <2>1 DEF Surjection
  <2> HIDE DEF rank
  <2> QED
    BY <2>2
<1> HIDE DEF rank
<1>8. s \in [1..n -> E] /\ DOMAIN s = 1..n
  BY <1>7
<1> HIDE DEF s
<1>9. Increasing(s)
  <2>1. SUFFICES ASSUME NEW i \in 1..n, NEW j \in 1..n, i < j
                 PROVE  s[i] < s[j]
    BY <1>8 DEF Increasing
  <2>2. rank[s[i]] < rank[s[j]] /\ s[i] \in E /\ s[j] \in E
    BY <1>1, <1>7, <2>1
  <2>3. ~(s[j] < s[i]) /\ s[i] # s[j]
    <3>1. rank[s[i]] \in Int /\ rank[s[j]] \in Int
      BY <1>2, <2>2
    <3>2. ASSUME s[j] < s[i] PROVE FALSE
      <4>1. rank[s[j]] < rank[s[i]]
        BY <1>3, <2>2, <3>2
      <4> QED
        BY <2>2, <3>1, <4>1
    <3> QED
      BY <2>2, <3>1, <3>2
  <2> QED
    BY <1>1, <2>2, <2>3
<1> QED
  BY <1>8, <1>9 DEF n

LEMMA Sorted ==
  ASSUME NEW E \in SUBSET Logs
  PROVE  /\ ById(E) \in Seq(Logs) /\ Increasing(ById(E))
         /\ ToSet(ById(E)) = E
<1> DEFINE n == Cardinality(E)
           s == ById(E)
<1>1. s \in [1..n -> E] /\ Increasing(s)
  BY OrderExists DEF ById
<1>2. IsFiniteSet(E) /\ n \in Nat /\ \A x \in E : x \in Nat
  BY LogsFinite DEF Logs
<1> HIDE DEF s
<1>3. s \in Seq(Logs) /\ DOMAIN s = 1..n
  <2>1. s \in [1..n -> Logs]
    BY <1>1
  <2> QED
    BY <1>1, <1>2, <2>1, SeqDef
<1>4. s \in Injection(1..n, E)
  <2>1. \A i, j \in 1..n : s[i] = s[j] => i = j
    <3>1. SUFFICES ASSUME NEW i \in 1..n, NEW j \in 1..n, i < j PROVE s[i] # s[j]
      BY <1>2
    <3>2. s[i] < s[j] /\ s[i] \in Nat /\ s[j] \in Nat
      BY <1>1, <1>2, <1>3, <3>1 DEF Increasing
    <3> QED
      BY <3>2
  <2> QED
    BY <1>1, <2>1 DEF Injection, IsInjective
<1>5. IsFiniteSet(1..n) /\ Cardinality(1..n) = n
  <2>1. 1 \in Int /\ n \in Int
    BY <1>2
  <2>2. IsFiniteSet(1..n) /\ Cardinality(1..n) = IF 1 > n THEN 0 ELSE n - 1 + 1
    BY <2>1, FS_Interval
  <2> QED
    BY <1>2, <2>2
<1>6. s \in Surjection(1..n, E)
  BY <1>2, <1>4, <1>5, FS_Injection
<1>7. ToSet(s) = E
  BY <1>1, <1>3, <1>6 DEF Surjection, ToSet
<1> QED
  BY <1>1, <1>3, <1>7 DEF s

-----------------------------------------------------------------------------
(* The log: what is kept, and where *)

\* LogsAccounted of any stream, records taken, queue and counters.
Accounted(s, t, q, n, d) ==
  LET kept == s \o t \o q
  IN /\ Increasing(kept)
     /\ 1..n = ToSet(kept) \cup d
     /\ ToSet(kept) \cap d = {}

InOrder(s, t, q) ==
  /\ Increasing(s) /\ Increasing(t) /\ Increasing(q)
  /\ Before(s, t) /\ Before(s, q) /\ Before(t, q)

Shared(s, t, q, n, d) ==
  /\ InOrder(s, t, q)
  /\ 1..n = ToSet(s) \cup ToSet(t) \cup ToSet(q) \cup d
  /\ (ToSet(s) \cup ToSet(t) \cup ToSet(q)) \cap d = {}

LEMMA Kept ==
  ASSUME NEW s \in Seq(Logs), NEW t \in Seq(Logs), NEW q \in Seq(Logs), NEW n, NEW d
  PROVE  Accounted(s, t, q, n, d) <=> Shared(s, t, q, n, d)
<1>1. Logs \in SUBSET Nat
  BY DEF Logs
<1>2. /\ s \o t \in Seq(Logs) /\ ToSet(s \o t) = ToSet(s) \cup ToSet(t)
      /\ Increasing(s \o t) <=> Increasing(s) /\ Increasing(t) /\ Before(s, t)
  BY <1>1, MembersOfConcat, IncreasingConcat
<1> DEFINE st == s \o t
<1>3. st \in Seq(Logs)
  BY <1>2
<1> HIDE DEF st
<1>4. ToSet(st \o q) = ToSet(st) \cup ToSet(q)
  BY <1>3, MembersOfConcat
<1>5. Increasing(st \o q) <=> Increasing(st) /\ Increasing(q) /\ Before(st, q)
  BY <1>1, <1>3, IncreasingConcat
<1>6. Before(st, q) <=> Before(s, q) /\ Before(t, q)
  BY <1>2 DEF Before, st
<1>7. /\ ToSet(st) = ToSet(s) \cup ToSet(t)
      /\ Increasing(st) <=> Increasing(s) /\ Increasing(t) /\ Before(s, t)
  BY <1>2 DEF st
<1>8. Accounted(s, t, q, n, d) <=> /\ Increasing(st \o q)
                                   /\ 1..n = ToSet(st \o q) \cup d
                                   /\ ToSet(st \o q) \cap d = {}
  BY DEF Accounted, st
<1>9. QED
  BY <1>4, <1>5, <1>6, <1>7, <1>8 DEF Shared, InOrder

LEMMA Nothing == <<>> \in Seq(Logs) /\ ToSet(<<>>) = {} /\ Increasing(<<>>)
<1>1. <<>> \in Seq(Logs) /\ Len(<<>>) = 0
  BY EmptySeq
<1>2. ToSet(<<>>) = {} /\ DOMAIN <<>> = {}
  BY DEF ToSet
<1>3. QED
  BY <1>1, <1>2 DEF Increasing

\* The next record is put into the queue, or is dropped.
LEMMA Emitted ==
  ASSUME NEW s \in Seq(Logs), NEW t \in Seq(Logs), NEW q \in Seq(Logs),
         NEW n \in Nat, n + 1 \in Logs, NEW d, Accounted(s, t, q, n, d)
  PROVE  /\ Append(q, n + 1) \in Seq(Logs) /\ Len(Append(q, n + 1)) = Len(q) + 1
         /\ Accounted(s, t, Append(q, n + 1), n + 1, d)
         /\ Accounted(s, t, q, n + 1, d \cup {n + 1})
<1>1. Logs \in SUBSET Nat
  BY DEF Logs
<1>2. /\ InOrder(s, t, q)
      /\ 1..n = ToSet(s) \cup ToSet(t) \cup ToSet(q) \cup d
      /\ (ToSet(s) \cup ToSet(t) \cup ToSet(q)) \cap d = {}
  BY Kept DEF Shared
<1>3. \A m \in ToSet(s) \cup ToSet(t) \cup ToSet(q) \cup d : m \in Nat /\ m < n + 1
  BY <1>2
<1>4. 1 .. n + 1 = (1..n) \cup {n + 1}
  OBVIOUS
<1>5. /\ Append(q, n + 1) \in Seq(Logs) /\ Len(Append(q, n + 1)) = Len(q) + 1
      /\ ToSet(Append(q, n + 1)) = ToSet(q) \cup {n + 1}
      /\ Increasing(Append(q, n + 1)) <=> Increasing(q) /\ \A a \in ToSet(q) : a < n + 1
  BY <1>1, Pushed
<1>6. InOrder(s, t, Append(q, n + 1))
  BY <1>2, <1>3, <1>5 DEF InOrder, Before
<1>7. n + 1 \notin ToSet(s) \cup ToSet(t) \cup ToSet(q) \cup d
  BY <1>3
<1>8. Accounted(s, t, Append(q, n + 1), n + 1, d)
  <2>1. 1 .. n + 1 = ToSet(s) \cup ToSet(t) \cup ToSet(Append(q, n + 1)) \cup d
    BY <1>2, <1>4, <1>5
  <2>2. (ToSet(s) \cup ToSet(t) \cup ToSet(Append(q, n + 1))) \cap d = {}
    BY <1>2, <1>5, <1>7
  <2>3. QED
    <3>1. Shared(s, t, Append(q, n + 1), n + 1, d)
      BY <1>6, <2>1, <2>2 DEF Shared
    <3>2. QED
      BY <1>5, <3>1, Kept
<1>9. Accounted(s, t, q, n + 1, d \cup {n + 1})
  <2>1. 1 .. n + 1 = ToSet(s) \cup ToSet(t) \cup ToSet(q) \cup (d \cup {n + 1})
    BY <1>2, <1>4
  <2>2. (ToSet(s) \cup ToSet(t) \cup ToSet(q)) \cap (d \cup {n + 1}) = {}
    BY <1>2, <1>7
  <2>3. QED
    <3>1. Shared(s, t, q, n + 1, d \cup {n + 1})
      BY <1>2, <2>1, <2>2 DEF Shared
    <3>2. QED
      BY <3>1, Kept
<1>10. QED
  BY <1>5, <1>8, <1>9

\* The flusher takes records from the front of the queue.
LEMMA Taken ==
  ASSUME NEW s \in Seq(Logs), NEW q \in Seq(Logs), NEW n, NEW d,
         Accounted(s, <<>>, q, n, d), NEW k \in 0 .. Len(q)
  PROVE  Accounted(s, SubSeq(q, 1, k), SubSeq(q, k + 1, Len(q)), n, d)
<1> DEFINE a == SubSeq(q, 1, k)
           b == SubSeq(q, k + 1, Len(q))
<1>1. Logs \in SUBSET Nat
  BY DEF Logs
<1>2. <<>> \in Seq(Logs) /\ ToSet(<<>>) = {}
  BY Nothing
<1>3. /\ InOrder(s, <<>>, q)
      /\ 1..n = ToSet(s) \cup ToSet(q) \cup d
      /\ (ToSet(s) \cup ToSet(q)) \cap d = {}
  <2>1. Shared(s, <<>>, q, n, d)
    BY <1>2, Kept
  <2>2. QED
    BY <1>2, <2>1 DEF Shared
<1>4. /\ a \in Seq(Logs) /\ b \in Seq(Logs) /\ ToSet(q) = ToSet(a) \cup ToSet(b)
      /\ Increasing(q) <=> Increasing(a) /\ Increasing(b) /\ Before(a, b)
  BY <1>1, Cut
<1> HIDE DEF a, b
<1>5. InOrder(s, a, b)
  BY <1>3, <1>4 DEF InOrder, Before
<1>6. Accounted(s, a, b, n, d)
  <2>1. Shared(s, a, b, n, d)
    BY <1>3, <1>4, <1>5 DEF Shared
  <2>2. QED
    BY <1>4, <2>1, Kept
<1>7. QED
  BY <1>6 DEF a, b

\* The first k of the records taken reach the stream, the rest is dropped.
LEMMA Appended ==
  ASSUME NEW s \in Seq(Logs), NEW t \in Seq(Logs), NEW q \in Seq(Logs), NEW n, NEW d,
         Accounted(s, t, q, n, d), NEW k \in 0 .. Len(t)
  PROVE  LET a == SubSeq(t, 1, k)
             b == SubSeq(t, k + 1, Len(t))
         IN /\ s \o a \in Seq(Logs)
            /\ Accounted(s \o a, <<>>, q, n, d \cup ToSet(b))
<1> DEFINE a == SubSeq(t, 1, k)
           b == SubSeq(t, k + 1, Len(t))
<1>1. Logs \in SUBSET Nat
  BY DEF Logs
<1>2. <<>> \in Seq(Logs) /\ ToSet(<<>>) = {} /\ Increasing(<<>>)
  BY Nothing
<1>3. /\ InOrder(s, t, q)
      /\ 1..n = ToSet(s) \cup ToSet(t) \cup ToSet(q) \cup d
      /\ (ToSet(s) \cup ToSet(t) \cup ToSet(q)) \cap d = {}
  BY Kept DEF Shared
<1>4. /\ a \in Seq(Logs) /\ b \in Seq(Logs) /\ ToSet(t) = ToSet(a) \cup ToSet(b)
      /\ Increasing(t) <=> Increasing(a) /\ Increasing(b) /\ Before(a, b)
  BY <1>1, Cut
<1> HIDE DEF a, b
<1>5. /\ s \o a \in Seq(Logs) /\ ToSet(s \o a) = ToSet(s) \cup ToSet(a)
      /\ Increasing(s \o a) <=> Increasing(s) /\ Increasing(a) /\ Before(s, a)
  BY <1>1, <1>4, MembersOfConcat, IncreasingConcat
<1>6. InOrder(s \o a, <<>>, q)
  BY <1>2, <1>3, <1>4, <1>5 DEF InOrder, Before
\* A record that is dropped is in no other place.
<1>7. ToSet(b) \cap (ToSet(s) \cup ToSet(a) \cup ToSet(q)) = {}
  <2>1. SUFFICES ASSUME NEW m \in ToSet(b), m \in ToSet(s) \cup ToSet(a) \cup ToSet(q)
                 PROVE  FALSE
    OBVIOUS
  <2>2. m \in Nat /\ m \in ToSet(t)
    BY <1>1, <1>4, Members
  <2>3. m < m
    BY <1>3, <1>4, <2>1, <2>2 DEF InOrder, Before
  <2>4. QED
    BY <2>2, <2>3
<1>8. /\ 1..n = ToSet(s \o a) \cup ToSet(<<>>) \cup ToSet(q) \cup (d \cup ToSet(b))
      /\ (ToSet(s \o a) \cup ToSet(<<>>) \cup ToSet(q)) \cap (d \cup ToSet(b)) = {}
  BY <1>2, <1>3, <1>4, <1>5, <1>7
<1>9. Accounted(s \o a, <<>>, q, n, d \cup ToSet(b))
  <2>1. Shared(s \o a, <<>>, q, n, d \cup ToSet(b))
    BY <1>6, <1>8 DEF Shared
  <2>2. QED
    BY <1>2, <1>5, <2>1, Kept
<1>10. QED
  BY <1>5, <1>9 DEF a, b

\* The stream loses its k oldest records and receives all that were taken.
LEMMA Trimmed ==
  ASSUME NEW s \in Seq(Logs), NEW t \in Seq(Logs), NEW q \in Seq(Logs), NEW n, NEW d,
         Accounted(s, t, q, n, d), NEW k \in 0 .. Len(s)
  PROVE  LET a == SubSeq(s, 1, k)
             b == SubSeq(s, k + 1, Len(s))
         IN /\ b \o t \in Seq(Logs)
            /\ Accounted(b \o t, <<>>, q, n, d \cup ToSet(a))
<1> DEFINE a == SubSeq(s, 1, k)
           b == SubSeq(s, k + 1, Len(s))
<1>1. Logs \in SUBSET Nat
  BY DEF Logs
<1>2. <<>> \in Seq(Logs) /\ ToSet(<<>>) = {} /\ Increasing(<<>>)
  BY Nothing
<1>3. /\ InOrder(s, t, q)
      /\ 1..n = ToSet(s) \cup ToSet(t) \cup ToSet(q) \cup d
      /\ (ToSet(s) \cup ToSet(t) \cup ToSet(q)) \cap d = {}
  BY Kept DEF Shared
<1>4. /\ a \in Seq(Logs) /\ b \in Seq(Logs) /\ ToSet(s) = ToSet(a) \cup ToSet(b)
      /\ Increasing(s) <=> Increasing(a) /\ Increasing(b) /\ Before(a, b)
  BY <1>1, Cut
<1> HIDE DEF a, b
<1>5. /\ b \o t \in Seq(Logs) /\ ToSet(b \o t) = ToSet(b) \cup ToSet(t)
      /\ Increasing(b \o t) <=> Increasing(b) /\ Increasing(t) /\ Before(b, t)
  BY <1>1, <1>4, MembersOfConcat, IncreasingConcat
<1>6. InOrder(b \o t, <<>>, q)
  BY <1>2, <1>3, <1>4, <1>5 DEF InOrder, Before
<1>7. ToSet(a) \cap (ToSet(b) \cup ToSet(t) \cup ToSet(q)) = {}
  <2>1. SUFFICES ASSUME NEW m \in ToSet(a), m \in ToSet(b) \cup ToSet(t) \cup ToSet(q)
                 PROVE  FALSE
    OBVIOUS
  <2>2. m \in Nat /\ m \in ToSet(s)
    BY <1>1, <1>4, Members
  <2>3. m < m
    BY <1>3, <1>4, <2>1, <2>2 DEF InOrder, Before
  <2>4. QED
    BY <2>2, <2>3
<1>8. /\ 1..n = ToSet(b \o t) \cup ToSet(<<>>) \cup ToSet(q) \cup (d \cup ToSet(a))
      /\ (ToSet(b \o t) \cup ToSet(<<>>) \cup ToSet(q)) \cap (d \cup ToSet(a)) = {}
  BY <1>2, <1>3, <1>4, <1>5, <1>7
<1>9. Accounted(b \o t, <<>>, q, n, d \cup ToSet(a))
  <2>1. Shared(b \o t, <<>>, q, n, d \cup ToSet(a))
    BY <1>6, <1>8 DEF Shared
  <2>2. QED
    BY <1>2, <1>5, <2>1, Kept
<1>10. QED
  BY <1>5, <1>9 DEF a, b

\* The queue is lost with the process.
LEMMA QueueLost ==
  ASSUME NEW s \in Seq(Logs), NEW q \in Seq(Logs), NEW n, NEW d,
         Accounted(s, <<>>, q, n, d)
  PROVE  Accounted(s, <<>>, <<>>, n, d \cup ToSet(q))
<1>1. /\ <<>> \in Seq(Logs) /\ ToSet(<<>>) = {} /\ Increasing(<<>>)
      /\ ToSet(s) \subseteq Nat /\ ToSet(q) \subseteq Nat
  <2>1. ToSet(s) \subseteq Logs /\ ToSet(q) \subseteq Logs
    BY Members
  <2>2. QED
    BY <2>1, Nothing DEF Logs
<1>2. /\ InOrder(s, <<>>, q)
      /\ 1..n = ToSet(s) \cup ToSet(q) \cup d
      /\ (ToSet(s) \cup ToSet(q)) \cap d = {}
  <2>1. Shared(s, <<>>, q, n, d)
    BY <1>1, Kept
  <2>2. QED
    BY <1>1, <2>1 DEF Shared
<1>3. InOrder(s, <<>>, <<>>)
  BY <1>1, <1>2 DEF InOrder, Before
<1>4. ToSet(s) \cap ToSet(q) = {}
  <2>1. SUFFICES ASSUME NEW m \in ToSet(s), m \in ToSet(q)
                 PROVE  FALSE
    OBVIOUS
  <2>2. m \in Nat /\ m < m
    BY <1>1, <1>2, <2>1 DEF InOrder, Before
  <2>3. QED
    BY <2>2
<1>5. QED
  <2>1. Shared(s, <<>>, <<>>, n, d \cup ToSet(q))
    BY <1>1, <1>2, <1>3, <1>4 DEF Shared
  <2>2. QED
    BY <1>1, <2>1, Kept

-----------------------------------------------------------------------------
(* The invariant by component *)

USE TelemetryAssumption

StageInv ==
  /\ stage \in Stages /\ faults \in 0..MaxFaults
  /\ stage = "up" => fpc # "off"
  /\ stage \in {"flusher", "resources", "down"} => spc = "off" /\ fpc = "off"
  /\ stage = "down" => queue = <<>>

StreamerInv ==
  /\ tick \in 0..MaxTicks /\ reading \in 0..MaxTicks
  /\ spc \in StreamerPcs /\ (spc = "publish" <=> reading # 0)
  /\ batch \in Seq(Ticks) /\ Increasing(batch)
  /\ rows \in [Ticks -> 0..(MaxFaults + 2)]
  /\ excused \subseteq Ticks /\ unsure \subseteq Ticks
  /\ Len(batch) > BatchSize => faults > 0
  /\ Collected /\ ReadingsKept

LogInv ==
  /\ logged \in 0..MaxLogs /\ dropped \subseteq Logs
  /\ queue \in Seq(Logs) /\ Len(queue) <= QueueMax
  /\ taken \in Seq(Logs) /\ Len(taken) <= FlushMax /\ stream \in Seq(Logs)
  /\ fpc \in {"sleep", "append", "off"} /\ (fpc = "append" <=> taken # <<>>)
  /\ LogsAccounted

ReaderInv ==
  /\ reader \in [cursor : 0..MaxLogs, upto : 0..MaxLogs, seen : Seq(Logs), done : BOOLEAN]
  /\ Followed /\ PagedOnce

LEMMA InvInit == Init => IInv
<1> SUFFICES ASSUME Init PROVE IInv
  OBVIOUS
<1>1. batch = <<>> /\ ToSet(<<>>) = {} /\ Len(<<>>) = 0 /\ <<>> \in Seq(Ticks)
  BY EmptySeq DEF Init, ToSet
<1>2. Increasing(<<>>)
  BY Nothing
<1>3. StageInv
  BY DEF Init, StageInv, Stages
<1>4. Collected /\ ReadingsKept
  BY <1>1 DEF Init, Collected, ReadingsKept, Ticks
<1>5. StreamerInv
  BY <1>1, <1>2, <1>4 DEF Init, StreamerInv, StreamerPcs
<1>6. LogsAccounted
  <2>1. Shared(<<>>, <<>>, <<>>, 0, {})
    BY Nothing DEF Shared, InOrder, Before
  <2>2. Accounted(<<>>, <<>>, <<>>, 0, {})
    BY <2>1, Nothing, Kept
  <2>3. QED
    BY <2>2 DEF Init, LogsAccounted, Accounted
<1>7. LogInv
  BY <1>1, <1>6, Nothing DEF Init, LogInv
<1>8. ReaderInv
  BY Nothing, TelemetryAssumption DEF Init, ReaderInv, Followed, PagedOnce
<1>9. QED
  BY <1>3, <1>4, <1>5, <1>6, <1>7, <1>8
     DEF IInv, TypeOK, StageInv, StreamerInv, LogInv, ReaderInv

-----------------------------------------------------------------------------
(* Log records *)

LEMMA EmitInv ==
  ASSUME LogInv, Emit, UNCHANGED storedLogs
  PROVE  LogInv'
<1>1. /\ logged \in Nat /\ logged + 1 \in Logs /\ logged' = logged + 1
      /\ UNCHANGED << fpc, taken, stream >>
  BY DEF LogInv, Emit, Logs, storedLogs
<1>2. Accounted(stream, taken, queue, logged, dropped)
  BY DEF LogInv, LogsAccounted, Accounted
<1>3. stream \in Seq(Logs) /\ taken \in Seq(Logs) /\ queue \in Seq(Logs)
  BY DEF LogInv
<1>4. /\ Append(queue, logged + 1) \in Seq(Logs)
      /\ Len(Append(queue, logged + 1)) = Len(queue) + 1 /\ Len(queue) \in Nat
      /\ Accounted(stream, taken, Append(queue, logged + 1), logged + 1, dropped)
      /\ Accounted(stream, taken, queue, logged + 1, dropped \cup {logged + 1})
  BY <1>1, <1>2, <1>3, Emitted, Members
<1>5. \/ /\ Len(queue) < QueueMax
         /\ queue' = Append(queue, logged + 1) /\ dropped' = dropped
      \/ queue' = queue /\ dropped' = dropped \cup {logged + 1}
  BY <1>1 DEF Emit
<1>6. Accounted(stream', taken', queue', logged', dropped')
  BY <1>1, <1>4, <1>5
<1>7. /\ queue' \in Seq(Logs) /\ Len(queue') <= QueueMax /\ dropped' \subseteq Logs
  <2>1. Len(queue) <= QueueMax /\ dropped \subseteq Logs
    BY DEF LogInv
  <2>2. CASE Len(queue) < QueueMax /\ queue' = Append(queue, logged + 1) /\ dropped' = dropped
    <3>1. Len(queue) + 1 <= QueueMax
      BY <1>4, <2>2
    <3>2. QED
      BY <1>4, <2>1, <2>2, <3>1
  <2>3. CASE queue' = queue /\ dropped' = dropped \cup {logged + 1}
    BY <1>1, <1>3, <2>1, <2>3
  <2>4. QED
    BY <1>5, <2>2, <2>3
<1>8. QED
  BY <1>1, <1>6, <1>7 DEF LogInv, LogsAccounted, Accounted, Logs

\* What was taken is appended in part; the rest is dropped.
LEMMA PartInv ==
  ASSUME LogInv, NEW k \in 0..Len(taken), AppendPart(k)
  PROVE  /\ stream' \in Seq(Logs) /\ taken' = <<>>
         /\ Accounted(stream', <<>>, queue, logged, dropped \cup Unappended(k))
         /\ Unappended(k) \subseteq Logs
<1>1. Accounted(stream, taken, queue, logged, dropped)
  BY DEF LogInv, LogsAccounted, Accounted
<1>2. stream \in Seq(Logs) /\ taken \in Seq(Logs) /\ queue \in Seq(Logs)
  BY DEF LogInv
<1> DEFINE a == SubSeq(taken, 1, k)
           b == SubSeq(taken, k + 1, Len(taken))
<1>3. stream \o a \in Seq(Logs)
      /\ Accounted(stream \o a, <<>>, queue, logged, dropped \cup ToSet(b))
  BY <1>1, <1>2, Appended
<1>4. ToSet(b) \subseteq Logs
  <2>1. Logs \in SUBSET Nat
    BY DEF Logs
  <2>2. b \in Seq(Logs)
    BY <1>2, <2>1, Cut
  <2> HIDE DEF b
  <2>3. QED
    BY <2>2, Members
<1>5. stream' = stream \o a /\ taken' = <<>> /\ Unappended(k) = ToSet(b)
  BY DEF AppendPart, Unappended
<1> HIDE DEF a, b
<1>6. QED
  BY <1>3, <1>4, <1>5

LEMMA LogsHold ==
  ASSUME LogInv, StageInv, Next
  PROVE  LogInv'
<1>1. Accounted(stream, taken, queue, logged, dropped)
  BY DEF LogInv, LogsAccounted, Accounted
<1>2. /\ stream \in Seq(Logs) /\ taken \in Seq(Logs) /\ queue \in Seq(Logs)
      /\ Len(queue) \in Nat /\ Len(queue) <= QueueMax /\ dropped \subseteq Logs
      /\ logged \in 0..MaxLogs /\ Logs \in SUBSET Nat
  BY Members DEF LogInv, Logs
<1>3. /\ <<>> \in Seq(Logs) /\ Len(<<>>) = 0 /\ ToSet(queue) \subseteq Logs
  BY <1>2, Nothing, Members
<1>3a. Len(<<>>) <= QueueMax
  BY EmptySeq
\* LogInv follows from what the records are stored in.
<1>4. ASSUME stream' \in Seq(Logs), taken' \in Seq(Logs), queue' \in Seq(Logs),
             Len(queue') <= QueueMax, Len(taken') <= FlushMax, dropped' \subseteq Logs,
             logged' \in 0..MaxLogs, fpc' \in {"sleep", "append", "off"},
             fpc' = "append" <=> taken' # <<>>,
             Accounted(stream', taken', queue', logged', dropped')
      PROVE  LogInv'
  BY <1>4 DEF LogInv, LogsAccounted, Accounted
<1> DEFINE Cleared == /\ stream' \in Seq(Logs) /\ taken' = <<>> /\ fpc' \in {"sleep", "off"}
                      /\ queue' \in Seq(Logs) /\ Len(queue') <= QueueMax
                      /\ dropped' \subseteq Logs /\ logged' \in 0..MaxLogs
                      /\ Accounted(stream', <<>>, queue', logged', dropped')
<1>4a. ASSUME Cleared PROVE LogInv'
  <2>1. Len(taken') <= FlushMax /\ taken' \in Seq(Logs)
    BY <1>3, <1>4a
  <2>2. Accounted(stream', taken', queue', logged', dropped')
    BY <1>4a
  <2>3. fpc' \in {"sleep", "append", "off"} /\ (fpc' = "append" <=> taken' # <<>>)
    BY <1>4a
  <2>4. QED
    BY <1>4, <1>4a, <2>1, <2>2, <2>3
<1>5. CASE UNCHANGED << logged, queue, dropped, fpc, taken, stream >>
  BY <1>5 DEF LogInv, LogsAccounted
<1>6. CASE Draw \/ Collect \/ Insert \/ Flushed \/ NextPage \/ StopStreamer
           \/ CloseResources
  BY <1>5, <1>6 DEF Draw, Collect, Insert, Flushed, NextPage, StopStreamer,
                    CloseResources, logVars, storedLogs
<1>7. CASE DrawFails \/ FlushFails \/ Log
  BY <1>7, EmitInv DEF DrawFails, FlushFails, Log
<1>8. CASE Take
  <2> DEFINE n == IF Len(queue) < FlushMax THEN Len(queue) ELSE FlushMax
             a == SubSeq(queue, 1, n)
             b == SubSeq(queue, n + 1, Len(queue))
  <2>1. /\ n \in 0..Len(queue) /\ n <= FlushMax /\ n # 0
    BY <1>2, <1>8, EmptySeq DEF Take
  <2>2. taken' = a /\ queue' = b /\ fpc = "sleep" /\ fpc' = "append"
        /\ UNCHANGED << logged, dropped, stream >>
    BY <1>8 DEF Take
  <2>3. taken = <<>>
    BY <2>2 DEF LogInv
  <2> HIDE DEF n
  <2>4. a \in Seq(Logs) /\ b \in Seq(Logs) /\ Len(a) = n /\ Len(b) = Len(queue) - n
    BY <1>2, <2>1, Cut
  <2>5. Accounted(stream, a, b, logged, dropped)
    BY <1>1, <1>2, <2>1, <2>3, Taken
  <2> HIDE DEF a, b
  <2>6. a # <<>> /\ Len(b) <= QueueMax
    BY <1>2, <1>3, <2>1, <2>4
  <2>7. QED
    BY <1>2, <1>4, <2>1, <2>2, <2>4, <2>5, <2>6
<1>9. CASE AppendMany
  <2>1. PICK k \in 0..Len(stream) :
          /\ stream' = SubSeq(stream, k + 1, Len(stream)) \o taken
          /\ dropped' = dropped \cup ToSet(SubSeq(stream, 1, k))
    BY <1>9 DEF AppendMany
  <2>2. taken' = <<>> /\ fpc' = "sleep" /\ UNCHANGED << logged, queue >>
    BY <1>9 DEF AppendMany
  <2>3. /\ stream' \in Seq(Logs)
        /\ Accounted(stream', <<>>, queue, logged, dropped')
    BY <1>1, <1>2, <2>1, Trimmed
  <2>4. ToSet(SubSeq(stream, 1, k)) \subseteq Logs
    <3>1. SubSeq(stream, 1, k) \in Seq(Logs)
      BY <1>2, Cut
    <3>2. QED
      BY <3>1, Members
  <2>5. dropped' \subseteq Logs
    BY <1>2, <2>1, <2>4
  <2>6. Cleared
    BY <1>2, <2>2, <2>3, <2>5
  <2>7. QED
    BY <1>4a, <2>6
<1>10. CASE AppendFails
  <2>1. PICK k \in 0..Len(taken) :
          /\ AppendPart(k)
          /\ logged < MaxLogs /\ logged' = logged + 1
          /\ \/ /\ Len(queue) < QueueMax /\ queue' = Append(queue, logged + 1)
                /\ dropped' = dropped \cup Unappended(k)
             \/ /\ queue' = queue
                /\ dropped' = dropped \cup Unappended(k) \cup {logged + 1}
    BY <1>10 DEF AppendFails
  <2>2. fpc' = "sleep"
    BY <1>10 DEF AppendFails
  <2> DEFINE lost == dropped \cup Unappended(k)
  <2>3. /\ stream' \in Seq(Logs) /\ taken' = <<>> /\ lost \subseteq Logs
        /\ Accounted(stream', <<>>, queue, logged, lost)
    BY <1>2, <2>1, PartInv
  <2> HIDE DEF lost
  <2>4. logged \in Nat /\ logged + 1 \in Logs
    BY <1>2, <2>1 DEF Logs
  <2>5. /\ Append(queue, logged + 1) \in Seq(Logs)
        /\ Len(Append(queue, logged + 1)) = Len(queue) + 1
        /\ Accounted(stream', <<>>, Append(queue, logged + 1), logged + 1, lost)
        /\ Accounted(stream', <<>>, queue, logged + 1, lost \cup {logged + 1})
    <3> DEFINE none == <<>>
    <3>1. /\ stream' \in Seq(Logs) /\ none \in Seq(Logs)
          /\ Accounted(stream', none, queue, logged, lost)
      BY <1>3, <2>3
    <3> HIDE DEF none
    <3>2. /\ Append(queue, logged + 1) \in Seq(Logs)
          /\ Len(Append(queue, logged + 1)) = Len(queue) + 1
          /\ Accounted(stream', none, Append(queue, logged + 1), logged + 1, lost)
          /\ Accounted(stream', none, queue, logged + 1, lost \cup {logged + 1})
      BY <1>2, <2>4, <3>1, Emitted
    <3>3. QED
      BY <3>2 DEF none
  <2>6. \/ Len(queue) < QueueMax /\ queue' = Append(queue, logged + 1) /\ dropped' = lost
        \/ queue' = queue /\ dropped' = lost \cup {logged + 1}
    BY <2>1 DEF lost
  <2>7. Accounted(stream', taken', queue', logged', dropped')
    BY <2>1, <2>3, <2>5, <2>6
  <2>8. queue' \in Seq(Logs) /\ Len(queue') <= QueueMax /\ dropped' \subseteq Logs
    <3>1. CASE Len(queue) < QueueMax /\ queue' = Append(queue, logged + 1) /\ dropped' = lost
      <4>1. Len(queue) + 1 <= QueueMax
        BY <1>2, <3>1
      <4>2. QED
        BY <2>3, <2>5, <3>1, <4>1
    <3>2. CASE queue' = queue /\ dropped' = lost \cup {logged + 1}
      BY <1>2, <2>3, <2>4, <3>2
    <3>3. QED
      BY <2>6, <3>1, <3>2
  <2>9. logged' \in 0..MaxLogs /\ taken' \in Seq(Logs) /\ Len(taken') <= FlushMax
    BY <1>2, <1>3, <2>1, <2>3
  <2>10. QED
    BY <1>4, <2>2, <2>3, <2>7, <2>8, <2>9
<1>11. CASE StopFlusher
  <2>1. PICK k \in 0..Len(taken) : AppendPart(k) /\ dropped' = dropped \cup Unappended(k)
    BY <1>11 DEF StopFlusher
  <2>2. fpc' = "off" /\ UNCHANGED << logged, queue >>
    BY <1>11 DEF StopFlusher
  <2>3. /\ stream' \in Seq(Logs) /\ taken' = <<>> /\ Unappended(k) \subseteq Logs
        /\ Accounted(stream', <<>>, queue, logged, dropped')
    BY <2>1, PartInv
  <2>4. dropped' \subseteq Logs
    BY <1>2, <2>1, <2>3
  <2>5. Cleared
    BY <1>2, <2>2, <2>3, <2>4
  <2>6. QED
    BY <1>4a, <2>5
<1>12. CASE Exit \/ Boot
  <2>1. taken = <<>>
    BY <1>12 DEF Exit, Boot, StageInv, LogInv
  <2>2. /\ Accounted(stream, <<>>, <<>>, logged, dropped \cup ToSet(queue))
    BY <1>1, <1>2, <2>1, QueueLost
  <2>3. CASE Exit
    <3>1. /\ dropped' = dropped \cup ToSet(queue) /\ queue' = <<>>
          /\ UNCHANGED << logged, fpc, taken, stream >>
      BY <2>3 DEF Exit, storedLogs
    <3>2. fpc = "off"
      BY <2>3 DEF Exit, StageInv
    <3>3. dropped' \subseteq Logs
      BY <1>2, <1>3, <3>1
    <3>4. Cleared
      BY <1>2, <1>3, <1>3a, <2>1, <2>2, <3>1, <3>2, <3>3
    <3>5. QED
      BY <1>4a, <3>4
  <2>4. CASE Boot
    <3>1. /\ queue' = <<>> /\ fpc' = "sleep" /\ UNCHANGED << logged, taken, stream, dropped >>
      BY <2>4 DEF Boot, Fresh
    <3>2. queue = <<>>
      BY <2>4 DEF Boot, StageInv
    <3>3. Cleared
      BY <1>1, <1>2, <1>3, <2>1, <3>1, <3>2
    <3>4. QED
      BY <1>4a, <3>3
  <2>5. QED
    BY <1>12, <2>3, <2>4
<1>13. CASE Crash
  <2>1. PICK k \in 0..Len(taken) :
          AppendPart(k) /\ dropped' = dropped \cup Unappended(k) \cup ToSet(queue)
    BY <1>13 DEF Crash
  <2>2. queue' = <<>> /\ fpc' = "sleep" /\ logged' = logged
    BY <1>13 DEF Crash, Fresh
  <2>3. /\ stream' \in Seq(Logs) /\ taken' = <<>> /\ Unappended(k) \subseteq Logs
        /\ Accounted(stream', <<>>, queue, logged, dropped \cup Unappended(k))
    BY <2>1, PartInv
  <2>4. Accounted(stream', <<>>, <<>>, logged, dropped')
    BY <1>2, <2>1, <2>3, QueueLost
  <2>5. dropped' \subseteq Logs
    BY <1>2, <1>3, <2>1, <2>3
  <2>6. Cleared
    BY <1>2, <1>3, <1>3a, <2>2, <2>3, <2>4, <2>5
  <2>7. QED
    BY <1>4a, <2>6
<1>14. QED
  BY <1>6, <1>7, <1>8, <1>9, <1>10, <1>11, <1>12, <1>13
  DEF Next, Streamer, LogWork, Lifespan

-----------------------------------------------------------------------------
(* Readings *)

LEMMA BatchFacts ==
  ASSUME StreamerInv
  PROVE  /\ Len(batch) \in Nat /\ ToSet(batch) \subseteq Ticks
         /\ batch = <<>> <=> ToSet(batch) = {}
         /\ <<>> \in Seq(Ticks) /\ Len(<<>>) = 0 /\ ToSet(<<>>) = {} /\ Increasing(<<>>)
<1>1. batch \in Seq(Ticks)
  BY DEF StreamerInv
<1>2. <<>> \in Seq(Ticks) /\ Len(<<>>) = 0
  BY EmptySeq
<1>3. QED
  BY <1>1, <1>2, Members, Nothing

\* What a commit does to the rows.
LEMMA SavedRows ==
  ASSUME StreamerInv, StageInv
  PROVE  /\ Saved \in [Ticks -> Nat]
         /\ \A t \in Ticks : Saved[t] = IF t \in ToSet(batch) THEN rows[t] + 1 ELSE rows[t]
         /\ \A t \in Ticks : Saved[t] <= faults + 2
         /\ \A t \in ToSet(batch) : Saved[t] <= faults + 1 + IF stage = "up" THEN 0 ELSE 1
<1> USE DEF StreamerInv, StageInv, Collected
<1>1. Saved = [t \in Ticks |-> IF t \in ToSet(batch) THEN rows[t] + 1 ELSE rows[t]]
  BY DEF Saved
<1>2. ToSet(batch) \subseteq Ticks
  BY BatchFacts
<1>3. QED
  BY <1>1, <1>2

LEMMA ReadingsHold ==
  ASSUME StreamerInv, StageInv, Next
  PROVE  StreamerInv'
<1> DEFINE B == ToSet(batch)
<1>1. /\ Len(batch) \in Nat /\ B \subseteq Ticks
      /\ batch = <<>> <=> B = {}
      /\ <<>> \in Seq(Ticks) /\ Len(<<>>) = 0 /\ ToSet(<<>>) = {} /\ Increasing(<<>>)
  BY BatchFacts
<1>2. /\ Saved \in [Ticks -> Nat]
      /\ \A t \in Ticks : Saved[t] = IF t \in B THEN rows[t] + 1 ELSE rows[t]
      /\ \A t \in Ticks : Saved[t] <= faults + 2
      /\ \A t \in B : Saved[t] <= faults + 1 + IF stage = "up" THEN 0 ELSE 1
  BY SavedRows
<1>3. /\ tick \in 0..MaxTicks /\ reading \in {0, tick}
      /\ spc \in StreamerPcs /\ (spc = "publish" <=> reading # 0)
      /\ batch \in Seq(Ticks) /\ Increasing(batch)
      /\ rows \in [Ticks -> Nat] /\ \A t \in Ticks : rows[t] <= faults + 2
      /\ excused \subseteq Ticks /\ unsure \subseteq Ticks
      /\ Len(batch) > BatchSize => faults > 0
      /\ stage \in Stages /\ faults \in 0..MaxFaults
  BY DEF StreamerInv, StageInv, Collected
<1>4. /\ \A t \in B : t <= tick /\ t # reading
      /\ \A t \in Ticks : t > tick \/ t = reading => rows[t] = 0
      /\ \A t \in B : rows[t] <= faults + IF stage = "up" THEN 0 ELSE 1
      /\ Len(batch) >= BatchSize /\ spc \in {"sleep", "publish"} => faults > 0
      /\ spc = "off" => B \subseteq excused
  BY DEF StreamerInv, Collected
<1>5. \A t \in 1..tick : /\ rows[t] = 0 => t \in excused \cup B \cup {reading}
                         /\ rows[t] > 0 /\ t \in B => t \in unsure
                         /\ rows[t] > 1 => t \in unsure
  BY DEF StreamerInv, ReadingsKept
<1> HIDE DEF B
\* StreamerInv from its parts; a commit has happened or not.
<1>6. ASSUME rows' = rows \/ rows' = Saved, faults' \in {faults, faults + 1},
             faults' \in 0..MaxFaults
      PROVE  rows' \in [Ticks -> 0..(MaxFaults + 2)]
             /\ \A t \in Ticks : rows'[t] <= faults' + 2
  BY <1>2, <1>3, <1>6
<1>7. CASE /\ UNCHANGED streamerVars /\ faults' \in {faults, faults + 1}
           /\ faults' \in 0..MaxFaults
           /\ stage = "up" \/ stage' # "up"
  BY <1>1, <1>3, <1>4, <1>5, <1>6, <1>7
  DEF streamerVars, StreamerInv, Collected, ReadingsKept, B
<1>8. CASE Log \/ Take \/ AppendMany \/ AppendFails \/ NextPage \/ StopFlusher
           \/ CloseResources \/ Exit
  <2>1. UNCHANGED streamerVars
    BY <1>8 DEF Log, Take, AppendMany, AppendFails, NextPage, StopFlusher,
                CloseResources, Exit
  <2>2. faults' \in {faults, faults + 1} /\ faults' \in 0..MaxFaults
    <3>1. CASE AppendFails
      BY <1>3, <3>1 DEF AppendFails, Fault
    <3>2. CASE ~AppendFails
      <4>1. faults' = faults
        BY <1>8, <3>2 DEF Log, Take, AppendMany, NextPage, StopFlusher, CloseResources, Exit
      <4>2. QED
        BY <1>3, <4>1
    <3>3. QED
      BY <3>1, <3>2
  <2>3. stage = "up" \/ stage' # "up"
    BY <1>8 DEF Log, Take, AppendMany, AppendFails, NextPage, StopFlusher,
                CloseResources, Exit
  <2>4. QED
    BY <1>7, <2>1, <2>2, <2>3
<1>9. CASE Draw
  <2>1. /\ spc = "sleep" /\ tick < MaxTicks /\ tick' = tick + 1 /\ reading' = tick + 1
        /\ spc' = "publish" /\ UNCHANGED << stage, batch, rows, excused, unsure, faults >>
    BY <1>9 DEF Draw
  <2>2. tick + 1 \in Ticks /\ reading = 0
    BY <1>3, <2>1 DEF Ticks
  <2>3. Collected'
    BY <1>1, <1>3, <1>4, <2>1, <2>2 DEF Collected, B, Ticks
  <2>4. ReadingsKept'
    BY <1>3, <1>4, <1>5, <2>1, <2>2 DEF ReadingsKept, B
  <2>5. QED
    BY <1>3, <1>6, <2>1, <2>2, <2>3, <2>4 DEF StreamerInv, StreamerPcs
<1>10. CASE DrawFails
  <2>1. /\ faults' = faults + 1 /\ faults' \in 0..MaxFaults
        /\ spc' = "sleep" /\ reading' = 0 /\ UNCHANGED << stage, batch, rows, unsure >>
        /\ \/ /\ spc = "sleep" /\ tick < MaxTicks /\ tick' = tick + 1
              /\ excused' = excused \cup {tick + 1}
           \/ /\ spc = "publish" /\ tick' = tick /\ excused' = excused \cup {reading}
    BY <1>3, <1>10 DEF DrawFails, Fault
  <2>2. /\ tick' \in 0..MaxTicks /\ tick <= tick' /\ excused' \subseteq Ticks
        /\ excused \subseteq excused'
    <3>1. CASE spc = "sleep" /\ tick < MaxTicks /\ tick' = tick + 1
               /\ excused' = excused \cup {tick + 1}
      BY <1>3, <3>1 DEF Ticks
    <3>2. CASE spc = "publish" /\ tick' = tick /\ excused' = excused \cup {reading}
      <4>1. reading \in Ticks
        BY <1>3, <3>2 DEF Ticks
      <4>2. QED
        BY <1>3, <3>2, <4>1
    <3>3. QED
      BY <2>1, <3>1, <3>2
  <2>3. Collected'
    BY <1>1, <1>3, <1>4, <2>1, <2>2 DEF Collected, B, Ticks
  <2>4. ReadingsKept'
    <3>1. CASE spc = "sleep" /\ tick' = tick + 1 /\ excused' = excused \cup {tick + 1}
      <4>1. reading = 0 /\ 1..tick' = (1..tick) \cup {tick + 1}
        BY <1>3, <3>1
      <4>2. tick + 1 \notin B /\ (tick + 1 \in Ticks => rows[tick + 1] = 0)
        BY <1>3, <1>4
      <4>3. tick + 1 \in Ticks
        BY <1>3, <2>2, <3>1 DEF Ticks
      <4>4. QED
        BY <1>5, <2>1, <3>1, <4>1, <4>2, <4>3 DEF ReadingsKept, B
    <3>2. CASE spc = "publish" /\ tick' = tick /\ excused' = excused \cup {reading}
      BY <1>5, <2>1, <3>2 DEF ReadingsKept, B
    <3>3. QED
      BY <2>1, <3>1, <3>2
  <2>5. QED
    BY <1>3, <1>6, <2>1, <2>2, <2>3, <2>4 DEF StreamerInv, StreamerPcs
<1>11. CASE Collect
  <2>1. /\ spc = "publish" /\ batch' = Append(batch, reading) /\ reading' = 0
        /\ spc' = IF Len(batch') >= BatchSize THEN "insert" ELSE "sleep"
        /\ UNCHANGED << stage, tick, rows, excused, unsure, faults >>
    BY <1>11 DEF Collect
  <2>2. reading = tick /\ reading \in Ticks
    BY <1>3, <2>1 DEF Ticks
  <2>3. /\ batch' \in Seq(Ticks) /\ Len(batch') = Len(batch) + 1
        /\ ToSet(batch') = B \cup {reading}
        /\ Increasing(batch') <=> Increasing(batch) /\ \A a \in B : a < reading
    <3>1. Ticks \in SUBSET Nat
      BY DEF Ticks
    <3>2. QED
      BY <1>3, <2>1, <2>2, <3>1, Pushed DEF B
  <2>4. Increasing(batch')
    <3>1. \A a \in B : a < reading
      BY <1>1, <1>3, <1>4, <2>2 DEF Ticks
    <3>2. QED
      BY <1>3, <2>3, <3>1
  <2>5. Len(batch') > BatchSize => faults > 0
    BY <1>1, <1>4, <2>1, <2>3
  <2>6. Collected'
    <3>1. \A t \in ToSet(batch') : t <= tick' /\ t # reading'
      <4>1. \A t \in Ticks : t # 0 /\ t \in Nat
        BY DEF Ticks
      <4>2. ToSet(batch') \subseteq Ticks
        BY <1>1, <2>2, <2>3
      <4>3. \A t \in ToSet(batch') : t <= tick
        BY <1>3, <1>4, <2>2, <2>3
      <4>4. QED
        BY <2>1, <4>1, <4>2, <4>3
    <3>2. \A t \in Ticks : t > tick' \/ t = reading' => rows'[t] = 0
      BY <1>4, <2>1 DEF Ticks
    <3>3. \A t \in ToSet(batch') : rows'[t] <= faults' + IF stage' = "up" THEN 0 ELSE 1
      BY <1>3, <1>4, <2>1, <2>2, <2>3
    <3>4. Len(batch') >= BatchSize /\ spc' \in {"sleep", "publish"} => faults' > 0
      BY <2>1
    <3>5. QED
      BY <1>3, <2>1, <3>1, <3>2, <3>3, <3>4 DEF Collected
  <2>7. ReadingsKept'
    <3>1. rows[reading] = 0
      BY <1>4, <2>2
    <3>2. QED
      BY <1>5, <2>1, <2>3, <3>1 DEF ReadingsKept
  <2>8. QED
    BY <1>3, <1>6, <2>1, <2>3, <2>4, <2>5, <2>6, <2>7 DEF StreamerInv, StreamerPcs
<1>12. CASE Insert
  BY <1>1, <1>3, <1>4, <1>5, <1>6, <1>12
  DEF Insert, StreamerInv, StreamerPcs, Collected, ReadingsKept, B
<1>13. CASE Flushed
  <2>1. /\ spc \in {"commit", "lastCommit"} /\ rows' = Saved /\ batch' = <<>>
        /\ spc' = IF spc = "commit" THEN "sleep" ELSE "off"
        /\ UNCHANGED << stage, tick, reading, excused, unsure, faults >>
    BY <1>13 DEF Flushed
  <2>2. reading = 0 /\ ToSet(batch') = {} /\ Len(batch') = 0
    BY <1>1, <1>3, <2>1
  <2>3. rows' \in [Ticks -> 0..(MaxFaults + 2)] /\ \A t \in Ticks : rows'[t] <= faults' + 2
    BY <1>3, <1>6, <2>1
  <2>4. Collected'
    <3>1. \A t \in Ticks : t > tick' \/ t = reading' => rows'[t] = 0
      BY <1>2, <1>3, <1>4, <2>1, <2>2 DEF Ticks
    <3>2. QED
      BY <1>3, <2>1, <2>2, <2>3, <3>1 DEF Collected
  <2>5. ReadingsKept'
    <3>1. SUFFICES ASSUME NEW t \in 1..tick
                   PROVE  /\ rows'[t] = 0 => t \in excused
                          /\ rows'[t] > 1 => t \in unsure
      BY <2>1, <2>2 DEF ReadingsKept
    <3>2. t \in Ticks
      BY <1>3 DEF Ticks
    <3>3. CASE t \in B
      BY <1>2, <1>3, <1>5, <2>1, <3>2, <3>3
    <3>4. CASE t \notin B
      BY <1>2, <1>3, <1>5, <2>1, <2>2, <3>2, <3>4
    <3>5. QED
      BY <3>3, <3>4
  <2>6. QED
    BY <1>1, <1>3, <2>1, <2>2, <2>3, <2>4, <2>5 DEF StreamerInv, StreamerPcs
<1>14. CASE FlushFails
  <2>1. /\ faults' = faults + 1 /\ faults' \in 0..MaxFaults
        /\ spc \in {"insert", "commit", "lastInsert", "lastCommit"}
        /\ UNCHANGED << stage, tick, reading, batch >>
        /\ \/ rows' = rows /\ unsure' = unsure
           \/ rows' = Saved /\ unsure' = unsure \cup B
        /\ \/ spc' = "sleep" /\ excused' = excused
           \/ spc' = "off" /\ excused' = excused \cup B
    BY <1>3, <1>14 DEF FlushFails, Fault, B
  <2>2. /\ reading = 0 /\ excused' \subseteq Ticks /\ unsure' \subseteq Ticks
        /\ excused \subseteq excused' /\ unsure \subseteq unsure'
    BY <1>1, <1>3, <2>1
  <2>3. rows' \in [Ticks -> 0..(MaxFaults + 2)] /\ \A t \in Ticks : rows'[t] <= faults' + 2
    BY <1>6, <2>1
  <2>4. \A t \in Ticks : rows'[t] # rows[t] => t \in B /\ B \subseteq unsure'
    BY <1>2, <2>1
  <2>5. Collected'
    <3>1. \A t \in Ticks : t > tick' \/ t = reading' => rows'[t] = 0
      BY <1>3, <1>4, <2>1, <2>2, <2>4 DEF Ticks
    <3>2. \A t \in B : rows'[t] <= faults' + IF stage' = "up" THEN 0 ELSE 1
      BY <1>1, <1>2, <1>3, <1>4, <2>1
    <3>3. spc' = "off" => B \subseteq excused'
      BY <2>1
    <3>4. faults' > 0
      BY <1>3, <2>1
    <3>5. QED
      BY <1>3, <1>4, <2>1, <2>3, <3>1, <3>2, <3>3, <3>4 DEF Collected, B
  <2>6. ReadingsKept'
    <3>1. SUFFICES ASSUME NEW t \in 1..tick
                   PROVE  /\ rows'[t] = 0 => t \in excused' \cup B \cup {reading}
                          /\ rows'[t] > 0 /\ t \in B => t \in unsure'
                          /\ rows'[t] > 1 => t \in unsure'
      BY <2>1 DEF ReadingsKept, B
    <3>2. t \in Ticks
      BY <1>3 DEF Ticks
    <3>3. CASE rows'[t] = rows[t]
      BY <1>5, <2>2, <3>3
    <3>4. CASE rows'[t] # rows[t]
      BY <1>2, <1>3, <2>1, <2>4, <3>2, <3>4
    <3>5. QED
      BY <3>3, <3>4
  <2>7. QED
    BY <1>3, <2>1, <2>2, <2>3, <2>5, <2>6 DEF StreamerInv, StreamerPcs
<1>15. CASE StopStreamer
  <2>1. /\ stage = "up" /\ stage' = "streamer" /\ reading' = 0
        /\ spc' = IF batch = <<>> THEN "off" ELSE "lastInsert"
        /\ UNCHANGED << batch, faults >>
    BY <1>15 DEF StopStreamer, logVars
  <2>2. CASE UNCHANGED << tick, rows, unsure >> /\ excused' = excused \cup ({reading} \ {0})
    <3>1. excused' \subseteq Ticks
      BY <1>3, <2>2 DEF Ticks
    <3>2. Collected'
      BY <1>1, <1>3, <1>4, <2>1, <2>2 DEF Collected, B, Ticks
    <3>3. ReadingsKept'
      BY <1>3, <1>5, <2>1, <2>2 DEF ReadingsKept, B
    <3>4. QED
      BY <1>3, <1>6, <2>1, <2>2, <3>1, <3>2, <3>3 DEF StreamerInv, StreamerPcs
  <2>3. CASE /\ spc = "sleep" /\ tick < MaxTicks
             /\ tick' = tick + 1 /\ excused' = excused \cup {tick + 1}
             /\ UNCHANGED << rows, unsure >>
    <3>1. /\ excused' \subseteq Ticks /\ reading = 0 /\ tick + 1 \in Ticks
          /\ 1..tick' = (1..tick) \cup {tick + 1}
      BY <1>3, <2>3 DEF Ticks
    <3>2. rows[tick + 1] = 0 /\ tick + 1 \notin B
      BY <1>3, <1>4, <3>1
    <3>3. Collected'
      BY <1>1, <1>3, <1>4, <2>1, <2>3, <3>1, <3>2 DEF Collected, B, Ticks
    <3>4. ReadingsKept'
      BY <1>3, <1>5, <2>1, <2>3, <3>1, <3>2 DEF ReadingsKept, B
    <3>5. QED
      BY <1>3, <1>6, <2>1, <2>3, <3>1, <3>3, <3>4 DEF StreamerInv, StreamerPcs
  <2>4. CASE /\ spc = "commit" /\ rows' = Saved /\ unsure' = unsure \cup B
             /\ UNCHANGED << tick, excused >>
    <3>1. reading = 0 /\ unsure' \subseteq Ticks
      BY <1>1, <1>3, <2>4
    <3>2. rows' \in [Ticks -> 0..(MaxFaults + 2)] /\ \A t \in Ticks : rows'[t] <= faults' + 2
      BY <1>3, <1>6, <2>1, <2>4
    <3>3. Collected'
      <4>1. \A t \in Ticks : t > tick' \/ t = reading' => rows'[t] = 0
        BY <1>2, <1>3, <1>4, <2>1, <2>4, <3>1 DEF Ticks
      <4>2. \A t \in B : rows'[t] <= faults' + IF stage' = "up" THEN 0 ELSE 1
        BY <1>1, <1>2, <1>3, <1>4, <2>1, <2>4
      <4>3. QED
        BY <1>1, <1>3, <1>4, <2>1, <2>4, <3>1, <3>2, <4>1, <4>2 DEF Collected, B
    <3>4. ReadingsKept'
      <4>1. SUFFICES ASSUME NEW t \in 1..tick
                     PROVE  /\ rows'[t] = 0 => t \in excused \cup B \cup {reading}
                            /\ rows'[t] > 0 /\ t \in B => t \in unsure'
                            /\ rows'[t] > 1 => t \in unsure'
        BY <1>1, <1>3, <2>1, <2>4, <3>1 DEF ReadingsKept, B, Ticks
      <4>2. t \in Ticks
        BY <1>3 DEF Ticks
      <4>3. CASE t \in B
        BY <1>2, <1>3, <2>4, <4>2, <4>3
      <4>4. CASE t \notin B
        BY <1>2, <1>5, <2>4, <4>2, <4>4
      <4>5. QED
        BY <4>3, <4>4
    <3>5. QED
      BY <1>3, <2>1, <2>4, <3>1, <3>2, <3>3, <3>4 DEF StreamerInv, StreamerPcs
  <2>5. QED
    BY <1>15, <2>2, <2>3, <2>4 DEF StopStreamer, B
\* A new process: the batch and the reading of the old one are gone.
<1>16. CASE Boot \/ Crash
  <2>1. /\ stage' = "up" /\ spc' = "sleep" /\ reading' = 0 /\ batch' = <<>>
        /\ UNCHANGED << tick, unsure >>
    BY <1>16 DEF Boot, Crash, Fresh
  <2>2. faults' \in {faults, faults + 1} /\ faults' \in 0..MaxFaults
    BY <1>3, <1>16 DEF Boot, Crash, Fault
  <2>3. /\ excused' \subseteq Ticks /\ excused \subseteq excused'
        /\ \/ rows' = rows /\ B \cup ({reading} \ {0}) \subseteq excused'
           \/ rows' = Saved /\ reading = 0
    <3>1. CASE Boot
      <4>1. spc = "off" /\ rows' = rows /\ excused' = excused
        BY <3>1 DEF Boot, StageInv
      <4>2. QED
        BY <1>3, <1>4, <4>1
    <3>2. CASE Crash
      <4>1. \/ rows' = rows /\ excused' = excused \cup B \cup ({reading} \ {0})
            \/ spc \in {"commit", "lastCommit"} /\ rows' = Saved /\ excused' = excused
        BY <3>2 DEF Crash, B
      <4>2. {reading} \ {0} \subseteq Ticks
        BY <1>3 DEF Ticks
      <4>3. QED
        BY <1>1, <1>3, <4>1, <4>2
    <3>3. QED
      BY <1>16, <3>1, <3>2
  <2>4. ToSet(batch') = {} /\ Len(batch') = 0
    BY <1>1, <2>1
  <2>5. rows' \in [Ticks -> 0..(MaxFaults + 2)] /\ \A t \in Ticks : rows'[t] <= faults' + 2
    BY <1>6, <2>2, <2>3
  <2>6. Collected'
    <3>1. \A t \in Ticks : t > tick' \/ t = reading' => rows'[t] = 0
      BY <1>2, <1>3, <1>4, <2>1, <2>3 DEF Ticks
    <3>2. QED
      BY <1>3, <2>1, <2>4, <2>5, <3>1 DEF Collected
  <2>7. ReadingsKept'
    <3>1. SUFFICES ASSUME NEW t \in 1..tick
                   PROVE  /\ rows'[t] = 0 => t \in excused'
                          /\ rows'[t] > 1 => t \in unsure
      BY <2>1, <2>4 DEF ReadingsKept
    <3>2. t \in Ticks
      BY <1>3 DEF Ticks
    <3>3. CASE rows' = rows /\ B \cup ({reading} \ {0}) \subseteq excused'
      BY <1>5, <2>3, <3>3
    <3>4. CASE rows' = Saved /\ reading = 0
      <4>1. CASE t \in B
        BY <1>2, <1>3, <1>5, <3>2, <3>4, <4>1
      <4>2. CASE t \notin B
        BY <1>2, <1>3, <1>5, <2>3, <3>2, <3>4, <4>2
      <4>3. QED
        BY <4>1, <4>2
    <3>5. QED
      BY <2>3, <3>3, <3>4
  <2>8. QED
    BY <1>1, <1>3, <2>1, <2>2, <2>3, <2>4, <2>5, <2>6, <2>7 DEF StreamerInv, StreamerPcs
<1>17. QED
  BY <1>8, <1>9, <1>10, <1>11, <1>12, <1>13, <1>14, <1>15, <1>16
  DEF Next, Streamer, LogWork, Lifespan

-----------------------------------------------------------------------------
(* The client that pages through the log *)

\* The first n entries; what is left out comes behind them.
LEMMA Prefix ==
  ASSUME NEW s \in Seq(Logs), Increasing(s), NEW n \in Nat \ {0}
  PROVE  /\ FirstOf(s, n) \in Seq(Logs) /\ Increasing(FirstOf(s, n))
         /\ ToSet(FirstOf(s, n)) \subseteq ToSet(s)
         /\ \A x \in ToSet(s) \ ToSet(FirstOf(s, n)), y \in ToSet(FirstOf(s, n)) : y < x
         /\ Len(s) <= n \/ Len(FirstOf(s, n)) # n => ToSet(FirstOf(s, n)) = ToSet(s)
         /\ s # <<>> => FirstOf(s, n) # <<>>
         /\ Len(FirstOf(s, n)) = n => FirstOf(s, n) # <<>>
<1> DEFINE k == IF Len(s) < n THEN Len(s) ELSE n
           p == SubSeq(s, 1, k)
           q == SubSeq(s, k + 1, Len(s))
<1>1. /\ Len(s) \in Nat /\ k \in 0..Len(s) /\ Logs \in SUBSET Nat
      /\ s # <<>> => k # 0
      /\ Len(s) <= n \/ k # n => Len(s) - k = 0
  <2>1. Len(s) \in Nat /\ Logs \in SUBSET Nat
    BY Members DEF Logs
  <2>2. s # <<>> => Len(s) # 0
    BY EmptySeq
  <2> QED
    BY <2>1, <2>2
<1> HIDE DEF k
<1>2. /\ p \in Seq(Logs) /\ q \in Seq(Logs)
      /\ Len(p) = k /\ Len(q) = Len(s) - k
      /\ ToSet(s) = ToSet(p) \cup ToSet(q)
      /\ Increasing(s) <=> Increasing(p) /\ Increasing(q) /\ Before(p, q)
  BY <1>1, Cut
<1>3. FirstOf(s, n) = p
  BY DEF FirstOf, Least, k
<1> HIDE DEF p, q
<1>4. Increasing(p) /\ \A x \in ToSet(s) \ ToSet(p), y \in ToSet(p) : y < x
  BY <1>2 DEF Before
<1>5. Len(s) <= n \/ Len(p) # n => ToSet(p) = ToSet(s)
  <2>1. Len(q) = 0 => ToSet(q) = {}
    BY <1>2, EmptySeq, Nothing
  <2> QED
    BY <1>1, <1>2, <2>1
<1>6. p = <<>> => Len(p) = 0
  BY EmptySeq
<1> QED
  BY <1>1, <1>2, <1>3, <1>4, <1>5, <1>6

LEMMA LastIsGreatest ==
  ASSUME NEW s \in Seq(Logs), Increasing(s), s # <<>>
  PROVE  Last(s) \in ToSet(s) /\ \A x \in ToSet(s) : x <= Last(s)
<1>1. /\ Len(s) \in Nat /\ DOMAIN s = 1..Len(s) /\ ToSet(s) = {s[i] : i \in 1..Len(s)}
      /\ \A x \in ToSet(s) : x \in Nat
  BY Members DEF Logs
<1>2. Len(s) \in 1..Len(s)
  BY <1>1, EmptySeq
<1>3. ASSUME NEW i \in 1..Len(s) PROVE s[i] <= s[Len(s)]
  <2>1. s[i] \in Nat /\ s[Len(s)] \in Nat
    BY <1>2, ElementOfSeq DEF Logs
  <2>2. i < Len(s) => s[i] < s[Len(s)]
    BY <1>1, <1>2 DEF Increasing
  <2>3. i < Len(s) \/ i = Len(s)
    <3>1. Len(s) \in Nat
      BY <1>1
    <3> QED
      BY <3>1
  <2> QED
    BY <2>1, <2>2, <2>3
<1> QED
  BY <1>1, <1>2, <1>3 DEF Last

\* What others do moves records towards the stream, or loses them.
LEMMA OthersKeepReader ==
  ASSUME LogInv, ReaderInv, UNCHANGED reader,
         logged' \in 0..MaxLogs, logged <= logged',
         ToSet(stream') \subseteq ToSet(stream) \cup ToSet(taken),
         ToSet(taken') \subseteq ToSet(taken) \cup ToSet(queue),
         ToSet(queue') \subseteq ToSet(queue) \cup {logged + 1}
  PROVE  ReaderInv'
<1>1. /\ logged \in Nat /\ logged' \in Nat
      /\ ToSet(stream) \subseteq Nat /\ ToSet(taken) \subseteq Nat
  <2>1. logged \in Nat /\ logged' \in Nat
    BY DEF LogInv
  <2>2. ToSet(stream) \subseteq Logs /\ ToSet(taken) \subseteq Logs
    BY Members DEF LogInv
  <2>3. \A e \in Logs : e \in Nat
    BY DEF Logs
  <2> QED
    BY <2>1, <2>2, <2>3, Zenon
<1>2. /\ reader.upto \in Nat /\ reader.upto <= logged
      /\ \A e \in ToSet(taken) \cup ToSet(queue) : e > reader.upto
      /\ ~reader.done => reader.cursor = reader.upto
      /\ \A e \in ToSet(reader.seen) : e <= reader.upto
  BY DEF ReaderInv, Followed
<1>3. logged + 1 > reader.upto /\ reader.upto <= logged'
  BY <1>1, <1>2
<1>4. Followed'
  BY <1>2, <1>3 DEF Followed
<1>5. ASSUME NEW n \in ToSet(stream'), n \in Matching, n <= reader.upto
      PROVE  n \in ToSet(reader.seen)
  <2>1. n \in Nat /\ (n \in ToSet(stream) \/ n > reader.upto)
    BY <1>1, <1>2
  <2>2. n \in ToSet(stream)
    BY <1>2, <1>5, <2>1
  <2> QED
    BY <1>5, <2>2 DEF ReaderInv, PagedOnce
<1>6. PagedOnce'
  BY <1>5 DEF ReaderInv, PagedOnce
<1> QED
  BY <1>4, <1>6 DEF ReaderInv

LEMMA EmitMoves ==
  ASSUME LogInv, Emit
  PROVE  /\ logged' \in 0..MaxLogs /\ logged <= logged'
         /\ ToSet(queue') \subseteq ToSet(queue) \cup {logged + 1}
<1>1. /\ logged \in Nat /\ logged < MaxLogs /\ logged' = logged + 1
      /\ queue \in Seq(Logs) /\ logged + 1 \in Logs /\ Logs \in SUBSET Nat
  BY DEF LogInv, Emit, Logs
<1>2. queue' = queue \/ queue' = Append(queue, logged + 1)
  BY <1>1 DEF Emit
<1>3. ToSet(Append(queue, logged + 1)) = ToSet(queue) \cup {logged + 1}
  BY <1>1, Pushed
<1>4. logged' \in 0..MaxLogs /\ logged <= logged'
  <2>1. logged \in Nat /\ logged < MaxLogs /\ logged' = logged + 1 /\ MaxLogs \in Nat
    BY <1>1, TelemetryAssumption
  <2> QED
    BY <2>1
<1>5. ToSet(queue') \subseteq ToSet(queue) \cup {logged + 1}
  BY <1>2, <1>3
<1> QED
  BY <1>4, <1>5

LEMMA PartMoves ==
  ASSUME LogInv, NEW k \in 0..Len(taken), AppendPart(k)
  PROVE  /\ ToSet(stream') \subseteq ToSet(stream) \cup ToSet(taken)
         /\ ToSet(taken') = {}
<1>1. stream \in Seq(Logs) /\ taken \in Seq(Logs) /\ Logs \in SUBSET Nat
  BY DEF LogInv, Logs
<1> DEFINE a == SubSeq(taken, 1, k)
<1>2. a \in Seq(Logs) /\ ToSet(a) \subseteq ToSet(taken)
  BY <1>1, Cut
<1>3. stream' = stream \o a /\ taken' = <<>>
  BY DEF AppendPart
<1> HIDE DEF a
<1> QED
  BY <1>1, <1>2, <1>3, MembersOfConcat, Nothing

\* LogQueryService.query, between any two of which others append and trim.
LEMMA PageFollows ==
  ASSUME LogInv, ReaderInv, NextPage
  PROVE  ReaderInv'
<1> DEFINE entries  == {e \in ToSet(stream) : e > reader.cursor}
           rest     == After(reader.cursor)
           fetch    == Least(PageLimit * FetchFactor, FetchMax)
           raw      == FirstOf(rest, fetch)
           matches  == ById(ToSet(raw) \cap Matching)
           accepted == FirstOf(matches, PageLimit)
           next     == NextCursor(raw, Len(rest) > fetch, accepted)
           upto     == IF next # 0 THEN next
                       ELSE IF raw # <<>> THEN Last(raw) ELSE reader.upto
<1>1. /\ UNCHANGED << logged, queue, taken, stream >>
      /\ reader' = [cursor |-> next, upto |-> upto,
                    seen |-> reader.seen \o accepted, done |-> next = 0]
      /\ ~reader.done
  BY DEF NextPage
<1>2. /\ reader.cursor = reader.upto /\ reader.upto \in 0..MaxLogs /\ reader.upto <= logged
      /\ reader.seen \in Seq(Logs) /\ Increasing(reader.seen)
      /\ \A e \in ToSet(reader.seen) : e <= reader.upto
      /\ \A e \in ToSet(taken) \cup ToSet(queue) : e > reader.upto
      /\ \A n \in ToSet(stream) : n \in Matching /\ n <= reader.upto => n \in ToSet(reader.seen)
  BY <1>1 DEF ReaderInv, Followed, PagedOnce
<1>3. /\ ToSet(stream) \subseteq Logs /\ Logs \in SUBSET Nat
      /\ \A e \in Logs : e \in Nat /\ e # 0 /\ e <= MaxLogs
      /\ fetch \in Nat \ {0}
  <2>1. \A a, b \in Nat \ {0} : a * b \in Nat \ {0}
    OBVIOUS
  <2>2. fetch \in Nat \ {0}
    BY <2>1, TelemetryAssumption DEF Least
  <2>3. ToSet(stream) \subseteq Logs
    BY Members DEF LogInv
  <2> QED
    BY <2>2, <2>3, TelemetryAssumption DEF Logs
<1> HIDE DEF fetch
<1>4. rest \in Seq(Logs) /\ Increasing(rest) /\ ToSet(rest) = entries
  <2>1. entries \in SUBSET Logs
    BY <1>3
  <2> QED
    BY <2>1, Sorted DEF After
<1> HIDE DEF rest
<1>5. /\ raw \in Seq(Logs) /\ Increasing(raw) /\ ToSet(raw) \subseteq entries
      /\ \A x \in entries \ ToSet(raw), y \in ToSet(raw) : y < x
      /\ ~(Len(rest) > fetch) => ToSet(raw) = entries
      /\ Len(rest) > fetch => raw # <<>>
  <2>1. Len(rest) \in Nat
    BY <1>4, Members
  <2>2. /\ raw \in Seq(Logs) /\ Increasing(raw) /\ ToSet(raw) \subseteq ToSet(rest)
        /\ \A x \in ToSet(rest) \ ToSet(raw), y \in ToSet(raw) : y < x
        /\ Len(rest) <= fetch \/ Len(raw) # fetch => ToSet(raw) = ToSet(rest)
        /\ rest # <<>> => raw # <<>>
    BY <1>3, <1>4, Prefix
  <2>3. Len(rest) > fetch => rest # <<>>
    BY <1>3, <2>1, EmptySeq
  <2> QED
    BY <1>3, <1>4, <2>1, <2>2, <2>3
<1> HIDE DEF raw
<1>6. matches \in Seq(Logs) /\ Increasing(matches) /\ ToSet(matches) = ToSet(raw) \cap Matching
  <2>1. ToSet(raw) \cap Matching \in SUBSET Logs
    BY <1>5, Members
  <2> QED
    BY <2>1, Sorted
<1> HIDE DEF matches
<1>7. /\ accepted \in Seq(Logs) /\ Increasing(accepted)
      /\ ToSet(accepted) \subseteq ToSet(raw) \cap Matching
      /\ \A x \in (ToSet(raw) \cap Matching) \ ToSet(accepted), y \in ToSet(accepted) : y < x
      /\ Len(accepted) # PageLimit => ToSet(accepted) = ToSet(raw) \cap Matching
      /\ Len(accepted) = PageLimit => accepted # <<>>
  BY <1>6, Prefix, TelemetryAssumption
<1> HIDE DEF accepted
<1>8. \A e \in entries : e \in ToSet(stream) /\ e \in Logs /\ e > reader.upto
  BY <1>2, <1>3
<1>8a. reader.upto \in Nat
  <2>1. \A n \in 0..MaxLogs : n \in Nat
    BY TelemetryAssumption
  <2> QED
    BY <1>2, <2>1, Zenon
<1>8b. \A e \in ToSet(stream) : e \in Nat
  BY <1>3, Zenon
<1>8c. \A e \in ToSet(reader.seen) : e \in Nat
  <2>1. ToSet(reader.seen) \subseteq Logs
    BY <1>2, Members
  <2> QED
    BY <1>3, <2>1, Zenon
\* What the page accounts for: everything up to its end.
<1>9. /\ upto \in ToSet(raw) \/ upto = reader.upto
      /\ reader.upto <= upto
      /\ \A e \in ToSet(accepted) : e <= upto
      /\ \A e \in entries : e \in Matching /\ e <= upto => e \in ToSet(accepted)
      /\ next # 0 => next = upto
      /\ next \in 0..MaxLogs
  <2>1. CASE Len(accepted) = PageLimit
    <3>1. /\ next = Last(accepted) /\ next \in ToSet(accepted)
          /\ \A e \in ToSet(accepted) : e <= next
      BY <1>7, <2>1, LastIsGreatest DEF NextCursor
    <3>2. next \in ToSet(raw) /\ next \in Logs /\ next > reader.upto
      BY <1>5, <1>7, <1>8, <3>1
    <3>3. next \in Nat /\ next # 0 /\ next <= MaxLogs /\ reader.upto \in Nat
      <4>1. next \in Nat /\ next # 0 /\ next <= MaxLogs
        BY <1>3, <3>2, Zenon
      <4> QED
        BY <1>8a, <4>1
    <3>4. upto = next
      BY <3>3
    <3>5. ASSUME NEW e \in entries, e \in Matching, e <= next
          PROVE  e \in ToSet(accepted)
      <4>1. e \in Nat
        BY <1>3, <1>8
      <4>2. e \in ToSet(raw)
        BY <1>5, <3>2, <3>3, <3>5, <4>1
      <4> QED
        BY <1>7, <3>1, <3>3, <3>5, <4>1, <4>2
    <3> HIDE DEF upto, next, entries
    <3> QED
      BY <1>2, <3>1, <3>2, <3>3, <3>4, <3>5
  <2>2. CASE Len(accepted) # PageLimit /\ Len(rest) > fetch
    <3>1. /\ next = Last(raw) /\ next \in ToSet(raw)
          /\ \A e \in ToSet(raw) : e <= next
      BY <1>5, <2>2, LastIsGreatest DEF NextCursor
    <3>2. next \in Logs /\ next > reader.upto
      BY <1>5, <1>8, <3>1
    <3>3. next \in Nat /\ next # 0 /\ next <= MaxLogs /\ reader.upto \in Nat
      <4>1. next \in Nat /\ next # 0 /\ next <= MaxLogs
        BY <1>3, <3>2, Zenon
      <4> QED
        BY <1>8a, <4>1
    <3>4. upto = next
      BY <3>3
    <3>5. ASSUME NEW e \in entries, e \in Matching, e <= next
          PROVE  e \in ToSet(accepted)
      <4>1. e \in Nat
        BY <1>3, <1>8
      <4>2. e \in ToSet(raw)
        BY <1>5, <3>1, <3>3, <3>5, <4>1
      <4> QED
        BY <1>7, <2>2, <3>5, <4>2
    <3>6. \A e \in ToSet(accepted) : e <= next
      BY <1>7, <3>1
    <3> HIDE DEF upto, next, entries
    <3> QED
      BY <1>2, <3>1, <3>2, <3>3, <3>4, <3>5, <3>6
  <2>3. CASE Len(accepted) # PageLimit /\ ~(Len(rest) > fetch)
    <3>1. next = 0 /\ ToSet(raw) = entries /\ ToSet(accepted) = ToSet(raw) \cap Matching
      BY <1>5, <1>7, <2>3 DEF NextCursor
    <3>2. upto = IF raw # <<>> THEN Last(raw) ELSE reader.upto
      BY <3>1
    <3>3. CASE raw # <<>>
      <4>1. upto \in ToSet(raw) /\ \A e \in ToSet(raw) : e <= upto
        BY <1>5, <3>2, <3>3, LastIsGreatest
      <4>2. upto > reader.upto /\ upto \in Nat /\ reader.upto \in Nat
        <5>1. upto \in entries
          BY <1>5, <4>1, Zenon
        <5> HIDE DEF upto, entries
        <5>2. upto > reader.upto /\ upto \in ToSet(stream)
          BY <1>8, <5>1, Zenon
        <5> QED
          BY <1>8a, <1>8b, <5>2, Zenon
      <4> HIDE DEF upto, next, entries
      <4> QED
        BY <1>2, <3>1, <4>1, <4>2, TelemetryAssumption
    <3>4. CASE raw = <<>>
      <4>1. upto = reader.upto /\ ToSet(raw) = {} /\ ToSet(accepted) = {}
        BY <3>1, <3>2, <3>4, Nothing
      <4>2. entries = {} /\ reader.upto \in Nat
        BY <1>2, <3>1, <4>1
      <4> HIDE DEF upto, next, entries
      <4> QED
        BY <3>1, <4>1, <4>2, TelemetryAssumption
    <3> QED
      BY <3>3, <3>4
  <2> QED
    BY <2>1, <2>2, <2>3
<1> HIDE DEF next, upto
<1>10. /\ reader'.cursor = next /\ reader'.upto = upto /\ reader'.done = (next = 0)
       /\ reader'.seen = reader.seen \o accepted
  BY <1>1
<1>11. /\ upto \in 0..MaxLogs /\ upto <= logged
       /\ \A e \in ToSet(taken) \cup ToSet(queue) : e > upto
  <2>1. CASE upto = reader.upto
    BY <1>2, <2>1
  <2>2. CASE upto \in ToSet(raw)
    <3>1. upto \in ToSet(stream) /\ upto \in Logs
      BY <1>5, <1>8, <2>2
    <3>2. /\ stream \in Seq(Logs) /\ taken \in Seq(Logs) /\ queue \in Seq(Logs)
          /\ Accounted(stream, taken, queue, logged, dropped)
      BY DEF LogInv, LogsAccounted, Accounted
    <3>3. /\ Before(stream, taken) /\ Before(stream, queue)
          /\ ToSet(stream) \subseteq 1..logged
      BY <3>2, Kept DEF Shared, InOrder
    <3>4. \A e \in ToSet(taken) \cup ToSet(queue) : upto < e
      BY <3>1, <3>3 DEF Before
    <3>5. ToSet(taken) \subseteq Logs /\ ToSet(queue) \subseteq Logs
      BY <3>2, Members
    <3>6. upto \in Nat /\ upto <= MaxLogs /\ upto <= logged
      BY <1>3, <3>1, <3>3
    <3>7. \A e \in ToSet(taken) \cup ToSet(queue) : e \in Nat
      BY <1>3, <3>5
    <3> QED
      BY <3>4, <3>6, <3>7, TelemetryAssumption
  <2> QED
    BY <1>9, <2>1, <2>2
<1>12. /\ reader.seen \o accepted \in Seq(Logs)
       /\ ToSet(reader.seen \o accepted) = ToSet(reader.seen) \cup ToSet(accepted)
       /\ Increasing(reader.seen \o accepted)
  <2>1. /\ ToSet(reader.seen) \subseteq Logs /\ ToSet(accepted) \subseteq entries
    BY <1>2, <1>5, <1>7, Members
  <2>2. Before(reader.seen, accepted)
    <3>1. SUFFICES ASSUME NEW a \in ToSet(reader.seen), NEW b \in ToSet(accepted)
                   PROVE  a < b
      BY DEF Before
    <3>2. b \in entries
      BY <2>1, <3>1, Zenon
    <3> HIDE DEF entries
    <3>3. b > reader.upto /\ b \in ToSet(stream)
      BY <1>8, <3>2, Zenon
    <3>4. a <= reader.upto /\ b > reader.upto /\ a \in Nat /\ b \in Nat /\ reader.upto \in Nat
      BY <1>2, <1>8a, <1>8b, <1>8c, <3>1, <3>3, Zenon
    <3> QED
      BY <3>4
  <2> QED
    BY <1>2, <1>3, <1>7, <2>2, MembersOfConcat, IncreasingConcat
<1>13. Followed'
  <2>1. ~(next = 0) => next = upto
    BY <1>9
  <2>2. ASSUME NEW e \in ToSet(reader.seen \o accepted) PROVE e <= upto
    <3>1. CASE e \in ToSet(accepted)
      BY <1>9, <3>1
    <3>2. CASE e \in ToSet(reader.seen)
      <4>1. e \in Nat /\ reader.upto \in Nat /\ upto \in Nat
        <5>1. \A n \in 0..MaxLogs : n \in Nat
          BY TelemetryAssumption
        <5> QED
          BY <1>8a, <1>8c, <1>11, <3>2, <5>1, Zenon
      <4>2. e <= reader.upto /\ reader.upto <= upto
        BY <1>2, <1>9, <3>2
      <4> QED
        BY <4>1, <4>2
    <3> QED
      BY <1>12, <2>2, <3>1, <3>2
  <2> QED
    BY <1>1, <1>10, <1>11, <2>1, <2>2 DEF Followed
<1>14. PagedOnce'
  <2>1. ASSUME NEW n \in ToSet(stream), n \in Matching, n <= upto
        PROVE  n \in ToSet(reader.seen) \cup ToSet(accepted)
    <3>1. n \in Nat /\ reader.upto \in Nat
      BY <1>8a, <1>8b
    <3>2. CASE n <= reader.upto
      BY <1>2, <2>1, <3>2
    <3>3. CASE n > reader.upto
      <4>1. n \in entries
        BY <1>2, <2>1, <3>3
      <4> QED
        BY <1>9, <2>1, <4>1
    <3> QED
      BY <3>1, <3>2, <3>3
  <2> QED
    BY <1>1, <1>10, <1>12, <2>1 DEF PagedOnce
<1> QED
  BY <1>1, <1>9, <1>11, <1>12, <1>13, <1>14 DEF ReaderInv

LEMMA ReaderHolds ==
  ASSUME LogInv, ReaderInv, Next
  PROVE  ReaderInv'
<1>1. /\ logged \in 0..MaxLogs /\ logged <= logged
      /\ stream \in Seq(Logs) /\ taken \in Seq(Logs) /\ queue \in Seq(Logs)
      /\ Len(queue) \in Nat /\ Logs \in SUBSET Nat /\ ToSet(<<>>) = {}
  BY Members, Nothing DEF LogInv, Logs
\* Steps that do not touch the log, and those that log.
<1>2. ASSUME UNCHANGED << reader, taken, stream, queue, logged >> PROVE ReaderInv'
  BY <1>1, <1>2, OthersKeepReader
<1>3. ASSUME UNCHANGED << reader, taken, stream >>, Emit PROVE ReaderInv'
  BY <1>1, <1>3, EmitMoves, OthersKeepReader
<1>4. ASSUME UNCHANGED << reader, logged >>, NEW k \in 0..Len(taken), AppendPart(k),
             queue' = queue \/ queue' = <<>>
      PROVE  ReaderInv'
  BY <1>1, <1>4, PartMoves, OthersKeepReader
<1>5. CASE Streamer
  BY <1>2, <1>3, <1>5 DEF Streamer, Draw, DrawFails, Collect, Insert, Flushed, FlushFails,
                          logVars, storedLogs
<1>6. CASE Log
  BY <1>3, <1>6 DEF Log, storedLogs
<1>7. CASE Take
  <2> DEFINE n == IF Len(queue) < FlushMax THEN Len(queue) ELSE FlushMax
  <2>1. n \in 0..Len(queue)
    BY <1>1, TelemetryAssumption
  <2>2. /\ taken' = SubSeq(queue, 1, n) /\ queue' = SubSeq(queue, n + 1, Len(queue))
        /\ UNCHANGED << logged, stream, reader >>
    BY <1>7 DEF Take
  <2> HIDE DEF n
  <2>3. ToSet(queue) = ToSet(taken') \cup ToSet(queue')
    BY <1>1, <2>1, <2>2, Cut
  <2> QED
    BY <1>1, <2>2, <2>3, OthersKeepReader
<1>8. CASE AppendMany
  <2>1. PICK k \in 0..Len(stream) : stream' = SubSeq(stream, k + 1, Len(stream)) \o taken
    BY <1>8 DEF AppendMany
  <2>2. taken' = <<>> /\ UNCHANGED << logged, queue, reader >>
    BY <1>8 DEF AppendMany
  <2> DEFINE b == SubSeq(stream, k + 1, Len(stream))
  <2>3. b \in Seq(Logs) /\ ToSet(b) \subseteq ToSet(stream)
    BY <1>1, Cut
  <2> HIDE DEF b
  <2>4. ToSet(b \o taken) = ToSet(b) \cup ToSet(taken)
    BY <1>1, <2>3, MembersOfConcat
  <2>5. stream' = b \o taken
    BY <2>1 DEF b
  <2> QED
    BY <1>1, <2>2, <2>3, <2>4, <2>5, OthersKeepReader
<1>9. CASE AppendFails
  <2>1. PICK k \in 0..Len(taken) : AppendPart(k)
    BY <1>9 DEF AppendFails
  <2>2. logged < MaxLogs /\ logged' = logged + 1 /\ UNCHANGED reader
    BY <1>9 DEF AppendFails
  <2>3. queue' = queue \/ queue' = Append(queue, logged + 1)
    BY <1>9, <2>2 DEF AppendFails
  <2>4. logged + 1 \in Logs /\ logged' \in 0..MaxLogs /\ logged <= logged'
    BY <1>1, <2>2, TelemetryAssumption DEF Logs
  <2>5. ToSet(Append(queue, logged + 1)) = ToSet(queue) \cup {logged + 1}
    BY <1>1, <2>4, Pushed
  <2>6. ToSet(queue') \subseteq ToSet(queue) \cup {logged + 1}
    BY <2>3, <2>5
  <2> QED
    BY <2>1, <2>2, <2>4, <2>6, PartMoves, OthersKeepReader
<1>10. CASE NextPage
  BY <1>10, PageFollows
<1>11. CASE Lifespan
  <2>1. CASE StopStreamer \/ CloseResources
    BY <1>2, <2>1 DEF StopStreamer, CloseResources, logVars, storedLogs
  <2>2. CASE StopFlusher
    <3>1. PICK k \in 0..Len(taken) : AppendPart(k)
      BY <2>2 DEF StopFlusher
    <3> QED
      BY <1>4, <2>2, <3>1 DEF StopFlusher
  <2>3. CASE Exit \/ Boot
    <3>1. queue' = <<>> /\ UNCHANGED << reader, logged, taken, stream >>
      BY <2>3 DEF Exit, Boot, Fresh, storedLogs
    <3> QED
      BY <1>1, <3>1, OthersKeepReader
  <2>4. CASE Crash
    <3>1. PICK k \in 0..Len(taken) : AppendPart(k)
      BY <2>4 DEF Crash
    <3>2. queue' = <<>> /\ UNCHANGED << reader, logged >>
      BY <2>4 DEF Crash, Fresh
    <3> QED
      BY <1>4, <3>1, <3>2
  <2> QED
    BY <1>11, <2>1, <2>2, <2>3, <2>4 DEF Lifespan
<1> QED
  BY <1>5, <1>6, <1>7, <1>8, <1>9, <1>10, <1>11 DEF Next, LogWork

-----------------------------------------------------------------------------
(* The lifespan, and the theorems *)

LEMMA StagesHold ==
  ASSUME StageInv, LogInv, Next
  PROVE  StageInv'
<1> USE DEF StageInv, Stages, Fault
<1>1. CASE Streamer
  BY <1>1 DEF Streamer, Draw, DrawFails, Collect, Insert, Flushed, FlushFails, logVars,
              storedLogs, Emit
<1>2. CASE Log
  BY <1>2 DEF Log, streamerVars, storedLogs
<1>3. CASE Take \/ AppendMany \/ AppendFails \/ NextPage
  <2>1. CASE Take
    BY <2>1 DEF Take, streamerVars
  <2>2. CASE AppendMany
    BY <2>2 DEF AppendMany, streamerVars
  <2>3. CASE AppendFails
    <3>1. /\ UNCHANGED << stage, spc >> /\ faults' = faults + 1 /\ faults < MaxFaults
          /\ fpc = "append" /\ fpc' = "sleep"
      BY <2>3 DEF AppendFails, streamerVars
    <3>2. QED
      BY <3>1
  <2>4. CASE NextPage
    BY <2>4 DEF NextPage, streamerVars
  <2>5. QED
    BY <1>3, <2>1, <2>2, <2>3, <2>4
<1>4. CASE Lifespan
  BY <1>4 DEF Lifespan, StopStreamer, StopFlusher, CloseResources, Exit, Boot, Crash,
              Fresh, logVars, storedLogs, streamerVars
<1>5. QED
  BY <1>1, <1>2, <1>3, <1>4 DEF Next, LogWork

(* Whatever fails and whenever the process stops or dies: the invariant.  *)
THEOREM Invariant == Spec => []IInv
<1>1. IInv /\ [Next]_vars => IInv'
  <2>1. SUFFICES ASSUME IInv, [Next]_vars PROVE IInv'
    OBVIOUS
  <2>2. StageInv /\ StreamerInv /\ LogInv /\ ReaderInv
    BY <2>1 DEF IInv, TypeOK, StageInv, StreamerInv, LogInv, ReaderInv
  <2>3. CASE Next
    <3>1. StageInv' /\ StreamerInv' /\ LogInv' /\ ReaderInv'
      BY <2>2, <2>3, StagesHold, ReadingsHold, LogsHold, ReaderHolds
    <3>2. QED
      BY <3>1 DEF IInv, TypeOK, StageInv, StreamerInv, LogInv, ReaderInv
  <2>4. CASE UNCHANGED vars
    BY <2>1, <2>4 DEF vars, streamerVars, logVars, storedLogs, IInv, TypeOK, Collected,
                      Followed, PagedOnce, ReadingsKept, LogsAccounted, Saved
  <2>5. QED
    BY <2>1, <2>3, <2>4
<1>2. QED
  BY <1>1, InvInit, PTL DEF Spec

(* Every reading that was drawn is in realtime_readings or waits in the    *)
(* batch, unless it is excused, and is there once unless a commit was not  *)
(* answered (streamer.py:99, 123).                                         *)
THEOREM ReadingsAreKept == Spec => []ReadingsKept
<1>1. IInv => ReadingsKept
  BY DEF IInv
<1>2. QED
  BY <1>1, Invariant, PTL

(* Log records are in the stream, with the flusher or in the queue, in the *)
(* order of emission and none twice, or they were dropped for a reason     *)
(* (log_handler.py:39-82).                                                 *)
THEOREM LogsAreAccounted == Spec => []LogsAccounted
<1>1. IInv => LogsAccounted
  BY DEF IInv
<1>2. QED
  BY <1>1, Invariant, PTL

(* A client that follows the cursors sees every matching record that is    *)
(* still in the stream once and in order, on every boundary between a full *)
(* page and an exhausted fetch (logs.py:26-70, store.py:114-127).          *)
THEOREM PagesMissNothing == Spec => []PagedOnce
<1>1. IInv => PagedOnce
  BY DEF IInv
<1>2. QED
  BY <1>1, Invariant, PTL

=============================================================================
