------------------------- MODULE SampleBufferProofs --------------------------
(* Theorems about SampleBuffer, for every value of its constants.           *)
EXTENDS SampleBuffer, FiniteSetTheorems, TLAPS

-----------------------------------------------------------------------------
(* Sequences as buffers: iter().position() finds the first element with a    *)
(* property, and insert and remove shift what comes after.                   *)
\* The indices before the first one outside G, where G holds with an index all
\* smaller ones: the reason why position() and CHOOSE agree.
LEMMA PrefixEnd ==
  ASSUME NEW n \in Nat, NEW G, G \subseteq 1 .. n,
         \A i \in G : \A j \in 1 .. i : j \in G
  PROVE  \E k \in 0 .. n : /\ \A i \in 1 .. k : i \in G
                           /\ k < n => k + 1 \notin G
<1> DEFINE m == Cardinality(G)
<1>1. IsFiniteSet(1 .. n) /\ Cardinality(1 .. n) = n
  BY FS_Interval
<1>2. IsFiniteSet(G) /\ m <= n /\ m \in Nat
  BY <1>1, FS_Subset, FS_CardinalityType
<1>3. m + 1 \notin G
  <2> SUFFICES ASSUME m + 1 \in G PROVE FALSE
    OBVIOUS
  <2>1. 1 .. m + 1 \in SUBSET G
    BY <1>2
  <2>2. Cardinality(1 .. m + 1) <= m
    BY <2>1, <1>2, FS_Subset
  <2>3. Cardinality(1 .. m + 1) = m + 1
    BY <1>2, FS_Interval
  <2> QED
    BY <2>2, <2>3, <1>2
<1>4. ASSUME m > 0 PROVE m \in G
  <2> SUFFICES ASSUME m \notin G PROVE FALSE
    OBVIOUS
  <2>1. G \in SUBSET (1 .. m - 1)
    <3> SUFFICES ASSUME NEW i \in G PROVE i \in 1 .. m - 1
      OBVIOUS
    <3>1. i \in Nat /\ i >= 1
      OBVIOUS
    <3>2. ~ (m <= i)
      BY <3>1, <1>2, <1>4
    <3> QED
      BY <3>1, <3>2, <1>2
  <2>a. m - 1 \in Int /\ m > 0
    BY <1>2, <1>4
  <2>b. IsFiniteSet(1 .. m - 1)
        /\ Cardinality(1 .. m - 1) = IF 1 > m - 1 THEN 0 ELSE m - 1 - 1 + 1
    BY <2>a, FS_Interval
  <2>2. Cardinality(1 .. m - 1) = m - 1
    BY <2>a, <2>b, <1>2
  <2>3. Cardinality(G) <= Cardinality(1 .. m - 1)
    BY <2>1, <2>b, FS_Subset
  <2> QED
    BY <2>2, <2>3, <1>2
<1>5. \A i \in 1 .. m : i \in G
  BY <1>2, <1>4
<1> QED
  BY <1>2, <1>3, <1>5

\* Every nonempty set of indices has a first one.
LEMMA FirstIndex ==
  ASSUME NEW n \in Nat, NEW S, S \subseteq 1 .. n, S # {}
  PROVE  \E i \in S : \A j \in 1 .. i - 1 : j \notin S
<1> DEFINE G == {i \in 1 .. n : \A j \in 1 .. i : j \notin S}
<1>1. G \subseteq 1 .. n /\ \A i \in G : \A j \in 1 .. i : j \in G
  OBVIOUS
<1>2. PICK k \in 0 .. n : (\A i \in 1 .. k : i \in G) /\ (k < n => k + 1 \notin G)
  <2> HIDE DEF G
  <2> QED
    BY <1>1, PrefixEnd
<1>3. \A j \in 1 .. k : j \notin S
  BY <1>2
<1>4. k < n
  <2>1. PICK i \in S : TRUE
    OBVIOUS
  <2>2. i \in 1 .. n /\ ~ (i \in 1 .. k)
    BY <2>1, <1>3
  <2> QED
    BY <2>2
<1>5. k + 1 \in S
  BY <1>2, <1>3, <1>4
<1> QED
  BY <1>3, <1>4, <1>5

\* The elements of a concatenation,
LEMMA ConcatAt ==
  ASSUME NEW S, NEW a \in Seq(S), NEW b \in Seq(S)
  PROVE  /\ a \o b \in Seq(S)
         /\ Len(a \o b) = Len(a) + Len(b)
         /\ \A i \in 1 .. Len(a) : (a \o b)[i] = a[i]
         /\ \A i \in 1 .. Len(b) : (a \o b)[Len(a) + i] = b[i]
  OBVIOUS

\* and of a slice.
LEMMA SubSeqAt ==
  ASSUME NEW S, NEW s \in Seq(S), NEW m \in 1 .. Len(s) + 1, NEW n \in m - 1 .. Len(s)
  PROVE  /\ SubSeq(s, m, n) \in Seq(S)
         /\ Len(SubSeq(s, m, n)) = n - m + 1
         /\ \A i \in 1 .. n - m + 1 : SubSeq(s, m, n)[i] = s[m - 1 + i]
  OBVIOUS

\* An insertion is what is before it, the new element, and what is after it.
LEMMA InsertAtParts ==
  ASSUME NEW S, NEW s \in Seq(S), NEW k \in 0 .. Len(s), NEW d \in S
  PROVE  InsertAt(s, k + 1, d) = (SubSeq(s, 1, k) \o <<d>>) \o SubSeq(s, k + 1, Len(s))
<1> PICK i : i = k + 1
  OBVIOUS
<1>1. i - 1 = k
  OBVIOUS
<1>2. InsertAt(s, i, d) = (SubSeq(s, 1, i - 1) \o <<d>>) \o SubSeq(s, i, Len(s))
  BY SMT DEF InsertAt
<1>3. InsertAt(s, i, d) = (SubSeq(s, 1, k) \o <<d>>) \o SubSeq(s, i, Len(s))
  BY <1>1, <1>2
<1> QED
  BY <1>3

\* insert(k, d) leaves k elements before d and moves the others by one.
LEMMA InsertedAt ==
  ASSUME NEW S, NEW s \in Seq(S), NEW d \in S, NEW k \in 0 .. Len(s)
  PROVE  /\ InsertAt(s, k + 1, d) \in Seq(S)
         /\ Len(InsertAt(s, k + 1, d)) = Len(s) + 1
         /\ \A i \in 1 .. Len(s) + 1 :
              InsertAt(s, k + 1, d)[i] =
                IF i <= k THEN s[i] ELSE IF i = k + 1 THEN d ELSE s[i - 1]
<1>l. Len(s) \in Nat /\ k \in Nat /\ k <= Len(s)
  OBVIOUS
<1> DEFINE a == SubSeq(s, 1, k)
           c == SubSeq(s, k + 1, Len(s))
           e == <<d>>
           b == a \o e
           r == InsertAt(s, k + 1, d)
<1>a. /\ a \in Seq(S) /\ Len(a) = k
      /\ \A i \in 1 .. k : a[i] = s[i]
  <2>1. 1 \in 1 .. Len(s) + 1 /\ k \in 1 - 1 .. Len(s)
    BY <1>l
  <2>2. \A i \in 1 .. k : 1 - 1 + i = i
    BY <1>l
  <2>3. k - 1 + 1 = k
    BY <1>l
  <2> QED
    BY <2>1, <2>2, <2>3, SubSeqAt
<1>c. /\ c \in Seq(S) /\ Len(c) = Len(s) - k
      /\ \A i \in 1 .. Len(s) - k : c[i] = s[k + i]
  <2>1. k + 1 \in 1 .. Len(s) + 1 /\ Len(s) \in k + 1 - 1 .. Len(s)
    BY <1>l
  <2>2. Len(s) - (k + 1) + 1 = Len(s) - k /\ k + 1 - 1 = k
    BY <1>l
  <2>3. /\ c \in Seq(S) /\ Len(c) = Len(s) - (k + 1) + 1
        /\ \A j \in 1 .. Len(s) - (k + 1) + 1 : c[j] = s[k + 1 - 1 + j]
    BY <2>1, SubSeqAt
  <2> HIDE DEF c
  <2> QED
    BY <2>2, <2>3
<1>e. e \in Seq(S) /\ Len(e) = 1 /\ e[1] = d
  OBVIOUS
<1>r0. r = b \o c
  BY InsertAtParts
<1> HIDE DEF a, c, e, r
<1>b. /\ b \in Seq(S)
      /\ Len(b) = k + 1
      /\ \A i \in 1 .. k : b[i] = s[i]
      /\ b[k + 1] = d
  <2>1. a \in Seq(S) /\ e \in Seq(S)
    BY <1>a, <1>e
  <2>2. /\ a \o e \in Seq(S)
        /\ Len(a \o e) = Len(a) + Len(e)
        /\ \A i \in 1 .. Len(a) : (a \o e)[i] = a[i]
        /\ \A i \in 1 .. Len(e) : (a \o e)[Len(a) + i] = e[i]
    BY <2>1, ConcatAt
  <2>3. Len(e) = 1 /\ 1 \in 1 .. 1 /\ Len(a) = k
    BY <1>a, <1>e
  <2> QED
    BY <2>2, <2>3, <1>a, <1>e DEF b
<1> HIDE DEF b
<1>r. /\ r \in Seq(S) /\ Len(r) = Len(b) + Len(c)
      /\ \A i \in 1 .. Len(b) : r[i] = b[i]
      /\ \A i \in 1 .. Len(c) : r[Len(b) + i] = c[i]
  <2>1. b \in Seq(S) /\ c \in Seq(S)
    BY <1>b, <1>c
  <2>2. /\ b \o c \in Seq(S)
        /\ Len(b \o c) = Len(b) + Len(c)
        /\ \A i \in 1 .. Len(b) : (b \o c)[i] = b[i]
        /\ \A i \in 1 .. Len(c) : (b \o c)[Len(b) + i] = c[i]
    BY <2>1, ConcatAt
  <2> QED
    BY <2>2, <1>r0
<1>5. Len(r) = Len(s) + 1
  <2>1. Len(b) = k + 1 /\ Len(c) = Len(s) - k
    BY <1>b, <1>c
  <2>2. Len(r) = Len(b) + Len(c)
    BY <1>r
  <2> QED
    BY <2>1, <2>2, <1>l
<1>6. ASSUME NEW i \in 1 .. Len(r)
      PROVE  r[i] = IF i <= k THEN s[i] ELSE IF i = k + 1 THEN d ELSE s[i - 1]
  <2>1. CASE i <= k
    <3>1. i \in 1 .. k /\ i \in 1 .. Len(b)
      BY <2>1, <1>l, <1>b
    <3> QED
      BY <2>1, <3>1, <1>b, <1>r
  <2>2. CASE i = k + 1
    <3>1. k + 1 \in 1 .. Len(b) /\ ~ (k + 1 <= k)
      BY <1>b, <1>l
    <3> QED
      BY <2>2, <3>1, <1>b, <1>r
  <2>3. CASE i > k + 1
    <3> DEFINE j == i - k - 1
    <3>1. /\ j \in 1 .. Len(c) /\ j \in 1 .. Len(s) - k
          /\ i = Len(b) + j /\ i - 1 = k + j
      BY <2>3, <1>b, <1>c, <1>5, <1>l
    <3> HIDE DEF j
    <3>2. r[i] = c[j]
      BY <1>r, <3>1
    <3>3. c[j] = s[i - 1]
      BY <1>c, <3>1
    <3>4. ~ (i <= k) /\ i # k + 1
      BY <2>3, <1>l
    <3> QED
      BY <3>2, <3>3, <3>4
  <2> QED
    BY <2>1, <2>2, <2>3, <1>l
<1>7. \A i \in 1 .. Len(s) + 1 :
        r[i] = IF i <= k THEN s[i] ELSE IF i = k + 1 THEN d ELSE s[i - 1]
  BY <1>5, <1>6
<1> QED
  BY <1>r, <1>5, <1>7 DEF r

\* remove(i) takes element i out and moves the later ones by one.
LEMMA RemovedAt ==
  ASSUME NEW S, NEW s \in Seq(S), NEW i \in 1 .. Len(s)
  PROVE  /\ RemoveAt(s, i) \in Seq(S)
         /\ Len(RemoveAt(s, i)) = Len(s) - 1
         /\ \A j \in 1 .. Len(s) - 1 : RemoveAt(s, i)[j] = IF j < i THEN s[j] ELSE s[j + 1]
<1>l. Len(s) \in Nat /\ i \in Nat /\ 1 <= i /\ i <= Len(s)
  OBVIOUS
<1> DEFINE a == SubSeq(s, 1, i - 1)
           c == SubSeq(s, i + 1, Len(s))
           r == RemoveAt(s, i)
<1>a. /\ a \in Seq(S) /\ Len(a) = i - 1
      /\ \A j \in 1 .. i - 1 : a[j] = s[j]
  <2>1. 1 \in 1 .. Len(s) + 1 /\ i - 1 \in 1 - 1 .. Len(s)
    BY <1>l
  <2>2. \A j \in 1 .. i - 1 : 1 - 1 + j = j
    BY <1>l
  <2>3. i - 1 - 1 + 1 = i - 1
    BY <1>l
  <2> QED
    BY <2>1, <2>2, <2>3, SubSeqAt
<1>c. /\ c \in Seq(S) /\ Len(c) = Len(s) - i
      /\ \A j \in 1 .. Len(s) - i : c[j] = s[i + j]
  <2>1. i + 1 \in 1 .. Len(s) + 1 /\ Len(s) \in i + 1 - 1 .. Len(s)
    BY <1>l
  <2>2. Len(s) - (i + 1) + 1 = Len(s) - i /\ i + 1 - 1 = i
    BY <1>l
  <2>3. /\ c \in Seq(S) /\ Len(c) = Len(s) - (i + 1) + 1
        /\ \A j \in 1 .. Len(s) - (i + 1) + 1 : c[j] = s[i + 1 - 1 + j]
    BY <2>1, SubSeqAt
  <2> HIDE DEF c
  <2> QED
    BY <2>2, <2>3
<1>r0. r = a \o c
  BY DEF RemoveAt
<1> HIDE DEF a, c, r
<1>r. /\ r \in Seq(S) /\ Len(r) = Len(a) + Len(c)
      /\ \A j \in 1 .. Len(a) : r[j] = a[j]
      /\ \A j \in 1 .. Len(c) : r[Len(a) + j] = c[j]
  <2>1. a \in Seq(S) /\ c \in Seq(S)
    BY <1>a, <1>c
  <2>2. /\ a \o c \in Seq(S)
        /\ Len(a \o c) = Len(a) + Len(c)
        /\ \A j \in 1 .. Len(a) : (a \o c)[j] = a[j]
        /\ \A j \in 1 .. Len(c) : (a \o c)[Len(a) + j] = c[j]
    BY <2>1, ConcatAt
  <2> QED
    BY <2>2, <1>r0
<1>4. Len(r) = Len(s) - 1
  BY <1>a, <1>c, <1>r, <1>l
<1>5. ASSUME NEW j \in 1 .. Len(r)
      PROVE  r[j] = IF j < i THEN s[j] ELSE s[j + 1]
  <2>1. CASE j < i
    <3>1. j \in 1 .. i - 1
      BY <2>1, <1>l
    <3> QED
      BY <2>1, <3>1, <1>a, <1>r
  <2>2. CASE ~ (j < i)
    <3> DEFINE n == j - (i - 1)
    <3>1. n \in 1 .. Len(c) /\ j = (i - 1) + n /\ i + n = j + 1
      BY <2>2, <1>c, <1>4, <1>l
    <3> HIDE DEF n
    <3>2. r[j] = c[n]
      BY <1>a, <1>r, <3>1
    <3>3. c[n] = s[j + 1]
      BY <1>c, <3>1
    <3> QED
      BY <2>2, <3>2, <3>3
  <2> QED
    BY <2>1, <2>2
<1>6. \A j \in 1 .. Len(s) - 1 : r[j] = IF j < i THEN s[j] ELSE s[j + 1]
  BY <1>4, <1>5
<1> QED
  BY <1>r, <1>4, <1>6 DEF r

-----------------------------------------------------------------------------

(* Priorities: three of them, one per sensor.                               *)
LEMMA PrioType ==
  ASSUME NEW d \in Sample
  PROVE  Prio(d) \in {1, 2, 3}
<1>1. d.sensor \in {"TempSensor", "AccelSensor", "GyroSensor"}
  BY SensorsAssumption DEF Sample, Priority
<1> QED
  BY <1>1 DEF Prio, Priority

\* main gives no two sensors the same priority.
LEMMA PrioOfSensor ==
  ASSUME NEW d \in Sample, NEW e \in Sample
  PROVE  d.sensor = e.sensor <=> Prio(d) = Prio(e)
<1>1. /\ d.sensor \in {"TempSensor", "AccelSensor", "GyroSensor"}
      /\ e.sensor \in {"TempSensor", "AccelSensor", "GyroSensor"}
  BY SensorsAssumption DEF Sample, Priority
<1> QED
  BY <1>1 DEF Prio, Priority

-----------------------------------------------------------------------------
(* What the two searches of the code return.                                *)

\* The search for the place of a newcomer returns one, whatever the buffer.
LEMMA InsertPosIs ==
  ASSUME NEW b \in Seq(Sample), NEW d \in Sample
  PROVE  /\ InsertPos(b, d) \in 0 .. Len(b)
         /\ \A i \in 1 .. InsertPos(b, d) : Prio(b[i]) >= Prio(d)
         /\ InsertPos(b, d) < Len(b) => Prio(d) > Prio(b[InsertPos(b, d) + 1])
<1> DEFINE G == {i \in 1 .. Len(b) : \A j \in 1 .. i : Prio(b[j]) >= Prio(d)}
<1>1. Len(b) \in Nat /\ G \subseteq 1 .. Len(b) /\ \A i \in G : \A j \in 1 .. i : j \in G
  OBVIOUS
<1>2. PICK k \in 0 .. Len(b) : (\A i \in 1 .. k : i \in G) /\ (k < Len(b) => k + 1 \notin G)
  <2> HIDE DEF G
  <2> QED
    BY <1>1, PrefixEnd
<1>3. \A i \in 1 .. k : Prio(b[i]) >= Prio(d)
  BY <1>2
<1>4. ASSUME k < Len(b) PROVE Prio(d) > Prio(b[k + 1])
  <2>1. k + 1 \in 1 .. Len(b) /\ k + 1 \notin G
    BY <1>2, <1>4
  <2>2. PICK j \in 1 .. k + 1 : ~ (Prio(b[j]) >= Prio(d))
    BY <2>1
  <2>3. j = k + 1
    BY <2>2, <1>3
  <2>4. Prio(b[k + 1]) \in {1, 2, 3} /\ Prio(d) \in {1, 2, 3}
    BY <2>1, PrioType
  <2> QED
    BY <2>2, <2>3, <2>4
<1>5. \E p \in 0 .. Len(b) : /\ \A i \in 1 .. p : Prio(b[i]) >= Prio(d)
                             /\ p < Len(b) => Prio(d) > Prio(b[p + 1])
  BY <1>3, <1>4
<1> QED
  BY <1>5 DEF InsertPos

\* min_by_key over a nonempty buffer: the first of the lowest residents.
LEMMA FirstLowestIs ==
  ASSUME NEW b \in Seq(Sample), Len(b) > 0
  PROVE  /\ FirstLowest(b) \in 1 .. Len(b)
         /\ \A j \in 1 .. Len(b) : Prio(b[FirstLowest(b)]) <= Prio(b[j])
         /\ \A j \in 1 .. FirstLowest(b) - 1 : Prio(b[FirstLowest(b)]) < Prio(b[j])
<1>1. \A i \in 1 .. Len(b) : Prio(b[i]) \in {1, 2, 3}
  BY PrioType
<1>2. PICK m \in 1 .. Len(b) : \A j \in 1 .. Len(b) : Prio(b[m]) <= Prio(b[j])
  <2>1. CASE \E i \in 1 .. Len(b) : Prio(b[i]) = 1
    <3>1. PICK i \in 1 .. Len(b) : Prio(b[i]) = 1
      BY <2>1
    <3>2. \A j \in 1 .. Len(b) : Prio(b[i]) <= Prio(b[j])
      BY <3>1, <1>1
    <3> QED
      BY <3>2
  <2>2. CASE (\A i \in 1 .. Len(b) : Prio(b[i]) # 1) /\ \E i \in 1 .. Len(b) : Prio(b[i]) = 2
    <3>1. PICK i \in 1 .. Len(b) : Prio(b[i]) = 2
      BY <2>2
    <3>2. \A j \in 1 .. Len(b) : Prio(b[i]) <= Prio(b[j])
      BY <3>1, <2>2, <1>1
    <3> QED
      BY <3>2
  <2>3. CASE \A i \in 1 .. Len(b) : Prio(b[i]) # 1 /\ Prio(b[i]) # 2
    <3>1. 1 \in 1 .. Len(b) /\ \A i \in 1 .. Len(b) : Prio(b[i]) = 3
      BY <2>3, <1>1
    <3> QED
      BY <3>1
  <2> QED
    BY <2>1, <2>2, <2>3
<1> DEFINE S == {i \in 1 .. Len(b) : Prio(b[i]) = Prio(b[m])}
<1>3. PICK f \in S : \A j \in 1 .. f - 1 : j \notin S
  <2>1. S \subseteq 1 .. Len(b) /\ m \in S /\ Len(b) \in Nat
    OBVIOUS
  <2> HIDE DEF S
  <2> QED
    BY <2>1, FirstIndex
<1>4. f \in 1 .. Len(b) /\ \A j \in 1 .. Len(b) : Prio(b[f]) <= Prio(b[j])
  BY <1>2, <1>3
<1>5. ASSUME NEW j \in 1 .. f - 1 PROVE Prio(b[f]) < Prio(b[j])
  <2>1. j \in 1 .. Len(b) /\ Prio(b[j]) # Prio(b[f])
    BY <1>3, <1>4
  <2>2. Prio(b[f]) <= Prio(b[j]) /\ Prio(b[f]) \in {1, 2, 3} /\ Prio(b[j]) \in {1, 2, 3}
    BY <2>1, <1>1, <1>4
  <2> QED
    BY <2>1, <2>2
<1>6. \E i \in 1 .. Len(b) : /\ \A j \in 1 .. Len(b) : Prio(b[i]) <= Prio(b[j])
                             /\ \A j \in 1 .. i - 1 : Prio(b[i]) < Prio(b[j])
  BY <1>4, <1>5
<1> QED
  BY <1>6 DEF FirstLowest

-----------------------------------------------------------------------------
(* What the two updates of the buffer keep.                                 *)

\* Insert makes one resident more, the newcomer between the others.
LEMMA InsertIs ==
  ASSUME NEW b \in Seq(Sample), NEW d \in Sample
  PROVE  /\ Insert(b, d) \in Seq(Sample)
         /\ Len(Insert(b, d)) = Len(b) + 1
         /\ \A i \in 1 .. Len(b) + 1 :
              Insert(b, d)[i] = IF i <= InsertPos(b, d) THEN b[i]
                                ELSE IF i = InsertPos(b, d) + 1 THEN d ELSE b[i - 1]
<1> DEFINE p == InsertPos(b, d)
<1>1. p \in 0 .. Len(b)
  BY InsertPosIs
<1>2. Insert(b, d) = InsertAt(b, p + 1, d)
  BY DEF Insert
<1> HIDE DEF p
<1>3. /\ InsertAt(b, p + 1, d) \in Seq(Sample)
      /\ Len(InsertAt(b, p + 1, d)) = Len(b) + 1
      /\ \A i \in 1 .. Len(b) + 1 :
           InsertAt(b, p + 1, d)[i] =
             IF i <= p THEN b[i] ELSE IF i = p + 1 THEN d ELSE b[i - 1]
  BY <1>1, InsertedAt
<1>4. /\ Insert(b, d) \in Seq(Sample)
      /\ Len(Insert(b, d)) = Len(b) + 1
      /\ \A i \in 1 .. Len(b) + 1 :
           Insert(b, d)[i] = IF i <= p THEN b[i] ELSE IF i = p + 1 THEN d ELSE b[i - 1]
  BY <1>2, <1>3
<1> QED
  BY <1>4 DEF p

\* Insert brings in nobody but the newcomer.
LEMMA InsertMembers ==
  ASSUME NEW b \in Seq(Sample), NEW d \in Sample,
         NEW i \in 1 .. Len(b) + 1
  PROVE  \/ Insert(b, d)[i] = d
         \/ \E j \in 1 .. Len(b) : Insert(b, d)[i] = b[j]
<1> DEFINE p == InsertPos(b, d)
<1>1. p \in 0 .. Len(b)
  BY InsertPosIs
<1>2. Insert(b, d)[i] = IF i <= p THEN b[i] ELSE IF i = p + 1 THEN d ELSE b[i - 1]
  BY InsertIs
<1> HIDE DEF p
<1>3. CASE i <= p
  <2>1. i \in 1 .. Len(b)
    BY <1>1, <1>3
  <2> QED
    BY <2>1, <1>2, <1>3
<1>4. CASE i = p + 1
  BY <1>1, <1>2, <1>4
<1>5. CASE i > p + 1
  <2>1. i - 1 \in 1 .. Len(b) /\ ~ (i <= p) /\ i # p + 1
    BY <1>1, <1>5
  <2> QED
    BY <2>1, <1>2
<1> QED
  BY <1>1, <1>3, <1>4, <1>5

\* A newcomer younger than the residents of its sensor keeps the buffer sorted.
LEMMA InsertSorted ==
  ASSUME NEW b \in Seq(Sample), NEW d \in Sample, Sorted(b),
         \A i \in 1 .. Len(b) : b[i].sensor = d.sensor => b[i].n < d.n
  PROVE  Sorted(Insert(b, d))
<1> DEFINE p == InsertPos(b, d)
           r == Insert(b, d)
<1>1. /\ p \in 0 .. Len(b)
      /\ \A i \in 1 .. p : Prio(b[i]) >= Prio(d)
      /\ p < Len(b) => Prio(d) > Prio(b[p + 1])
  BY InsertPosIs
<1>l. Len(b) \in Nat
  OBVIOUS
<1>i. /\ Len(r) = Len(b) + 1
      /\ \A i \in 1 .. Len(b) + 1 :
           r[i] = IF i <= p THEN b[i] ELSE IF i = p + 1 THEN d ELSE b[i - 1]
  BY InsertIs
<1>2. /\ Len(r) = Len(b) + 1 /\ Len(b) \in Nat
      /\ \A i \in 1 .. Len(b) + 1 :
           r[i] = IF i <= p THEN b[i] ELSE IF i = p + 1 THEN d ELSE b[i - 1]
  BY <1>l, <1>i
<1>3. \A i \in 1 .. Len(b) : b[i] \in Sample /\ Prio(b[i]) \in {1, 2, 3}
  BY PrioType
<1>4. Prio(d) \in {1, 2, 3}
  BY PrioType
<1>5. \A i, j \in 1 .. Len(b) :
        i < j => /\ Prio(b[i]) >= Prio(b[j])
                 /\ b[i].sensor = b[j].sensor => b[i].n < b[j].n
  BY DEF Sorted
<1>6. ASSUME NEW i \in 1 .. Len(b), i > p
      PROVE  Prio(b[i]) < Prio(d)
  <2>1. p + 1 \in 1 .. Len(b) /\ Prio(d) > Prio(b[p + 1])
    BY <1>1, <1>6, <1>2
  <2>2. CASE i = p + 1
    BY <2>1, <2>2
  <2>3. CASE i > p + 1
    <3>1. Prio(b[p + 1]) >= Prio(b[i])
      BY <2>1, <2>3, <1>5
    <3>2. Prio(b[p + 1]) \in {1, 2, 3} /\ Prio(b[i]) \in {1, 2, 3}
      BY <2>1, <1>3
    <3> QED
      BY <3>1, <3>2, <2>1, <1>4
  <2> QED
    BY <2>2, <2>3, <1>6, <1>1
<1>7. ASSUME NEW i \in 1 .. Len(b), i > p
      PROVE  b[i].sensor # d.sensor
  <2>1. Prio(b[i]) < Prio(d) /\ Prio(b[i]) \in {1, 2, 3}
    BY <1>6, <1>7, <1>3
  <2>2. Prio(b[i]) # Prio(d)
    BY <2>1, <1>4
  <2> QED
    BY <2>2, <1>3, PrioOfSensor
<1> HIDE DEF p, r
<1>8. ASSUME NEW i \in 1 .. Len(b) + 1, NEW j \in 1 .. Len(b) + 1, i < j
      PROVE  /\ Prio(r[i]) >= Prio(r[j])
             /\ r[i].sensor = r[j].sensor => r[i].n < r[j].n
  <2>1. CASE j <= p
    <3>1. i \in 1 .. Len(b) /\ j \in 1 .. Len(b) /\ i <= p
      BY <2>1, <1>1, <1>8, <1>2
    <3>2. r[i] = b[i] /\ r[j] = b[j]
      BY <3>1, <2>1, <1>2
    <3> QED
      BY <3>1, <3>2, <1>5, <1>8
  <2>2. CASE j = p + 1
    <3>1. i \in 1 .. Len(b) /\ i <= p /\ i \in 1 .. p /\ ~ (j <= p)
      BY <2>2, <1>1, <1>8, <1>2
    <3>2. r[i] = b[i] /\ r[j] = d
      BY <3>1, <2>2, <1>2
    <3>3. Prio(b[i]) >= Prio(d)
      BY <3>1, <1>1
    <3> QED
      BY <3>1, <3>2, <3>3
  <2>3. CASE j > p + 1
    <3>1. j - 1 \in 1 .. Len(b) /\ j - 1 > p /\ ~ (j <= p) /\ j # p + 1
      BY <2>3, <1>1, <1>8, <1>2
    <3>2. r[j] = b[j - 1]
      BY <3>1, <1>2
    <3>3. CASE i <= p
      <4>1. i \in 1 .. Len(b) /\ i < j - 1
        BY <3>3, <1>1, <1>2, <2>3
      <4>2. r[i] = b[i]
        BY <3>3, <1>2
      <4> QED
        BY <4>1, <4>2, <3>1, <3>2, <1>5
    <3>4. CASE i = p + 1
      <4>1. r[i] = d
        BY <3>4, <1>1, <1>2
      <4>2. Prio(b[j - 1]) < Prio(d) /\ Prio(b[j - 1]) \in {1, 2, 3}
        BY <3>1, <1>6, <1>3
      <4>3. b[j - 1].sensor # d.sensor
        BY <3>1, <1>7
      <4> QED
        BY <4>1, <4>2, <4>3, <3>2, <1>4
    <3>5. CASE i > p + 1
      <4>1. i - 1 \in 1 .. Len(b) /\ i - 1 < j - 1 /\ ~ (i <= p) /\ i # p + 1
        BY <3>5, <1>1, <1>2, <1>8
      <4>2. r[i] = b[i - 1]
        BY <4>1, <1>2
      <4> QED
        BY <4>1, <4>2, <3>1, <3>2, <1>5
    <3> QED
      BY <3>3, <3>4, <3>5, <1>1
  <2> QED
    BY <2>1, <2>2, <2>3, <1>1
<1> QED
  BY <1>8, <1>2 DEF Sorted, r

\* remove(k) leaves residents from the other positions only.
LEMMA RemoveMembers ==
  ASSUME NEW b \in Seq(Sample), NEW k \in 1 .. Len(b), NEW i \in 1 .. Len(b) - 1
  PROVE  \E j \in 1 .. Len(b) : /\ RemoveAt(b, k)[i] = b[j]
                                /\ j # k
<1>1. RemoveAt(b, k)[i] = IF i < k THEN b[i] ELSE b[i + 1]
  BY RemovedAt
<1>2. CASE i < k
  <2>1. i \in 1 .. Len(b) /\ i # k
    BY <1>2
  <2> QED
    BY <2>1, <1>1, <1>2
<1>3. CASE ~ (i < k)
  <2>1. i + 1 \in 1 .. Len(b) /\ i + 1 # k
    BY <1>3
  <2> QED
    BY <2>1, <1>1, <1>3
<1> QED
  BY <1>2, <1>3

\* A resident taken out leaves the others in order.
LEMMA RemoveSorted ==
  ASSUME NEW b \in Seq(Sample), NEW k \in 1 .. Len(b), Sorted(b)
  PROVE  Sorted(RemoveAt(b, k))
<1> DEFINE r == RemoveAt(b, k)
<1>1. /\ Len(r) = Len(b) - 1
      /\ \A i \in 1 .. Len(b) - 1 : r[i] = IF i < k THEN b[i] ELSE b[i + 1]
  BY RemovedAt
<1>2. Len(b) \in Nat
  OBVIOUS
<1> HIDE DEF r
<1>3. ASSUME NEW i \in 1 .. Len(r), NEW j \in 1 .. Len(r), i < j
      PROVE  /\ Prio(r[i]) >= Prio(r[j])
             /\ r[i].sensor = r[j].sensor => r[i].n < r[j].n
  <2> DEFINE x == IF i < k THEN i ELSE i + 1
             y == IF j < k THEN j ELSE j + 1
  <2>1. x \in 1 .. Len(b) /\ y \in 1 .. Len(b) /\ x < y
    BY <1>1, <1>2, <1>3
  <2>2. r[i] = b[x] /\ r[j] = b[y]
    BY <1>1, <1>2
  <2> HIDE DEF x, y
  <2> QED
    BY <2>1, <2>2 DEF Sorted
<1> QED
  BY <1>3 DEF Sorted, r

-----------------------------------------------------------------------------
\* Every backlog finds a window size.
LEMMA WindowType ==
  ASSUME NEW backlog \in Nat
  PROVE  Window(backlog) \in Nat
<1> DEFINE m == Len(BacklogSteps)
           G == {i \in 1 .. m : backlog > BacklogSteps[i]}
<1>1. m \in Nat /\ Len(WindowSteps) = m + 1 /\ WindowSteps \in Seq(Nat \ {0})
  BY WindowAssumption
<1>2. IsFiniteSet(1 .. m) /\ Cardinality(1 .. m) = m
  <2>1. m \in Nat
    BY <1>1
  <2> HIDE DEF m
  <2> QED
    BY <2>1, FS_Interval
<1>3. IsFiniteSet(G) /\ Cardinality(G) <= m /\ Cardinality(G) \in Nat
  BY <1>2, FS_Subset, FS_CardinalityType
<1> DEFINE c == Cardinality(G)
<1>4. Window(backlog) = WindowSteps[1 + c]
  BY DEF Window
<1>5. c \in Nat /\ c <= m
  BY <1>3
<1> HIDE DEF c, m
<1>6. 1 + c \in 1 .. Len(WindowSteps)
  BY <1>1, <1>5
<1>7. WindowSteps[1 + c] \in Nat \ {0}
  BY <1>1, <1>6
<1> QED
  BY <1>4, <1>7

\* Every variable keeps its type: the channel and the buffer their bounds.
THEOREM TypeCorrect == Spec => []TypeOK
<1>1. Init => TypeOK
  <2> SUFFICES ASSUME Init
               PROVE  TypeOK
    OBVIOUS
  <2> USE DEF Init
  <2>1. /\ sensor_chan \in Seq(Sample) /\ Len(sensor_chan) = 0
        /\ buffer \in Seq(Sample) /\ Len(buffer) = 0
    OBVIOUS
  <2>2. Len(sensor_chan) <= SensorCap /\ Len(buffer) <= buffer_limit
    BY <2>1, LimitsAssumption
  <2>3. cycle \in [Sensors -> 0 .. MaxCycles] /\ done \in [Sensors -> Nat]
    BY LimitsAssumption
  <2>4. sensor_pc \in [Sensors -> {"loop", "send", "ended"}]
    OBVIOUS
  <2>5. /\ handled \in Nat /\ max_per_loop \in Nat
        /\ made \in Nat /\ handed \in Nat /\ dropped_samples \in Nat
    OBVIOUS
  <2> QED
    BY <2>1, <2>2, <2>3, <2>4, <2>5 DEF TypeOK
<1>2. TypeOK /\ [Next]_vars => TypeOK'
  <2> SUFFICES ASSUME TypeOK, [Next]_vars
               PROVE  TypeOK'
    OBVIOUS
  <2> USE DEF TypeOK
  <2>1. ASSUME NEW s \in Sensors, SensorStep(s)
        PROVE  TypeOK'
    <3>1. CASE SensorMake(s)
      BY <3>1, LimitsAssumption DEF SensorMake, windowVars, doneVars
    <3>2. CASE SensorSend(s)
      <4> DEFINE e == [sensor |-> s, n |-> cycle[s]]
      <4>1. e \in Sample
        BY LimitsAssumption DEF Sample
      <4> HIDE DEF e
      <4>2. sensor_chan' = Append(sensor_chan, e)
        BY <3>2 DEF SensorSend, e
      <4>3. sensor_chan' \in Seq(Sample) /\ Len(sensor_chan') <= SensorCap
        <5>1. Len(sensor_chan) < SensorCap
          BY <3>2 DEF SensorSend
        <5> QED
          BY <4>1, <4>2, <5>1, LimitsAssumption
      <4>4. sensor_pc' \in [Sensors -> {"loop", "send", "ended"}]
        BY <3>2 DEF SensorSend
      <4>5. UNCHANGED <<cycle, made, task_pc, buffer, handled, max_per_loop, done, handed,
                        critical_sensor_flag, dropped_samples, shutdown_flag>>
        BY <3>2 DEF SensorSend, windowVars, doneVars
      <4> QED
        BY <4>3, <4>4, <4>5
    <3>3. CASE SensorSendError(s)
      BY <3>3 DEF SensorSendError, windowVars, doneVars
    <3>4. CASE SensorEnd(s)
      BY <3>4 DEF SensorEnd, windowVars, doneVars
    <3> QED
      BY <2>1, <3>1, <3>2, <3>3, <3>4 DEF SensorStep
  <2>2. CASE TaskTop
    BY <2>2 DEF TaskTop, sensorVars, windowVars, doneVars
  <2>3. CASE TaskEnd
    BY <2>3, LimitsAssumption DEF TaskEnd, sensorVars, windowVars, doneVars
  <2>4. CASE TaskIngest
    <3> DEFINE d == Head(sensor_chan)
    <3>1. d \in Sample /\ sensor_chan' \in Seq(Sample) /\ Len(sensor_chan') <= SensorCap
      BY <2>4, LimitsAssumption DEF TaskIngest
    <3>2. buffer' \in Seq(Sample) /\ Len(buffer') <= buffer_limit /\ dropped_samples' \in Nat
      <4>1. CASE ~ Full /\ buffer' = Insert(buffer, d) /\ UNCHANGED dropped_samples
        <5>1. buffer' \in Seq(Sample) /\ Len(buffer') = Len(buffer) + 1
          BY <3>1, <4>1, InsertIs
        <5> QED
          BY <5>1, <4>1, LimitsAssumption DEF Full
      <4>2. CASE record_buffer_drop /\ UNCHANGED buffer
        BY <4>2 DEF record_buffer_drop
      <4>3. CASE /\ Full /\ record_buffer_drop
                 /\ buffer' = Insert(RemoveAt(buffer, FirstLowest(buffer)), d)
        <5> DEFINE k == FirstLowest(buffer)
                   b == RemoveAt(buffer, k)
        <5>1. Len(buffer) > 0 /\ Len(buffer) = buffer_limit
          BY <4>3, LimitsAssumption DEF Full
        <5>2. k \in 1 .. Len(buffer)
          BY <5>1, FirstLowestIs
        <5> HIDE DEF k
        <5>3. b \in Seq(Sample) /\ Len(b) = Len(buffer) - 1
          BY <5>2, RemovedAt
        <5>4. buffer' = Insert(b, d)
          BY <4>3 DEF k
        <5> HIDE DEF b
        <5>5. Insert(b, d) \in Seq(Sample) /\ Len(Insert(b, d)) = Len(b) + 1
          BY <3>1, <5>3, InsertIs
        <5> QED
          BY <5>1, <5>3, <5>4, <5>5, <4>3 DEF record_buffer_drop
      <4> QED
        BY <2>4, <4>1, <4>2, <4>3 DEF TaskIngest
    <3> QED
      BY <2>4, <3>1, <3>2 DEF TaskIngest, sensorVars, windowVars, doneVars
  <2>5. CASE TaskOpenWindow
    <3>1. Len(buffer) \in Nat
      OBVIOUS
    <3>2. Window(Len(buffer)) \in Nat
      BY <3>1, WindowType
    <3> QED
      BY <2>5, <3>2 DEF TaskOpenWindow, sensorVars, doneVars
  <2>6. CASE TaskProcess
    <3>1. 1 \in 1 .. Len(buffer) /\ buffer[1] \in Sample
      BY <2>6 DEF TaskProcess
    <3>2. RemoveAt(buffer, 1) \in Seq(Sample) /\ Len(RemoveAt(buffer, 1)) = Len(buffer) - 1
      BY <3>1, RemovedAt
    <3>3. buffer' \in Seq(Sample) /\ Len(buffer') <= buffer_limit
      BY <2>6, <3>2, LimitsAssumption DEF TaskProcess, PopPos
    <3>4. done' \in [Sensors -> Nat]
      BY <2>6, <3>1 DEF TaskProcess, PopPos, Sample
    <3> QED
      BY <2>6, <3>3, <3>4 DEF TaskProcess, sensorVars
  <2>7. CASE TaskIdleSlot
    BY <2>7 DEF TaskIdleSlot, sensorVars, doneVars
  <2>8. CASE TaskCloseWindow
    BY <2>8 DEF TaskCloseWindow, sensorVars, doneVars
  <2>9. CASE SchedulerClears
    BY <2>9 DEF SchedulerClears, sensorVars, windowVars
  <2>10. CASE RaiseShutdown
    BY <2>10 DEF RaiseShutdown, sensorVars, windowVars, doneVars
  <2>11. CASE UNCHANGED vars
    BY <2>11 DEF vars, sensorVars, windowVars, doneVars
  <2> QED
    BY <2>1, <2>2, <2>3, <2>4, <2>5, <2>6, <2>7, <2>8, <2>9, <2>10, <2>11 DEF Next, TaskStep
<1> QED
  BY <1>1, <1>2, PTL DEF Spec

-----------------------------------------------------------------------------
(* The samples of a sensor stay in the order it made them.  SensorOrder     *)
(* alone is not inductive: a send must append a sample younger than any     *)
(* other of its sensor, so the number of the last sample sent bounds them.  *)

LastSent(s) == IF sensor_pc[s] = "send" THEN cycle[s] - 1 ELSE cycle[s]

Bounded ==
    \A s \in Sensors :
        /\ \A i \in 1 .. Len(sensor_chan) :
               sensor_chan[i].sensor = s => sensor_chan[i].n <= LastSent(s)
        /\ \A i \in 1 .. Len(buffer) : buffer[i].sensor = s => buffer[i].n <= LastSent(s)
        /\ done[s] <= LastSent(s)

\* The parts of SensorOrder.
BufferAfterDone == \A i \in 1 .. Len(buffer) : buffer[i].n > done[buffer[i].sensor]
BufferBeforeChan ==
    \A i \in 1 .. Len(buffer), j \in 1 .. Len(sensor_chan) :
        buffer[i].sensor = sensor_chan[j].sensor => buffer[i].n < sensor_chan[j].n
ChanByAge ==
    \A i, j \in 1 .. Len(sensor_chan) :
        (i < j /\ sensor_chan[i].sensor = sensor_chan[j].sensor)
            => sensor_chan[i].n < sensor_chan[j].n
ChanAfterDone ==
    \A j \in 1 .. Len(sensor_chan) : sensor_chan[j].n > done[sensor_chan[j].sensor]

OrderInv ==
    /\ BufferSorted
    /\ BufferAfterDone /\ BufferBeforeChan
    /\ ChanByAge /\ ChanAfterDone
    /\ Bounded

\* What a queue of samples holds.
LEMMA SampleFields ==
  ASSUME NEW q \in Seq(Sample)
  PROVE  \A i \in 1 .. Len(q) :
           q[i] \in Sample /\ q[i].sensor \in Sensors /\ q[i].n \in Nat
<1> SUFFICES ASSUME NEW i \in 1 .. Len(q)
             PROVE  q[i] \in Sample /\ q[i].sensor \in Sensors /\ q[i].n \in Nat
  OBVIOUS
<1>1. q[i] \in Sample
  OBVIOUS
<1> QED
  BY <1>1 DEF Sample

\* A sensor has sent no more than it has made.
LEMMA LastSentType ==
  ASSUME TypeOK
  PROVE  \A s \in Sensors :
           LastSent(s) \in Int /\ cycle[s] \in Int /\ LastSent(s) <= cycle[s]
BY LimitsAssumption DEF TypeOK, LastSent

\* The inductive invariant gives the property the runs check.
LEMMA OrderGives ==
  TypeOK /\ OrderInv => SensorOrder
<1> SUFFICES ASSUME TypeOK, OrderInv
             PROVE  SensorOrder
  OBVIOUS
<1>1. ASSUME NEW j \in 1 .. Len(sensor_chan)
      PROVE  sensor_chan[j].n <= cycle[sensor_chan[j].sensor]
  <2>1. sensor_chan[j].sensor \in Sensors /\ sensor_chan[j].n \in Nat
    BY SampleFields DEF TypeOK
  <2>2. cycle[sensor_chan[j].sensor] \in Int
    BY <2>1, LimitsAssumption DEF TypeOK
  <2> QED
    BY <2>1, <2>2, LastSentType DEF OrderInv, Bounded
<1> QED
  BY <1>1 DEF OrderInv, SensorOrder, BufferAfterDone, BufferBeforeChan, ChanByAge,
              ChanAfterDone

\* A step that leaves the samples in place and lowers no sensor's last number.
LEMMA OrderSame ==
  ASSUME TypeOK, TypeOK', OrderInv, UNCHANGED <<sensor_chan, buffer, done>>,
         \A s \in Sensors : LastSent(s)' >= LastSent(s)
  PROVE  OrderInv'
<1>1. BufferSorted' /\ BufferAfterDone' /\ BufferBeforeChan' /\ ChanByAge' /\ ChanAfterDone'
  BY DEF OrderInv, BufferSorted, BufferAfterDone, BufferBeforeChan, ChanByAge, ChanAfterDone
<1>2. \A s \in Sensors : LastSent(s) \in Int /\ LastSent(s)' \in Int
  BY LimitsAssumption DEF TypeOK, LastSent
<1>3. /\ \A i \in 1 .. Len(sensor_chan) :
           sensor_chan[i].sensor \in Sensors /\ sensor_chan[i].n \in Nat
      /\ \A i \in 1 .. Len(buffer) : buffer[i].sensor \in Sensors /\ buffer[i].n \in Nat
      /\ \A s \in Sensors : done[s] \in Nat
  BY SampleFields DEF TypeOK
<1>4. Bounded'
  BY <1>2, <1>3 DEF OrderInv, Bounded
<1> QED
  BY <1>1, <1>4 DEF OrderInv

\* A send appends the youngest sample of its sensor.
LEMMA OrderSend ==
  ASSUME TypeOK, TypeOK', OrderInv, NEW s \in Sensors, SensorSend(s)
  PROVE  OrderInv'
<1> DEFINE e == [sensor |-> s, n |-> cycle[s]]
           m == Len(sensor_chan)
<1>1. /\ sensor_chan' = Append(sensor_chan, e) /\ sensor_pc[s] = "send"
      /\ sensor_pc' = [sensor_pc EXCEPT ![s] = "loop"]
      /\ UNCHANGED <<cycle, buffer, done>>
  BY DEF SensorSend, doneVars
<1>2. e.sensor = s /\ e.n = cycle[s] /\ cycle[s] \in Nat
  BY LimitsAssumption DEF TypeOK
<1> HIDE DEF e
<1>3. /\ sensor_chan \in Seq(Sample) /\ buffer \in Seq(Sample) /\ m \in Nat
      /\ cycle \in [Sensors -> 0 .. MaxCycles] /\ done \in [Sensors -> Nat]
      /\ sensor_pc \in [Sensors -> {"loop", "send", "ended"}]
  BY DEF TypeOK
<1>4. /\ Len(sensor_chan') = m + 1 /\ sensor_chan'[m + 1] = e
      /\ \A i \in 1 .. m : sensor_chan'[i] = sensor_chan[i]
  BY <1>1, <1>3
<1>5. LastSent(s) = cycle[s] - 1 /\ LastSent(s)' = cycle[s]
  BY <1>1, <1>3 DEF LastSent
<1>6. \A u \in Sensors : /\ LastSent(u) \in Int /\ LastSent(u)' \in Int
                         /\ LastSent(u) <= LastSent(u)'
  <2> SUFFICES ASSUME NEW u \in Sensors
               PROVE  /\ LastSent(u) \in Int /\ LastSent(u)' \in Int
                      /\ LastSent(u) <= LastSent(u)'
    OBVIOUS
  <2>1. CASE u = s
    BY <2>1, <1>2, <1>5
  <2>2. CASE u # s
    <3>1. sensor_pc'[u] = sensor_pc[u] /\ cycle'[u] = cycle[u]
      BY <2>2, <1>1, <1>3
    <3>2. LastSent(u)' = LastSent(u)
      BY <3>1 DEF LastSent
    <3> QED
      BY <3>2, LastSentType
  <2> QED
    BY <2>1, <2>2
<1>7. /\ \A i \in 1 .. m : sensor_chan[i].sensor \in Sensors /\ sensor_chan[i].n \in Nat
      /\ \A i \in 1 .. Len(buffer) : buffer[i].sensor \in Sensors /\ buffer[i].n \in Nat
      /\ \A u \in Sensors : done[u] \in Nat
  BY <1>3, SampleFields
<1>8. /\ \A i \in 1 .. m : sensor_chan[i].sensor = s => sensor_chan[i].n < cycle[s]
      /\ \A i \in 1 .. Len(buffer) : buffer[i].sensor = s => buffer[i].n < cycle[s]
      /\ done[s] < cycle[s]
  BY <1>2, <1>5, <1>7 DEF OrderInv, Bounded
<1>9. BufferSorted' /\ BufferAfterDone'
  BY <1>1 DEF OrderInv, BufferSorted, BufferAfterDone
<1>m. m \in Nat
  BY <1>3
<1>10. BufferBeforeChan'
  <2> SUFFICES ASSUME NEW i \in 1 .. Len(buffer), NEW j \in 1 .. m + 1,
                      buffer[i].sensor = sensor_chan'[j].sensor
               PROVE  buffer[i].n < sensor_chan'[j].n
    BY <1>1, <1>4 DEF BufferBeforeChan
  <2>1. CASE j = m + 1
    BY <2>1, <1>2, <1>4, <1>8
  <2>2. CASE j \in 1 .. m
    BY <2>2, <1>4 DEF OrderInv, BufferBeforeChan
  <2> QED
    BY <2>1, <2>2, <1>m
<1>11. ChanByAge'
  <2> SUFFICES ASSUME NEW i \in 1 .. m + 1, NEW j \in 1 .. m + 1, i < j,
                      sensor_chan'[i].sensor = sensor_chan'[j].sensor
               PROVE  sensor_chan'[i].n < sensor_chan'[j].n
    BY <1>4 DEF ChanByAge
  <2>1. i \in 1 .. m
    BY <1>m
  <2>2. CASE j = m + 1
    BY <2>1, <2>2, <1>2, <1>4, <1>8
  <2>3. CASE j \in 1 .. m
    BY <2>1, <2>3, <1>4 DEF OrderInv, ChanByAge
  <2> QED
    BY <2>2, <2>3, <1>m
<1>12. ChanAfterDone'
  <2> SUFFICES ASSUME NEW j \in 1 .. m + 1
               PROVE  sensor_chan'[j].n > done[sensor_chan'[j].sensor]
    BY <1>1, <1>4 DEF ChanAfterDone
  <2>1. CASE j = m + 1
    BY <2>1, <1>2, <1>4, <1>7, <1>8
  <2>2. CASE j \in 1 .. m
    BY <2>2, <1>4 DEF OrderInv, ChanAfterDone
  <2> QED
    BY <2>1, <2>2, <1>m
<1>13. Bounded'
  <2> SUFFICES ASSUME NEW u \in Sensors
               PROVE  /\ \A i \in 1 .. m + 1 :
                           sensor_chan'[i].sensor = u => sensor_chan'[i].n <= LastSent(u)'
                      /\ \A i \in 1 .. Len(buffer) :
                           buffer[i].sensor = u => buffer[i].n <= LastSent(u)'
                      /\ done[u] <= LastSent(u)'
    BY <1>1, <1>4 DEF Bounded
  <2>1. /\ \A i \in 1 .. m : sensor_chan[i].sensor = u => sensor_chan[i].n <= LastSent(u)
        /\ \A i \in 1 .. Len(buffer) : buffer[i].sensor = u => buffer[i].n <= LastSent(u)
        /\ done[u] <= LastSent(u)
    BY DEF OrderInv, Bounded
  <2>2. LastSent(u) \in Int /\ LastSent(u)' \in Int /\ LastSent(u) <= LastSent(u)'
    BY <1>6
  <2>3. ASSUME NEW i \in 1 .. m + 1, sensor_chan'[i].sensor = u
        PROVE  sensor_chan'[i].n <= LastSent(u)'
    <3>1. CASE i = m + 1
      BY <2>3, <3>1, <1>2, <1>4, <1>5
    <3>2. CASE i \in 1 .. m
      BY <2>1, <2>2, <2>3, <3>2, <1>4, <1>7
    <3> QED
      BY <3>1, <3>2, <1>m
  <2> QED
    BY <2>1, <2>2, <2>3, <1>7
<1> QED
  BY <1>9, <1>10, <1>11, <1>12, <1>13 DEF OrderInv

\* What TaskIngest does to the buffer: it keeps it sorted and adds nothing but
\* the newcomer.
LEMMA IngestBuffer ==
  ASSUME TypeOK, OrderInv, TaskIngest
  PROVE  /\ Sorted(buffer')
         /\ \A i \in 1 .. Len(buffer') :
              \/ buffer'[i] = Head(sensor_chan)
              \/ \E j \in 1 .. Len(buffer) : buffer'[i] = buffer[j]
<1> DEFINE d == Head(sensor_chan)
<1>1. d \in Sample /\ d = sensor_chan[1] /\ 1 \in 1 .. Len(sensor_chan)
  BY DEF TaskIngest, TypeOK
<1>2. buffer \in Seq(Sample) /\ Sorted(buffer)
  BY DEF TypeOK, OrderInv, BufferSorted
<1>3. \A i \in 1 .. Len(buffer) : buffer[i].sensor = d.sensor => buffer[i].n < d.n
  BY <1>1 DEF OrderInv, BufferBeforeChan
<1>4. CASE ~ Full /\ buffer' = Insert(buffer, d)
  <2>1. d \in Sample
    BY <1>1
  <2> HIDE DEF d
  <2>2. Sorted(Insert(buffer, d))
    BY <2>1, <1>2, <1>3, InsertSorted
  <2>3. Len(Insert(buffer, d)) = Len(buffer) + 1
    BY <2>1, <1>2, InsertIs
  <2>4. \A i \in 1 .. Len(buffer) + 1 :
          \/ Insert(buffer, d)[i] = d
          \/ \E j \in 1 .. Len(buffer) : Insert(buffer, d)[i] = buffer[j]
    BY <2>1, <1>2, InsertMembers
  <2> QED
    BY <2>2, <2>3, <2>4, <1>4 DEF d
<1>5. CASE UNCHANGED buffer
  BY <1>2, <1>5
<1>6. CASE Full /\ buffer' = Insert(RemoveAt(buffer, FirstLowest(buffer)), d)
  <2> DEFINE k == FirstLowest(buffer)
             b == RemoveAt(buffer, k)
  <2>1. d \in Sample
    BY <1>1
  <2>2. buffer' = Insert(b, d)
    BY <1>6
  <2> HIDE DEF d
  <2>3. Len(buffer) > 0
    BY <1>2, <1>6, LimitsAssumption DEF Full
  <2>4. k \in 1 .. Len(buffer)
    BY <2>3, <1>2, FirstLowestIs
  <2> HIDE DEF k
  <2>5. b \in Seq(Sample) /\ Len(b) = Len(buffer) - 1 /\ Sorted(b)
    BY <2>4, <1>2, RemovedAt, RemoveSorted
  <2>6. \A i \in 1 .. Len(buffer) - 1 : \E j \in 1 .. Len(buffer) : b[i] = buffer[j]
    BY <2>4, <1>2, RemoveMembers
  <2> HIDE DEF b
  <2>7. \A i \in 1 .. Len(b) : b[i].sensor = d.sensor => b[i].n < d.n
    BY <2>5, <2>6, <1>3
  <2>8. Sorted(Insert(b, d))
    BY <2>1, <2>5, <2>7, InsertSorted
  <2>9. Len(Insert(b, d)) = Len(b) + 1
    BY <2>1, <2>5, InsertIs
  <2>10. \A i \in 1 .. Len(b) + 1 :
           \/ Insert(b, d)[i] = d
           \/ \E j \in 1 .. Len(b) : Insert(b, d)[i] = b[j]
    BY <2>1, <2>5, InsertMembers
  <2>11. \A i \in 1 .. Len(Insert(b, d)) :
           \/ Insert(b, d)[i] = d
           \/ \E j \in 1 .. Len(buffer) : Insert(b, d)[i] = buffer[j]
    BY <2>5, <2>6, <2>9, <2>10
  <2> QED
    BY <2>2, <2>8, <2>11 DEF d
<1> QED
  BY <1>4, <1>5, <1>6 DEF TaskIngest

\* A sample goes from the channel to the buffer behind those of its sensor.
LEMMA OrderIngest ==
  ASSUME TypeOK, TypeOK', OrderInv, TaskIngest
  PROVE  OrderInv'
<1> DEFINE d == Head(sensor_chan)
           m == Len(sensor_chan)
<1>1. /\ UNCHANGED <<sensor_pc, cycle, done>> /\ sensor_chan' = Tail(sensor_chan)
      /\ sensor_chan # << >>
  BY DEF TaskIngest, sensorVars, doneVars
<1>2. /\ sensor_chan \in Seq(Sample) /\ buffer \in Seq(Sample)
      /\ buffer' \in Seq(Sample) /\ done \in [Sensors -> Nat]
  BY DEF TypeOK
<1>3. /\ m \in Nat /\ m > 0 /\ d = sensor_chan[1]
      /\ Len(sensor_chan') = m - 1
      /\ \A i \in 1 .. m - 1 : i + 1 \in 1 .. m /\ sensor_chan'[i] = sensor_chan[i + 1]
  BY <1>1, <1>2
<1>4. /\ Sorted(buffer')
      /\ \A i \in 1 .. Len(buffer') :
           \/ buffer'[i] = d
           \/ \E j \in 1 .. Len(buffer) : buffer'[i] = buffer[j]
  BY IngestBuffer
<1> HIDE DEF d
<1>5. BufferSorted'
  BY <1>4 DEF BufferSorted
<1>6. BufferAfterDone'
  BY <1>1, <1>3, <1>4 DEF OrderInv, BufferAfterDone, ChanAfterDone
<1>7. BufferBeforeChan'
  <2> SUFFICES ASSUME NEW i \in 1 .. Len(buffer'), NEW j \in 1 .. m - 1,
                      buffer'[i].sensor = sensor_chan'[j].sensor
               PROVE  buffer'[i].n < sensor_chan'[j].n
    BY <1>3 DEF BufferBeforeChan
  <2>1. sensor_chan'[j] = sensor_chan[j + 1] /\ j + 1 \in 1 .. m /\ 1 \in 1 .. m /\ 1 < j + 1
    BY <1>3
  <2>2. CASE buffer'[i] = d
    BY <2>1, <2>2, <1>3 DEF OrderInv, ChanByAge
  <2>3. CASE \E l \in 1 .. Len(buffer) : buffer'[i] = buffer[l]
    BY <2>1, <2>3 DEF OrderInv, BufferBeforeChan
  <2> QED
    BY <2>2, <2>3, <1>4
<1>8. ChanByAge'
  <2> SUFFICES ASSUME NEW i \in 1 .. m - 1, NEW j \in 1 .. m - 1, i < j,
                      sensor_chan'[i].sensor = sensor_chan'[j].sensor
               PROVE  sensor_chan'[i].n < sensor_chan'[j].n
    BY <1>3 DEF ChanByAge
  <2>1. /\ sensor_chan'[i] = sensor_chan[i + 1] /\ i + 1 \in 1 .. m
        /\ sensor_chan'[j] = sensor_chan[j + 1] /\ j + 1 \in 1 .. m
        /\ i + 1 < j + 1
    BY <1>3
  <2> QED
    BY <2>1 DEF OrderInv, ChanByAge
<1>9. ChanAfterDone'
  BY <1>1, <1>3 DEF OrderInv, ChanAfterDone
<1>10. Bounded'
  <2> SUFFICES ASSUME NEW u \in Sensors
               PROVE  /\ \A i \in 1 .. m - 1 :
                           sensor_chan'[i].sensor = u => sensor_chan'[i].n <= LastSent(u)'
                      /\ \A i \in 1 .. Len(buffer') :
                           buffer'[i].sensor = u => buffer'[i].n <= LastSent(u)'
                      /\ done[u] <= LastSent(u)'
    BY <1>1, <1>3 DEF Bounded
  <2>1. /\ \A i \in 1 .. m : sensor_chan[i].sensor = u => sensor_chan[i].n <= LastSent(u)
        /\ \A i \in 1 .. Len(buffer) : buffer[i].sensor = u => buffer[i].n <= LastSent(u)
        /\ done[u] <= LastSent(u)
    BY DEF OrderInv, Bounded
  <2>2. LastSent(u)' = LastSent(u)
    BY <1>1 DEF LastSent
  <2>3. 1 \in 1 .. m
    BY <1>3
  <2> QED
    BY <2>1, <2>2, <2>3, <1>3, <1>4
<1> QED
  BY <1>5, <1>6, <1>7, <1>8, <1>9, <1>10 DEF OrderInv

\* The sample taken is the oldest of its sensor: no other has its number left.
LEMMA OrderProcess ==
  ASSUME TypeOK, TypeOK', OrderInv, TaskProcess
  PROVE  OrderInv'
<1> DEFINE d == buffer[1]
           m == Len(buffer)
<1>1. /\ UNCHANGED <<sensor_pc, cycle, sensor_chan>>
      /\ buffer' = RemoveAt(buffer, 1)
      /\ done' = [done EXCEPT ![d.sensor] = d.n]
      /\ buffer # << >>
  BY DEF TaskProcess, sensorVars, PopPos
<1>2. /\ sensor_chan \in Seq(Sample) /\ buffer \in Seq(Sample) /\ done \in [Sensors -> Nat]
  BY DEF TypeOK
<1>3. m \in Nat /\ 1 \in 1 .. m
  BY <1>1, <1>2
<1>4. d.sensor \in Sensors /\ d.n \in Nat
  BY <1>2, <1>3, SampleFields
<1>5. /\ Len(buffer') = m - 1
      /\ \A i \in 1 .. m - 1 : buffer'[i] = buffer[i + 1] /\ i + 1 \in 1 .. m /\ 1 < i + 1
  <2>1. /\ Len(RemoveAt(buffer, 1)) = m - 1
        /\ \A j \in 1 .. m - 1 :
             RemoveAt(buffer, 1)[j] = IF j < 1 THEN buffer[j] ELSE buffer[j + 1]
    BY <1>2, <1>3, RemovedAt
  <2>2. \A i \in 1 .. m - 1 : ~ (i < 1) /\ i + 1 \in 1 .. m /\ 1 < i + 1
    BY <1>3
  <2> QED
    BY <2>1, <2>2, <1>1
<1> HIDE DEF d
<1>6. \A u \in Sensors : done'[u] = IF u = d.sensor THEN d.n ELSE done[u]
  BY <1>1, <1>2
<1>7. BufferSorted'
  BY <1>1, <1>2, <1>3, RemoveSorted DEF OrderInv, BufferSorted
<1>8. BufferAfterDone'
  <2> SUFFICES ASSUME NEW i \in 1 .. m - 1
               PROVE  buffer'[i].n > done'[buffer'[i].sensor]
    BY <1>5 DEF BufferAfterDone
  <2>1. buffer'[i] = buffer[i + 1] /\ i + 1 \in 1 .. m /\ 1 < i + 1
    BY <1>5
  <2>2. buffer[i + 1].sensor \in Sensors /\ buffer[i + 1].n \in Nat
    BY <2>1, <1>2, SampleFields
  <2>3. buffer[i + 1].sensor = d.sensor => d.n < buffer[i + 1].n
    BY <2>1, <1>3 DEF OrderInv, BufferSorted, Sorted, d
  <2>4. buffer[i + 1].n > done[buffer[i + 1].sensor]
    BY <2>1 DEF OrderInv, BufferAfterDone
  <2> QED
    BY <2>1, <2>2, <2>3, <2>4, <1>4, <1>6
<1>9. BufferBeforeChan'
  <2> SUFFICES ASSUME NEW i \in 1 .. m - 1, NEW j \in 1 .. Len(sensor_chan),
                      buffer'[i].sensor = sensor_chan[j].sensor
               PROVE  buffer'[i].n < sensor_chan[j].n
    BY <1>1, <1>5 DEF BufferBeforeChan
  <2>1. buffer'[i] = buffer[i + 1] /\ i + 1 \in 1 .. m
    BY <1>5
  <2> QED
    BY <2>1 DEF OrderInv, BufferBeforeChan
<1>10. ChanByAge'
  BY <1>1 DEF OrderInv, ChanByAge
<1>11. ChanAfterDone'
  <2> SUFFICES ASSUME NEW j \in 1 .. Len(sensor_chan)
               PROVE  sensor_chan[j].n > done'[sensor_chan[j].sensor]
    BY <1>1 DEF ChanAfterDone
  <2>1. sensor_chan[j].sensor \in Sensors /\ sensor_chan[j].n \in Nat
    BY <1>2, SampleFields
  <2>2. d.sensor = sensor_chan[j].sensor => d.n < sensor_chan[j].n
    BY <1>3 DEF OrderInv, BufferBeforeChan, d
  <2>3. sensor_chan[j].n > done[sensor_chan[j].sensor]
    BY DEF OrderInv, ChanAfterDone
  <2> QED
    BY <2>1, <2>2, <2>3, <1>4, <1>6
<1>12. Bounded'
  <2> SUFFICES ASSUME NEW u \in Sensors
               PROVE  /\ \A i \in 1 .. Len(sensor_chan) :
                           sensor_chan[i].sensor = u => sensor_chan[i].n <= LastSent(u)'
                      /\ \A i \in 1 .. m - 1 :
                           buffer'[i].sensor = u => buffer'[i].n <= LastSent(u)'
                      /\ done'[u] <= LastSent(u)'
    BY <1>1, <1>5 DEF Bounded
  <2>1. /\ \A i \in 1 .. Len(sensor_chan) :
             sensor_chan[i].sensor = u => sensor_chan[i].n <= LastSent(u)
        /\ \A i \in 1 .. m : buffer[i].sensor = u => buffer[i].n <= LastSent(u)
        /\ done[u] <= LastSent(u)
    BY DEF OrderInv, Bounded
  <2>2. LastSent(u)' = LastSent(u)
    BY <1>1 DEF LastSent
  <2>3. d.sensor = u => d.n <= LastSent(u)
    BY <2>1, <1>3 DEF d
  <2> QED
    BY <2>1, <2>2, <2>3, <1>5, <1>6
<1> QED
  BY <1>7, <1>8, <1>9, <1>10, <1>11, <1>12 DEF OrderInv

\* The end of the task takes every sample with it.
LEMMA OrderEnd ==
  ASSUME TypeOK, TypeOK', OrderInv, TaskEnd
  PROVE  OrderInv'
<1>1. sensor_chan' = << >> /\ buffer' = << >> /\ UNCHANGED <<sensor_pc, cycle, done>>
  BY DEF TaskEnd, sensorVars, doneVars
<1>2. Len(sensor_chan') = 0 /\ Len(buffer') = 0 /\ 1 .. 0 = {}
  BY <1>1
<1>3. BufferSorted' /\ BufferAfterDone' /\ BufferBeforeChan' /\ ChanByAge' /\ ChanAfterDone'
  BY <1>2 DEF BufferSorted, Sorted, BufferAfterDone, BufferBeforeChan, ChanByAge,
              ChanAfterDone
<1>4. Bounded'
  <2> SUFFICES ASSUME NEW u \in Sensors
               PROVE  done[u] <= LastSent(u)'
    BY <1>1, <1>2 DEF Bounded
  <2> QED
    BY <1>1 DEF LastSent, OrderInv, Bounded
<1> QED
  BY <1>3, <1>4 DEF OrderInv

\* Every step keeps the inductive invariant.
LEMMA OrderStep ==
  TypeOK /\ TypeOK' /\ OrderInv /\ [Next]_vars => OrderInv'
<1> SUFFICES ASSUME TypeOK, TypeOK', OrderInv, [Next]_vars
             PROVE  OrderInv'
  OBVIOUS
<1> DEFINE Same == UNCHANGED <<sensor_chan, buffer, done>>
<1>1. ASSUME Same, UNCHANGED <<sensor_pc, cycle>>
      PROVE  OrderInv'
  <2>1. \A s \in Sensors : LastSent(s)' = LastSent(s) /\ LastSent(s) \in Int
    BY <1>1, LastSentType DEF LastSent
  <2>2. \A s \in Sensors : LastSent(s)' >= LastSent(s)
    BY <2>1
  <2> QED
    BY <1>1, <2>2, OrderSame
<1>2. ASSUME NEW s \in Sensors, SensorMake(s)
      PROVE  OrderInv'
  <2>1. /\ Same /\ sensor_pc[s] = "loop" /\ sensor_pc' = [sensor_pc EXCEPT ![s] = "send"]
        /\ cycle' = [cycle EXCEPT ![s] = @ + 1]
    BY <1>2 DEF SensorMake, doneVars
  <2>2. ASSUME NEW u \in Sensors
        PROVE  LastSent(u)' >= LastSent(u)
    <3>1. LastSent(u) \in Int /\ cycle[u] \in Int
      BY LastSentType
    <3>2. CASE u = s
      <4>1. sensor_pc[u] = "loop" /\ sensor_pc'[u] = "send" /\ cycle'[u] = cycle[u] + 1
        BY <2>1, <3>2 DEF TypeOK
      <4>2. LastSent(u)' = cycle'[u] - 1
        BY <4>1 DEF LastSent
      <4>3. LastSent(u) = cycle[u]
        BY <4>1 DEF LastSent
      <4> QED
        BY <4>1, <4>2, <4>3, <3>1
    <3>3. CASE u # s
      <4>1. sensor_pc'[u] = sensor_pc[u] /\ cycle'[u] = cycle[u]
        BY <2>1, <3>3 DEF TypeOK
      <4>2. LastSent(u)' = LastSent(u)
        BY <4>1 DEF LastSent
      <4> QED
        BY <4>2, <3>1
    <3> QED
      BY <3>2, <3>3
  <2> QED
    BY <2>1, <2>2, OrderSame
<1>3. ASSUME NEW s \in Sensors, SensorSendError(s) \/ SensorEnd(s)
      PROVE  OrderInv'
  <2>1. Same /\ UNCHANGED cycle /\ sensor_pc' = [sensor_pc EXCEPT ![s] = "ended"]
    BY <1>3 DEF SensorSendError, SensorEnd, doneVars
  <2>2. ASSUME NEW u \in Sensors
        PROVE  LastSent(u)' >= LastSent(u)
    <3>1. LastSent(u) \in Int /\ cycle[u] \in Int /\ LastSent(u) <= cycle[u]
      BY LastSentType
    <3>2. CASE u = s
      <4>1. sensor_pc'[u] = "ended" /\ cycle'[u] = cycle[u]
        BY <2>1, <3>2 DEF TypeOK
      <4>2. LastSent(u)' = cycle[u]
        BY <4>1 DEF LastSent
      <4> QED
        BY <4>2, <3>1
    <3>3. CASE u # s
      <4>1. sensor_pc'[u] = sensor_pc[u] /\ cycle'[u] = cycle[u]
        BY <2>1, <3>3 DEF TypeOK
      <4>2. LastSent(u)' = LastSent(u)
        BY <4>1 DEF LastSent
      <4> QED
        BY <4>2, <3>1
    <3> QED
      BY <3>2, <3>3
  <2> QED
    BY <2>1, <2>2, OrderSame
<1>4. ASSUME NEW s \in Sensors, SensorStep(s)
      PROVE  OrderInv'
  BY <1>2, <1>3, <1>4, OrderSend DEF SensorStep
<1>5. CASE TaskTop
  BY <1>1, <1>5 DEF TaskTop, sensorVars, doneVars
<1>6. CASE TaskOpenWindow
  BY <1>1, <1>6 DEF TaskOpenWindow, sensorVars, doneVars
<1>7. CASE TaskIdleSlot
  BY <1>1, <1>7 DEF TaskIdleSlot, sensorVars, doneVars
<1>8. CASE TaskCloseWindow
  BY <1>1, <1>8 DEF TaskCloseWindow, sensorVars, doneVars
<1>9. CASE SchedulerClears
  BY <1>1, <1>9 DEF SchedulerClears, sensorVars
<1>10. CASE RaiseShutdown
  BY <1>1, <1>10 DEF RaiseShutdown, sensorVars, doneVars
<1>11. CASE UNCHANGED vars
  BY <1>1, <1>11 DEF vars, sensorVars, doneVars
<1> HIDE DEF Same
<1> QED
  BY <1>4, <1>5, <1>6, <1>7, <1>8, <1>9, <1>10, <1>11, OrderIngest, OrderProcess, OrderEnd
     DEF Next, TaskStep

\* The inductive invariant: the buffer sorted, each sensor's samples by age in
\* the channel, in the buffer and from one to the next, all at most the last sent.
THEOREM OrderInvariant == Spec => [](TypeOK /\ OrderInv)
<1>1. Init /\ TypeOK => OrderInv
  <2> SUFFICES ASSUME Init, TypeOK
               PROVE  OrderInv
    OBVIOUS
  <2>1. Len(sensor_chan) = 0 /\ Len(buffer) = 0 /\ 1 .. 0 = {}
    BY DEF Init
  <2>2. BufferSorted /\ BufferAfterDone /\ BufferBeforeChan /\ ChanByAge /\ ChanAfterDone
    BY <2>1 DEF BufferSorted, Sorted, BufferAfterDone, BufferBeforeChan, ChanByAge,
                ChanAfterDone
  <2>3. \A s \in Sensors : done[s] <= LastSent(s)
    BY DEF Init, LastSent
  <2>4. Bounded
    BY <2>1, <2>3 DEF Bounded
  <2> QED
    BY <2>2, <2>4 DEF OrderInv
<1> QED
  BY <1>1, OrderStep, TypeCorrect, PTL DEF Spec

\* The buffer is sorted by priority and, within a sensor, by age, in every
\* state: SharedTask's insertion and its eviction keep it so.
THEOREM BufferAlwaysSorted == Spec => []BufferSorted
<1>1. OrderInv => BufferSorted
  BY DEF OrderInv
<1> QED
  BY <1>1, OrderInvariant, PTL

\* The samples of a sensor are processed in the order it made them.
THEOREM SensorsInOrder == Spec => []SensorOrder
BY OrderInvariant, OrderGives, PTL

-----------------------------------------------------------------------------
(* What the limit costs.                                                    *)

\* ToSet, by position.
LEMMA MembersOf ==
  ASSUME NEW q \in Seq(Sample)
  PROVE  /\ \A y \in ToSet(q) : \E i \in 1 .. Len(q) : y = q[i]
         /\ \A i \in 1 .. Len(q) : q[i] \in ToSet(q)
BY DEF ToSet

\* A newcomer refused is below every resident.
LEMMA RefuseLowest ==
  ASSUME TypeOK, NEW d \in Sample, Len(buffer) > 0, TooLow(d)
  PROVE  /\ d \notin ToSet(buffer)
         /\ \A y \in ToSet(buffer) : /\ Prio(d) <= Prio(y)
                                     /\ d.sensor = y.sensor => d.n < y.n
<1>1. buffer \in Seq(Sample)
  BY DEF TypeOK
<1> SUFFICES ASSUME NEW y \in ToSet(buffer)
             PROVE  d # y /\ Prio(d) <= Prio(y) /\ d.sensor # y.sensor
  OBVIOUS
<1> DEFINE k == FirstLowest(buffer)
<1>2. PICK j \in 1 .. Len(buffer) : y = buffer[j]
  BY <1>1, MembersOf
<1>3. k \in 1 .. Len(buffer) /\ Prio(buffer[k]) <= Prio(buffer[j])
  BY <1>1, FirstLowestIs
<1>4. Prio(d) < Prio(buffer[k])
  BY DEF TooLow
<1> HIDE DEF k
<1>5. y \in Sample /\ buffer[k] \in Sample
  BY <1>1, <1>2, <1>3, SampleFields
<1>6. Prio(d) \in {1, 2, 3} /\ Prio(y) \in {1, 2, 3} /\ Prio(buffer[k]) \in {1, 2, 3}
  BY <1>5, PrioType
<1>7. Prio(d) < Prio(y)
  BY <1>2, <1>3, <1>4, <1>6
<1>8. Prio(d) # Prio(y)
  BY <1>6, <1>7
<1> QED
  BY <1>5, <1>6, <1>7, <1>8, PrioOfSensor

\* A resident evicted is no higher than any sample kept and older than those
\* of its sensor.
LEMMA EvictOldest ==
  ASSUME TypeOK, OrderInv, NEW d \in Sample, Len(buffer) > 0, ~ TooLow(d),
         \A i \in 1 .. Len(buffer) : buffer[i].sensor = d.sensor => buffer[i].n < d.n,
         NEW y \in ToSet(Insert(RemoveAt(buffer, FirstLowest(buffer)), d))
  PROVE  LET x == buffer[FirstLowest(buffer)]
         IN  x # y /\ Prio(x) <= Prio(y) /\ (x.sensor = y.sensor => x.n < y.n)
<1> DEFINE k == FirstLowest(buffer)
           b == RemoveAt(buffer, k)
           x == buffer[k]
           r == Insert(b, d)
<1>1. buffer \in Seq(Sample)
  BY DEF TypeOK
<1>2. /\ k \in 1 .. Len(buffer)
      /\ \A j \in 1 .. Len(buffer) : Prio(x) <= Prio(buffer[j])
      /\ \A j \in 1 .. k - 1 : Prio(x) < Prio(buffer[j])
  BY <1>1, FirstLowestIs
<1>3. ~ (Prio(d) < Prio(x))
  BY DEF TooLow
<1>y. y \in ToSet(r)
  OBVIOUS
<1> SUFFICES x # y /\ Prio(x) <= Prio(y) /\ (x.sensor = y.sensor => x.n < y.n)
  OBVIOUS
<1> HIDE DEF k
<1>4. b \in Seq(Sample) /\ Len(b) = Len(buffer) - 1
  BY <1>1, <1>2, RemovedAt
<1>5. \A i \in 1 .. Len(buffer) - 1 : \E j \in 1 .. Len(buffer) : b[i] = buffer[j] /\ j # k
  BY <1>1, <1>2, RemoveMembers
<1> HIDE DEF b
<1>6. r \in Seq(Sample) /\ Len(r) = Len(b) + 1
  BY <1>4, InsertIs
<1>7. \A i \in 1 .. Len(b) + 1 : r[i] = d \/ \E j \in 1 .. Len(b) : r[i] = b[j]
  BY <1>4, InsertMembers
<1> HIDE DEF r
<1>8. PICK i \in 1 .. Len(r) : y = r[i]
  BY <1>6, <1>y, MembersOf
<1>9. y = d \/ \E j \in 1 .. Len(buffer) : y = buffer[j] /\ j # k
  BY <1>4, <1>5, <1>6, <1>7, <1>8
<1>10. x \in Sample /\ Prio(x) \in {1, 2, 3} /\ Prio(d) \in {1, 2, 3} /\ x.n \in Nat
  BY <1>1, <1>2, SampleFields, PrioType
<1>11. CASE y = d
  <2>1. Prio(x) <= Prio(d)
    BY <1>3, <1>10
  <2>2. x.sensor = d.sensor => x.n < d.n
    BY <1>2
  <2>3. d.n \in Nat
    BY DEF Sample
  <2>4. x # d
    BY <2>2, <2>3, <1>10
  <2> QED
    BY <2>1, <2>2, <2>4, <1>11
<1>12. ASSUME NEW j \in 1 .. Len(buffer), y = buffer[j], j # k
       PROVE  x # y /\ Prio(x) <= Prio(y) /\ (x.sensor = y.sensor => x.n < y.n)
  <2>1. y \in Sample /\ Prio(y) \in {1, 2, 3} /\ y.n \in Nat
    BY <1>1, <1>12, SampleFields, PrioType
  <2>2. Prio(x) <= Prio(y)
    BY <1>2, <1>12
  <2>3. CASE j < k
    <3>1. Prio(x) < Prio(y)
      <4>1. j \in 1 .. k - 1
        BY <2>3, <1>2
      <4> QED
        BY <4>1, <1>2, <1>12
    <3>2. Prio(x) # Prio(y)
      BY <3>1, <2>1, <1>10
    <3>3. x.sensor # y.sensor
      BY <3>2, <2>1, <1>10, PrioOfSensor
    <3> QED
      BY <3>2, <3>3, <2>2
  <2>4. CASE k < j
    <3>1. x.sensor = y.sensor => x.n < y.n
      BY <2>4, <1>2, <1>12 DEF OrderInv, BufferSorted, Sorted
    <3>2. x # y
      BY <3>1, <2>1, <1>10
    <3> QED
      BY <3>1, <3>2, <2>2
  <2> QED
    BY <2>3, <2>4, <1>2, <1>12
<1> QED
  BY <1>9, <1>11, <1>12

\* A drop costs a sample of the lowest priority at hand, the oldest of its
\* sensor, and only when the buffer is full.
THEOREM DropsAreTheLowestOldest == Spec => DropsLowestOldest
<1> DEFINE Cost ==
      /\ Len(buffer) = buffer_limit
      /\ \E x \in (ToSet(buffer) \cup {Head(sensor_chan)}) \ ToSet(buffer') :
           \A y \in ToSet(buffer') :
               /\ Prio(x) <= Prio(y)
               /\ x.sensor = y.sensor => x.n < y.n
<1>1. ASSUME TypeOK, OrderInv, [Next]_vars, dropped_samples' # dropped_samples
      PROVE  Cost
  <2>1. TaskIngest
    BY <1>1 DEF Next, SensorStep, SensorMake, SensorSend, SensorSendError, SensorEnd, TaskStep,
                TaskTop, TaskEnd, TaskOpenWindow, TaskProcess, TaskIdleSlot, TaskCloseWindow,
                SchedulerClears, RaiseShutdown, vars
  <2> DEFINE d == Head(sensor_chan)
             k == FirstLowest(buffer)
  <2>2. /\ Full
        /\ \/ TooLow(d) /\ buffer' = buffer
           \/ ~ TooLow(d) /\ buffer' = Insert(RemoveAt(buffer, k), d)
    BY <2>1, <1>1 DEF TaskIngest
  <2>3. d \in Sample /\ d = sensor_chan[1] /\ 1 \in 1 .. Len(sensor_chan)
    BY <2>1, <1>1 DEF TaskIngest, TypeOK
  <2>4. Len(buffer) = buffer_limit /\ Len(buffer) > 0 /\ buffer \in Seq(Sample)
    BY <2>2, <1>1, LimitsAssumption DEF Full, TypeOK
  <2>5. \A i \in 1 .. Len(buffer) : buffer[i].sensor = d.sensor => buffer[i].n < d.n
    BY <2>3, <1>1 DEF OrderInv, BufferBeforeChan
  <2>6. CASE TooLow(d) /\ buffer' = buffer
    <3>1. d \in Sample
      BY <2>3
    <3>2. d \in ToSet(buffer) \cup {Head(sensor_chan)}
      OBVIOUS
    <3> HIDE DEF d
    <3>3. /\ d \notin ToSet(buffer)
          /\ \A y \in ToSet(buffer) : /\ Prio(d) <= Prio(y)
                                      /\ d.sensor = y.sensor => d.n < y.n
      BY <3>1, <2>4, <2>6, <1>1, RefuseLowest
    <3> QED
      BY <3>2, <3>3, <2>4, <2>6
  <2>7. CASE ~ TooLow(d) /\ buffer' = Insert(RemoveAt(buffer, k), d)
    <3> DEFINE x == buffer[k]
    <3>1. d \in Sample
      BY <2>3
    <3>2. x \in ToSet(buffer)
      BY <2>4, FirstLowestIs, MembersOf
    <3> HIDE DEF d
    <3>3. \A y \in ToSet(Insert(RemoveAt(buffer, k), d)) :
            x # y /\ Prio(x) <= Prio(y) /\ (x.sensor = y.sensor => x.n < y.n)
      BY <3>1, <2>4, <2>5, <2>7, <1>1, EvictOldest
    <3>4. \A y \in ToSet(buffer') :
            x # y /\ Prio(x) <= Prio(y) /\ (x.sensor = y.sensor => x.n < y.n)
      BY <3>3, <2>7
    <3> HIDE DEF x
    <3> QED
      BY <3>2, <3>4, <2>4
  <2> QED
    BY <2>2, <2>6, <2>7
<1>2. TypeOK /\ OrderInv /\ [Next]_vars => [dropped_samples' # dropped_samples => Cost]_vars
  BY <1>1
<1> QED
  BY <1>2, OrderInvariant, PTL DEF Spec, DropsLowestOldest

(* A slot of the window works on a sample of the highest priority in the     *)
(* buffer and, of its sensor, on the oldest, which is newer than the last    *)
(* one processed: none is processed twice or after a later one, whatever was *)
(* inserted and evicted meanwhile (task.rs:148).                             *)
ServedHighestOldest ==
    [][handed' # handed =>
         \E x \in ToSet(buffer) :
             /\ done' = [done EXCEPT ![x.sensor] = x.n]
             /\ x.n > done[x.sensor]
             /\ \A y \in ToSet(buffer') :
                    /\ Prio(x) >= Prio(y)
                    /\ x.sensor = y.sensor => x.n < y.n]_vars

(* Insertion and eviction keep the front of the buffer what it should be.    *)
THEOREM ServedAreTheHighestOldest == Spec => ServedHighestOldest
<1> DEFINE Serves ==
      \E x \in ToSet(buffer) :
          /\ done' = [done EXCEPT ![x.sensor] = x.n]
          /\ x.n > done[x.sensor]
          /\ \A y \in ToSet(buffer') :
                 /\ Prio(x) >= Prio(y)
                 /\ x.sensor = y.sensor => x.n < y.n
<1>1. ASSUME TypeOK, OrderInv, [Next]_vars, handed' # handed
      PROVE  Serves
  <2>1. TaskProcess
    BY <1>1 DEF Next, SensorStep, SensorMake, SensorSend, SensorSendError, SensorEnd, TaskStep,
                TaskTop, TaskEnd, TaskIngest, TaskOpenWindow, TaskIdleSlot, TaskCloseWindow,
                SchedulerClears, RaiseShutdown, vars, doneVars
  <2> DEFINE x == buffer[1]
             m == Len(buffer)
  <2>2. /\ buffer \in Seq(Sample) /\ buffer # << >>
        /\ buffer' = RemoveAt(buffer, 1)
        /\ done' = [done EXCEPT ![x.sensor] = x.n]
    BY <1>1, <2>1 DEF TypeOK, TaskProcess, PopPos
  <2>3. m \in Nat /\ 1 \in 1 .. m
    BY <2>2
  <2>4. /\ Len(buffer') = m - 1
        /\ \A i \in 1 .. m - 1 : buffer'[i] = buffer[i + 1] /\ i + 1 \in 1 .. m /\ 1 < i + 1
    <3>1. /\ Len(RemoveAt(buffer, 1)) = m - 1
          /\ \A j \in 1 .. m - 1 :
               RemoveAt(buffer, 1)[j] = IF j < 1 THEN buffer[j] ELSE buffer[j + 1]
      BY <2>2, <2>3, RemovedAt
    <3>2. \A i \in 1 .. m - 1 : ~ (i < 1) /\ i + 1 \in 1 .. m /\ 1 < i + 1
      BY <2>3
    <3> QED
      BY <2>2, <3>1, <3>2
  <2>5. buffer' \in Seq(Sample)
    BY <2>2, <2>3, <2>4, RemovedAt
  <2>6. x \in ToSet(buffer) /\ x.n > done[x.sensor]
    BY <1>1, <2>2, <2>3, MembersOf DEF OrderInv, BufferAfterDone
  <2>7. ASSUME NEW y \in ToSet(buffer')
        PROVE  Prio(x) >= Prio(y) /\ (x.sensor = y.sensor => x.n < y.n)
    <3>1. PICK i \in 1 .. m - 1 : y = buffer'[i]
      BY <2>4, <2>5, MembersOf
    <3>2. y = buffer[i + 1] /\ i + 1 \in 1 .. m /\ 1 < i + 1
      BY <2>4, <3>1
    <3> QED
      BY <1>1, <2>3, <3>2 DEF OrderInv, BufferSorted, Sorted
  <2> HIDE DEF x
  <2> QED
    BY <2>2, <2>6, <2>7
<1>2. TypeOK /\ OrderInv /\ [Next]_vars => [handed' # handed => Serves]_vars
  BY <1>1
<1> QED
  BY <1>2, OrderInvariant, PTL DEF Spec, ServedHighestOldest

-----------------------------------------------------------------------------
(* Every sample made is somewhere.                                          *)

SendersOf(pc) == {s \in Sensors : pc[s] = "send"}

\* There are finitely many sensors, so the senders can be counted.
LEMMA SendersCount ==
  \A pc : /\ IsFiniteSet(SendersOf(pc))
          /\ Cardinality(SendersOf(pc)) \in Nat
<1> SUFFICES ASSUME NEW pc
             PROVE  IsFiniteSet(SendersOf(pc)) /\ Cardinality(SendersOf(pc)) \in Nat
  OBVIOUS
<1>1. IsFiniteSet({"TempSensor"} \cup {"AccelSensor"} \cup {"GyroSensor"})
  BY FS_Singleton, FS_Union
<1>2. SendersOf(pc) \subseteq {"TempSensor"} \cup {"AccelSensor"} \cup {"GyroSensor"}
  BY SensorsAssumption DEF SendersOf, Priority
<1>3. IsFiniteSet(SendersOf(pc))
  BY <1>1, <1>2, FS_Subset
<1> QED
  BY <1>3, FS_CardinalityType

\* A sensor that starts, or ends, a send changes the number of senders by one.
LEMMA SenderAdded ==
  ASSUME NEW s \in Sensors, NEW pc, NEW qc,
         pc[s] # "send", qc[s] = "send", \A u \in Sensors : u # s => qc[u] = pc[u]
  PROVE  Cardinality(SendersOf(qc)) = Cardinality(SendersOf(pc)) + 1
<1>1. SendersOf(qc) = SendersOf(pc) \cup {s} /\ s \notin SendersOf(pc)
  BY DEF SendersOf
<1>2. IsFiniteSet(SendersOf(pc))
  BY SendersCount
<1> HIDE DEF SendersOf
<1> QED
  BY <1>1, <1>2, FS_AddElement

\* A sensor holds a sample exactly while it sends.
LEMMA InHandsIs ==
  /\ InHands = Cardinality(SendersOf(sensor_pc))
  /\ InHands \in Nat
<1>1. InHands = Cardinality(SendersOf(sensor_pc))
  BY DEF InHands, SendersOf
<1> QED
  BY <1>1, SendersCount

\* The samples that are somewhere.
Located == InHands + Len(sensor_chan) + Len(buffer) + handed + dropped_samples

Accounted == task_pc # "ended" => made = Located

\* Until the task ends, every step moves a sample from one place to another, or none.
LEMMA AccountStep ==
  ASSUME TypeOK, TypeOK', Accounted, [Next]_vars
  PROVE  Accounted'
<1> SUFFICES ASSUME task_pc' # "ended"
             PROVE  made' = Located'
  BY DEF Accounted
<1>1. /\ Len(sensor_chan) \in Nat /\ Len(buffer) \in Nat /\ handed \in Nat /\ made \in Nat
      /\ dropped_samples \in Nat /\ sensor_pc \in [Sensors -> {"loop", "send", "ended"}]
      /\ sensor_chan \in Seq(Sample) /\ buffer \in Seq(Sample)
  BY DEF TypeOK
<1>2. InHands = Cardinality(SendersOf(sensor_pc)) /\ InHands \in Nat
  BY InHandsIs
<1>3. InHands' = Cardinality(SendersOf(sensor_pc')) /\ InHands' \in Nat
  <2>1. InHands' = Cardinality(SendersOf(sensor_pc'))
    BY DEF InHands, SendersOf
  <2> QED
    BY <2>1, SendersCount
<1>4. task_pc # "ended" => made = Located
  BY DEF Accounted
<1>n. /\ Len(sensor_chan) \in Nat /\ Len(buffer) \in Nat /\ handed \in Nat /\ made \in Nat
      /\ dropped_samples \in Nat
  BY <1>1
<1>5. ASSUME UNCHANGED <<sensor_pc, sensor_chan, buffer, handed, dropped_samples, made>>,
             task_pc # "ended"
      PROVE  made' = Located'
  BY <1>2, <1>3, <1>4, <1>5 DEF Located
<1>6. ASSUME NEW s \in Sensors, SensorMake(s)
      PROVE  made' = Located'
  <2>1. /\ sensor_pc[s] = "loop" /\ sensor_pc' = [sensor_pc EXCEPT ![s] = "send"]
        /\ made' = made + 1 /\ task_pc # "ended"
        /\ UNCHANGED <<sensor_chan, buffer, handed, dropped_samples>>
    BY <1>6 DEF SensorMake, doneVars
  <2>2. /\ sensor_pc[s] # "send" /\ sensor_pc'[s] = "send"
        /\ \A u \in Sensors : u # s => sensor_pc'[u] = sensor_pc[u]
    BY <2>1, <1>1
  <2>3. InHands' = InHands + 1
    BY <2>2, <1>2, <1>3, SenderAdded
  <2>4. Len(sensor_chan') = Len(sensor_chan) /\ Len(buffer') = Len(buffer)
    BY <2>1
  <2>5. made = InHands + Len(sensor_chan) + Len(buffer) + handed + dropped_samples
    BY <2>1, <1>4 DEF Located
  <2>6. /\ InHands \in Nat /\ InHands' \in Nat /\ handed' = handed
        /\ made' = made + 1 /\ dropped_samples' = dropped_samples
    BY <2>1, <1>2, <1>3
  <2> QED
    BY <2>3, <2>4, <2>5, <2>6, <1>n DEF Located
<1>7. ASSUME NEW s \in Sensors, SensorSend(s)
      PROVE  made' = Located'
  <2>1. /\ sensor_pc[s] = "send" /\ sensor_pc' = [sensor_pc EXCEPT ![s] = "loop"]
        /\ made' = made /\ task_pc # "ended"
        /\ UNCHANGED <<buffer, handed, dropped_samples>>
    BY <1>7 DEF SensorSend, doneVars
  <2>2. /\ sensor_pc'[s] # "send"
        /\ \A u \in Sensors : u # s => sensor_pc[u] = sensor_pc'[u]
    BY <2>1, <1>1
  <2>3. Cardinality(SendersOf(sensor_pc)) = Cardinality(SendersOf(sensor_pc')) + 1
    BY <2>1, <2>2, SenderAdded
  <2>4. Cardinality(SendersOf(sensor_pc')) \in Nat
    BY SendersCount
  <2>5. Len(sensor_chan') = Len(sensor_chan) + 1
    BY <1>7, <1>1 DEF SensorSend
  <2> QED
    BY <2>1, <2>3, <2>4, <2>5, <1>1, <1>2, <1>3, <1>4 DEF Located
<1>8. ASSUME NEW s \in Sensors, SensorEnd(s)
      PROVE  made' = Located'
  <2>1. /\ sensor_pc[s] = "loop" /\ sensor_pc' = [sensor_pc EXCEPT ![s] = "ended"]
        /\ task_pc # "ended"
        /\ UNCHANGED <<made, sensor_chan, buffer, handed, dropped_samples>>
    BY <1>8 DEF SensorEnd, doneVars
  <2>2. SendersOf(sensor_pc') = SendersOf(sensor_pc)
    BY <2>1, <1>1 DEF SendersOf
  <2> QED
    BY <2>1, <2>2, <1>2, <1>3, <1>4 DEF Located
<1>9. ASSUME NEW s \in Sensors, SensorSendError(s)
      PROVE  FALSE
  BY <1>9 DEF SensorSendError, ReceiverGone
<1>10. CASE TaskEnd
  BY <1>10 DEF TaskEnd
<1>11. CASE TaskIngest
  <2> DEFINE d == Head(sensor_chan)
             k == FirstLowest(buffer)
             b == RemoveAt(buffer, k)
  <2>1. /\ sensor_chan # << >> /\ sensor_chan' = Tail(sensor_chan) /\ task_pc # "ended"
        /\ UNCHANGED <<sensor_pc, made, handed>>
    BY <1>11 DEF TaskIngest, sensorVars, doneVars
  <2>2. d \in Sample /\ Len(sensor_chan') = Len(sensor_chan) - 1
    BY <2>1, <1>1
  <2>3. Len(buffer') + dropped_samples' = Len(buffer) + dropped_samples + 1
    <3>1. d \in Sample
      BY <2>2
    <3>2. CASE UNCHANGED dropped_samples /\ buffer' = Insert(buffer, d)
      <4> HIDE DEF d
      <4>1. Len(Insert(buffer, d)) = Len(buffer) + 1
        BY <3>1, <1>1, InsertIs
      <4> QED
        BY <3>2, <4>1, <1>1
    <3>3. CASE record_buffer_drop /\ UNCHANGED buffer
      BY <3>3, <1>1 DEF record_buffer_drop
    <3>4. CASE Full /\ record_buffer_drop /\ buffer' = Insert(b, d)
      <4> HIDE DEF d
      <4>1. Len(buffer) > 0
        BY <3>4, <1>1, LimitsAssumption DEF Full
      <4>2. k \in 1 .. Len(buffer)
        BY <4>1, <1>1, FirstLowestIs
      <4> HIDE DEF k
      <4>3. b \in Seq(Sample) /\ Len(b) = Len(buffer) - 1
        BY <4>2, <1>1, RemovedAt
      <4> HIDE DEF b
      <4>4. Len(Insert(b, d)) = Len(b) + 1
        BY <3>1, <4>3, InsertIs
      <4>5. dropped_samples' = dropped_samples + 1
        BY <3>4 DEF record_buffer_drop
      <4> QED
        BY <3>4, <4>3, <4>4, <4>5, <1>1
    <3> QED
      BY <1>11, <3>2, <3>3, <3>4 DEF TaskIngest
  <2>4. Len(buffer') \in Nat /\ dropped_samples' \in Nat
    BY DEF TypeOK
  <2>5. /\ InHands' = InHands /\ made' = made /\ handed' = handed /\ InHands \in Nat
        /\ Len(sensor_chan') = Len(sensor_chan) - 1
    BY <2>1, <2>2, <1>2, <1>3
  <2>6. made = InHands + Len(sensor_chan) + Len(buffer) + handed + dropped_samples
    BY <2>1, <1>4 DEF Located
  <2>7. Located' = InHands' + Len(sensor_chan') + Len(buffer') + handed' + dropped_samples'
    BY DEF Located
  <2> QED
    BY <2>3, <2>4, <2>5, <2>6, <2>7, <1>n
<1>12. CASE TaskProcess
  <2>1. /\ buffer # << >> /\ buffer' = RemoveAt(buffer, 1) /\ task_pc # "ended"
        /\ handed' = handed + 1
        /\ UNCHANGED <<sensor_pc, made, sensor_chan, dropped_samples>>
    BY <1>12 DEF TaskProcess, sensorVars, PopPos
  <2>2. 1 \in 1 .. Len(buffer)
    BY <2>1, <1>1
  <2>3. Len(RemoveAt(buffer, 1)) = Len(buffer) - 1
    BY <2>2, <1>1, RemovedAt
  <2>4. Len(buffer') = Len(buffer) - 1 /\ Len(sensor_chan') = Len(sensor_chan)
    BY <2>1, <2>3
  <2>5. InHands' = InHands
    BY <2>1, <1>2, <1>3
  <2>6. made = InHands + Len(sensor_chan) + Len(buffer) + handed + dropped_samples
    BY <2>1, <1>4 DEF Located
  <2>7. /\ InHands \in Nat /\ InHands' \in Nat /\ handed' = handed + 1
        /\ made' = made /\ dropped_samples' = dropped_samples
    BY <2>1, <1>2, <1>3
  <2> QED
    BY <2>4, <2>5, <2>6, <2>7, <1>n DEF Located
<1>13. CASE TaskTop
  BY <1>5, <1>13 DEF TaskTop, sensorVars, doneVars
<1>14. CASE TaskOpenWindow
  BY <1>5, <1>14 DEF TaskOpenWindow, sensorVars, doneVars
<1>15. CASE TaskIdleSlot
  BY <1>5, <1>15 DEF TaskIdleSlot, sensorVars, doneVars
<1>16. CASE TaskCloseWindow
  BY <1>5, <1>16 DEF TaskCloseWindow, sensorVars, doneVars
<1>17. CASE SchedulerClears
  BY <1>5, <1>17 DEF SchedulerClears, sensorVars
<1>18. CASE RaiseShutdown
  BY <1>5, <1>18 DEF RaiseShutdown, sensorVars, doneVars
<1>19. CASE UNCHANGED vars
  BY <1>5, <1>19 DEF vars, sensorVars, doneVars
<1> QED
  BY <1>6, <1>7, <1>8, <1>9, <1>10, <1>11, <1>12, <1>13, <1>14, <1>15, <1>16, <1>17, <1>18,
     <1>19 DEF Next, SensorStep, TaskStep

\* After the end the channel and the buffer stay empty, and a sample given up by
\* its sensor was in that sensor's hands when the task ended.
Room == SensorCap + buffer_limit + Cardinality(Sensors)

EndInv ==
    task_pc = "ended" =>
        /\ shutdown_flag
        /\ sensor_chan = << >> /\ buffer = << >>
        /\ Unaccounted \in Nat
        /\ Unaccounted + InHands <= Room

\* The sensors' hands hold one sample each at most.
LEMMA HandsBound ==
  /\ Cardinality(Sensors) \in Nat
  /\ InHands <= Cardinality(Sensors)
<1>1. IsFiniteSet({"TempSensor"} \cup {"AccelSensor"} \cup {"GyroSensor"})
  BY FS_Singleton, FS_Union
<1>2. Sensors \subseteq {"TempSensor"} \cup {"AccelSensor"} \cup {"GyroSensor"}
  BY SensorsAssumption DEF Priority
<1>3. IsFiniteSet(Sensors)
  BY <1>1, <1>2, FS_Subset
<1>4. SendersOf(sensor_pc) \in SUBSET Sensors
  BY DEF SendersOf
<1>5. Cardinality(SendersOf(sensor_pc)) <= Cardinality(Sensors)
  BY <1>3, <1>4, FS_Subset
<1> QED
  BY <1>3, <1>5, InHandsIs, FS_CardinalityType

\* The end drops what the channel and the buffer hold; afterwards only failed
\* sends move a sample, and none is made.
LEMMA EndStep ==
  ASSUME TypeOK, TypeOK', Accounted, EndInv, [Next]_vars
  PROVE  EndInv'
<1> SUFFICES ASSUME task_pc' = "ended"
             PROVE  /\ shutdown_flag' /\ sensor_chan' = << >> /\ buffer' = << >>
                    /\ Unaccounted' \in Nat /\ (Unaccounted + InHands)' <= Room
  BY DEF EndInv, Room
<1>1. /\ Len(sensor_chan) \in Nat /\ Len(buffer) \in Nat /\ handed \in Nat /\ made \in Nat
      /\ dropped_samples \in Nat /\ sensor_pc \in [Sensors -> {"loop", "send", "ended"}]
      /\ Len(sensor_chan) <= SensorCap /\ Len(buffer) <= buffer_limit
      /\ SensorCap \in Nat /\ buffer_limit \in Nat
  BY LimitsAssumption DEF TypeOK
<1>2. InHands = Cardinality(SendersOf(sensor_pc)) /\ InHands \in Nat
  BY InHandsIs
<1>3. InHands' = Cardinality(SendersOf(sensor_pc')) /\ InHands' \in Nat
  <2>1. InHands' = Cardinality(SendersOf(sensor_pc'))
    BY DEF InHands, SendersOf
  <2> QED
    BY <2>1, SendersCount
<1>4. /\ Cardinality(Sensors) \in Nat /\ InHands <= Cardinality(Sensors)
      /\ Room \in Nat /\ Room = SensorCap + buffer_limit + Cardinality(Sensors)
  BY HandsBound, <1>1 DEF Room
<1>5. /\ Unaccounted = made - (InHands + Len(sensor_chan) + Len(buffer) + handed + dropped_samples)
      /\ Unaccounted' = made' - (InHands' + Len(sensor_chan') + Len(buffer') + handed'
                                + dropped_samples')
  BY DEF Unaccounted
<1>n. /\ Len(sensor_chan) \in Nat /\ Len(buffer) \in Nat /\ handed \in Nat /\ made \in Nat
      /\ dropped_samples \in Nat /\ InHands \in Nat /\ InHands' \in Nat
  BY <1>1, <1>2, <1>3
<1>6. task_pc = "ended" =>
        /\ shutdown_flag /\ sensor_chan = << >> /\ buffer = << >>
        /\ Unaccounted \in Nat /\ Unaccounted + InHands <= Room
  BY DEF EndInv
<1>7. CASE TaskEnd
  <2>1. /\ task_pc # "ended" /\ shutdown_flag' /\ sensor_chan' = << >> /\ buffer' = << >>
        /\ UNCHANGED <<sensor_pc, made, handed, dropped_samples>>
    BY <1>7 DEF TaskEnd, sensorVars, doneVars
  <2>2. made = InHands + Len(sensor_chan) + Len(buffer) + handed + dropped_samples
    BY <2>1 DEF Accounted, Located
  <2>3. InHands' = InHands /\ Len(sensor_chan') = 0 /\ Len(buffer') = 0
    BY <2>1, <1>2, <1>3
  <2>4. made' = made /\ handed' = handed /\ dropped_samples' = dropped_samples
    BY <2>1
  <2>5. Unaccounted' = Len(sensor_chan) + Len(buffer)
    BY <2>2, <2>3, <2>4, <1>n, <1>5
  <2> QED
    BY <2>1, <2>3, <2>5, <1>1, <1>2, <1>4
<1>8. ASSUME NEW s \in Sensors, SensorSendError(s)
      PROVE  /\ shutdown_flag' /\ sensor_chan' = << >> /\ buffer' = << >>
             /\ Unaccounted' \in Nat /\ (Unaccounted + InHands)' <= Room
  <2>1. /\ sensor_pc[s] = "send" /\ sensor_pc' = [sensor_pc EXCEPT ![s] = "ended"]
        /\ task_pc = "ended"
        /\ UNCHANGED <<made, sensor_chan, buffer, handed, dropped_samples, shutdown_flag>>
    BY <1>8 DEF SensorSendError, ReceiverGone, doneVars
  <2>2. /\ sensor_pc'[s] # "send"
        /\ \A u \in Sensors : u # s => sensor_pc[u] = sensor_pc'[u]
    BY <2>1, <1>1
  <2>3. Cardinality(SendersOf(sensor_pc)) = Cardinality(SendersOf(sensor_pc')) + 1
    BY <2>1, <2>2, SenderAdded
  <2>4. InHands = InHands' + 1
    BY <2>3, <1>2, <1>3
  <2>5. /\ Len(sensor_chan') = Len(sensor_chan) /\ Len(buffer') = Len(buffer)
        /\ made' = made /\ handed' = handed /\ dropped_samples' = dropped_samples
    BY <2>1
  <2>6. Located = Located' + 1 /\ Located \in Nat /\ Located' \in Nat
    BY <2>4, <2>5, <1>n DEF Located
  <2>7. Unaccounted' = made - Located' /\ Unaccounted = made - Located
    BY <2>5 DEF Unaccounted, Located
  <2>8. Unaccounted' = Unaccounted + 1
    BY <2>6, <2>7, <1>n
  <2>9. Unaccounted \in Nat /\ Unaccounted + InHands <= Room
    BY <2>1, <1>6
  <2> QED
    BY <2>1, <2>4, <2>8, <2>9, <1>3, <1>4, <1>6
<1>9. ASSUME UNCHANGED <<made, sensor_chan, buffer, handed, dropped_samples, task_pc>>,
             SendersOf(sensor_pc') = SendersOf(sensor_pc), shutdown_flag => shutdown_flag'
      PROVE  /\ shutdown_flag' /\ sensor_chan' = << >> /\ buffer' = << >>
             /\ Unaccounted' \in Nat /\ (Unaccounted + InHands)' <= Room
  <2>1. task_pc = "ended"
    BY <1>9
  <2>2. InHands' = InHands
    BY <1>9, <1>2, <1>3
  <2>3. Unaccounted' = Unaccounted
    BY <2>2, <1>9, <1>5
  <2> QED
    BY <2>1, <2>2, <2>3, <1>9, <1>6
<1>10. ASSUME NEW s \in Sensors, SensorMake(s)
       PROVE  FALSE
  BY <1>10, <1>6 DEF SensorMake
<1>11. ASSUME NEW s \in Sensors, SensorSend(s)
       PROVE  FALSE
  BY <1>11 DEF SensorSend
<1>12. ASSUME NEW s \in Sensors, SensorEnd(s)
       PROVE  /\ shutdown_flag' /\ sensor_chan' = << >> /\ buffer' = << >>
              /\ Unaccounted' \in Nat /\ (Unaccounted + InHands)' <= Room
  <2>1. /\ sensor_pc[s] = "loop" /\ sensor_pc' = [sensor_pc EXCEPT ![s] = "ended"]
        /\ UNCHANGED <<made, sensor_chan, buffer, handed, dropped_samples, task_pc,
                       shutdown_flag>>
    BY <1>12 DEF SensorEnd, doneVars
  <2>2. SendersOf(sensor_pc') = SendersOf(sensor_pc)
    BY <2>1, <1>1 DEF SendersOf
  <2> QED
    BY <2>1, <2>2, <1>9
<1>13. TaskTop \/ TaskIngest \/ TaskOpenWindow \/ TaskProcess \/ TaskIdleSlot
         \/ TaskCloseWindow => FALSE
  BY DEF TaskTop, TaskIngest, TaskOpenWindow, TaskProcess, TaskIdleSlot, TaskCloseWindow
<1>14. CASE SchedulerClears
  BY <1>9, <1>14 DEF SchedulerClears, sensorVars
<1>15. CASE RaiseShutdown
  BY <1>9, <1>15 DEF RaiseShutdown, sensorVars, doneVars
<1>16. CASE UNCHANGED vars
  BY <1>9, <1>16 DEF vars, sensorVars, doneVars
<1> QED
  BY <1>7, <1>8, <1>10, <1>11, <1>12, <1>13, <1>14, <1>15, <1>16 DEF Next, SensorStep, TaskStep

\* Both together say what is unaccounted for, before the end and after it.
LEMMA LossBound ==
  ASSUME TypeOK, Accounted, EndInv
  PROVE  LostOnlyAtTheEnd
<1>1. /\ Len(sensor_chan) \in Nat /\ Len(buffer) \in Nat /\ handed \in Nat /\ made \in Nat
      /\ dropped_samples \in Nat /\ SensorCap \in Nat /\ buffer_limit \in Nat
  BY LimitsAssumption DEF TypeOK
<1>2. InHands \in Nat /\ Cardinality(Sensors) \in Nat
  BY InHandsIs, HandsBound
<1>3. Room \in Nat /\ Room = SensorCap + buffer_limit + Cardinality(Sensors)
  BY <1>1, <1>2 DEF Room
<1>4. CASE task_pc # "ended"
  <2>1. Unaccounted = 0
    BY <1>1, <1>2, <1>4 DEF Unaccounted, Accounted, Located
  <2> QED
    BY <2>1, <1>3 DEF LostOnlyAtTheEnd
<1>5. CASE task_pc = "ended"
  <2>1. Unaccounted \in Nat /\ Unaccounted + InHands <= Room
    BY <1>5 DEF EndInv
  <2>2. Unaccounted \in 0 .. Room
    BY <2>1, <1>2, <1>3
  <2> QED
    BY <2>2, <1>3, <1>5 DEF LostOnlyAtTheEnd
<1> QED
  BY <1>4, <1>5

\* No sample is lost without a count while the task runs, and its end loses no
\* more than the channel, the buffer and the sensors' hands can hold.
THEOREM SamplesAccountedFor == Spec => []LostOnlyAtTheEnd
<1>1. Init /\ TypeOK => Accounted /\ EndInv
  <2> SUFFICES ASSUME Init
               PROVE  Accounted /\ EndInv
    OBVIOUS
  <2>1. SendersOf(sensor_pc) = {}
    BY DEF Init, SendersOf
  <2>2. InHands = 0
    BY <2>1, InHandsIs, FS_EmptySet
  <2>3. Len(sensor_chan) = 0 /\ Len(buffer) = 0
    BY DEF Init
  <2> QED
    BY <2>2, <2>3 DEF Init, Accounted, Located, EndInv
<1>2. TypeOK /\ TypeOK' /\ Accounted /\ EndInv /\ [Next]_vars => Accounted' /\ EndInv'
  BY AccountStep, EndStep
<1>3. TypeOK /\ Accounted /\ EndInv => LostOnlyAtTheEnd
  BY LossBound
<1> QED
  BY <1>1, <1>2, <1>3, TypeCorrect, PTL DEF Spec
=============================================================================
