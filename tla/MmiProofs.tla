------------------------------ MODULE MmiProofs ------------------------------
(***************************************************************************)
(* Theorems about Mmi for any number of leaves, any blocks of the two      *)
(* allocators and any batch and watermark of the cache.                    *)
(***************************************************************************)
EXTENDS Mmi, TLAPS, WellFoundedInduction, SequenceTheorems, FiniteSetTheorems

-----------------------------------------------------------------------------
(* Queues *)

LEMMA TailSet ==
  ASSUME NEW S, NEW s \in Seq(S), s # <<>>, IsInjective(s)
  PROVE  /\ Head(s) \in ToSet(s)
         /\ Tail(s) \in Seq(S) /\ Len(Tail(s)) = Len(s) - 1
         /\ IsInjective(Tail(s))
         /\ ToSet(Tail(s)) = ToSet(s) \ {Head(s)}
<1>1. /\ Len(s) \in Nat \ {0} /\ DOMAIN s = 1 .. Len(s) /\ Head(s) = s[1]
      /\ Tail(s) \in Seq(S) /\ Len(Tail(s)) = Len(s) - 1
      /\ \A i \in 1 .. Len(Tail(s)) : Tail(s)[i] = s[i + 1]
  BY EmptySeq, LenProperties, HeadTailProperties
<1>2. DOMAIN Tail(s) = 1 .. Len(s) - 1
  BY <1>1, LenProperties
<1>3. \A i, j \in DOMAIN s : s[i] = s[j] => i = j
  BY DEF IsInjective
<1>4. IsInjective(Tail(s))
  <2>1. ASSUME NEW i \in DOMAIN Tail(s), NEW j \in DOMAIN Tail(s), Tail(s)[i] = Tail(s)[j]
        PROVE  i = j
    <3>1. i + 1 \in DOMAIN s /\ j + 1 \in DOMAIN s /\ s[i + 1] = s[j + 1]
      BY <1>1, <1>2, <2>1
    <3> QED
      BY <1>2, <1>3, <3>1
  <2> QED
    BY <2>1 DEF IsInjective
<1>5. ASSUME NEW x
      PROVE  x \in ToSet(Tail(s)) <=> x \in ToSet(s) /\ x # Head(s)
  <2>1. ASSUME x \in ToSet(Tail(s))
        PROVE  x \in ToSet(s) /\ x # Head(s)
    <3>1. PICK i \in DOMAIN Tail(s) : x = Tail(s)[i]
      BY <2>1 DEF ToSet
    <3>2. i + 1 \in DOMAIN s /\ x = s[i + 1] /\ 1 \in DOMAIN s /\ i + 1 # 1
      BY <1>1, <1>2, <3>1
    <3> QED
      BY <1>1, <1>3, <3>2 DEF ToSet
  <2>2. ASSUME x \in ToSet(s), x # Head(s)
        PROVE  x \in ToSet(Tail(s))
    <3>1. PICK i \in DOMAIN s : x = s[i]
      BY <2>2 DEF ToSet
    <3>2. i - 1 \in DOMAIN Tail(s) /\ Tail(s)[i - 1] = s[i - 1 + 1] /\ i - 1 + 1 = i
      BY <1>1, <1>2, <2>2, <3>1
    <3> QED
      BY <3>1, <3>2 DEF ToSet
  <2> QED
    BY <2>1, <2>2
<1>6. Head(s) \in ToSet(s)
  BY <1>1 DEF ToSet
<1> QED
  BY <1>1, <1>4, <1>5, <1>6

LEMMA ConcatSet ==
  ASSUME NEW S, NEW s \in Seq(S), NEW t \in Seq(S), IsInjective(s), IsInjective(t),
         ToSet(s) \cap ToSet(t) = {}
  PROVE  /\ s \o t \in Seq(S) /\ Len(s \o t) = Len(s) + Len(t)
         /\ IsInjective(s \o t)
         /\ ToSet(s \o t) = ToSet(s) \cup ToSet(t)
<1> DEFINE q == s \o t
<1>1. /\ Len(s) \in Nat /\ DOMAIN s = 1 .. Len(s)
      /\ Len(t) \in Nat /\ DOMAIN t = 1 .. Len(t)
      /\ q \in Seq(S) /\ Len(q) = Len(s) + Len(t)
      /\ \A i \in 1 .. Len(s) + Len(t) : q[i] = IF i <= Len(s) THEN s[i] ELSE t[i - Len(s)]
  BY LenProperties, ConcatProperties
<1>2. DOMAIN q = 1 .. Len(s) + Len(t)
  BY <1>1, LenProperties
<1> HIDE DEF q
<1>3. ASSUME NEW i \in DOMAIN q
      PROVE  \/ i \in DOMAIN s /\ q[i] = s[i] /\ s[i] \in ToSet(s)
             \/ i \notin DOMAIN s /\ i - Len(s) \in DOMAIN t /\ q[i] = t[i - Len(s)]
                  /\ t[i - Len(s)] \in ToSet(t)
  BY <1>1, <1>2, <1>3 DEF ToSet
<1>4. ASSUME NEW i \in DOMAIN q, NEW j \in DOMAIN q, q[i] = q[j]
      PROVE  i = j
  <2>1. i \in DOMAIN s <=> j \in DOMAIN s
    BY <1>3, <1>4
  <2>2. CASE i \in DOMAIN s
    BY <1>3, <1>4, <2>1, <2>2 DEF IsInjective
  <2>3. CASE i \notin DOMAIN s
    <3>1. i - Len(s) = j - Len(s)
      BY <1>3, <1>4, <2>1, <2>3 DEF IsInjective
    <3> QED
      BY <1>1, <1>2, <3>1
  <2> QED
    BY <2>2, <2>3
<1>5. ToSet(q) \subseteq ToSet(s) \cup ToSet(t)
  <2>1. ASSUME NEW i \in DOMAIN q
        PROVE  q[i] \in ToSet(s) \cup ToSet(t)
    BY <1>3
  <2> QED
    BY <2>1 DEF ToSet
<1>6. ToSet(s) \cup ToSet(t) \subseteq ToSet(q)
  <2>1. ASSUME NEW i \in DOMAIN s
        PROVE  s[i] \in ToSet(q)
    <3>1. i \in DOMAIN q /\ q[i] = s[i]
      BY <1>1, <1>2
    <3> QED
      BY <3>1 DEF ToSet
  <2>2. ASSUME NEW i \in DOMAIN t
        PROVE  t[i] \in ToSet(q)
    <3>1. i + Len(s) \in DOMAIN q /\ q[i + Len(s)] = t[i + Len(s) - Len(s)] /\ i + Len(s) - Len(s) = i
      BY <1>1, <1>2
    <3> QED
      BY <3>1 DEF ToSet
  <2> QED
    BY <2>1, <2>2 DEF ToSet
<1>7. IsInjective(q)
  BY <1>4 DEF IsInjective
<1> QED
  BY <1>1, <1>5, <1>6, <1>7 DEF q

LEMMA AppendSet ==
  ASSUME NEW S, NEW s \in Seq(S), NEW e \in S, IsInjective(s), e \notin ToSet(s)
  PROVE  /\ Append(s, e) \in Seq(S) /\ Len(Append(s, e)) = Len(s) + 1
         /\ IsInjective(Append(s, e))
         /\ ToSet(Append(s, e)) = ToSet(s) \cup {e}
<1> DEFINE t == <<e>>
<1>1. /\ t \in Seq(S) /\ DOMAIN t = {1} /\ t[1] = e /\ Len(t) = 1
  OBVIOUS
<1>2. IsInjective(t) /\ ToSet(t) = {e}
  BY <1>1 DEF IsInjective, ToSet
<1>3. ToSet(s) \cap ToSet(t) = {}
  BY <1>2
<1>4. Append(s, e) = s \o t
  BY AppendIsConcat
<1> HIDE DEF t
<1>5. t \in Seq(S) /\ IsInjective(t)
  BY <1>1, <1>2
<1>6. /\ s \o t \in Seq(S) /\ Len(s \o t) = Len(s) + Len(t)
      /\ IsInjective(s \o t)
      /\ ToSet(s \o t) = ToSet(s) \cup ToSet(t)
  BY <1>3, <1>5, ConcatSet
<1> QED
  BY <1>1, <1>2, <1>4, <1>6

LEMMA PieceSet ==
  ASSUME NEW S, NEW s \in Seq(S), IsInjective(s), NEW m \in 1 .. Len(s) + 1,
         NEW n \in m - 1 .. Len(s)
  PROVE  /\ SubSeq(s, m, n) \in Seq(S) /\ Len(SubSeq(s, m, n)) = n - m + 1
         /\ IsInjective(SubSeq(s, m, n))
         /\ ToSet(SubSeq(s, m, n)) = {s[i] : i \in m .. n}
<1> DEFINE q == SubSeq(s, m, n)
<1>1. /\ Len(s) \in Nat /\ m \in Nat /\ m >= 1 /\ n \in Int /\ n >= m - 1 /\ n <= Len(s)
      /\ DOMAIN s = 1 .. Len(s) /\ \A i \in 1 .. Len(s) : s[i] \in S
  BY LenProperties, ElementOfSeq
<1>2. \A i \in m .. n : i \in 1 .. Len(s) /\ s[i] \in S
  BY <1>1
<1>3. /\ q \in Seq(S) /\ Len(q) = IF m <= n THEN n - m + 1 ELSE 0
      /\ \A i \in 1 .. n - m + 1 : q[i] = s[m + i - 1]
  <2>1. m \in Int /\ n \in Int /\ \A i \in m .. n : s[i] \in S
    BY <1>1, <1>2
  <2> QED
    BY ONLY <2>1, SubSeqProperties
<1> HIDE DEF q
<1>4. Len(q) = n - m + 1
  <2>1. m \in Int /\ n \in Int /\ n >= m - 1 /\ Len(q) = IF m <= n THEN n - m + 1 ELSE 0
    BY <1>1, <1>3
  <2> QED
    BY <2>1
<1>5. DOMAIN q = 1 .. n - m + 1
  BY <1>3, <1>4, LenProperties
<1>6. \A i, j \in 1 .. Len(s) : s[i] = s[j] => i = j
  BY <1>1 DEF IsInjective
<1>7. ASSUME NEW i \in 1 .. n - m + 1
      PROVE  m + i - 1 \in m .. n /\ q[i] = s[m + i - 1]
  BY <1>1, <1>3
<1>8. IsInjective(q)
  <2>1. ASSUME NEW i \in 1 .. n - m + 1, NEW j \in 1 .. n - m + 1, q[i] = q[j]
        PROVE  i = j
    <3>1. m + i - 1 = m + j - 1 /\ i \in Int /\ j \in Int /\ m \in Int
      BY <1>1, <1>2, <1>6, <1>7, <2>1
    <3> QED
      BY <3>1
  <2> QED
    BY <1>5, <2>1 DEF IsInjective
<1>9. ASSUME NEW i \in m .. n
      PROVE  \E k \in 1 .. n - m + 1 : q[k] = s[i]
  <2>1. i - m + 1 \in 1 .. n - m + 1 /\ m + (i - m + 1) - 1 = i
    BY <1>1
  <2> QED
    BY <1>7, <2>1
<1>10. ToSet(q) = {s[i] : i \in m .. n}
  <2>1. ToSet(q) = {q[i] : i \in 1 .. n - m + 1}
    BY <1>5 DEF ToSet
  <2>2. \A i \in 1 .. n - m + 1 : q[i] \in {s[k] : k \in m .. n}
    BY <1>7
  <2> QED
    BY <1>9, <2>1, <2>2
<1> QED
  BY <1>3, <1>4, <1>8, <1>10 DEF q

(* A queue whose first n elements are taken off. *)
LEMMA SplitSet ==
  ASSUME NEW S, NEW s \in Seq(S), IsInjective(s), NEW n \in 0 .. Len(s)
  PROVE  /\ SubSeq(s, n + 1, Len(s)) \in Seq(S) /\ Len(SubSeq(s, n + 1, Len(s))) = Len(s) - n
         /\ IsInjective(SubSeq(s, n + 1, Len(s)))
         /\ ToSet(SubSeq(s, 1, n)) \subseteq ToSet(s)
         /\ ToSet(SubSeq(s, n + 1, Len(s))) = ToSet(s) \ ToSet(SubSeq(s, 1, n))
<1>1. /\ Len(s) \in Nat /\ n \in Nat /\ n <= Len(s) /\ DOMAIN s = 1 .. Len(s)
      /\ 1 \in 1 .. Len(s) + 1 /\ n \in 1 - 1 .. Len(s)
      /\ n + 1 \in 1 .. Len(s) + 1 /\ Len(s) \in n + 1 - 1 .. Len(s)
  BY LenProperties
<1>2. ToSet(SubSeq(s, 1, n)) = {s[i] : i \in 1 .. n}
  BY <1>1, PieceSet
<1>3. /\ SubSeq(s, n + 1, Len(s)) \in Seq(S)
      /\ Len(SubSeq(s, n + 1, Len(s))) = Len(s) - (n + 1) + 1
      /\ IsInjective(SubSeq(s, n + 1, Len(s)))
      /\ ToSet(SubSeq(s, n + 1, Len(s))) = {s[i] : i \in n + 1 .. Len(s)}
  <2> DEFINE m == n + 1
  <2>1. m \in 1 .. Len(s) + 1 /\ Len(s) \in m - 1 .. Len(s)
    BY <1>1
  <2> HIDE DEF m
  <2>2. /\ SubSeq(s, m, Len(s)) \in Seq(S)
        /\ Len(SubSeq(s, m, Len(s))) = Len(s) - m + 1
        /\ IsInjective(SubSeq(s, m, Len(s)))
        /\ ToSet(SubSeq(s, m, Len(s))) = {s[i] : i \in m .. Len(s)}
    BY <2>1, PieceSet
  <2> QED
    BY <2>2 DEF m
<1>4. Len(s) - (n + 1) + 1 = Len(s) - n
  BY <1>1
<1>5. 1 .. Len(s) = (1 .. n) \cup (n + 1 .. Len(s)) /\ (1 .. n) \cap (n + 1 .. Len(s)) = {}
  BY <1>1
<1>6. \A i, j \in 1 .. Len(s) : s[i] = s[j] => i = j
  BY <1>1 DEF IsInjective
<1>7. {s[i] : i \in 1 .. n} \subseteq ToSet(s)
  BY <1>1, <1>5 DEF ToSet
<1>8. {s[i] : i \in n + 1 .. Len(s)} = ToSet(s) \ {s[i] : i \in 1 .. n}
  BY <1>1, <1>5, <1>6 DEF ToSet
<1> QED
  BY <1>2, <1>3, <1>4, <1>7, <1>8

-----------------------------------------------------------------------------
(* Leaves in their order *)

Below(S, l) == {m \in S : m < l}

(* How many elements of a set are less than one of it. *)
LEMMA Ranks ==
  ASSUME NEW S \in SUBSET Nat, IsFiniteSet(S)
  PROVE  /\ \A l \in S : Cardinality(Below(S, l)) \in 0 .. Cardinality(S) - 1
         /\ \A l, k \in S : l < k => Cardinality(Below(S, l)) < Cardinality(Below(S, k))
<1>1. Cardinality(S) \in Nat
  BY FS_CardinalityType
<1>2. ASSUME NEW l \in S
      PROVE  /\ IsFiniteSet(Below(S, l)) /\ Cardinality(Below(S, l)) \in Nat
             /\ Cardinality(Below(S, l)) < Cardinality(S)
  <2>1. Below(S, l) \in SUBSET S /\ l \notin Below(S, l)
    BY DEF Below
  <2>2. /\ IsFiniteSet(Below(S, l)) /\ Cardinality(Below(S, l)) <= Cardinality(S)
        /\ Cardinality(Below(S, l)) # Cardinality(S)
    BY <2>1, FS_Subset
  <2>3. Cardinality(Below(S, l)) \in Nat
    BY <2>2, FS_CardinalityType
  <2> QED
    BY <1>1, <2>2, <2>3
<1>3. ASSUME NEW l \in S, NEW k \in S, l < k
      PROVE  Cardinality(Below(S, l)) < Cardinality(Below(S, k))
  <2>1. /\ Below(S, l) \in SUBSET Below(S, k)
        /\ l \in Below(S, k) /\ l \notin Below(S, l)
    <3>1. ASSUME NEW m \in Below(S, l)
          PROVE  m \in Below(S, k)
      <4>1. m \in S /\ m < l /\ m \in Nat /\ l \in Nat /\ k \in Nat
        BY DEF Below
      <4>2. m < k
        BY <1>3, <4>1
      <4> QED
        BY <4>1, <4>2 DEF Below
    <3>2. l \in Nat /\ ~ (l < l)
      OBVIOUS
    <3> QED
      BY <1>3, <3>1, <3>2 DEF Below
  <2>2. /\ Cardinality(Below(S, l)) <= Cardinality(Below(S, k))
        /\ Cardinality(Below(S, l)) # Cardinality(Below(S, k))
    BY <1>2, <2>1, FS_Subset
  <2> QED
    BY <1>2, <2>2
<1> QED
  BY <1>1, <1>2, <1>3

LEMMA AscendingIs ==
  ASSUME NEW S \in SUBSET Nat, IsFiniteSet(S)
  PROVE  /\ Ascending(S) \in Seq(S) /\ Len(Ascending(S)) = Cardinality(S)
         /\ IsInjective(Ascending(S)) /\ ToSet(Ascending(S)) = S
         /\ \A i \in 1 .. Cardinality(S) :
              /\ Ascending(S)[i] \in S
              /\ Cardinality(Below(S, Ascending(S)[i])) = i - 1
<1> DEFINE C == Cardinality(S)
           rank == [l \in S |-> Cardinality(Below(S, l))]
           q == Ascending(S)
<1>1. C \in Nat
  BY FS_CardinalityType
<1>2. rank \in [S -> 0 .. C - 1]
  BY Ranks
<1>3. \A l, k \in S : rank[l] = rank[k] => l = k
  <2>1. ASSUME NEW l \in S, NEW k \in S, rank[l] = rank[k]
        PROVE  l = k
    <3>1. rank[l] \in Int /\ l \in Nat /\ k \in Nat
      BY <1>2
    <3>2. ~ (l < k) /\ ~ (k < l)
      BY <2>1, <3>1, Ranks
    <3> QED
      BY <3>1, <3>2
  <2> QED
    BY <2>1
<1>4. \A i \in 0 .. C - 1 : \E l \in S : rank[l] = i
  <2>1. IsFiniteSet(0 .. C - 1) /\ Cardinality(0 .. C - 1) = C
    <3>1. ASSUME NEW n \in Nat
          PROVE  IsFiniteSet(0 .. n - 1) /\ Cardinality(0 .. n - 1) = n
      <4>1. n - 1 \in Int /\ 0 \in Int
        OBVIOUS
      <4>2. /\ IsFiniteSet(0 .. n - 1)
            /\ Cardinality(0 .. n - 1) = IF 0 > n - 1 THEN 0 ELSE n - 1 - 0 + 1
        BY <4>1, FS_Interval
      <4> QED
        BY <4>2
    <3> QED
      BY <1>1, <3>1
  <2>2. rank \in Injection(S, 0 .. C - 1)
    BY <1>2, <1>3 DEF Injection, IsInjective
  <2>3. rank \in Surjection(S, 0 .. C - 1)
    BY <2>1, <2>2, FS_Injection
  <2> QED
    BY <2>3 DEF Surjection
<1>5. ASSUME NEW i \in 1 .. C
      PROVE  q[i] \in S /\ Cardinality(Below(S, q[i])) = i - 1
  <2>1. i - 1 \in 0 .. C - 1
    BY <1>1
  <2>2. PICK l \in S : Cardinality(Below(S, l)) = i - 1
    BY <1>4, <2>1
  <2>3. q[i] = CHOOSE k \in S : Cardinality(Below(S, k)) = i - 1
    BY DEF Ascending, Below
  <2> QED
    BY <2>2, <2>3
<1>6. q \in [1 .. C -> S]
  <2> DEFINE e(i) == CHOOSE l \in S : Cardinality({m \in S : m < l}) = i - 1
  <2>1. q = [i \in 1 .. C |-> e(i)]
    BY DEF Ascending
  <2>2. \A i \in 1 .. C : e(i) \in S
    BY <1>5, <2>1
  <2> HIDE DEF e
  <2> QED
    BY <2>1, <2>2
<1> HIDE DEF q
<1>7. q \in Seq(S) /\ Len(q) = C /\ DOMAIN q = 1 .. C
  BY <1>1, <1>6
<1>8. IsInjective(q)
  <2>1. ASSUME NEW i \in 1 .. C, NEW j \in 1 .. C, q[i] = q[j]
        PROVE  i = j
    <3>1. i - 1 = j - 1 /\ i \in Int /\ j \in Int
      BY <1>5, <2>1
    <3> QED
      BY <3>1
  <2> QED
    BY <1>7, <2>1 DEF IsInjective
<1>9. ToSet(q) = S
  <2>1. ASSUME NEW l \in S
        PROVE  \E i \in 1 .. C : q[i] = l
    <3>1. rank[l] \in 0 .. C - 1
      BY <1>2
    <3>2. PICK i \in 1 .. C : i - 1 = rank[l]
      <4>1. ASSUME NEW x \in 0 .. C - 1
            PROVE  x + 1 \in 1 .. C /\ x + 1 - 1 = x
        BY <1>1
      <4>2. \A x \in 0 .. C - 1 : \E i \in 1 .. C : i - 1 = x
        BY <4>1
      <4> QED
        BY <3>1, <4>2
    <3>3. q[i] \in S /\ Cardinality(Below(S, q[i])) = rank[l]
      BY <1>5, <3>2
    <3>4. rank[q[i]] = rank[l]
      BY <3>3
    <3> QED
      BY <1>3, <3>3, <3>4
  <2>2. S \subseteq ToSet(q)
    BY <1>7, <2>1 DEF ToSet
  <2>3. ToSet(q) \subseteq S
    BY <1>5, <1>7 DEF ToSet
  <2> QED
    BY <2>2, <2>3
<1> QED
  BY <1>5, <1>7, <1>8, <1>9 DEF q

(* The elements below a bound come first. *)
LEMMA AscendingBehind ==
  ASSUME NEW S \in SUBSET Nat, IsFiniteSet(S), NEW r \in Nat,
         Cardinality(Below(S, r)) < Cardinality(S)
  PROVE  Ascending(S)[Cardinality(Below(S, r)) + 1] \in S \ Below(S, r)
<1> DEFINE A == Below(S, r)
           k == Cardinality(A)
           j == k + 1
           l == Ascending(S)[j]
<1>1. A \in SUBSET S /\ IsFiniteSet(A) /\ k \in Nat /\ Cardinality(S) \in Nat
  BY FS_Subset, FS_CardinalityType DEF Below
<1>2. j \in 1 .. Cardinality(S) /\ j - 1 = k
  BY <1>1
<1> HIDE DEF j
<1>3. l \in S /\ Cardinality(Below(S, l)) = k
  <2>1. \A i \in 1 .. Cardinality(S) :
          Ascending(S)[i] \in S /\ Cardinality(Below(S, Ascending(S)[i])) = i - 1
    BY AscendingIs
  <2> QED
    BY <1>2, <2>1
<1> HIDE DEF l
<1>4. ASSUME l \in A
      PROVE  FALSE
  <2>1. Below(A, l) = Below(S, l)
    <3>1. ASSUME NEW m \in S, m < l
          PROVE  m < r
      <4>1. m \in Nat /\ l \in Nat /\ l < r
        BY <1>3, <1>4 DEF Below
      <4> QED
        BY <3>1, <4>1
    <3> QED
      BY <3>1 DEF Below
  <2>2. A \in SUBSET Nat
    BY <1>1
  <2>3. Cardinality(Below(A, l)) \in 0 .. k - 1
    BY <1>1, <1>4, <2>2, Ranks
  <2> QED
    BY <1>1, <1>3, <2>1, <2>3
<1> QED
  BY <1>3, <1>4 DEF j, l

-----------------------------------------------------------------------------
(* The inductive invariant *)

(* The leaves that the cache took from the buddy allocator and did not     *)
(* give back.                                                              *)
Kept == ToSet(frees) \cup inuses \cup records \cup lost

(* Each leaf the cache took is a block of its own in the buddy allocator,  *)
(* which is what _bud_free of a drained page relies on.                    *)
Taken == owned = Single(Kept) \cup LargeOwned

Apart ==
  /\ ToSet(frees) \cap inuses = {}
  /\ (ToSet(frees) \cup inuses) \cap records = {}
  /\ (ToSet(frees) \cup inuses \cup records) \cap lost = {}
  /\ \A b \in LargeOwned : b \cap Kept = {}
  /\ \A a, b \in LargeOwned : a # b => a \cap b = {}

CacheInv == Types /\ Counted /\ Taken /\ Apart

PoolInv ==
  /\ PoolBlock \in owned
  /\ small \subseteq UNION {Blocks[c] : c \in DOMAIN Chunk}

IInv == CacheInv /\ PoolInv

LEMMA LeafFinite ==
  ASSUME NEW S \in SUBSET Leaf
  PROVE  IsFiniteSet(S) /\ S \in SUBSET Nat /\ Cardinality(S) \in Nat
<1>1. N - 1 \in Int /\ 0 \in Int /\ Leaf \subseteq Nat
  BY LazyAssumption DEF Leaf
<1>2. IsFiniteSet(Leaf)
  BY <1>1, FS_Interval DEF Leaf
<1> QED
  BY <1>1, <1>2, FS_Subset, FS_CardinalityType

(* No block of the buddy allocator's that is larger than a leaf is one. *)
LEMMA LargeNotSingle ==
  ASSUME NEW b \in Large
  PROVE  b \subseteq Leaf /\ b # {} /\ \A l : b # {l}
<1>1. b \subseteq Leaf /\ Cardinality(b) > 1
  BY LazyAssumption
<1>2. b # {}
  BY <1>1, FS_EmptySet
<1>3. ASSUME NEW l
      PROVE  b # {l}
  BY <1>1, FS_Singleton
<1> QED
  BY <1>1, <1>2, <1>3

LEMMA InUse ==
  ASSUME Taken
  PROVE  UNION owned = Kept \cup UNION LargeOwned
BY DEF Taken, Single

LEMMA AvailableIs ==
  ASSUME CacheInv
  PROVE  /\ Available \subseteq Leaf /\ Available \cap Kept = {}
         /\ \A b \in LargeOwned : Available \cap b = {}
         /\ IsFiniteSet(Available) /\ Available \in SUBSET Nat
BY InUse, LeafFinite DEF CacheInv, Available

(* What the refill is given: the free leaves below Reach, lowest first. *)
LEMMA AcceptedIs ==
  ASSUME CacheInv
  PROVE  /\ Accepted \in Seq(Leaf) /\ IsInjective(Accepted)
         /\ ToSet(Accepted) \subseteq Available
         /\ Len(Accepted) \in Nat
         /\ Len(Leaves) > Len(Accepted)
              => Leaves[Len(Accepted) + 1] \in Available \ ToSet(Accepted)
<1> DEFINE A == Below(Available, Reach)
<1>1. Accepted = Ascending(A)
  BY DEF Accepted, Below
<1>2. A \in SUBSET Available /\ A \in SUBSET Nat /\ IsFiniteSet(A)
  BY AvailableIs, FS_Subset DEF Below
<1>3. /\ Accepted \in Seq(A) /\ Len(Accepted) = Cardinality(A)
      /\ IsInjective(Accepted) /\ ToSet(Accepted) = A
  BY <1>1, <1>2, AscendingIs
<1>4. Accepted \in Seq(Leaf)
  BY <1>2, <1>3, AvailableIs, SeqMonotonic
<1>5. Len(Leaves) = Cardinality(Available)
  BY AvailableIs, AscendingIs DEF Leaves
<1>6. ASSUME Len(Leaves) > Len(Accepted)
      PROVE  Leaves[Len(Accepted) + 1] \in Available \ ToSet(Accepted)
  <2>1. Cardinality(A) \in Nat /\ Cardinality(Available) \in Nat
    BY <1>2, AvailableIs, FS_CardinalityType
  <2>2. Cardinality(A) < Cardinality(Available)
    BY <1>3, <1>5, <1>6, <2>1
  <2>3. Ascending(Available)[Cardinality(A) + 1] \in Available \ A
    BY <2>2, AvailableIs, LazyAssumption, AscendingBehind
  <2> QED
    BY <1>3, <2>3 DEF Leaves
<1> QED
  BY <1>2, <1>3, <1>4, <1>6, LenProperties

-----------------------------------------------------------------------------
(* The page cache keeps its books *)

(* Cardinality counts one more page with a caller, or one less. *)
LEMMA OneMore ==
  ASSUME CacheInv, NEW p \in Leaf \ inuses
  PROVE  Cardinality(inuses \cup {p}) = unum + 1
<1>1. IsFiniteSet(inuses)
  BY LeafFinite DEF CacheInv, Types
<1> QED
  BY <1>1, FS_AddElement DEF CacheInv, Counted

LEMMA OneLess ==
  ASSUME CacheInv, NEW p \in inuses
  PROVE  Cardinality(inuses \ {p}) = unum - 1 /\ unum - 1 \in Nat
<1>1. IsFiniteSet(inuses) /\ inuses \ {p} \in SUBSET Leaf
  BY LeafFinite DEF CacheInv, Types
<1>2. Cardinality(inuses \ {p}) = unum - 1
  BY <1>1, FS_RemoveElement DEF CacheInv, Counted
<1> QED
  BY <1>1, <1>2, LeafFinite

(* The invariant after a step that puts new leaves into the cache's hands: *)
(* those in X, which were available.                                       *)
LEMMA TakeSome ==
  ASSUME CacheInv, NEW X \in SUBSET Available,
         owned' = owned \cup Single(X), Kept' = Kept \cup X,
         /\ ToSet(frees)' \cap inuses' = {}
         /\ (ToSet(frees)' \cup inuses') \cap records' = {}
         /\ (ToSet(frees)' \cup inuses' \cup records') \cap lost' = {}
  PROVE  Taken' /\ Apart' /\ LargeOwned' = LargeOwned
<1>1. LargeOwned' = LargeOwned
  <2>1. \A b \in Single(X) : b \notin Large
    BY LargeNotSingle DEF Single
  <2> QED
    BY <2>1 DEF LargeOwned
<1>2. Taken'
  <2>1. owned = Single(Kept) \cup LargeOwned
    BY DEF CacheInv, Taken
  <2>2. Single(Kept)' = Single(Kept) \cup Single(X)
    BY DEF Single
  <2> QED
    BY <1>1, <2>1, <2>2 DEF Taken
<1>3. \A b \in LargeOwned : b \cap (Kept \cup X) = {}
  <2>1. \A b \in LargeOwned : b \cap X = {}
    BY AvailableIs
  <2> QED
    BY <2>1 DEF CacheInv, Apart
<1> QED
  BY <1>1, <1>2, <1>3 DEF Apart, CacheInv

(* The front of a queue of pages moves to a caller. *)
LEMMA ServeMoves ==
  ASSUME CacheInv, NEW pages \in Seq(Leaf), pages # <<>>, IsInjective(pages),
         ToSet(pages) \cap inuses = {}, Len(pages) \in 1 .. Wmk + 1,
         Serve(pages, Len(pages))
  PROVE  /\ Head(pages) \in ToSet(pages) /\ Head(pages) \in Leaf
         /\ inuses' = inuses \cup {Head(pages)}
         /\ ToSet(frees)' = ToSet(pages) \ {Head(pages)}
         /\ frees' \in Seq(Leaf) /\ inuses' \subseteq Leaf
         /\ fnum' \in 0 .. Wmk /\ unum' \in Nat /\ asked' \subseteq Nat /\ res' \subseteq Leaf
         /\ Counted'
<1>1. /\ Head(pages) \in ToSet(pages)
      /\ Tail(pages) \in Seq(Leaf) /\ Len(Tail(pages)) = Len(pages) - 1
      /\ IsInjective(Tail(pages)) /\ ToSet(Tail(pages)) = ToSet(pages) \ {Head(pages)}
  BY TailSet
<1>2. Head(pages) \in Leaf
  BY HeadTailProperties
<1>3. /\ inuses' = inuses \cup {Head(pages)} /\ frees' = Tail(pages)
      /\ fnum' = Len(pages) - 1 /\ unum' = unum + 1
      /\ asked' = {1} /\ res' = {Head(pages)}
  BY DEF Serve, Served
<1>4. Cardinality(inuses') = unum + 1
  BY <1>1, <1>2, <1>3, OneMore
<1>5. Counted'
  BY <1>1, <1>3, <1>4 DEF Counted
<1>6. unum + 1 \in Nat /\ fnum' \in 0 .. Wmk
  BY <1>3, LazyAssumption DEF CacheInv, Types
<1> QED
  BY <1>1, <1>2, <1>3, <1>5, <1>6 DEF CacheInv, Types

LEMMA AllocCachedInv ==
  ASSUME CacheInv, AllocCached
  PROVE  /\ CacheInv' /\ LargeOwned' = LargeOwned
         /\ \E p \in ToSet(frees) : inuses' = inuses \cup {p} /\ res' = {p}
<1>1. /\ frees \in Seq(Leaf) /\ Len(frees) = fnum /\ fnum \in 0 .. Wmk /\ fnum # 0
      /\ IsInjective(frees) /\ ToSet(frees) \cap inuses = {}
      /\ Serve(frees, Len(frees)) /\ UNCHANGED <<owned, records, lost>>
  BY DEF AllocCached, CacheInv, Types, Counted, Apart
<1>2. frees # <<>> /\ Len(frees) \in 1 .. Wmk + 1
  BY <1>1, EmptySeq, LazyAssumption
<1>3. /\ Head(frees) \in ToSet(frees)
      /\ inuses' = inuses \cup {Head(frees)}
      /\ ToSet(frees)' = ToSet(frees) \ {Head(frees)}
      /\ frees' \in Seq(Leaf) /\ inuses' \subseteq Leaf
      /\ fnum' \in 0 .. Wmk /\ unum' \in Nat /\ asked' \subseteq Nat /\ res' \subseteq Leaf
      /\ Counted'
  BY <1>1, <1>2, ServeMoves
<1>4. Types'
  BY <1>1, <1>3 DEF Types, CacheInv
<1>5. /\ Kept' = Kept \cup {} /\ {} \in SUBSET Available /\ owned' = owned \cup Single({})
  BY <1>1, <1>3 DEF Kept, Single
<1>6. /\ ToSet(frees)' \cap inuses' = {}
      /\ (ToSet(frees)' \cup inuses') \cap records' = {}
      /\ (ToSet(frees)' \cup inuses' \cup records') \cap lost' = {}
  BY <1>1, <1>3 DEF CacheInv, Apart
<1>7. Taken' /\ Apart' /\ LargeOwned' = LargeOwned
  BY <1>5, <1>6, TakeSome
<1>8. res' = {Head(frees)}
  BY <1>1 DEF Serve, Served
<1> QED
  BY <1>3, <1>4, <1>7, <1>8 DEF CacheInv

(* A cache whose counter is 0 is empty. *)
LEMMA EmptyCache ==
  ASSUME CacheInv, fnum = 0
  PROVE  frees = <<>> /\ ToSet(frees) = {}
<1>1. frees = <<>>
  BY EmptySeq DEF CacheInv, Types, Counted
<1> QED
  BY <1>1 DEF ToSet

LEMMA AllocRefilledInv ==
  ASSUME CacheInv, AllocRefilled
  PROVE  /\ CacheInv' /\ LargeOwned' = LargeOwned
         /\ \E p \in Available : inuses' = inuses \cup {p} /\ res' = {p}
<1> DEFINE a     == Accepted[1]
           pages == SubSeq(Accepted, 2, Batch + 1)
           X     == {a} \cup ToSet(pages)
<1>1. /\ Accepted \in Seq(Leaf) /\ IsInjective(Accepted) /\ ToSet(Accepted) \subseteq Available
      /\ Len(Accepted) \in Nat /\ Len(Accepted) > Batch /\ Batch \in Nat \ {0}
      /\ DOMAIN Accepted = 1 .. Len(Accepted)
  BY AcceptedIs, LazyAssumption, LenProperties DEF AllocRefilled
<1>2. /\ pages \in Seq(Leaf) /\ Len(pages) = Batch
      /\ IsInjective(pages) /\ ToSet(pages) = {Accepted[i] : i \in 2 .. Batch + 1}
  <2> DEFINE n == Batch + 1
  <2>1. 2 \in 1 .. Len(Accepted) + 1 /\ n \in 2 - 1 .. Len(Accepted)
    BY <1>1
  <2> HIDE DEF n
  <2>2. /\ SubSeq(Accepted, 2, n) \in Seq(Leaf) /\ Len(SubSeq(Accepted, 2, n)) = n - 2 + 1
        /\ IsInjective(SubSeq(Accepted, 2, n))
        /\ ToSet(SubSeq(Accepted, 2, n)) = {Accepted[i] : i \in 2 .. n}
    BY <1>1, <2>1, PieceSet
  <2>3. n = Batch + 1 /\ pages = SubSeq(Accepted, 2, n)
    BY DEF n
  <2> HIDE DEF pages
  <2>4. pages \in Seq(Leaf) /\ IsInjective(pages)
    BY ONLY <2>2, <2>3
  <2>5. Len(pages) = Batch
    <3>1. n \in Int /\ Batch \in Int /\ n = Batch + 1
      BY <1>1, <2>3
    <3>2. n - 2 + 1 = Batch
      BY ONLY <3>1
    <3> QED
      BY ONLY <2>2, <2>3, <3>2
  <2>6. ToSet(pages) = {Accepted[i] : i \in 2 .. Batch + 1}
    BY ONLY <2>2, <2>3, Zenon
  <2> QED
    BY <2>4, <2>5, <2>6
<1>3. a \notin ToSet(pages) /\ X \subseteq Available /\ a \in Available
  <2>1. 1 \in 1 .. Len(Accepted) /\ 2 .. Batch + 1 \subseteq 1 .. Len(Accepted) /\ 1 \notin 2 .. Batch + 1
    BY <1>1
  <2>2. \A i, j \in 1 .. Len(Accepted) : Accepted[i] = Accepted[j] => i = j
    BY <1>1 DEF IsInjective
  <2>3. \A i \in 1 .. Len(Accepted) : Accepted[i] \in Available
    BY <1>1 DEF ToSet
  <2> QED
    BY <1>2, <2>1, <2>2, <2>3
<1>4. Len(pages) = Batch /\ Batch \in 1 .. Wmk + 1
  BY <1>1, <1>2, LazyAssumption
<1>5. frees = <<>> /\ ToSet(frees) = {} /\ fnum = 0
  BY EmptyCache DEF AllocRefilled
<1>6. /\ records' = records \cup {a} /\ owned' = owned \cup Single(X) /\ lost' = lost
      /\ Serve(frees \o pages, fnum + Batch)
  BY DEF AllocRefilled
<1> HIDE DEF pages, a
<1>7. Serve(pages, Len(pages))
  <2>1. frees \o pages = pages
    BY <1>2, <1>5, ConcatEmptySeq
  <2> QED
    BY <1>4, <1>5, <1>6, <2>1
<1>8. pages # <<>>
  BY <1>2, <1>4, EmptySeq
<1>9. Available \cap Kept = {}
  BY AvailableIs
<1>10. /\ Head(pages) \in ToSet(pages)
       /\ inuses' = inuses \cup {Head(pages)}
       /\ ToSet(frees)' = ToSet(pages) \ {Head(pages)}
       /\ frees' \in Seq(Leaf) /\ inuses' \subseteq Leaf
       /\ fnum' \in 0 .. Wmk /\ unum' \in Nat /\ asked' \subseteq Nat /\ res' \subseteq Leaf
       /\ Counted'
  <2>1. ToSet(pages) \cap inuses = {}
    BY <1>3, <1>9 DEF Kept
  <2>2. Len(pages) \in 1 .. Wmk + 1
    BY <1>4
  <2> QED
    BY <1>2, <1>7, <1>8, <2>1, <2>2, ServeMoves
<1>11. Kept' = Kept \cup X
  BY <1>5, <1>6, <1>10 DEF Kept
<1>12. /\ ToSet(frees)' \cap inuses' = {}
       /\ (ToSet(frees)' \cup inuses') \cap records' = {}
       /\ (ToSet(frees)' \cup inuses' \cup records') \cap lost' = {}
  BY <1>3, <1>5, <1>6, <1>9, <1>10 DEF Kept, CacheInv, Apart
<1>13. Taken' /\ Apart' /\ LargeOwned' = LargeOwned
  BY <1>3, <1>6, <1>11, <1>12, TakeSome
<1>14. Types'
  <2>1. X \subseteq Leaf
    BY <1>3, AvailableIs
  <2>2. owned' \subseteq SUBSET Leaf /\ records' \subseteq Leaf
    BY <1>6, <2>1 DEF CacheInv, Types, Single
  <2> QED
    BY <1>6, <1>10, <2>2 DEF CacheInv, Types
<1>15. res' = {Head(pages)} /\ Head(pages) \in Available
  BY <1>3, <1>7, <1>10 DEF Serve, Served
<1> QED
  BY <1>10, <1>13, <1>14, <1>15 DEF CacheInv

LEMMA RefillFailsInv ==
  ASSUME CacheInv, RefillFails
  PROVE  CacheInv' /\ LargeOwned' = LargeOwned /\ inuses' = inuses
<1> DEFINE refused == Leaves[Len(Accepted) + 1]
           pages == IF Accepted = <<>> THEN <<>> ELSE Tail(Accepted)
           X == {refused} \cup ToSet(Accepted)
<1>1. /\ Accepted \in Seq(Leaf) /\ IsInjective(Accepted) /\ ToSet(Accepted) \subseteq Available
      /\ Len(Accepted) \in Nat /\ Len(Accepted) <= Batch
      /\ refused \in Available \ ToSet(Accepted)
  BY AcceptedIs DEF RefillFails
<1>2. /\ frees = <<>> /\ ToSet(frees) = {} /\ fnum = 0
  BY EmptyCache DEF RefillFails
<1>3. /\ owned' = owned \cup Single(X) /\ lost' = lost \cup {refused}
      /\ records' = records \cup (ToSet(Accepted) \ ToSet(pages))
      /\ frees' = frees \o pages /\ fnum' = fnum + Len(pages)
      /\ UNCHANGED <<inuses, unum, asked, res>>
  BY DEF RefillFails
<1>4. /\ pages \in Seq(Leaf) /\ IsInjective(pages) /\ ToSet(pages) \subseteq ToSet(Accepted)
      /\ Len(pages) \in 0 .. Wmk
  <2>1. CASE Accepted = <<>>
    <3>1. pages = <<>>
      BY <2>1
    <3> HIDE DEF pages
    <3>2. pages \in Seq(Leaf) /\ Len(pages) = 0 /\ DOMAIN pages = {}
      BY <3>1
    <3>3. IsInjective(pages) /\ ToSet(pages) = {}
      BY <3>2 DEF IsInjective, ToSet
    <3>4. 0 \in 0 .. Wmk
      BY LazyAssumption
    <3> QED
      BY <3>2, <3>3, <3>4
  <2>2. CASE Accepted # <<>>
    <3>1. /\ pages \in Seq(Leaf) /\ IsInjective(pages) /\ ToSet(pages) \subseteq ToSet(Accepted)
          /\ Len(pages) = Len(Accepted) - 1
      BY <1>1, <2>2, TailSet
    <3>2. Len(pages) \in Nat
      BY <3>1, LenProperties
    <3>3. Len(Accepted) - 1 <= Wmk
      BY <1>1, LazyAssumption
    <3> QED
      BY <3>1, <3>2, <3>3
  <2> QED
    BY <2>1, <2>2
<1> HIDE DEF pages, refused
<1>5. frees' = pages /\ fnum' = Len(pages)
  <2>1. frees \o pages = pages
    BY <1>2, <1>4, ConcatEmptySeq
  <2> QED
    BY <1>2, <1>3, <1>4, <2>1
<1>6. Available \cap Kept = {} /\ X \subseteq Available /\ X \subseteq Leaf
  BY <1>1, AvailableIs
<1>7. Kept' = Kept \cup X
  BY <1>2, <1>3, <1>4, <1>5 DEF Kept
<1>8. /\ ToSet(frees)' \cap inuses' = {}
      /\ (ToSet(frees)' \cup inuses') \cap records' = {}
      /\ (ToSet(frees)' \cup inuses' \cup records') \cap lost' = {}
  BY <1>1, <1>3, <1>4, <1>5, <1>6 DEF Kept, CacheInv, Apart
<1>9. Taken' /\ Apart' /\ LargeOwned' = LargeOwned
  BY <1>3, <1>6, <1>7, <1>8, TakeSome
<1>10. Types'
  <2>1. owned' \subseteq SUBSET Leaf /\ records' \subseteq Leaf /\ lost' \subseteq Leaf
    BY <1>3, <1>6 DEF CacheInv, Types, Single
  <2> QED
    BY <1>3, <1>4, <1>5, <2>1 DEF CacheInv, Types
<1>11. Counted'
  BY <1>3, <1>4, <1>5 DEF CacheInv, Counted
<1> QED
  BY <1>3, <1>9, <1>10, <1>11 DEF CacheInv
LEMMA FreeInv ==
  ASSUME CacheInv, NEW p \in inuses, Free(p)
  PROVE  CacheInv' /\ LargeOwned' = LargeOwned
<1>1. /\ frees \in Seq(Leaf) /\ IsInjective(frees) /\ Len(frees) = fnum
      /\ p \in Leaf /\ p \notin ToSet(frees) /\ inuses \subseteq Leaf
      /\ fnum \in 0 .. Wmk /\ Wmk \in Nat
  BY LazyAssumption DEF CacheInv, Types, Counted, Apart
<1>2. /\ frees' = Append(frees, p) /\ inuses' = inuses \ {p}
      /\ fnum' = fnum + 1 /\ ~ (fnum + 1 > Wmk) /\ unum' = unum - 1
      /\ asked' = {} /\ res' = {} /\ UNCHANGED <<owned, records, lost>>
  BY DEF Free, Freed, Returned, TooMany
<1>3. /\ frees' \in Seq(Leaf) /\ Len(frees') = fnum + 1
      /\ IsInjective(frees') /\ ToSet(frees)' = ToSet(frees) \cup {p}
  BY <1>1, <1>2, AppendSet
<1>4. fnum' \in 0 .. Wmk /\ unum' \in Nat /\ Cardinality(inuses') = unum'
  <2>1. fnum' \in 0 .. Wmk
    BY <1>1, <1>2
  <2> QED
    BY <1>2, <2>1, OneLess
<1>5. Types' /\ Counted'
  BY <1>1, <1>2, <1>3, <1>4 DEF CacheInv, Types, Counted
<1>6. Kept' = Kept \cup {} /\ {} \in SUBSET Available /\ owned' = owned \cup Single({})
  BY <1>2, <1>3 DEF Kept, Single
<1>7. /\ ToSet(frees)' \cap inuses' = {}
      /\ (ToSet(frees)' \cup inuses') \cap records' = {}
      /\ (ToSet(frees)' \cup inuses' \cup records') \cap lost' = {}
  BY <1>2, <1>3 DEF CacheInv, Apart
<1>8. Taken' /\ Apart' /\ LargeOwned' = LargeOwned
  BY <1>6, <1>7, TakeSome
<1> QED
  BY <1>5, <1>8 DEF CacheInv

(* The pages that a full cache gives back are blocks of their own. *)
LEMMA FreeAndDrainInv ==
  ASSUME CacheInv, NEW p \in inuses, FreeAndDrain(p)
  PROVE  CacheInv' /\ LargeOwned' = LargeOwned
<1> DEFINE q == Append(frees, p)
           D == ToSet(SubSeq(q, 1, Batch))
<1>1. /\ frees \in Seq(Leaf) /\ IsInjective(frees) /\ Len(frees) = fnum
      /\ p \in Leaf /\ p \notin ToSet(frees) /\ inuses \subseteq Leaf
      /\ fnum \in 0 .. Wmk /\ Wmk \in Nat /\ Batch \in Nat \ {0} /\ Wmk >= Batch
  BY LazyAssumption DEF CacheInv, Types, Counted, Apart
<1>2. /\ frees' = SubSeq(q, Batch + 1, Len(q)) /\ inuses' = inuses \ {p}
      /\ fnum' = fnum + 1 - Batch /\ fnum + 1 > Wmk /\ unum' = unum - 1
      /\ owned' = owned \ Single(D)
      /\ asked' = {} /\ res' = {} /\ UNCHANGED <<records, lost>>
  BY DEF FreeAndDrain, Freed, Returned, TooMany, Drained
<1>3. q \in Seq(Leaf) /\ Len(q) = fnum + 1 /\ IsInjective(q) /\ ToSet(q) = ToSet(frees) \cup {p}
  BY <1>1, AppendSet
<1> HIDE DEF q
<1>4. Batch \in 0 .. Len(q)
  BY <1>1, <1>2, <1>3
<1>5. /\ frees' \in Seq(Leaf) /\ Len(frees') = Len(q) - Batch /\ IsInjective(frees')
      /\ D \subseteq ToSet(q) /\ ToSet(frees)' = ToSet(q) \ D
  BY <1>2, <1>3, <1>4, SplitSet
<1> HIDE DEF D
<1>6. fnum' \in 0 .. Wmk /\ unum' \in Nat /\ Cardinality(inuses') = unum' /\ fnum' = Len(frees')
  <2>1. fnum' \in 0 .. Wmk
    BY <1>1, <1>2
  <2>2. fnum' = Len(frees')
    BY ONLY <1>1, <1>2, <1>3, <1>5
  <2> QED
    BY <1>2, <2>1, <2>2, OneLess
<1>7. Types' /\ Counted'
  BY <1>1, <1>2, <1>5, <1>6 DEF CacheInv, Types, Counted
<1>8. Kept' = Kept \ D
  BY <1>2, <1>3, <1>5 DEF Kept, CacheInv, Apart
<1>9. LargeOwned' = LargeOwned
  <2>1. \A b \in Single(D) : b \notin Large
    BY LargeNotSingle DEF Single
  <2> QED
    BY <1>2, <2>1 DEF LargeOwned
<1>10. Taken'
  <2>1. owned = Single(Kept) \cup LargeOwned
    BY DEF CacheInv, Taken
  <2>2. Single(Kept \ D) = Single(Kept) \ Single(D)
    BY DEF Single
  <2>3. \A b \in LargeOwned : b \notin Single(D)
    BY LargeNotSingle DEF LargeOwned, Single
  <2>4. owned' = Single(Kept \ D) \cup LargeOwned
    BY <1>2, <2>1, <2>2, <2>3
  <2>5. Single(Kept)' = Single(Kept \ D)
    BY <1>8 DEF Single
  <2> QED
    BY <1>9, <2>4, <2>5 DEF Taken
<1>11. Apart'
  BY <1>2, <1>3, <1>5, <1>8, <1>9 DEF CacheInv, Apart
<1> QED
  BY <1>7, <1>9, <1>10, <1>11 DEF CacheInv

LEMMA AllocLargeInv ==
  ASSUME CacheInv, NEW b \in Large, AllocLarge(b)
  PROVE  CacheInv' /\ LargeOwned' = LargeOwned \cup {b} /\ b \subseteq Available /\ inuses' = inuses
<1>1. /\ b \subseteq Available /\ owned' = owned \cup {b}
      /\ asked' = {Cardinality(b)} /\ res' = b
      /\ UNCHANGED <<frees, inuses, fnum, unum, records, lost>>
  BY DEF AllocLarge, Fits
<1>2. b \subseteq Leaf /\ Cardinality(b) \in Nat
  BY LargeNotSingle, LeafFinite
<1>3. LargeOwned' = LargeOwned \cup {b} /\ Kept' = Kept
  BY <1>1 DEF LargeOwned, Kept
<1>4. Types' /\ Counted'
  BY <1>1, <1>2 DEF CacheInv, Types, Counted
<1>5. Taken'
  BY <1>1, <1>3 DEF CacheInv, Taken, Single
<1>6. b \cap Kept = {} /\ \A c \in LargeOwned : b \cap c = {}
  BY <1>1, AvailableIs
<1>7. Apart'
  BY <1>1, <1>3, <1>6 DEF CacheInv, Apart
<1> QED
  BY <1>1, <1>3, <1>4, <1>5, <1>7 DEF CacheInv

LEMMA FreeLargeInv ==
  ASSUME CacheInv, NEW b \in Large, FreeLarge(b)
  PROVE  CacheInv' /\ LargeOwned' = LargeOwned \ {b} /\ inuses' = inuses
<1>1. /\ owned' = owned \ {b} /\ asked' = {} /\ res' = {}
      /\ UNCHANGED <<frees, inuses, fnum, unum, records, lost>>
  BY DEF FreeLarge
<1>2. LargeOwned' = LargeOwned \ {b} /\ Kept' = Kept
  BY <1>1 DEF LargeOwned, Kept
<1>3. Types' /\ Counted'
  BY <1>1 DEF CacheInv, Types, Counted
<1>4. Taken'
  <2>1. b \notin Single(Kept)
    BY LargeNotSingle DEF Single
  <2> QED
    BY <1>1, <1>2, <2>1 DEF CacheInv, Taken, Single
<1>5. Apart'
  BY <1>1, <1>2 DEF CacheInv, Apart
<1> QED
  BY <1>1, <1>2, <1>3, <1>4, <1>5 DEF CacheInv
-----------------------------------------------------------------------------
(* Units *)

LEMMA Least ==
  ASSUME NEW S \in SUBSET Nat, S # {}
  PROVE  Min(S) \in S /\ \A x \in S : Min(S) <= x
<1>1. IsWellFoundedOn(OpToRel(<, Nat), Nat)
  BY NatLessThanWellFounded
<1>2. PICK m \in S : \A n \in S : <<n, m>> \notin OpToRel(<, Nat)
  BY <1>1, WFMin
<1>3. \A n \in S : ~ (n < m)
  BY <1>2 DEF OpToRel
<1>4. \A n \in S : m <= n
  BY <1>3
<1> QED
  BY <1>4 DEF Min

LEMMA LeastIs ==
  ASSUME NEW S \in SUBSET Nat, NEW m \in S, \A x \in S : m <= x
  PROVE  Min(S) = m
<1>1. Min(S) \in Nat /\ m \in Nat /\ Min(S) <= m /\ m <= Min(S)
  BY Least
<1> QED
  BY ONLY <1>1

(* The units of a leaf end before those of the next one begin. *)
LEMMA NextLeaf ==
  ASSUME NEW l \in Nat, NEW k \in Nat, l < k, NEW c \in Nat \ {0}
  PROVE  l * c + c <= k * c
<1> DEFINE d == k - l - 1
<1>1. d \in Nat /\ k = l + 1 + d
  OBVIOUS
<1> HIDE DEF d
<1>2. k * c = l * c + c + d * c
  BY <1>1
<1>3. d * c \in Nat /\ l * c \in Nat
  BY <1>1
<1> QED
  BY <1>2, <1>3

LEMMA UnitOf ==
  ASSUME NEW A \in SUBSET Leaf, NEW u
  PROVE  u \in Units(A) <=> \E l \in A : u \in l * PageSize .. l * PageSize + PageSize - 1
BY DEF Units

LEMMA UnitsApart ==
  ASSUME NEW A \in SUBSET Leaf, NEW B \in SUBSET Leaf, A \cap B = {}
  PROVE  Units(A) \cap Units(B) = {}
<1>1. SUFFICES ASSUME NEW u \in Units(A), u \in Units(B)
               PROVE  FALSE
  OBVIOUS
<1>2. PICK l \in A : u \in l * PageSize .. l * PageSize + PageSize - 1
  BY <1>1, UnitOf
<1>3. PICK k \in B : u \in k * PageSize .. k * PageSize + PageSize - 1
  BY <1>1, UnitOf
<1>4. l \in Nat /\ k \in Nat /\ l # k /\ PageSize \in Nat \ {0}
  BY LeafFinite, MmiAssumption
<1>5. l * PageSize \in Nat /\ k * PageSize \in Nat
  BY <1>4
<1>6. CASE l < k
  <2>1. l * PageSize + PageSize <= k * PageSize
    BY <1>4, <1>6, NextLeaf
  <2> QED
    BY <1>2, <1>3, <1>4, <1>5, <2>1
<1>7. CASE k < l
  <2>1. k * PageSize + PageSize <= l * PageSize
    BY <1>4, <1>7, NextLeaf
  <2> QED
    BY <1>2, <1>3, <1>4, <1>5, <2>1
<1> QED
  BY <1>4, <1>6, <1>7

LEMMA UnitsType ==
  ASSUME NEW A \in SUBSET Leaf
  PROVE  Units(A) \in SUBSET Nat /\ (A # {} => Units(A) # {})
<1>1. \A l \in Leaf : /\ l * PageSize \in Nat
                      /\ l * PageSize \in l * PageSize .. l * PageSize + PageSize - 1
                      /\ l * PageSize .. l * PageSize + PageSize - 1 \subseteq Nat
  BY MmiAssumption, LeafFinite
<1> QED
  BY <1>1 DEF Units

(* RoundUp finds a length that is enough, and a leaf for a page. *)
LEMMA RoundUpIs ==
  /\ RoundUp(PageSize) = 1
  /\ RoundUp(InitSize) \in Nat \ {0}
<1>1. \A n \in Lengths : n \in Nat \ {0}
  <2>1. ASSUME NEW b \in Large
        PROVE  Cardinality(b) \in Nat \ {0}
    <3>1. Cardinality(b) > 1 /\ Cardinality(b) \in Nat
      BY LazyAssumption, LargeNotSingle, LeafFinite
    <3> QED
      BY <3>1
  <2> QED
    BY <2>1 DEF Lengths
<1>2. RoundUp(PageSize) = 1
  <2> DEFINE S == {n \in Lengths : n * PageSize >= PageSize}
  <2>1. S \in SUBSET Nat /\ \A n \in S : 1 <= n
    BY <1>1
  <2>2. 1 \in S
    BY MmiAssumption DEF Lengths
  <2> HIDE DEF S
  <2>3. Min(S) = 1
    BY <2>1, <2>2, LeastIs
  <2> QED
    BY <2>3 DEF S, RoundUp
<1>3. RoundUp(InitSize) \in Lengths
  <2> DEFINE S == {n \in Lengths : n * PageSize >= InitSize}
  <2>1. S \in SUBSET Nat /\ S # {} /\ S \subseteq Lengths
    BY <1>1, MmiAssumption
  <2> HIDE DEF S
  <2>2. Min(S) \in S
    BY <2>1, Least
  <2> QED
    BY <2>1, <2>2 DEF S, RoundUp
<1> QED
  BY <1>1, <1>2, <1>3

(* The addresses that mm_where_is_addr takes for the pool's are those of   *)
(* its block.                                                              *)
LEMMA SecIs ==
  ASSUME NEW a \in Nat, Sec(a)
  PROVE  a \in Units(PoolBlock)
<1> DEFINE k == RoundUp(InitSize)
           e == k * PageSize
<1>1. k \in Nat \ {0} /\ PoolBlock = 0 .. k - 1 /\ PageSize \in Nat \ {0}
  BY RoundUpIs, MmiAssumption DEF PoolBlock
<1> HIDE DEF k
<1>2. e \in Nat \ {0} /\ \A l \in 0 .. k - 1 : l * PageSize \in Nat /\ l * PageSize + PageSize <= e
  <2>1. ASSUME NEW l \in 0 .. k - 1
        PROVE  l * PageSize \in Nat /\ l * PageSize + PageSize <= e
    <3>1. l \in Nat /\ k \in Nat /\ l < k
      BY <1>1
    <3> QED
      BY <1>1, <3>1, NextLeaf
  <2>2. e \in Nat \ {0}
    BY <1>1
  <2> QED
    BY <2>1, <2>2
<1> HIDE DEF e
<1>3. Units(PoolBlock) \subseteq 0 .. e - 1
  <2>1. ASSUME NEW u \in Units(PoolBlock)
        PROVE  u \in 0 .. e - 1
    <3>1. PICK l \in 0 .. k - 1 : u \in l * PageSize .. l * PageSize + PageSize - 1
      BY <1>1, <2>1 DEF Units
    <3>2. l * PageSize \in Nat /\ l * PageSize + PageSize <= e
      BY <1>2
    <3> QED
      BY ONLY <1>1, <1>2, <3>1, <3>2
  <2> QED
    BY <2>1
<1>4. 0 .. e - 1 \subseteq Units(PoolBlock)
  <2>1. ASSUME NEW u \in 0 .. e - 1
        PROVE  u \in Units(PoolBlock)
    <3> DEFINE l == u \div PageSize
    <3>1. /\ u \in Nat /\ l \in Nat
          /\ l * PageSize <= u /\ u <= l * PageSize + PageSize - 1
          /\ l * PageSize \in Nat
      BY <1>1, <1>2
    <3> HIDE DEF l
    <3>2. l < k
      <4>1. ASSUME k <= l
            PROVE  FALSE
        <5>1. CASE k = l
          BY <1>2, <3>1, <5>1 DEF e
        <5>2. CASE k < l
          <6>1. e + PageSize <= l * PageSize
            BY <1>1, <3>1, <5>2, NextLeaf DEF e
          <6> QED
            BY <1>1, <1>2, <3>1, <6>1
        <5> QED
          BY <1>1, <3>1, <4>1, <5>1, <5>2
      <4> QED
        BY <1>1, <3>1, <4>1
    <3>3. l \in PoolBlock /\ u \in l * PageSize .. l * PageSize + PageSize - 1
      BY <1>1, <3>1, <3>2
    <3> QED
      BY <3>3 DEF Units
  <2> QED
    BY <2>1
<1>5. Units(PoolBlock) = 0 .. e - 1
  BY <1>3, <1>4
<1>6. SecBase = 0
  <2>1. Units(PoolBlock) \in SUBSET Nat /\ 0 \in Units(PoolBlock) /\ \A x \in Units(PoolBlock) : 0 <= x
    BY <1>2, <1>5
  <2> QED
    BY <2>1, LeastIs DEF SecBase
<1>7. SecSize = e
  <2>1. e - 1 \in Int /\ 0 \in Int /\ ~ (0 > e - 1) /\ e - 1 - 0 + 1 = e
    BY <1>2
  <2>2. Cardinality(0 .. e - 1) = IF 0 > e - 1 THEN 0 ELSE e - 1 - 0 + 1
    BY <2>1, FS_Interval
  <2> QED
    BY <1>5, <2>1, <2>2 DEF SecSize
<1> QED
  BY <1>2, <1>5, <1>6, <1>7 DEF Sec
-----------------------------------------------------------------------------
(* The two allocators together *)

LEMMA PoolBlockHeld ==
  ASSUME IInv
  PROVE  PoolBlock \in LargeOwned /\ PoolBlock \in Large /\ PoolBlock \subseteq Leaf
BY MmiAssumption, LargeNotSingle DEF IInv, PoolInv, LargeOwned

(* A page the cache hands out is no caller's and in no larger block. *)
LEMMA PageInv ==
  ASSUME IInv, AllocCached \/ AllocRefilled
  PROVE  /\ CacheInv' /\ LargeOwned' = LargeOwned
         /\ \E p \in Leaf \ inuses :
              /\ inuses' = inuses \cup {p} /\ res' = {p}
              /\ \A b \in LargeOwned : p \notin b
<1>1. CacheInv
  BY DEF IInv
<1>2. ASSUME NEW p \in ToSet(frees)
      PROVE  p \in Leaf \ inuses /\ \A b \in LargeOwned : p \notin b
  <2>1. p \in Leaf
    <3>1. frees \in Seq(Leaf) /\ DOMAIN frees = 1 .. Len(frees)
      BY <1>1, LenProperties DEF CacheInv, Types
    <3> QED
      BY <3>1, ElementOfSeq DEF ToSet
  <2> QED
    BY <1>1, <2>1 DEF CacheInv, Apart, Kept
<1>3. ASSUME NEW p \in Available
      PROVE  p \in Leaf \ inuses /\ \A b \in LargeOwned : p \notin b
  BY <1>1, AvailableIs DEF Kept
<1>4. CASE AllocCached
  BY <1>1, <1>2, <1>4, AllocCachedInv
<1>5. CASE AllocRefilled
  BY <1>1, <1>3, <1>5, AllocRefilledInv
<1> QED
  BY <1>4, <1>5

(* bud_free takes one page, or one larger block, from a caller. *)
LEMMA PrimaryFreed ==
  ASSUME IInv, NEW a, FreePrimary(a)
  PROVE  /\ CacheInv' /\ small' = small
         /\ \/ /\ \E p \in inuses : inuses' = inuses \ {p}
               /\ LargeOwned' = LargeOwned
            \/ /\ \E b \in LargeHeld : LargeOwned' = LargeOwned \ {b}
               /\ inuses' = inuses
<1>1. CacheInv /\ small' = small
  BY DEF IInv, FreePrimary
<1>2. ASSUME NEW p \in inuses, Free(p) \/ FreeAndDrain(p)
      PROVE  CacheInv' /\ LargeOwned' = LargeOwned /\ inuses' = inuses \ {p}
  <2>1. inuses' = inuses \ {p}
    BY <1>2 DEF Free, FreeAndDrain, Freed
  <2> QED
    BY <1>1, <1>2, <2>1, FreeInv, FreeAndDrainInv
<1>3. ASSUME NEW b \in LargeHeld, FreeLarge(b)
      PROVE  CacheInv' /\ LargeOwned' = LargeOwned \ {b} /\ inuses' = inuses
  <2>1. b \in Large
    BY DEF LargeHeld, LargeOwned
  <2> QED
    BY <1>1, <1>3, <2>1, FreeLargeInv
<1> QED
  BY <1>1, <1>2, <1>3 DEF FreePrimary

LEMMA CacheUntouched ==
  ASSUME CacheInv, UNCHANGED vars
  PROVE  CacheInv' /\ LargeOwned' = LargeOwned /\ inuses' = inuses /\ owned' = owned
BY DEF vars, CacheInv, Types, Counted, Taken, Apart, Kept, LargeOwned, Single

LEMMA InitInv ==
  ASSUME MmiInit
  PROVE  IInv
<1>1. /\ owned = {PoolBlock} /\ frees = <<>> /\ inuses = {} /\ fnum = 0 /\ unum = 0
      /\ records = {} /\ lost = {} /\ asked = {} /\ res = {} /\ small = {}
  BY DEF MmiInit
<1>2. PoolBlock \in Large /\ PoolBlock \subseteq Leaf
  BY MmiAssumption, LargeNotSingle
<1>3. LargeOwned = {PoolBlock}
  BY <1>1, <1>2 DEF LargeOwned
<1>4. frees \in Seq(Leaf) /\ Len(frees) = 0 /\ DOMAIN frees = {} /\ ToSet(frees) = {} /\ IsInjective(frees)
  <2>1. frees \in Seq(Leaf) /\ Len(frees) = 0 /\ DOMAIN frees = {}
    BY <1>1
  <2> QED
    BY <2>1 DEF ToSet, IsInjective
<1>5. Types
  BY <1>1, <1>2, <1>4, LazyAssumption DEF Types
<1>6. Counted
  BY <1>1, <1>4, FS_EmptySet DEF Counted
<1>7. Kept = {}
  BY <1>1, <1>4 DEF Kept
<1>8. Taken
  BY <1>1, <1>3, <1>7 DEF Taken, Single
<1>9. Apart
  BY <1>1, <1>3, <1>4, <1>7 DEF Apart
<1> QED
  BY <1>1, <1>5, <1>6, <1>8, <1>9 DEF IInv, CacheInv, PoolInv

LEMMA StepInv ==
  ASSUME IInv, [MmiNext]_all
  PROVE  IInv'
<1>0. CacheInv /\ PoolBlock \in LargeOwned /\ small \subseteq UNION {Blocks[c] : c \in DOMAIN Chunk}
  BY PoolBlockHeld DEF IInv, PoolInv
<1>1. ASSUME CacheInv', PoolBlock \in LargeOwned',
             small' \subseteq UNION {Blocks[c] : c \in DOMAIN Chunk}
      PROVE  IInv'
  BY <1>1 DEF IInv, PoolInv, LargeOwned
<1>2. CASE AllocPage
  <2>1. AllocCached \/ AllocRefilled
    BY <1>2 DEF AllocPage
  <2> QED
    BY <1>0, <1>1, <1>2, <2>1, PageInv DEF AllocPage
<1>3. CASE AllocPageFails
  BY <1>0, <1>1, <1>3, RefillFailsInv DEF AllocPageFails, own
<1>4. ASSUME NEW size \in Sizes, AllocLarger(size)
      PROVE  IInv'
  <2>1. PICK b \in Large : AllocLarge(b)
    BY <1>4 DEF AllocLarger
  <2>2. CacheInv' /\ LargeOwned' = LargeOwned \cup {b}
    BY <1>0, <2>1, AllocLargeInv
  <2> QED
    BY <1>0, <1>1, <1>4, <2>2 DEF AllocLarger
<1>5. ASSUME NEW size \in Sizes, AllocSmall(size)
      PROVE  IInv'
  <2>1. PICK c \in DOMAIN Chunk : \E b \in Blocks[c] \ small :
          small' = small \cup {b} /\ UNCHANGED vars
    BY <1>5 DEF AllocSmall
  <2>2. CacheInv' /\ LargeOwned' = LargeOwned
    BY <1>0, <2>1, CacheUntouched
  <2> QED
    BY <1>0, <1>1, <2>1, <2>2
<1>6. ASSUME NEW size \in Sizes, AllocNoClass(size)
      PROVE  IInv'
  <2>1. UNCHANGED vars /\ small' = small
    BY <1>6 DEF AllocNoClass
  <2> QED
    BY <1>0, <1>1, <2>1, CacheUntouched
<1>7. CASE Yfree
  <2>1. PICK block \in Held :
          IF Sec(Min(block)) THEN FreeSmall(Min(block)) ELSE FreePrimary(Min(block))
    BY <1>7 DEF Yfree
  <2>2. CASE FreeSmall(Min(block))
    <3>1. UNCHANGED vars /\ small' \subseteq small
      BY <2>2 DEF FreeSmall
    <3> QED
      BY <1>0, <1>1, <3>1, CacheUntouched
  <2>3. CASE FreePrimary(Min(block))
    <3>1. CacheInv' /\ small' = small /\ PoolBlock \in LargeOwned'
      BY <1>0, <2>3, PrimaryFreed DEF LargeHeld
    <3> QED
      BY <1>0, <1>1, <3>1
  <2> QED
    BY <2>1, <2>2, <2>3
<1>8. CASE UNCHANGED all
  <2>1. UNCHANGED vars /\ small' = small
    BY <1>8 DEF all
  <2> QED
    BY <1>0, <1>1, <2>1, CacheUntouched
<1> QED
  BY <1>2, <1>3, <1>4, <1>5, <1>6, <1>7, <1>8 DEF MmiNext

(* What the cache took, what it gave back and what it counts agree over    *)
(* any sequence of allocations, refills, failed refills, returns and       *)
(* drains, next to the larger blocks and the pool's (bud_lazy_alloc,       *)
(* bud_lazy_free, _bud_alloc, yalloc, yfree).                              *)
THEOREM MmiInv == MmiSpec => []IInv
<1>1. MmiInit => IInv
  BY InitInv
<1>2. IInv /\ [MmiNext]_all => IInv'
  BY StepInv
<1> QED
  BY <1>1, <1>2, PTL DEF MmiSpec

(* No leaf is in two places and none is lost but as records or when        *)
(* IS_MEM_ERR refuses it (bud_lazy_alloc, bud_lazy_free).                  *)
THEOREM AccountedHolds == MmiSpec => []Accounted
<1>1. ASSUME IInv
      PROVE  Accounted
  <2>1. Types /\ Counted /\ Taken /\ Apart
    BY <1>1 DEF IInv, CacheInv
  <2>2. /\ DOMAIN Kinds = {1, 2, 3, 4, 5}
        /\ Kinds[1] = ToSet(frees) /\ Kinds[2] = inuses /\ Kinds[3] = records
        /\ Kinds[4] = lost /\ Kinds[5] = UNION LargeOwned
    BY DEF Kinds
  <2>3. UNION owned = UNION ToSet(Kinds)
    <3>1. UNION owned = Kept \cup UNION LargeOwned
      BY <2>1, InUse
    <3>2. ToSet(Kinds) = {ToSet(frees), inuses, records, lost, UNION LargeOwned}
      <4>1. ToSet(Kinds) = {Kinds[i] : i \in {1, 2, 3, 4, 5}}
        BY <2>2 DEF ToSet
      <4> QED
        BY <2>2, <4>1
    <3>3. UNION {ToSet(frees), inuses, records, lost, UNION LargeOwned}
            = ToSet(frees) \cup inuses \cup records \cup lost \cup UNION LargeOwned
      OBVIOUS
    <3> QED
      BY <3>1, <3>2, <3>3 DEF Kept
  <2>4. (UNION LargeOwned) \cap Kept = {}
    BY <2>1 DEF Apart
  <2>5. ASSUME NEW i \in DOMAIN Kinds, NEW j \in DOMAIN Kinds, i # j
        PROVE  Kinds[i] \cap Kinds[j] = {}
    <3>1. /\ Kinds[1] \cap Kinds[2] = {} /\ Kinds[1] \cap Kinds[3] = {}
          /\ Kinds[1] \cap Kinds[4] = {} /\ Kinds[1] \cap Kinds[5] = {}
          /\ Kinds[2] \cap Kinds[3] = {} /\ Kinds[2] \cap Kinds[4] = {}
          /\ Kinds[2] \cap Kinds[5] = {} /\ Kinds[3] \cap Kinds[4] = {}
          /\ Kinds[3] \cap Kinds[5] = {} /\ Kinds[4] \cap Kinds[5] = {}
      BY <2>1, <2>2, <2>4 DEF Apart, Kept
    <3> QED
      BY <2>2, <2>5, <3>1
  <2> QED
    BY <2>1, <2>3, <2>5 DEF Accounted
<1> QED
  BY <1>1, MmiInv, PTL
-----------------------------------------------------------------------------
(* One heap to the callers *)

(* The blocks of the pool are inside its own block, and are disjoint. *)
LEMMA PoolBlocks ==
  ASSUME NEW a \in UNION {Blocks[c] : c \in DOMAIN Chunk}
  PROVE  /\ a \subseteq Units(PoolBlock) /\ a # {} /\ a \in SUBSET Nat
         /\ \A b \in UNION {Blocks[c] : c \in DOMAIN Chunk} : a # b => a \cap b = {}
<1>1. PICK c \in DOMAIN Chunk : a \in Blocks[c]
  OBVIOUS
<1>2. a \subseteq Units(PoolBlock) /\ Cardinality(a) = Chunk[c] /\ Chunk[c] \in Nat \ {0}
  BY <1>1, MmiAssumption
<1>3. a # {}
  BY <1>2, FS_EmptySet
<1>4. PoolBlock \in SUBSET Leaf
  BY MmiAssumption, LargeNotSingle
<1>5. Units(PoolBlock) \in SUBSET Nat
  BY <1>4, UnitsType
<1>6. ASSUME NEW b \in UNION {Blocks[d] : d \in DOMAIN Chunk}, a # b
      PROVE  a \cap b = {}
  <2>1. PICK d \in DOMAIN Chunk : b \in Blocks[d]
    OBVIOUS
  <2> QED
    BY <1>1, <1>6, <2>1, MmiAssumption
<1> QED
  BY <1>2, <1>3, <1>5, <1>6

Pages == {Units({p}) : p \in inuses}
Larger == {Units(b) : b \in LargeHeld}

(* The units of leaves that the cache's callers, the pool and the callers  *)
(* of larger blocks hold are apart.                                        *)
LEMMA LeafBlock ==
  ASSUME IInv, NEW p \in inuses
  PROVE  /\ {p} \in SUBSET Leaf /\ Units({p}) # {} /\ Units({p}) \in SUBSET Nat
         /\ Units({p}) \cap Units(PoolBlock) = {}
         /\ \A b \in LargeOwned : Units({p}) \cap Units(b) = {}
         /\ \A q \in inuses : q # p => Units({p}) \cap Units({q}) = {}
<1>1. inuses \subseteq Leaf /\ PoolBlock \in LargeOwned /\ \A b \in LargeOwned : p \notin b /\ b \subseteq Leaf
  BY PoolBlockHeld, LargeNotSingle DEF IInv, CacheInv, Types, Apart, Kept, LargeOwned
<1>2. {p} \in SUBSET Leaf /\ {p} # {}
  BY <1>1
<1>3. Units({p}) # {} /\ Units({p}) \in SUBSET Nat
  BY <1>2, UnitsType
<1>4. ASSUME NEW b \in LargeOwned
      PROVE  Units({p}) \cap Units(b) = {}
  BY <1>1, <1>2, UnitsApart
<1>5. ASSUME NEW q \in inuses, q # p
      PROVE  Units({p}) \cap Units({q}) = {}
  <2>1. {q} \in SUBSET Leaf /\ {p} \cap {q} = {}
    BY <1>1, <1>5
  <2> QED
    BY <1>2, <2>1, UnitsApart
<1> QED
  BY <1>1, <1>2, <1>3, <1>4, <1>5

LEMMA LargeBlock ==
  ASSUME IInv, NEW b \in LargeHeld
  PROVE  /\ Units(b) # {} /\ Units(b) \in SUBSET Nat
         /\ Units(b) \cap Units(PoolBlock) = {}
         /\ \A c \in LargeOwned : c # b => Units(b) \cap Units(c) = {}
<1>1. /\ b \in LargeOwned /\ b # PoolBlock /\ PoolBlock \in LargeOwned
      /\ \A c \in LargeOwned : c \in SUBSET Leaf /\ c # {}
  BY PoolBlockHeld, LargeNotSingle DEF LargeHeld, LargeOwned
<1>2. \A c \in LargeOwned : c # b => b \cap c = {}
  BY <1>1 DEF IInv, CacheInv, Apart
<1>3. ASSUME NEW c \in LargeOwned, c # b
      PROVE  Units(b) \cap Units(c) = {}
  BY <1>1, <1>2, <1>3, UnitsApart
<1> QED
  BY <1>1, <1>3, UnitsType

(* What callers hold of the pool is in its block, what they hold of the    *)
(* page allocator is not, and no two of them share a unit.                 *)
LEMMA HeldIs ==
  ASSUME IInv
  PROVE  /\ Held = small \cup Pages \cup Larger
         /\ \A a \in small : a \subseteq Units(PoolBlock)
         /\ \A a \in Pages \cup Larger : a \cap Units(PoolBlock) = {}
         /\ \A a \in Held : a # {} /\ a \in SUBSET Nat
         /\ \A a, b \in Held : a # b => a \cap b = {}
<1>1. Held = small \cup Pages \cup Larger
  BY DEF Held, Pages, Larger
<1>2. \A a \in small : /\ a \subseteq Units(PoolBlock) /\ a # {} /\ a \in SUBSET Nat
                       /\ \A b \in small : a # b => a \cap b = {}
  BY PoolBlocks DEF IInv, PoolInv
<1>3. \A a \in Pages : /\ a \cap Units(PoolBlock) = {} /\ a # {} /\ a \in SUBSET Nat
                       /\ \A b \in Pages \cup Larger : a # b => a \cap b = {}
  <2>1. ASSUME NEW p \in inuses
        PROVE  /\ Units({p}) \cap Units(PoolBlock) = {}
               /\ Units({p}) # {} /\ Units({p}) \in SUBSET Nat
               /\ \A b \in Pages : Units({p}) # b => Units({p}) \cap b = {}
               /\ \A b \in Larger : Units({p}) \cap b = {}
    <3>1. \A q \in inuses : Units({p}) # Units({q}) => Units({p}) \cap Units({q}) = {}
      BY LeafBlock
    <3>2. \A b \in LargeHeld : Units({p}) \cap Units(b) = {}
      BY LeafBlock DEF LargeHeld
    <3> QED
      BY <3>1, <3>2, LeafBlock DEF Pages, Larger
  <2>2. ASSUME NEW a \in Pages
        PROVE  /\ a \cap Units(PoolBlock) = {} /\ a # {} /\ a \in SUBSET Nat
               /\ \A b \in Pages \cup Larger : a # b => a \cap b = {}
    <3>1. PICK p \in inuses : a = Units({p})
      BY DEF Pages
    <3> QED
      BY <2>1, <3>1
  <2> QED
    BY <2>2
<1>4. \A a \in Larger : /\ a \cap Units(PoolBlock) = {} /\ a # {} /\ a \in SUBSET Nat
                        /\ \A b \in Larger : a # b => a \cap b = {}
  <2>1. ASSUME NEW b \in LargeHeld
        PROVE  /\ Units(b) \cap Units(PoolBlock) = {}
               /\ Units(b) # {} /\ Units(b) \in SUBSET Nat
               /\ \A c \in Larger : Units(b) # c => Units(b) \cap c = {}
    <3>1. \A c \in LargeHeld : Units(b) # Units(c) => Units(b) \cap Units(c) = {}
      BY LargeBlock DEF LargeHeld
    <3> QED
      BY <3>1, LargeBlock DEF Larger
  <2> QED
    BY <2>1 DEF Larger
<1>5. \A a \in Held : a # {} /\ a \in SUBSET Nat
  BY <1>1, <1>2, <1>3, <1>4
<1>6. \A a \in Pages \cup Larger, b \in small : a \cap b = {}
  BY <1>2, <1>3, <1>4
<1>7. \A a \in Larger, b \in Pages : a \cap b = {} \/ a = b
  BY <1>3
<1>8. \A a, b \in Held : a # b => a \cap b = {}
  BY <1>1, <1>2, <1>3, <1>4, <1>6, <1>7
<1> QED
  BY <1>1, <1>2, <1>3, <1>4, <1>5, <1>8
(* Leaves that were in no caller's hands make a block that is new to all. *)
LEMMA FreshBlock ==
  ASSUME IInv, NEW A \in SUBSET Leaf, A \cap inuses = {}, \A b \in LargeOwned : A \cap b = {}
  PROVE  \A a \in Held : a \cap Units(A) = {}
<1>1. \A b \in LargeOwned : b \in SUBSET Leaf
  BY LargeNotSingle DEF LargeOwned
<1>2. \A b \in LargeOwned : Units(b) \cap Units(A) = {}
  BY <1>1, UnitsApart
<1>3. ASSUME NEW p \in inuses
      PROVE  Units({p}) \cap Units(A) = {}
  <2>1. inuses \subseteq Leaf /\ {p} \cap A = {}
    BY DEF IInv, CacheInv, Types
  <2> QED
    BY <2>1, UnitsApart
<1>4. \A a \in small : a \cap Units(A) = {}
  BY <1>2, HeldIs, PoolBlockHeld
<1>5. \A a \in Pages : a \cap Units(A) = {}
  BY <1>3 DEF Pages
<1>6. \A a \in Larger : a \cap Units(A) = {}
  BY <1>2 DEF Larger, LargeHeld
<1> QED
  BY <1>4, <1>5, <1>6, HeldIs

LEMMA Granted ==
  ASSUME NEW size \in Sizes, NEW c \in Candidates(size), \A a \in Held : a \cap c = {},
         Held' = Held \cup {c}, req' = {size}, got' = c
  PROVE  KernelHeap!Next
<1>1. KernelHeap!Free(c)
  BY DEF KernelHeap!Free
<1>2. c \in [n \in Sizes |-> Candidates(n)][size]
  OBVIOUS
<1>3. KernelHeap!Grant(size)
  BY <1>1, <1>2 DEF KernelHeap!Grant
<1> QED
  BY <1>3 DEF KernelHeap!Next

LEMMA GaveBack ==
  ASSUME NEW c \in Held, Held' = Held \ {c}, req' = {}, got' = {}
  PROVE  KernelHeap!Next
<1>1. KernelHeap!Return(c)
  BY DEF KernelHeap!Return
<1> QED
  BY <1>1 DEF KernelHeap!Next

LEMMA PageGrants ==
  ASSUME IInv, AllocPage
  PROVE  KernelHeap!Next
<1>1. /\ AllocCached \/ AllocRefilled
      /\ PageSize \in Sizes /\ req' = {PageSize} /\ got' = Units(res') /\ small' = small
  BY DEF AllocPage
<1>2. LargeOwned' = LargeOwned
  BY <1>1, PageInv
<1>3. PICK p \in Leaf \ inuses : /\ inuses' = inuses \cup {p} /\ res' = {p}
                                 /\ \A b \in LargeOwned : p \notin b
  BY <1>1, PageInv
<1>4. Held' = Held \cup {Units({p})}
  BY <1>1, <1>2, <1>3 DEF Held, LargeHeld
<1>5. \A a \in Held : a \cap Units({p}) = {}
  <2>1. {p} \in SUBSET Leaf /\ {p} \cap inuses = {} /\ \A b \in LargeOwned : {p} \cap b = {}
    BY <1>3
  <2> QED
    BY <2>1, FreshBlock
<1>6. Units({p}) \in Candidates(PageSize)
  <2>1. Primary(PageSize)
    BY MmiAssumption DEF Primary
  <2>2. {p} \in Single(Leaf) /\ Cardinality({p}) = RoundUp(PageSize)
    BY RoundUpIs, FS_Singleton DEF Single
  <2> QED
    BY <2>1, <2>2 DEF Candidates
<1> QED
  BY <1>1, <1>3, <1>4, <1>5, <1>6, Granted

LEMMA LargerGrants ==
  ASSUME IInv, NEW size \in Sizes, AllocLarger(size)
  PROVE  KernelHeap!Next
<1>1. PICK b \in Large : Cardinality(b) = RoundUp(size) /\ AllocLarge(b) /\ got' = Units(b)
  BY DEF AllocLarger
<1>2. size > PageSize /\ req' = {size} /\ small' = small
  BY DEF AllocLarger
<1>3. CacheInv
  BY DEF IInv
<1>4. LargeOwned' = LargeOwned \cup {b} /\ b \subseteq Available /\ inuses' = inuses
  BY <1>1, <1>3, AllocLargeInv
<1>5. b \in SUBSET Leaf /\ b # {} /\ b \cap inuses = {} /\ \A c \in LargeOwned : b \cap c = {}
  BY <1>3, <1>4, AvailableIs, LargeNotSingle DEF Kept
<1>6. b # PoolBlock
  <2>1. b \cap PoolBlock = {}
    BY <1>5, PoolBlockHeld
  <2> QED
    BY <1>5, <2>1
<1>7. Held' = Held \cup {Units(b)}
  <2>1. LargeHeld' = LargeHeld \cup {b}
    BY <1>4, <1>6 DEF LargeHeld
  <2> QED
    BY <1>2, <1>4, <2>1 DEF Held
<1>8. \A a \in Held : a \cap Units(b) = {}
  BY <1>5, FreshBlock
<1>9. Units(b) \in Candidates(size)
  <2>1. Primary(size)
    <3>1. size \in Nat /\ PageSize \in Nat
      BY MmiAssumption
    <3> QED
      BY <1>2, <3>1 DEF Primary
  <2> QED
    BY <1>1, <2>1 DEF Candidates
<1> QED
  BY <1>1, <1>2, <1>7, <1>8, <1>9, Granted

LEMMA SmallGrants ==
  ASSUME IInv, NEW size \in Sizes, AllocSmall(size)
  PROVE  KernelHeap!Next
<1>1. PICK c \in DOMAIN Chunk : \E b \in Blocks[c] \ small :
        /\ Serves(size, c) /\ small' = small \cup {b}
        /\ req' = {size} /\ got' = b /\ UNCHANGED vars
  BY DEF AllocSmall
<1>2. PICK b \in Blocks[c] \ small :
        /\ Serves(size, c) /\ small' = small \cup {b}
        /\ req' = {size} /\ got' = b /\ UNCHANGED vars
  BY <1>1
<1>3. /\ b \subseteq Units(PoolBlock)
      /\ \A a \in UNION {Blocks[d] : d \in DOMAIN Chunk} : b # a => b \cap a = {}
  BY PoolBlocks
<1>4. \A a \in Held : a \cap b = {}
  <2>1. \A a \in small : a \cap b = {}
    BY <1>2, <1>3 DEF IInv, PoolInv
  <2>2. \A a \in Pages \cup Larger : a \cap b = {}
    BY <1>3, HeldIs
  <2> QED
    BY <2>1, <2>2, HeldIs
<1>5. Held' = Held \cup {b}
  BY <1>2 DEF Held, LargeHeld, LargeOwned, vars
<1>6. b \in Candidates(size)
  BY <1>2 DEF Candidates, Serves
<1> QED
  BY <1>2, <1>4, <1>5, <1>6, Granted

LEMMA NoClassRefuses ==
  ASSUME IInv, NEW size \in Sizes, AllocNoClass(size)
  PROVE  KernelHeap!Next
<1>1. /\ ~ Primary(size) /\ \A c \in DOMAIN Chunk : ~ Serves(size, c)
      /\ req' = {size} /\ got' = {} /\ UNCHANGED <<vars, small>>
  BY DEF AllocNoClass
<1>2. Candidates(size) = {}
  BY <1>1 DEF Candidates
<1>3. Held' = Held
  BY <1>1 DEF Held, LargeHeld, LargeOwned, vars
<1>4. KernelHeap!Refuse(size)
  BY <1>1, <1>2, <1>3 DEF KernelHeap!Refuse
<1> QED
  BY <1>4 DEF KernelHeap!Next

(* yfree of a block in the pool's own returns that block and no other. *)
LEMMA SmallReturns ==
  ASSUME IInv, NEW block \in Held, Sec(Min(block)), FreeSmall(Min(block)), req' = {}, got' = {}
  PROVE  KernelHeap!Next
<1>1. block # {} /\ block \in SUBSET Nat
  BY HeldIs
<1>2. Min(block) \in block /\ Min(block) \in Nat
  BY <1>1, Least
<1>3. Min(block) \in Units(PoolBlock)
  BY <1>2, SecIs
<1>4. block \in small
  BY <1>2, <1>3, HeldIs
<1>5. \A b \in small : Min(b) = Min(block) => b = block
  <2>1. ASSUME NEW b \in small, Min(b) = Min(block)
        PROVE  b = block
    <3>1. b \in Held /\ b # {} /\ b \in SUBSET Nat
      BY HeldIs
    <3>2. Min(b) \in b
      BY <3>1, Least
    <3> QED
      BY <1>2, <2>1, <3>1, <3>2, HeldIs
  <2> QED
    BY <2>1
<1>6. small' = small \ {block} /\ UNCHANGED vars
  BY <1>4, <1>5 DEF FreeSmall
<1>7. block \notin Pages \cup Larger
  BY <1>2, <1>3, HeldIs
<1>8. Held' = Held \ {block}
  <2>1. Held' = small' \cup Pages \cup Larger
    BY <1>6 DEF Held, Pages, Larger, LargeHeld, LargeOwned, vars
  <2> QED
    BY <1>6, <1>7, <2>1, HeldIs
<1> QED
  BY <1>8, GaveBack

LEMMA PrimaryReturns ==
  ASSUME IInv, NEW a, FreePrimary(a), req' = {}, got' = {}
  PROVE  KernelHeap!Next
<1>1. ASSUME NEW p \in inuses, inuses' = inuses \ {p}, LargeOwned' = LargeOwned, small' = small
      PROVE  KernelHeap!Next
  <2>1. Units({p}) \in Held
    BY DEF Held
  <2>2. Pages' = Pages \ {Units({p})}
    <3>1. ASSUME NEW q \in inuses, q # p
          PROVE  Units({q}) # Units({p})
      <4>1. Units({p}) \cap Units({q}) = {} /\ Units({p}) # {}
        BY <3>1, LeafBlock
      <4> QED
        BY <4>1
    <3> QED
      BY <1>1, <3>1 DEF Pages
  <2>3. Units({p}) \notin small \cup Larger
    <3>1. Units({p}) \notin small
      BY LeafBlock, HeldIs
    <3>2. \A b \in LargeHeld : Units({p}) # Units(b)
      BY LeafBlock DEF LargeHeld
    <3> QED
      BY <3>1, <3>2 DEF Larger
  <2>4. Held' = small \cup Pages' \cup Larger
    BY <1>1 DEF Held, Pages, Larger, LargeHeld
  <2>5. Held' = Held \ {Units({p})}
    BY <2>2, <2>3, <2>4, HeldIs
  <2> QED
    BY <2>1, <2>5, GaveBack
<1>2. ASSUME NEW b \in LargeHeld, LargeOwned' = LargeOwned \ {b}, inuses' = inuses, small' = small
      PROVE  KernelHeap!Next
  <2>1. Units(b) \in Held
    BY DEF Held
  <2>2. Larger' = Larger \ {Units(b)}
    <3>1. \A c \in LargeHeld : c # b => Units(c) # Units(b)
      BY LargeBlock DEF LargeHeld
    <3>2. LargeHeld' = LargeHeld \ {b}
      BY <1>2 DEF LargeHeld
    <3> QED
      BY <3>1, <3>2 DEF Larger
  <2>3. Units(b) \notin small \cup Pages
    <3>1. Units(b) \notin small
      BY LargeBlock, HeldIs
    <3>2. \A p \in inuses : Units({p}) # Units(b)
      BY LeafBlock DEF LargeHeld
    <3> QED
      BY <3>1, <3>2 DEF Pages
  <2>4. Held' = small \cup Pages \cup Larger'
    BY <1>2 DEF Held, Pages, Larger
  <2>5. Held' = Held \ {Units(b)}
    BY <2>2, <2>3, <2>4, HeldIs
  <2> QED
    BY <2>1, <2>5, GaveBack
<1> QED
  BY <1>1, <1>2, PrimaryFreed

LEMMA StepRefines ==
  ASSUME IInv, [MmiNext]_all
  PROVE  [KernelHeap!Next]_KernelHeap!vars
<1>1. CASE AllocPageFails
  <2>1. LargeOwned' = LargeOwned /\ inuses' = inuses
    BY <1>1, RefillFailsInv DEF AllocPageFails, IInv
  <2>2. small' = small /\ req' = req /\ got' = got
    BY <1>1 DEF AllocPageFails, own
  <2>3. Held' = Held
    BY <2>1, <2>2 DEF Held, LargeHeld
  <2> QED
    BY <2>2, <2>3 DEF KernelHeap!vars
<1>2. CASE Yfree
  <2>1. PICK block \in Held :
          IF Sec(Min(block)) THEN FreeSmall(Min(block)) ELSE FreePrimary(Min(block))
    BY <1>2 DEF Yfree
  <2>2. req' = {} /\ got' = {}
    BY <1>2 DEF Yfree
  <2> QED
    BY <2>1, <2>2, SmallReturns, PrimaryReturns
<1>3. CASE UNCHANGED all
  BY <1>3 DEF all, vars, Held, LargeHeld, LargeOwned, KernelHeap!vars
<1> QED
  BY <1>1, <1>2, <1>3, PageGrants, LargerGrants, SmallGrants, NoClassRefuses DEF MmiNext

(* To yalloc's callers the page allocator, its cache and the pool are one  *)
(* heap, and yfree returns every block to the one it came from (yalloc,    *)
(* yfree, mm_where_is_addr).                                               *)
THEOREM RefinesHeap == MmiSpec => ImplementsHeap
<1>1. MmiInit => KernelHeap!Init
  <2>1. ASSUME MmiInit
        PROVE  KernelHeap!Init
    <3>1. small = {} /\ inuses = {} /\ LargeHeld = {} /\ req = {} /\ got = {}
      BY <2>1 DEF MmiInit, LargeHeld, LargeOwned
    <3> QED
      BY <3>1 DEF KernelHeap!Init, Held
  <2> QED
    BY <2>1
<1>2. IInv /\ [MmiNext]_all => [KernelHeap!Next]_KernelHeap!vars
  BY StepRefines
<1> QED
  BY <1>1, <1>2, MmiInv, PTL DEF MmiSpec, ImplementsHeap, KernelHeap!Spec
=============================================================================
