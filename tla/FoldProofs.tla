----------------------------- MODULE FoldProofs -----------------------------
(***************************************************************************)
(* Lemmas about the folds of the community modules, over sequences of any  *)
(* length: FlattenSeq and FoldLeft.  The two modules whose data go through *)
(* such folds rest on them.                                                *)
(*                                                                         *)
(* Then the theorems about Fat, for any disk and any names.                *)
(*                                                                         *)
(* Last the theorems about Kprintf and its Console, for a screen of any    *)
(* size, and any calls and keys that have room in the buffer.              *)
(***************************************************************************)
EXTENDS Fat, Kprintf, TLAPS, SequenceTheorems, FiniteSetTheorems, WellFoundedInduction

-----------------------------------------------------------------------------
(* Numbers *)

(* A nonempty set of naturals has a least element. *)
LEMMA LeastNat ==
  ASSUME NEW S \in SUBSET Nat, NEW x \in S
  PROVE  \E m \in S : \A n \in S : m <= n
<1>1. IsWellFoundedOn(OpToRel(<, Nat), Nat)
  BY NatLessThanWellFounded
<1>2. PICK m \in S : \A n \in S : <<n, m>> \notin OpToRel(<, Nat)
  BY <1>1, WFMin, S # {}
<1>3. \A n \in S : ~ (n < m)
  BY <1>2 DEF OpToRel
<1> QED
  BY <1>3

(* Induction, in terms of the set of the numbers for which something holds. *)
LEMMA Inductive ==
  ASSUME NEW S \in SUBSET Nat, 0 \in S, \A n \in S : n + 1 \in S
  PROVE  \A n \in Nat : n \in S
<1> DEFINE Bad == Nat \ S
<1> SUFFICES ASSUME NEW x \in Bad
             PROVE  FALSE
  OBVIOUS
<1>1. PICK m \in Bad : \A n \in Bad : m <= n
  BY LeastNat
<1>2. m # 0 /\ m - 1 \in Nat
  BY <1>1
<1>3. m - 1 \in S /\ (m - 1) + 1 = m
  BY <1>1, <1>2
<1> QED
  BY <1>1, <1>3

-----------------------------------------------------------------------------
(* Sequences *)

(* The recursion of FlattenSeq has a solution. *)
LEMMA FlattenSteps ==
  ASSUME NEW S, NEW seqs \in Seq(Seq(S)), Len(seqs) # 0
  PROVE  \E F : /\ F = [i \in 1 .. Len(seqs) |->
                          IF i = 1 THEN seqs[i] ELSE F[i - 1] \o seqs[i]]
                /\ FlattenSeq(seqs) = F[Len(seqs)]
<1> DEFINE n == Len(seqs)
           Value(g, i) == IF i = 1 THEN seqs[i] ELSE g[i - 1] \o seqs[i]
           Good == {m \in Nat : \E g : \A i \in 1 .. m : g[i] = Value(g, i)}
           F[i \in 1 .. n] == IF i = 1 THEN seqs[i] ELSE F[i - 1] \o seqs[i]
<1>1. n \in Nat \ {0}
  OBVIOUS
<1>2. 0 \in Good
  <2>1. \A i \in 1 .. 0 : FALSE
    OBVIOUS
  <2> QED
    BY <2>1
<1>3. ASSUME NEW m \in Good
      PROVE  m + 1 \in Good
  <2>1. PICK g : \A i \in 1 .. m : g[i] = Value(g, i)
    OBVIOUS
  <2> DEFINE h == [i \in 1 .. m + 1 |-> IF i = m + 1 THEN Value(g, i) ELSE g[i]]
  <2> HIDE DEF Value
  <2>2. ASSUME NEW i \in 1 .. m + 1
        PROVE  h[i] = Value(g, i)
    BY <2>1
  <2>3. ASSUME NEW i \in 1 .. m + 1
        PROVE  Value(g, i) = Value(h, i)
    <3>1. CASE i = 1
      BY <3>1 DEF Value
    <3>2. CASE i # 1
      <4>1. i - 1 \in 1 .. m /\ i - 1 \in 1 .. m + 1 /\ i - 1 # m + 1
        BY <3>2
      <4>2. h[i - 1] = g[i - 1]
        BY <4>1
      <4> QED
        BY <4>2 DEF Value
    <3> QED
      BY <3>1, <3>2
  <2>4. \A i \in 1 .. m + 1 : h[i] = Value(h, i)
    BY <2>2, <2>3
  <2> HIDE DEF h
  <2>5. \E f : \A i \in 1 .. m + 1 : f[i] = Value(f, i)
    BY <2>4
  <2>6. m + 1 \in Nat
    OBVIOUS
  <2> QED
    BY <2>5, <2>6
<1>4. n \in Good
  <2>1. Good \in SUBSET Nat
    OBVIOUS
  <2> HIDE DEF Good
  <2> QED
    BY <1>1, <1>2, <1>3, <2>1, Inductive
<1>5. PICK g : \A i \in 1 .. n : g[i] = Value(g, i)
  BY <1>4
<1> DEFINE h == [i \in 1 .. n |-> g[i]]
<1>6. h = [i \in 1 .. n |-> IF i = 1 THEN seqs[i] ELSE h[i - 1] \o seqs[i]]
  <2>1. ASSUME NEW i \in 1 .. n
        PROVE  g[i] = IF i = 1 THEN seqs[i] ELSE h[i - 1] \o seqs[i]
    <3>1. CASE i = 1
      BY <1>5, <3>1
    <3>2. CASE i # 1
      <4>1. i - 1 \in 1 .. n
        BY <1>1, <3>2
      <4>2. h[i - 1] = g[i - 1]
        BY <4>1
      <4> QED
        BY <1>5, <3>2, <4>2
    <3> QED
      BY <3>1, <3>2
  <2> QED
    BY <2>1
<1>7. F = [i \in 1 .. n |-> IF i = 1 THEN seqs[i] ELSE F[i - 1] \o seqs[i]]
  <2> HIDE DEF h
  <2> QED
    BY <1>6
<1>8. FlattenSeq(seqs) = F[n]
  BY DEF FlattenSeq
<1> HIDE DEF F
<1> QED
  BY <1>7, <1>8

(* Where the elements of the sequences are in FlattenSeq of them: the i-th *)
(* begins behind the o[i]-th place.                                        *)
LEMMA FlattenPlaces ==
  ASSUME NEW S, NEW seqs \in Seq(Seq(S)), NEW o \in [1 .. Len(seqs) + 1 -> Nat],
         o[1] = 0, \A i \in 1 .. Len(seqs) : o[i + 1] = o[i] + Len(seqs[i])
  PROVE  /\ FlattenSeq(seqs) \in Seq(S)
         /\ Len(FlattenSeq(seqs)) = o[Len(seqs) + 1]
         /\ \A i \in 1 .. Len(seqs) : \A j \in 1 .. Len(seqs[i]) :
              FlattenSeq(seqs)[o[i] + j] = seqs[i][j]
<1> DEFINE n == Len(seqs)
<1>1. n \in Nat /\ \A i \in 1 .. n : seqs[i] \in Seq(S) /\ Len(seqs[i]) \in Nat
  OBVIOUS
<1>2. CASE n = 0
  <2>1. FlattenSeq(seqs) = <<>>
    BY <1>2 DEF FlattenSeq
  <2> QED
    BY <1>2, <2>1
<1>3. CASE n # 0
  <2>1. PICK F : /\ F = [i \in 1 .. n |-> IF i = 1 THEN seqs[i] ELSE F[i - 1] \o seqs[i]]
                 /\ FlattenSeq(seqs) = F[n]
    BY <1>3, FlattenSteps
  <2>2. /\ F[1] = seqs[1]
        /\ \A m \in 2 .. n : F[m] = F[m - 1] \o seqs[m]
    <3>1. \A m \in 1 .. n : F[m] = IF m = 1 THEN seqs[m] ELSE F[m - 1] \o seqs[m]
      BY <2>1
    <3>2. 1 \in 1 .. n /\ \A m \in 2 .. n : m \in 1 .. n /\ m # 1
      BY <1>1, <1>3
    <3> HIDE DEF n
    <3> QED
      BY <3>1, <3>2
  <2> DEFINE Holds(m) == /\ F[m] \in Seq(S)
                          /\ Len(F[m]) = o[m + 1]
                          /\ \A i \in 1 .. m : \A j \in 1 .. Len(seqs[i]) :
                               o[i] + j \in 1 .. o[m + 1] /\ F[m][o[i] + j] = seqs[i][j]
             Good == {k \in Nat : k + 1 <= n => Holds(k + 1)}
  <2>3. 0 \in Good
    <3>1. o[2] = o[1] + Len(seqs[1]) /\ 1 \in 1 .. n
      BY <1>1, <1>3
    <3>2. Holds(1)
      BY <1>1, <1>3, <2>2, <3>1
    <3> QED
      BY <3>2
  <2>4. ASSUME NEW k \in Good
        PROVE  k + 1 \in Good
    <3> SUFFICES ASSUME k + 2 <= n
                 PROVE  Holds(k + 2)
      <4>1. k + 1 \in Nat /\ (k + 1) + 1 = k + 2
        OBVIOUS
      <4> HIDE DEF Holds
      <4> QED
        BY <4>1
    <3> DEFINE m == k + 1
    <3>1. m \in Nat /\ m \in 1 .. n /\ m + 1 \in 2 .. n /\ m + 1 = k + 2 /\ (m + 1) - 1 = m
      OBVIOUS
    <3>2. Holds(m)
      BY <3>1
    <3>3. F[m + 1] = F[m] \o seqs[m + 1]
      BY <2>2, <3>1
    <3> HIDE DEF m
    <3>4. /\ seqs[m + 1] \in Seq(S)
          /\ o[m + 2] = o[m + 1] + Len(seqs[m + 1])
          /\ o[m + 1] \in Nat /\ o[m + 2] \in Nat /\ Len(seqs[m + 1]) \in Nat
      <4>1. m + 1 \in 1 .. n /\ (m + 1) + 1 = m + 2 /\ m + 2 \in 1 .. n + 1 /\ m + 1 \in 1 .. n + 1
        BY <1>1, <3>1
      <4> QED
        BY <1>1, <4>1
    <3>5. /\ F[m + 1] \in Seq(S)
          /\ Len(F[m + 1]) = o[m + 1] + Len(seqs[m + 1])
          /\ \A i \in 1 .. o[m + 1] + Len(seqs[m + 1]) :
               F[m + 1][i] = IF i <= o[m + 1] THEN F[m][i] ELSE seqs[m + 1][i - o[m + 1]]
      <4>1. F[m] \in Seq(S) /\ Len(F[m]) = o[m + 1]
        BY <3>2
      <4> QED
        <5>1. /\ F[m] \o seqs[m + 1] \in Seq(S)
              /\ Len(F[m] \o seqs[m + 1]) = Len(F[m]) + Len(seqs[m + 1])
              /\ \A i \in 1 .. Len(F[m]) + Len(seqs[m + 1]) :
                   (F[m] \o seqs[m + 1])[i] = IF i <= Len(F[m]) THEN F[m][i]
                                              ELSE seqs[m + 1][i - Len(F[m])]
          BY ONLY <3>4, <4>1, ConcatProperties
        <5> QED
          BY ONLY <3>3, <4>1, <5>1
    <3>6. ASSUME NEW i \in 1 .. m + 1, NEW j \in 1 .. Len(seqs[i])
          PROVE  o[i] + j \in 1 .. o[m + 2] /\ F[m + 1][o[i] + j] = seqs[i][j]
      <4>1. CASE i \in 1 .. m
        <5>1. o[i] + j \in 1 .. o[m + 1] /\ F[m][o[i] + j] = seqs[i][j]
          BY <3>2, <4>1
        <5>2. o[i] + j \in 1 .. o[m + 2] /\ o[i] + j \in 1 .. o[m + 1] + Len(seqs[m + 1])
          BY ONLY <3>4, <5>1
        <5>3. o[i] + j <= o[m + 1]
          BY ONLY <3>4, <5>1
        <5> QED
          BY ONLY <3>5, <5>1, <5>2, <5>3
      <4>2. CASE i = m + 1
        <5> DEFINE x == o[m + 1] + j
        <5>1. /\ x \in 1 .. o[m + 2] /\ x \in 1 .. o[m + 1] + Len(seqs[m + 1])
              /\ ~ (x <= o[m + 1]) /\ x - o[m + 1] = j
          <6>1. j \in 1 .. Len(seqs[m + 1])
            BY <4>2
          <6> DEFINE a == o[m + 1]
                     b == Len(seqs[m + 1])
                     c == o[m + 2]
          <6>2. a \in Nat /\ b \in Nat /\ c = a + b /\ j \in 1 .. b
            BY <3>4, <6>1
          <6> HIDE DEF a, b, c
          <6>3. /\ a + j \in 1 .. c /\ a + j \in 1 .. a + b
                /\ ~ (a + j <= a) /\ (a + j) - a = j
            BY ONLY <6>2
          <6> QED
            BY ONLY <6>3 DEF x, a, b, c
        <5> HIDE DEF x
        <5>2. F[m + 1][x] = seqs[m + 1][j]
          BY ONLY <3>5, <5>1
        <5> QED
          BY <4>2, <5>1, <5>2 DEF x
      <4> QED
        BY <3>1, <4>1, <4>2
    <3>7. Holds(m + 1)
      <4>1. Len(F[m + 1]) = o[m + 2] /\ (m + 1) + 1 = m + 2
        BY <3>1, <3>4, <3>5
      <4> QED
        BY <3>5, <3>6, <4>1
    <3> QED
      BY <3>1, <3>7
  <2>5. Holds(n)
    <3>1. Good \in SUBSET Nat
      OBVIOUS
    <3>2. n - 1 \in Nat /\ (n - 1) + 1 = n
      BY <1>1, <1>3
    <3> HIDE DEF Good
    <3>3. n - 1 \in Good
      BY <2>3, <2>4, <3>1, <3>2, Inductive
    <3>4. (n - 1) + 1 <= n => Holds((n - 1) + 1)
      BY <3>3 DEF Good
    <3> HIDE DEF Holds
    <3> QED
      BY <1>1, <3>2, <3>4
  <2> QED
    BY <2>1, <2>5
<1> QED
  BY <1>2, <1>3

-----------------------------------------------------------------------------
(* Least and greatest *)

LEMMA MinIs ==
  ASSUME NEW S \in SUBSET Nat, S # {}
  PROVE  Min(S) \in S /\ \A y \in S : Min(S) <= y
<1>1. \E x \in S : \A y \in S : x <= y
  BY LeastNat
<1>2. Min(S) = CHOOSE x \in S : \A y \in S : x =< y
  BY DEF Min
<1> QED
  BY <1>1, <1>2

LEMMA MaxIs ==
  ASSUME NEW n \in Nat, NEW S \in SUBSET (0 .. n), S # {}
  PROVE  Max(S) \in S /\ \A y \in S : Max(S) >= y
<1> DEFINE T == {n - x : x \in S}
<1>1. T \in SUBSET Nat /\ T # {}
  <2>1. \A x \in S : n - x \in Nat
    OBVIOUS
  <2> QED
    BY <2>1
<1>2. PICK m \in T : \A t \in T : m <= t
  BY <1>1, LeastNat
<1>3. PICK x \in S : m = n - x
  BY <1>2
<1>4. \A y \in S : x >= y
  BY <1>2, <1>3
<1>5. Max(S) = CHOOSE z \in S : \A y \in S : z >= y
  BY DEF Max
<1> QED
  BY <1>4, <1>5

-----------------------------------------------------------------------------
(* Folds *)

(* The recursion of a fold over n elements, whose step with the k-th is    *)
(* f[<<x, k>>].                                                            *)
Solves(h, n, base, f) ==
  \A s \in SUBSET (1 .. n) : h[s] = IF s = {} THEN base ELSE f[<<h[s \ {Max(s)}], Max(s)>>]

(* It has a solution. *)
LEMMA FoldSolved ==
  ASSUME NEW n \in Nat, NEW X, NEW base \in X, NEW f \in [X \X (1 .. n) -> X]
  PROVE  \E h : h \in [SUBSET (1 .. n) -> X] /\ Solves(h, n, base, f)
<1> DEFINE Value(h, s) == IF s = {} THEN base ELSE f[<<h[s \ {Max(s)}], Max(s)>>]
           Good == {k \in Nat : k <= n => \E h \in [SUBSET (1 .. k) -> X] :
                                  \A s \in SUBSET (1 .. k) : h[s] = Value(h, s)}
<1>1. ASSUME NEW k \in Nat, NEW s \in SUBSET (1 .. k), s # {}
      PROVE  Max(s) \in s /\ \A y \in s : Max(s) >= y
  <2>1. s \in SUBSET (0 .. k)
    OBVIOUS
  <2> QED
    BY <1>1, <2>1, MaxIs
<1>2. 0 \in Good
  <2> DEFINE h == [s \in SUBSET (1 .. 0) |-> base]
  <2>1. \A s \in SUBSET (1 .. 0) : s = {}
    OBVIOUS
  <2>2. h \in [SUBSET (1 .. 0) -> X] /\ \A s \in SUBSET (1 .. 0) : h[s] = base
    OBVIOUS
  <2>3. \A s \in SUBSET (1 .. 0) : h[s] = Value(h, s)
    BY <2>1, <2>2
  <2> HIDE DEF Value, h
  <2> QED
    BY <2>2, <2>3
<1>3. ASSUME NEW k \in Good
      PROVE  k + 1 \in Good
  <2>1. k + 1 \in Nat
    OBVIOUS
  <2> SUFFICES ASSUME k + 1 <= n
               PROVE  \E h \in [SUBSET (1 .. k + 1) -> X] :
                        \A s \in SUBSET (1 .. k + 1) : h[s] = Value(h, s)
    <3> HIDE DEF Value
    <3> QED
      BY <2>1
  <2>2. PICK g \in [SUBSET (1 .. k) -> X] : \A s \in SUBSET (1 .. k) : g[s] = Value(g, s)
    <3>1. k \in Nat /\ k <= n
      OBVIOUS
    <3> HIDE DEF Value
    <3> QED
      BY <3>1
  <2> DEFINE h == [s \in SUBSET (1 .. k + 1) |->
                     IF s \in SUBSET (1 .. k) THEN g[s] ELSE Value(g, s)]
  <2>3. ASSUME NEW s \in SUBSET (1 .. k + 1), s # {}
        PROVE  /\ Max(s) \in 1 .. n
               /\ s \ {Max(s)} \in SUBSET (1 .. k)
               /\ s \ {Max(s)} \in SUBSET (1 .. k + 1)
    <3> DEFINE m == Max(s)
               rest == s \ {m}
    <3>1. k \in Nat /\ k + 1 \in Nat
      OBVIOUS
    <3>2. m \in s /\ \A y \in s : m >= y
      BY <1>1, <2>3, <3>1
    <3> HIDE DEF m
    <3>3. m \in 1 .. k + 1
      BY <3>2
    <3>4. \A y \in rest : y \in 1 .. k + 1 /\ y # m /\ y <= m
      BY <3>2
    <3> HIDE DEF rest
    <3>5. \A y \in rest : y \in 1 .. k
      BY ONLY <3>1, <3>3, <3>4
    <3>6. m \in 1 .. n
      BY ONLY <3>1, <3>3, k + 1 <= n, n \in Nat
    <3> QED
      BY <3>4, <3>5, <3>6 DEF m, rest
  <2>4. ASSUME NEW s \in SUBSET (1 .. k + 1)
        PROVE  Value(g, s) \in X /\ Value(g, s) = Value(h, s)
    <3>1. CASE s = {}
      BY <3>1
    <3>2. CASE s # {}
      <4> DEFINE rest == s \ {Max(s)}
      <4>1. rest \in SUBSET (1 .. k) /\ rest \in SUBSET (1 .. k + 1) /\ Max(s) \in 1 .. n
        BY <2>3, <3>2
      <4> HIDE DEF rest
      <4>2. h[rest] = g[rest] /\ g[rest] \in X
        BY <4>1
      <4>3. f[<<g[rest], Max(s)>>] \in X
        BY <4>1, <4>2
      <4>4. Value(g, s) = f[<<g[rest], Max(s)>>] /\ Value(h, s) = f[<<h[rest], Max(s)>>]
        <5> HIDE DEF h
        <5> QED
          BY <3>2 DEF rest
      <4> QED
        BY ONLY <4>2, <4>3, <4>4
    <3> QED
      BY <3>1, <3>2
  <2> HIDE DEF Value
  <2>5. ASSUME NEW s \in SUBSET (1 .. k + 1)
        PROVE  h[s] = Value(g, s)
    BY <2>2
  <2>6. h \in [SUBSET (1 .. k + 1) -> X]
    BY <2>4, <2>2
  <2> HIDE DEF h
  <2> QED
    BY <2>4, <2>5, <2>6
<1>4. PICK h \in [SUBSET (1 .. n) -> X] : \A s \in SUBSET (1 .. n) : h[s] = Value(h, s)
  <2>1. Good \in SUBSET Nat
    OBVIOUS
  <2>2. n \in Good
    <3> HIDE DEF Good
    <3> QED
      BY <1>2, <1>3, <2>1, Inductive
  <2>3. n <= n
    OBVIOUS
  <2> HIDE DEF Value
  <2> QED
    BY <2>2, <2>3
<1> QED
  BY <1>4 DEF Solves

(* The beginnings of a sequence, as the sets a fold goes through. *)
LEMMA Beginnings ==
  ASSUME NEW n \in Nat
  PROVE  /\ 1 .. 0 = {} /\ {} \in SUBSET (1 .. n)
         /\ \A k \in 1 .. n : /\ 1 .. k \in SUBSET (1 .. n) /\ 1 .. k # {}
                             /\ Max(1 .. k) = k /\ (1 .. k) \ {k} = 1 .. k - 1
<1>1. 1 .. 0 = {} /\ {} \in SUBSET (1 .. n)
  OBVIOUS
<1>2. ASSUME NEW k \in 1 .. n
      PROVE  /\ 1 .. k \in SUBSET (1 .. n) /\ 1 .. k # {}
             /\ Max(1 .. k) = k /\ (1 .. k) \ {k} = 1 .. k - 1
  <2>1. 1 .. k \in SUBSET (1 .. n) /\ 1 .. k # {}
    <3>1. k \in 1 .. k /\ \A y \in 1 .. k : y \in 1 .. n
      OBVIOUS
    <3> QED
      BY <3>1
  <2>2. Max(1 .. k) = k
    <3>1. k \in Nat /\ 1 .. k \in SUBSET (0 .. k)
      OBVIOUS
    <3> DEFINE m == Max(1 .. k)
    <3>2. m \in 1 .. k /\ \A y \in 1 .. k : m >= y
      BY <2>1, <3>1, MaxIs
    <3> HIDE DEF m
    <3>3. m = k
      BY <3>2
    <3> QED
      BY <3>3 DEF m
  <2>3. (1 .. k) \ {k} = 1 .. k - 1
    OBVIOUS
  <2> QED
    BY <2>1, <2>2, <2>3
<1> QED
  BY <1>1, <1>2

-----------------------------------------------------------------------------
(* The first k of some sequences, one behind the other. *)
Before(seqs, k) == FlattenSeq(SubSeq(seqs, 1, k))

(* Before, unfolded. *)
LEMMA BeforeSteps ==
  ASSUME NEW S, NEW seqs \in Seq(Seq(S))
  PROVE  /\ Before(seqs, 0) = <<>>
         /\ \A k \in 0 .. Len(seqs) : Before(seqs, k) \in Seq(S)
         /\ \A k \in 1 .. Len(seqs) : Before(seqs, k) = Before(seqs, k - 1) \o seqs[k]
         /\ Before(seqs, Len(seqs)) = FlattenSeq(seqs)
<1> DEFINE n == Len(seqs)
<1>1. n \in Nat /\ \A i \in 1 .. n : seqs[i] \in Seq(S)
  OBVIOUS
<1>2. Before(seqs, 0) = <<>>
  <2>1. SubSeq(seqs, 1, 0) = <<>>
    OBVIOUS
  <2>2. FlattenSeq(<<>>) = <<>>
    BY DEF FlattenSeq
  <2> QED
    BY <2>1, <2>2 DEF Before
<1>3. Before(seqs, n) = FlattenSeq(seqs)
  <2>1. SubSeq(seqs, 1, n) = seqs
    OBVIOUS
  <2> QED
    BY <2>1 DEF Before
<1>4. ASSUME NEW k \in 1 .. n
      PROVE  \E F : /\ F = [i \in 1 .. k |-> IF i = 1 THEN seqs[i] ELSE F[i - 1] \o seqs[i]]
                    /\ Before(seqs, k) = F[k]
  <2> DEFINE part == SubSeq(seqs, 1, k)
  <2>1. part \in Seq(Seq(S)) /\ Len(part) = k /\ k # 0 /\ \A i \in 1 .. k : part[i] = seqs[i]
    BY <1>1
  <2> HIDE DEF part
  <2>2. PICK F : /\ F = [i \in 1 .. k |-> IF i = 1 THEN part[i] ELSE F[i - 1] \o part[i]]
                 /\ FlattenSeq(part) = F[k]
    BY <2>1, FlattenSteps
  <2>3. [i \in 1 .. k |-> IF i = 1 THEN part[i] ELSE F[i - 1] \o part[i]]
          = [i \in 1 .. k |-> IF i = 1 THEN seqs[i] ELSE F[i - 1] \o seqs[i]]
    BY <2>1
  <2> QED
    BY <2>2, <2>3 DEF Before, part
<1>5. ASSUME NEW k \in 1 .. n
      PROVE  Before(seqs, k) = Before(seqs, k - 1) \o seqs[k]
  <2>1. PICK F : /\ F = [i \in 1 .. k |-> IF i = 1 THEN seqs[i] ELSE F[i - 1] \o seqs[i]]
                 /\ Before(seqs, k) = F[k]
    BY <1>4
  <2>2. CASE k = 1
    <3>1. F[1] = seqs[1] /\ <<>> \o seqs[1] = seqs[1]
      BY <1>1, <2>1, <2>2
    <3> QED
      BY <1>2, <2>1, <2>2, <3>1
  <2>3. CASE k # 1
    <3>1. k - 1 \in 1 .. n
      BY <1>1, <2>3
    <3>2. PICK G : /\ G = [i \in 1 .. k - 1 |-> IF i = 1 THEN seqs[i] ELSE G[i - 1] \o seqs[i]]
                   /\ Before(seqs, k - 1) = G[k - 1]
      BY <1>4, <3>1
    <3> DEFINE Good == {i \in Nat : i \in 1 .. k - 1 => F[i] = G[i]}
    <3>3. Good \in SUBSET Nat /\ 0 \in Good
      OBVIOUS
    <3>4. ASSUME NEW i \in Good
          PROVE  i + 1 \in Good
      <4>1. i \in Nat /\ i + 1 \in Nat
        OBVIOUS
      <4> SUFFICES ASSUME i + 1 \in 1 .. k - 1
                   PROVE  F[i + 1] = G[i + 1]
        BY <4>1
      <4>2. i + 1 \in 1 .. k /\ (i + 1) - 1 = i
        BY <4>1
      <4>3. CASE i = 0
        BY <2>1, <3>2, <4>2, <4>3
      <4>4. CASE i # 0
        <5>1. i \in 1 .. k - 1 /\ i + 1 # 1
          BY <4>1, <4>4
        <5>2. F[i] = G[i]
          BY <5>1
        <5>3. F[i + 1] = F[i] \o seqs[i + 1] /\ G[i + 1] = G[i] \o seqs[i + 1]
          <6> HIDE DEF Good
          <6> QED
            BY <2>1, <3>2, <4>2, <5>1
        <5> QED
          BY <5>2, <5>3
      <4> QED
        BY <4>3, <4>4
    <3>5. k - 1 \in Good
      <4>1. k - 1 \in Nat
        BY <3>1
      <4> HIDE DEF Good
      <4> QED
        BY <3>3, <3>4, <4>1, Inductive
    <3>6. F[k - 1] = G[k - 1]
      <4>1. k - 1 \in 1 .. k - 1
        BY <1>1, <3>1
      <4> QED
        BY <3>5, <4>1
    <3>7. F[k] = F[k - 1] \o seqs[k]
      <4>1. k \in 1 .. k
        OBVIOUS
      <4> QED
        BY <2>1, <2>3, <4>1
    <3> QED
      BY <2>1, <3>2, <3>6, <3>7
  <2> QED
    BY <2>2, <2>3
<1>6. ASSUME NEW k \in 0 .. n
      PROVE  Before(seqs, k) \in Seq(S)
  <2> DEFINE Good == {i \in Nat : i \in 0 .. n => Before(seqs, i) \in Seq(S)}
  <2>1. Good \in SUBSET Nat /\ 0 \in Good
    <3>1. Before(seqs, 0) \in Seq(S)
      BY <1>2, EmptySeq
    <3> QED
      BY <3>1
  <2>2. ASSUME NEW i \in Good
        PROVE  i + 1 \in Good
    <3>1. i \in Nat /\ i + 1 \in Nat
      OBVIOUS
    <3> SUFFICES ASSUME i + 1 \in 0 .. n
                 PROVE  Before(seqs, i + 1) \in Seq(S)
      BY <3>1
    <3>2. i + 1 \in 1 .. n /\ i \in 0 .. n /\ (i + 1) - 1 = i
      BY <1>1, <3>1
    <3>3. Before(seqs, i) \in Seq(S)
      BY <3>2
    <3>4. Before(seqs, i + 1) = Before(seqs, i) \o seqs[i + 1]
      BY <1>5, <3>2
    <3>5. seqs[i + 1] \in Seq(S)
      BY <1>1, <3>2
    <3>6. Before(seqs, i) \o seqs[i + 1] \in Seq(S)
      BY <3>3, <3>5, ConcatProperties
    <3> QED
      BY ONLY <3>4, <3>6
  <2>3. k \in Good
    <3>1. k \in Nat
      OBVIOUS
    <3> HIDE DEF Good
    <3> QED
      BY <2>1, <2>2, <3>1, Inductive
  <2> QED
    BY <2>3
<1> QED
  BY <1>2, <1>3, <1>5, <1>6

(* Where the elements of the k-th are. *)
LEMMA FlattenAt ==
  ASSUME NEW S, NEW seqs \in Seq(Seq(S)), NEW k \in 1 .. Len(seqs)
  PROVE  /\ Len(Before(seqs, k)) = Len(Before(seqs, k - 1)) + Len(seqs[k])
         /\ Len(Before(seqs, k - 1)) \in Nat
         /\ Len(Before(seqs, k)) <= Len(FlattenSeq(seqs))
         /\ \A j \in 1 .. Len(seqs[k]) :
              FlattenSeq(seqs)[Len(Before(seqs, k - 1)) + j] = seqs[k][j]
<1> DEFINE n == Len(seqs)
           o == [i \in 1 .. n + 1 |-> Len(Before(seqs, i - 1))]
<1>1. n \in Nat /\ \A i \in 1 .. n : seqs[i] \in Seq(S) /\ Len(seqs[i]) \in Nat
  OBVIOUS
<1>2. \A i \in 0 .. n : Before(seqs, i) \in Seq(S) /\ Len(Before(seqs, i)) \in Nat
  <2>1. \A i \in 0 .. n : Before(seqs, i) \in Seq(S)
    BY BeforeSteps
  <2> QED
    BY <2>1, LenProperties
<1>3. ASSUME NEW i \in 1 .. n
      PROVE  Len(Before(seqs, i)) = Len(Before(seqs, i - 1)) + Len(seqs[i])
  <2>1. Before(seqs, i) = Before(seqs, i - 1) \o seqs[i]
    BY BeforeSteps
  <2>2. i - 1 \in 0 .. n
    BY <1>1
  <2> QED
    BY <1>1, <1>2, <2>1, <2>2
<1>4. o \in [1 .. n + 1 -> Nat] /\ o[1] = 0 /\ \A i \in 1 .. n : o[i + 1] = o[i] + Len(seqs[i])
  <2>1. \A i \in 1 .. n + 1 : i - 1 \in 0 .. n
    BY <1>1
  <2>2. \A i \in 1 .. n + 1 : Len(Before(seqs, i - 1)) \in Nat
    BY <1>2, <2>1
  <2>3. o[1] = 0
    <3>1. Before(seqs, 0) = <<>>
      BY BeforeSteps
    <3>2. 1 \in 1 .. n + 1 /\ 1 - 1 = 0 /\ Len(<<>>) = 0
      BY <1>1
    <3> QED
      BY <3>1, <3>2
  <2>4. ASSUME NEW i \in 1 .. n
        PROVE  o[i + 1] = o[i] + Len(seqs[i])
    <3>1. i \in 1 .. n + 1 /\ i + 1 \in 1 .. n + 1 /\ (i + 1) - 1 = i
      BY <1>1
    <3> QED
      BY <1>3, <3>1
  <2> QED
    BY <2>2, <2>3, <2>4
<1>5. \A j \in 1 .. Len(seqs[k]) : FlattenSeq(seqs)[o[k] + j] = seqs[k][j]
  <2> HIDE DEF o
  <2> QED
    BY <1>4, FlattenPlaces
<1>6. Len(Before(seqs, k)) <= Len(FlattenSeq(seqs))
  <2> DEFINE Good == {i \in Nat : k + i <= n => Len(Before(seqs, k)) <= Len(Before(seqs, k + i))}
  <2>1. Good \in SUBSET Nat /\ 0 \in Good
    <3>1. k \in 0 .. n /\ k + 0 = k
      OBVIOUS
    <3>2. Len(Before(seqs, k)) <= Len(Before(seqs, k))
      BY <1>2, <3>1
    <3> QED
      BY <3>1, <3>2
  <2>2. ASSUME NEW i \in Good
        PROVE  i + 1 \in Good
    <3>1. i \in Nat /\ i + 1 \in Nat /\ k \in 0 .. n /\ n \in Nat
      OBVIOUS
    <3> SUFFICES ASSUME k + (i + 1) <= n
                 PROVE  Len(Before(seqs, k)) <= Len(Before(seqs, k + (i + 1)))
      BY <3>1
    <3> DEFINE m == k + (i + 1)
    <3>2. m \in 1 .. n /\ m - 1 = k + i /\ k + i <= n /\ m - 1 \in 0 .. n /\ m \in 0 .. n
      BY <3>1
    <3>3. Len(Before(seqs, k)) <= Len(Before(seqs, k + i))
      BY <3>2
    <3> HIDE DEF m
    <3>4. Len(Before(seqs, m)) = Len(Before(seqs, m - 1)) + Len(seqs[m])
      BY <1>3, <3>2
    <3>5. Len(seqs[m]) \in Nat /\ Len(Before(seqs, m - 1)) \in Nat /\ Len(Before(seqs, k)) \in Nat
      BY <1>1, <1>2, <3>1, <3>2
    <3>6. Len(Before(seqs, k)) <= Len(Before(seqs, m))
      <4>1. Len(Before(seqs, k)) <= Len(Before(seqs, m - 1))
        BY ONLY <3>2, <3>3
      <4> DEFINE a == Len(Before(seqs, k))
                 b == Len(Before(seqs, m - 1))
                 c == Len(seqs[m])
      <4>2. a \in Nat /\ b \in Nat /\ c \in Nat /\ a <= b /\ Len(Before(seqs, m)) = b + c
        BY ONLY <3>4, <3>5, <4>1
      <4> HIDE DEF a, b, c
      <4>3. a <= b + c
        BY ONLY <4>2
      <4> QED
        BY ONLY <4>2, <4>3 DEF a
    <3> QED
      BY <3>6 DEF m
  <2>3. n - k \in Good
    <3>1. n - k \in Nat
      BY <1>1
    <3> HIDE DEF Good
    <3> QED
      BY <2>1, <2>2, <3>1, Inductive
  <2>4. k + (n - k) = n /\ n <= n
    BY <1>1
  <2>5. Len(Before(seqs, k)) <= Len(Before(seqs, n))
    BY <2>3, <2>4
  <2> QED
    BY <2>5, BeforeSteps
<1>7. o[k] = Len(Before(seqs, k - 1)) /\ k - 1 \in 0 .. n
  BY <1>1
<1> HIDE DEF o
<1> QED
  BY <1>2, <1>3, <1>5, <1>6, <1>7

(* It depends on the first k only. *)
LEMMA BeforeSame ==
  ASSUME NEW S, NEW s \in Seq(S), NEW t \in Seq(S), NEW k \in Nat,
         k <= Len(s), k <= Len(t), \A i \in 1 .. k : s[i] = t[i]
  PROVE  Before(s, k) = Before(t, k)
<1>1. SubSeq(s, 1, k) = [i \in 1 .. k |-> s[i]] /\ SubSeq(t, 1, k) = [i \in 1 .. k |-> t[i]]
  OBVIOUS
<1>2. SubSeq(s, 1, k) = SubSeq(t, 1, k)
  BY <1>1
<1> QED
  BY <1>2 DEF Before

-----------------------------------------------------------------------------
(* Names *)

(* A string that has a character and no zero. *)
Word == Seq(Nat \ {0}) \ {<<>>}

(* What fat_parse_path leaves of a path is a string. *)
LEMMA BaseNameString ==
  ASSUME NEW path \in Path
  PROVE  BaseName(path) \in Seq(Nat \ {0})
<1>1. path \in Seq(Nat \ {0}) /\ Len(path) \in Nat /\ DOMAIN path = 1 .. Len(path)
  BY FatAssumption
<1> DEFINE k == Strrchr(path, Slash)
<1>2. k \in Nat \/ k = Null
  <2>1. CASE Slash = 0
    BY <1>1, <2>1 DEF Strrchr
  <2>2. CASE Slash # 0 /\ Offsets(path, Slash) = {}
    BY <2>2 DEF Strrchr
  <2>3. CASE Slash # 0 /\ Offsets(path, Slash) # {}
    <3>1. Offsets(path, Slash) \in SUBSET (0 .. Len(path))
      BY <1>1 DEF Offsets
    <3>2. Max(Offsets(path, Slash)) \in Offsets(path, Slash)
      BY <1>1, <2>3, <3>1, MaxIs
    <3>3. k = Max(Offsets(path, Slash))
      BY <2>3 DEF Strrchr
    <3> QED
      BY <1>1, <3>1, <3>2, <3>3
  <2> QED
    BY <2>1, <2>2, <2>3
<1> HIDE DEF k
<1>3. CASE k = Null
  BY <1>1, <1>3 DEF BaseName, k
<1>4. CASE k # Null
  <2>1. k \in Nat /\ k + 1 + 1 \in Int
    BY <1>2, <1>4
  <2>2. BaseName(path) = SubSeq(path, k + 1 + 1, Len(path))
    BY <1>4 DEF BaseName, From, k
  <2>3. \A i \in k + 1 + 1 .. Len(path) : path[i] \in Nat \ {0}
    BY <1>1, <2>1
  <2> QED
    BY <1>1, <2>1, <2>2, <2>3, SubSeqProperties
<1> QED
  BY <1>3, <1>4

(* The names that can be on the disk or in the search tree. *)
Known == (Name \ {<<>>}) \cup {RootName}

LEMMA Words == Known \subseteq Word
<1>1. Name \subseteq Seq(Nat \ {0})
  BY BaseNameString DEF Name
<1>2. RootName \in Word
  BY FatAssumption DEF Word
<1> QED
  BY <1>1, <1>2 DEF Word, Known

LEMMA DivMod ==
  ASSUME NEW a \in Nat, NEW b \in Nat \ {0}
  PROVE  a \div b \in Nat /\ a % b \in 0 .. b - 1 /\ a = b * (a \div b) + (a % b)
OBVIOUS

(* A name has as many pieces as it needs. *)
LEMMA PiecesFit ==
  ASSUME NEW name \in Word
  PROVE  /\ Len(name) \in Nat \ {0} /\ DOMAIN name = 1 .. Len(name)
         /\ Pieces(name) \in Nat \ {0}
         /\ (Pieces(name) - 1) * PieceLen < Len(name)
         /\ Len(name) <= Pieces(name) * PieceLen
<1> DEFINE n == Len(name)
           L == PieceLen
           q == (n + L - 1) \div L
           r == (n + L - 1) % L
<1>1. n \in Nat \ {0} /\ DOMAIN name = 1 .. n
  BY EmptySeq DEF Word
<1>2. L \in Nat \ {0}
  BY FatAssumption
<1>3. Pieces(name) = q
  BY DEF Pieces
<1> HIDE DEF n, L
<1>4. n + L - 1 \in Nat
  BY <1>1, <1>2
<1>5. q \in Nat /\ r \in 0 .. L - 1 /\ n + L - 1 = L * q + r
  BY <1>2, <1>4, DivMod
<1> HIDE DEF q, r
<1>6. q # 0
  BY <1>1, <1>2, <1>5
<1>7. (q - 1) * L = L * q - L /\ q * L = L * q
  BY <1>2, <1>5
<1>8. (q - 1) * L < n /\ n <= q * L
  BY <1>1, <1>2, <1>5, <1>7
<1> QED
  BY <1>1, <1>3, <1>5, <1>6, <1>8 DEF n, L

(* The text of all pieces, the first one first. *)
NameText(name) == FlattenSeq([i \in 1 .. Pieces(name) |-> Piece(name, i)])

(* The characters of the name, a zero if there is room for it, padding.    *)
LEMMA TextIs ==
  ASSUME NEW name \in Word
  PROVE  /\ NameText(name) \in Seq(Int)
         /\ Len(NameText(name)) = Pieces(name) * PieceLen
         /\ \A k \in 1 .. Pieces(name) * PieceLen :
              NameText(name)[k] = IF k <= Len(name) THEN name[k]
                              ELSE IF k = Len(name) + 1 THEN 0 ELSE Pad
<1> DEFINE n == Len(name)
           P == Pieces(name)
           L == PieceLen
           Symbol(k) == IF k <= n THEN name[k] ELSE IF k = n + 1 THEN 0 ELSE Pad
           seqs == [i \in 1 .. P |-> Piece(name, i)]
           o == [i \in 1 .. P + 1 |-> (i - 1) * L]
<1>1. n \in Nat \ {0} /\ P \in Nat \ {0} /\ DOMAIN name = 1 .. n
  BY PiecesFit
<1>2. L \in Nat \ {0}
  BY FatAssumption
<1>3. \A i \in 1 .. n : name[i] \in Int
  BY <1>1 DEF Word
<1> HIDE DEF n, P, L
<1>4. ASSUME NEW i \in 1 .. P
      PROVE  Piece(name, i) = [j \in 1 .. L |-> Symbol((i - 1) * L + j)]
  BY DEF Piece, n, L
<1>5. ASSUME NEW k \in Nat \ {0}
      PROVE  Symbol(k) \in Int
  BY <1>1, <1>3 DEF Pad
<1> HIDE DEF Symbol
<1>6. ASSUME NEW i \in 1 .. P
      PROVE  /\ seqs[i] = Piece(name, i)
             /\ seqs[i] \in Seq(Int) /\ Len(seqs[i]) = L
             /\ \A j \in 1 .. L : seqs[i][j] = Symbol((i - 1) * L + j)
  <2>1. (i - 1) * L \in Nat
    BY <1>1, <1>2
  <2>2. \A j \in 1 .. L : Symbol((i - 1) * L + j) \in Int
    BY <1>2, <1>5, <2>1
  <2>3. seqs[i] = [j \in 1 .. L |-> Symbol((i - 1) * L + j)]
    BY <1>4
  <2> HIDE DEF seqs
  <2> QED
    BY <1>2, <1>4, <2>2, <2>3
<1>7. seqs \in Seq(Seq(Int)) /\ Len(seqs) = P
  <2>1. \A i \in 1 .. P : seqs[i] \in Seq(Int)
    BY <1>6
  <2>2. seqs = [i \in 1 .. P |-> seqs[i]]
    OBVIOUS
  <2> HIDE DEF seqs
  <2> QED
    BY <1>1, <2>1, <2>2
<1>8. /\ o \in [1 .. P + 1 -> Nat] /\ o[1] = 0 /\ o[P + 1] = P * L
      /\ \A i \in 1 .. P : o[i] = (i - 1) * L /\ o[i + 1] = o[i] + L
  <2>1. \A i \in 1 .. P + 1 : (i - 1) * L \in Nat
    BY <1>1, <1>2
  <2>2. 1 \in 1 .. P + 1 /\ P + 1 \in 1 .. P + 1 /\ (1 - 1) * L = 0 /\ ((P + 1) - 1) * L = P * L
    BY <1>1, <1>2
  <2>3. \A i \in 1 .. P : /\ i \in 1 .. P + 1 /\ i + 1 \in 1 .. P + 1
                          /\ ((i + 1) - 1) * L = (i - 1) * L + L
    BY <1>1, <1>2
  <2> QED
    BY <2>1, <2>2, <2>3
<1>9. NameText(name) = FlattenSeq(seqs)
  BY DEF NameText, P
<1> HIDE DEF seqs, o
<1>10. /\ FlattenSeq(seqs) \in Seq(Int)
       /\ Len(FlattenSeq(seqs)) = o[P + 1]
       /\ \A i \in 1 .. P : \A j \in 1 .. Len(seqs[i]) :
            FlattenSeq(seqs)[o[i] + j] = seqs[i][j]
  <2>1. \A i \in 1 .. P : o[i + 1] = o[i] + Len(seqs[i])
    BY <1>6, <1>8
  <2>2. /\ FlattenSeq(seqs) \in Seq(Int)
        /\ Len(FlattenSeq(seqs)) = o[Len(seqs) + 1]
        /\ \A i \in 1 .. Len(seqs) : \A j \in 1 .. Len(seqs[i]) :
             FlattenSeq(seqs)[o[i] + j] = seqs[i][j]
    BY <1>7, <1>8, <2>1, FlattenPlaces
  <2> QED
    BY <1>7, <2>2
<1>11. ASSUME NEW k \in 1 .. P * L
       PROVE  NameText(name)[k] = Symbol(k)
  <2> DEFINE q == (k - 1) \div L
             r == (k - 1) % L
  <2>1. P * L \in Nat
    BY <1>1, <1>2
  <2>2. k - 1 \in Nat
    BY <2>1
  <2>3. q \in Nat /\ r \in 0 .. L - 1 /\ k - 1 = L * q + r
    BY <1>2, <2>2, DivMod
  <2> HIDE DEF q, r
  <2>4. q < P
    <3>1. ASSUME q >= P
          PROVE  L * q >= P * L
      BY <1>1, <1>2, <2>3, <3>1
    <3>2. L * q \in Nat
      BY <1>2, <2>3
    <3>3. L * q <= k - 1
      BY <1>2, <2>3, <3>2
    <3> QED
      BY <1>1, <2>1, <2>3, <3>1, <3>2, <3>3
  <2> DEFINE i == q + 1
             j == r + 1
  <2>5. i \in 1 .. P /\ j \in 1 .. L /\ (i - 1) * L + j = k
    BY <1>1, <1>2, <2>3, <2>4
  <2> HIDE DEF i, j
  <2>6. NameText(name)[o[i] + j] = seqs[i][j]
    BY <1>6, <1>9, <1>10, <2>5
  <2> QED
    BY <1>6, <1>8, <2>5, <2>6
<1>12. Len(NameText(name)) = P * L /\ NameText(name) \in Seq(Int)
  BY <1>8, <1>9, <1>10
<1> QED
  BY <1>11, <1>12 DEF n, P, L, Symbol

(* What is read of the pieces is the name, whether there was room for the  *)
(* zero or not.                                                            *)
LEMMA NameBack ==
  ASSUME NEW name \in Word
  PROVE  CString(NameText(name)) = name
<1> DEFINE n == Len(name)
           m == Pieces(name) * PieceLen
           text == NameText(name)
           ends == {i \in DOMAIN text : text[i] = 0}
<1>1. n \in Nat \ {0} /\ DOMAIN name = 1 .. n /\ n <= m /\ m \in Nat
  BY PiecesFit, FatAssumption
<1>2. /\ text \in Seq(Int) /\ Len(text) = m /\ DOMAIN text = 1 .. m
      /\ \A k \in 1 .. m : text[k] = IF k <= n THEN name[k] ELSE IF k = n + 1 THEN 0 ELSE Pad
  BY TextIs
<1>3. \A i \in 1 .. n : name[i] \in Nat \ {0}
  BY <1>1 DEF Word
<1>4. CString(text) = IF ends = {} THEN text ELSE SubSeq(text, 1, Min(ends) - 1)
  BY DEF CString
<1>5. name = [i \in 1 .. n |-> name[i]]
  BY <1>1 DEF Word
<1> HIDE DEF n, m, text
<1>6. CASE n = m
  <2>1. ends = {}
    BY <1>1, <1>2, <1>3, <1>6
  <2>2. text = [i \in 1 .. m |-> text[i]]
    BY <1>2
  <2>3. \A i \in 1 .. m : text[i] = name[i]
    BY <1>1, <1>2, <1>6
  <2>4. text = name
    BY <1>5, <1>6, <2>2, <2>3
  <2> QED
    BY <1>4, <2>1, <2>4 DEF text
<1>7. CASE n # m
  <2>1. n + 1 \in ends /\ \A k \in ends : k = n + 1
    BY <1>1, <1>2, <1>3, <1>7 DEF Pad
  <2>2. ends \in SUBSET Nat /\ ends # {}
    BY <1>2, <2>1
  <2> HIDE DEF ends
  <2>3. Min(ends) = n + 1
    BY <2>1, <2>2, MinIs
  <2>4. CString(text) = SubSeq(text, 1, n)
    <3>1. Min(ends) - 1 = n
      BY <1>1, <2>3
    <3>2. CString(text) = SubSeq(text, 1, Min(ends) - 1)
      BY <2>2 DEF CString, ends
    <3> QED
      BY <3>1, <3>2
  <2>5. \A i \in 1 .. n : text[i] \in Int /\ text[i] = name[i]
    BY <1>1, <1>2
  <2>6. /\ SubSeq(text, 1, n) \in Seq(Int) /\ Len(SubSeq(text, 1, n)) = n
        /\ \A i \in 1 .. n : SubSeq(text, 1, n)[i] = text[i]
    <3>1. /\ SubSeq(text, 1, n) \in Seq(Int)
          /\ Len(SubSeq(text, 1, n)) = IF 1 <= n THEN n - 1 + 1 ELSE 0
          /\ \A i \in 1 .. n - 1 + 1 : SubSeq(text, 1, n)[i] = text[1 + i - 1]
      BY <1>1, <2>5, SubSeqProperties
    <3> QED
      BY <1>1, <3>1
  <2>7. SubSeq(text, 1, n) = [i \in 1 .. n |-> SubSeq(text, 1, n)[i]]
    BY <2>6
  <2>8. SubSeq(text, 1, n) = name
    BY <1>5, <2>5, <2>6, <2>7
  <2> QED
    BY <2>4, <2>8 DEF text
<1> QED
  BY <1>6, <1>7

-----------------------------------------------------------------------------
(* Slots *)

LEMMA StrncpyType ==
  ASSUME NEW dst \in Seq(Int), NEW src \in Seq(Int), NEW cnt \in Nat
  PROVE  Strncpy(dst, src, cnt) \in Seq(Int)
<1> DEFINE most == Min({Len(src), cnt})
<1>1. most <= Len(src) /\ Len(src) \in Nat /\ most \in Nat
  <2>1. {Len(src), cnt} \in SUBSET Nat /\ {Len(src), cnt} # {}
    OBVIOUS
  <2> QED
    BY <2>1, MinIs
<1> HIDE DEF most
<1>2. ASSUME NEW i \in 1 .. Len(dst)
      PROVE  (IF i <= most THEN src[i] ELSE dst[i]) \in Int
  <2>1. CASE i <= most
    <3>1. i \in 1 .. Len(src)
      BY <1>1, <2>1
    <3> QED
      BY <2>1, <3>1
  <2>2. CASE ~ (i <= most)
    BY <2>2
  <2> QED
    BY <2>1, <2>2
<1>3. Strncpy(dst, src, cnt) = [i \in 1 .. Len(dst) |-> IF i <= most THEN src[i] ELSE dst[i]]
  BY DEF Strncpy, most
<1> QED
  BY <1>2, <1>3

LEMMA ShortNameType ==
  ASSUME NEW name \in Word
  PROVE  ShortName(name) \in Seq(Int)
<1>1. name \in Seq(Int) /\ Len(name) \in Nat /\ DOMAIN name = 1 .. Len(name)
  BY DEF Word
<1>2. ASSUME NEW n \in Nat
      PROVE  Spaces(n) \in Seq(Int)
  BY DEF Spaces, Memset
<1> DEFINE dot == Strchr(name, Dot)
           ext == From(name, dot + 1)
<1>3. CASE dot = Null
  BY <1>1, <1>2, <1>3, StrncpyType DEF ShortName
<1>4. CASE dot # Null
  <2>1. dot \in Nat
    <3>1. Offsets(name, Dot) # {} /\ dot = Min(Offsets(name, Dot))
      BY <1>4 DEF Strchr
    <3>2. Offsets(name, Dot) \in SUBSET Nat
      BY <1>1 DEF Offsets
    <3> QED
      BY <3>1, <3>2, MinIs
  <2>2. ShortName(name) = Strncpy(Spaces(8), name, Min({dot, 8}))
                            \o Strncpy(Spaces(3), ext, Min({Len(ext), 3}))
    BY <1>4 DEF ShortName
  <2> HIDE DEF dot
  <2>3. ext \in Seq(Int)
    <3>1. dot + 1 + 1 \in Int /\ Len(name) \in Int
      BY <1>1, <2>1
    <3>2. \A i \in dot + 1 + 1 .. Len(name) : name[i] \in Int
      BY <1>1, <2>1
    <3>3. SubSeq(name, dot + 1 + 1, Len(name)) \in Seq(Int)
      BY <3>1, <3>2, SubSeqProperties
    <3> QED
      BY <3>3 DEF From
  <2> HIDE DEF ext
  <2>4. Min({dot, 8}) \in Nat /\ Min({Len(ext), 3}) \in Nat
    <3>1. \A a, b \in Nat : Min({a, b}) \in Nat
      <4> SUFFICES ASSUME NEW a \in Nat, NEW b \in Nat
                   PROVE  Min({a, b}) \in Nat
        OBVIOUS
      <4>1. {a, b} \in SUBSET Nat /\ {a, b} # {}
        OBVIOUS
      <4> QED
        BY <4>1, MinIs
    <3> QED
      BY <2>1, <2>3, <3>1
  <2>5. Strncpy(Spaces(8), name, Min({dot, 8})) \in Seq(Int)
    BY <1>1, <1>2, <2>4, StrncpyType
  <2>6. Strncpy(Spaces(3), ext, Min({Len(ext), 3})) \in Seq(Int)
    BY <1>2, <2>3, <2>4, StrncpyType
  <2> QED
    BY <2>2, <2>5, <2>6, ConcatProperties
<1> QED
  BY <1>3, <1>4

(* The slots of a file, the last piece first, the cluster last.            *)
LEMMA SlotsAre ==
  ASSUME NEW file, file.name \in Word, file.clus \in Cluster \cup {None}
  PROVE  LET P == Pieces(file.name) IN
         /\ Slots(file) \in Seq(Slot) /\ Len(Slots(file)) = P + 1
         /\ \A j \in 1 .. P : Slots(file)[j] = Lfn(file.name, P - j + 1)
         /\ Slots(file)[P + 1] = Sfn(file.name, file.clus)
<1> DEFINE P == Pieces(file.name)
           L == PieceLen
           lfns == [n \in 1 .. P |-> Lfn(file.name, n)]
           front == Reverse(lfns)
<1>1. P \in Nat \ {0} /\ L \in Nat \ {0}
  BY PiecesFit, FatAssumption
<1>2. ASSUME NEW n \in 1 .. P
      PROVE  Lfn(file.name, n) \in Slot
  <2>1. Piece(file.name, n) \in Seq(Int)
    <3> DEFINE k(i) == (n - 1) * L + i
               Symbol(i) == CASE k(i) <= Len(file.name)    -> file.name[k(i)]
                            [] k(i) = Len(file.name) + 1 -> 0
                            [] OTHER                     -> Pad
    <3>1. Len(file.name) \in Nat /\ \A i \in 1 .. Len(file.name) : file.name[i] \in Int
      BY DEF Word
    <3>2. ASSUME NEW i \in 1 .. L
          PROVE  k(i) \in Nat \ {0}
      <4>1. (n - 1) * L \in Nat
        BY <1>1
      <4> QED
        BY <1>1, <4>1
    <3>3. Piece(file.name, n) = [i \in 1 .. L |-> Symbol(i)]
      BY DEF Piece
    <3> HIDE DEF k
    <3>4. \A i \in 1 .. L : Symbol(i) \in Int
      BY <3>1, <3>2 DEF Pad
    <3> HIDE DEF Symbol
    <3> QED
      BY <1>1, <3>3, <3>4
  <2> QED
    BY <1>1, <2>1 DEF Lfn, Slot
<1>3. Sfn(file.name, file.clus) \in Slot
  BY ShortNameType DEF Sfn, Slot
<1>4. /\ front \in Seq(Slot) /\ Len(front) = P
      /\ \A j \in 1 .. P : front[j] = Lfn(file.name, P - j + 1)
  <2> HIDE DEF P
  <2>1. \A i \in 1 .. P : (P - i) + 1 \in 1 .. P
    BY <1>1
  <2>2. /\ lfns \in Seq(Slot) /\ Len(lfns) = P
        /\ \A i \in 1 .. P : lfns[i] = Lfn(file.name, i)
    BY <1>1, <1>2
  <2> HIDE DEF lfns
  <2>3. front = [i \in 1 .. P |-> lfns[(P - i) + 1]]
    BY <2>2 DEF Reverse
  <2>4. \A i \in 1 .. P : lfns[(P - i) + 1] = Lfn(file.name, P - i + 1)
    BY <2>1, <2>2
  <2> HIDE DEF front
  <2> QED
    BY <1>1, <1>2, <2>1, <2>3, <2>4
<1>5. Slots(file) = Append(front, Sfn(file.name, file.clus))
  BY DEF Slots, Combined
<1>6. \A j \in 1 .. P : front[j] = Lfn(file.name, P - j + 1)
  BY <1>4
<1> HIDE DEF front, lfns, P
<1>7. /\ Slots(file) \in Seq(Slot) /\ Len(Slots(file)) = P + 1
      /\ \A j \in 1 .. P : Slots(file)[j] = front[j]
      /\ Slots(file)[P + 1] = Sfn(file.name, file.clus)
  BY <1>3, <1>4, <1>5, AppendProperties
<1> QED
  BY <1>6, <1>7 DEF P

-----------------------------------------------------------------------------
(* Slots as files *)

LEMMA PlacesExist ==
  ASSUME NEW S, NEW seqs \in Seq(Seq(S))
  PROVE  \E o \in [1 .. Len(seqs) + 1 -> Nat] :
           o[1] = 0 /\ \A i \in 1 .. Len(seqs) : o[i + 1] = o[i] + Len(seqs[i])
<1> DEFINE n == Len(seqs)
           Starts(o, m) == /\ o \in [1 .. m + 1 -> Nat] /\ o[1] = 0
                           /\ \A i \in 1 .. m : o[i + 1] = o[i] + Len(seqs[i])
           Good == {m \in Nat : m <= n => \E o : Starts(o, m)}
<1>1. n \in Nat /\ \A i \in 1 .. n : Len(seqs[i]) \in Nat
  OBVIOUS
<1> HIDE DEF n
<1>2. 0 \in Good
  <2>1. Starts([i \in 1 .. 1 |-> 0], 0)
    OBVIOUS
  <2> HIDE DEF Starts
  <2> QED
    BY <2>1
<1>3. ASSUME NEW m \in Good
      PROVE  m + 1 \in Good
  <2>1. ASSUME m + 1 <= n
        PROVE  \E o : Starts(o, m + 1)
    <3>1. PICK o : Starts(o, m)
      BY <1>1, <2>1
    <3> DEFINE w == [i \in 1 .. m + 2 |-> IF i = m + 2 THEN o[m + 1] + Len(seqs[m + 1]) ELSE o[i]]
    <3>2. m \in Nat /\ m + 1 \in 1 .. n /\ (m + 1) + 1 = m + 2
      BY <2>1
    <3>3. Len(seqs[m + 1]) \in Nat /\ o[m + 1] \in Nat
      BY <1>1, <3>1, <3>2
    <3>4. \A i \in 1 .. m + 1 : w[i] = o[i] /\ o[i] \in Nat
      BY <3>1, <3>2
    <3>5. w[m + 2] = o[m + 1] + Len(seqs[m + 1])
      BY <3>2
    <3>6. w \in [1 .. m + 2 -> Nat]
      BY <3>1, <3>2, <3>3
    <3>7. 1 \in 1 .. m + 1 /\ m + 1 \in 1 .. m + 1
      BY <3>2
    <3> HIDE DEF w
    <3>8. ASSUME NEW i \in 1 .. m + 1
          PROVE  w[i + 1] = w[i] + Len(seqs[i])
      <4>1. CASE i = m + 1
        BY <3>2, <3>4, <3>5, <3>7, <4>1
      <4>2. CASE i # m + 1
        <5>1. i \in 1 .. m /\ i + 1 \in 1 .. m + 1
          BY <3>2, <4>2
        <5> QED
          BY <3>1, <3>4, <5>1
      <4> QED
        BY <4>1, <4>2
    <3>9. Starts(w, m + 1)
      BY <3>1, <3>2, <3>4, <3>6, <3>7, <3>8
    <3> HIDE DEF Starts
    <3> QED
      BY <3>9
  <2>2. m + 1 \in Nat
    OBVIOUS
  <2> HIDE DEF Starts
  <2> QED
    BY <2>1, <2>2
<1>4. n \in Good
  <2>1. Good \in SUBSET Nat
    OBVIOUS
  <2> HIDE DEF Good
  <2> QED
    BY <1>1, <1>2, <1>3, <2>1, Inductive
<1>5. PICK o : Starts(o, n)
  <2> HIDE DEF Starts
  <2> QED
    BY <1>1, <1>4
<1> QED
  BY <1>5 DEF n

(* The loop of fat_parse_entry ends: each round begins behind the last.    *)
LEMMA ParseSteps ==
  ASSUME NEW slots \in Seq(Slot)
  PROVE  \E from :
           /\ Parsed(slots) = from[1]
           /\ \A p \in Nat \ {0} :
                from[p] = IF p > Len(slots) THEN <<>>
                          ELSE <<FileAt(slots, p)>> \o from[p + Ost(slots[p]) + 1]
<1> DEFINE n == Len(slots)
           Value(g, p) == IF p > n THEN <<>>
                          ELSE <<FileAt(slots, p)>> \o g[p + Ost(slots[p]) + 1]
           Good == {k \in Nat : \E g : \A p \in Nat \ {0} : p + k > n => g[p] = Value(g, p)}
           from[p \in Nat \ {0}] == IF p > n THEN <<>>
                                    ELSE <<FileAt(slots, p)>> \o from[p + Ost(slots[p]) + 1]
<1>1. n \in Nat
  OBVIOUS
<1>2. ASSUME NEW p \in 1 .. n
      PROVE  Ost(slots[p]) \in Nat
  <2>1. slots[p] \in Slot
    OBVIOUS
  <2>2. slots[p].ord \in Nat
    BY <2>1 DEF Slot
  <2> HIDE DEF n
  <2> QED
    BY ONLY <2>2 DEF Ost
<1>3. 0 \in Good
  <2> DEFINE g == [p \in Nat \ {0} |-> <<>>]
  <2>1. \A p \in Nat \ {0} : p + 0 > n => g[p] = Value(g, p)
    BY <1>1
  <2> HIDE DEF g, Value
  <2>2. \E f : \A p \in Nat \ {0} : p + 0 > n => f[p] = Value(f, p)
    BY <2>1
  <2> QED
    BY <2>2
<1>4. ASSUME NEW k \in Good
      PROVE  k + 1 \in Good
  <2>1. PICK g : \A p \in Nat \ {0} : p + k > n => g[p] = Value(g, p)
    OBVIOUS
  <2> DEFINE h == [p \in Nat \ {0} |-> IF p + k > n THEN g[p] ELSE Value(g, p)]
  <2> HIDE DEF Value
  <2>2. ASSUME NEW p \in Nat \ {0}, p + (k + 1) > n
        PROVE  Value(g, p) = Value(h, p)
    <3>1. CASE p > n
      BY <3>1 DEF Value
    <3>2. CASE ~ (p > n)
      <4> DEFINE s == p + Ost(slots[p]) + 1
      <4>1. s \in Nat \ {0} /\ s + k > n
        <5>1. Ost(slots[p]) \in Nat
          BY <1>1, <1>2, <3>2
        <5> QED
          BY <1>1, <2>2, <5>1
      <4> HIDE DEF s
      <4>2. h[s] = g[s]
        BY <4>1
      <4> QED
        BY <4>2 DEF Value, s
    <3> QED
      BY <3>1, <3>2
  <2>3. ASSUME NEW p \in Nat \ {0}, p + (k + 1) > n
        PROVE  h[p] = Value(h, p)
    <3>1. h[p] = Value(g, p)
      BY <2>1
    <3> HIDE DEF h
    <3> QED
      BY <2>2, <2>3, <3>1
  <2> HIDE DEF h
  <2>4. \E f : \A p \in Nat \ {0} : p + (k + 1) > n => f[p] = Value(f, p)
    BY <2>3
  <2>5. k + 1 \in Nat
    OBVIOUS
  <2> QED
    BY <2>4, <2>5
<1>5. n \in Good
  <2>1. Good \in SUBSET Nat
    OBVIOUS
  <2> HIDE DEF Good
  <2> QED
    BY <1>1, <1>3, <1>4, <2>1, Inductive
<1>6. PICK g : \A p \in Nat \ {0} : g[p] = Value(g, p)
  <2>1. PICK g : \A p \in Nat \ {0} : p + n > n => g[p] = Value(g, p)
    BY <1>5
  <2>2. \A p \in Nat \ {0} : p + n > n
    BY <1>1
  <2> HIDE DEF Value
  <2> QED
    BY <2>1, <2>2
<1> DEFINE h == [p \in Nat \ {0} |-> g[p]]
<1>7. ASSUME NEW p \in Nat \ {0}
      PROVE  g[p] = Value(h, p)
  <2>1. CASE p > n
    BY <1>6, <2>1
  <2>2. CASE ~ (p > n)
    <3> DEFINE s == p + Ost(slots[p]) + 1
    <3>1. s \in Nat \ {0}
      BY <1>1, <1>2, <2>2
    <3> HIDE DEF s
    <3>2. h[s] = g[s]
      BY <3>1
    <3> HIDE DEF h
    <3> QED
      BY <1>6, <2>2, <3>2 DEF s
  <2> QED
    BY <2>1, <2>2
<1>8. h = [p \in Nat \ {0} |-> IF p > n THEN <<>>
                               ELSE <<FileAt(slots, p)>> \o h[p + Ost(slots[p]) + 1]]
  <2>1. h = [p \in Nat \ {0} |-> Value(h, p)]
    <3>1. \A p \in Nat \ {0} : g[p] = Value(h, p)
      BY <1>7
    <3> HIDE DEF Value
    <3>2. [p \in Nat \ {0} |-> g[p]] = [p \in Nat \ {0} |-> Value(h, p)]
      BY <3>1
    <3> QED
      BY <3>2
  <2> HIDE DEF h
  <2> QED
    BY <2>1
<1>9. from = [p \in Nat \ {0} |-> IF p > n THEN <<>>
                                 ELSE <<FileAt(slots, p)>> \o from[p + Ost(slots[p]) + 1]]
  <2> HIDE DEF h
  <2> QED
    BY <1>8
<1>10. Parsed(slots) = from[1]
  BY DEF Parsed
<1> HIDE DEF from
<1>11. \A p \in Nat \ {0} :
         from[p] = IF p > n THEN <<>>
                   ELSE <<FileAt(slots, p)>> \o from[p + Ost(slots[p]) + 1]
  BY <1>9
<1> QED
  BY <1>10, <1>11

(* The files that fat_sync writes: they have names. *)
Kept == {file \in File : file.name # <<>>}

LEMMA KeptKnown ==
  ASSUME NEW file \in Kept
  PROVE  file \in File /\ file.name \in Known /\ file.name \in Word
<1>1. file.name \in Known
  BY DEF Kept, File, Known
<1> QED
  BY <1>1, Words DEF Kept

(* What fat_sync makes of them. *)
SlotsOf(root) == FlattenSeq([i \in DOMAIN root |-> Slots(root[i])])

(* The slots that fat_sync makes are read as the files it was called with. *)
LEMMA ParsedBack ==
  ASSUME NEW root \in Seq(Kept)
  PROVE  SlotsOf(root) \in Seq(Slot) /\ Parsed(SlotsOf(root)) = root
<1> DEFINE n == Len(root)
           P(i) == Pieces(root[i].name)
           seqs == [i \in DOMAIN root |-> Slots(root[i])]
           slots == SlotsOf(root)
<1>1. n \in Nat /\ DOMAIN root = 1 .. n
  OBVIOUS
<1>2. ASSUME NEW i \in 1 .. n
      PROVE  /\ root[i] = [name |-> root[i].name, clus |-> root[i].clus]
             /\ root[i].name \in Word /\ root[i].clus \in Cluster \cup {None}
  <2>1. root[i] \in Kept
    BY <1>1
  <2> QED
    BY <2>1, KeptKnown DEF File
<1>3. ASSUME NEW i \in 1 .. n
      PROVE  /\ seqs[i] \in Seq(Slot) /\ Len(seqs[i]) = P(i) + 1 /\ P(i) \in Nat \ {0}
             /\ \A j \in 1 .. P(i) : seqs[i][j] = Lfn(root[i].name, P(i) - j + 1)
             /\ seqs[i][P(i) + 1] = Sfn(root[i].name, root[i].clus)
  <2>1. seqs[i] = Slots(root[i])
    BY <1>1
  <2>2. root[i].name \in Word /\ root[i].clus \in Cluster \cup {None}
    BY <1>2
  <2> DEFINE file == root[i]
  <2> HIDE DEF seqs, file
  <2>3. /\ Slots(file) \in Seq(Slot) /\ Len(Slots(file)) = Pieces(file.name) + 1
        /\ \A j \in 1 .. Pieces(file.name) :
             Slots(file)[j] = Lfn(file.name, Pieces(file.name) - j + 1)
        /\ Slots(file)[Pieces(file.name) + 1] = Sfn(file.name, file.clus)
    BY <2>2, SlotsAre DEF file
  <2>4. Pieces(file.name) \in Nat \ {0}
    BY <2>2, PiecesFit DEF file
  <2> QED
    BY <2>1, <2>3, <2>4 DEF file
<1>4. seqs \in Seq(Seq(Slot)) /\ Len(seqs) = n
  <2>1. \A i \in 1 .. n : Slots(root[i]) \in Seq(Slot)
    BY <1>1, <1>3
  <2> QED
    BY <1>1, <2>1
<1>5. slots = FlattenSeq(seqs)
  BY DEF SlotsOf
<1> HIDE DEF n, P, seqs, slots
<1>6. PICK o \in [1 .. n + 1 -> Nat] :
        o[1] = 0 /\ \A i \in 1 .. n : o[i + 1] = o[i] + Len(seqs[i])
  BY <1>4, PlacesExist
<1>7. /\ slots \in Seq(Slot) /\ Len(slots) = o[n + 1]
      /\ \A i \in 1 .. n : \A j \in 1 .. Len(seqs[i]) : slots[o[i] + j] = seqs[i][j]
  <2>1. o \in [1 .. Len(seqs) + 1 -> Nat]
    BY <1>4, <1>6
  <2>2. o[1] = 0 /\ \A i \in 1 .. Len(seqs) : o[i + 1] = o[i] + Len(seqs[i])
    BY <1>4, <1>6
  <2>3. /\ FlattenSeq(seqs) \in Seq(Slot)
        /\ Len(FlattenSeq(seqs)) = o[Len(seqs) + 1]
        /\ \A i \in 1 .. Len(seqs) : \A j \in 1 .. Len(seqs[i]) :
             FlattenSeq(seqs)[o[i] + j] = seqs[i][j]
    BY <1>4, <2>1, <2>2, FlattenPlaces
  <2> QED
    BY <1>4, <1>5, <2>3
<1>8. ASSUME NEW i \in 1 .. n
      PROVE  Ost(slots[o[i] + 1]) = P(i) /\ FileAt(slots, o[i] + 1) = root[i]
  <2> DEFINE name == root[i].name
             c == root[i].clus
             p == o[i]
             q == P(i)
  <2>1. p \in Nat /\ q \in Nat \ {0} /\ q = Pieces(name)
    <3>1. o[i] \in Nat
      <4>1. i \in 1 .. n + 1
        BY ONLY <1>1
      <4> QED
        BY ONLY <4>1
    <3>2. P(i) \in Nat \ {0}
      BY ONLY <1>3
    <3> QED
      BY ONLY <3>1, <3>2 DEF P
  <2>2. ASSUME NEW j \in 1 .. q
        PROVE  slots[p + j] = Lfn(name, q - j + 1)
    <3>1. seqs[i][j] = Lfn(name, q - j + 1) /\ Len(seqs[i]) = q + 1
      BY <1>3
    <3>2. j \in 1 .. Len(seqs[i])
      BY <2>1, <3>1
    <3> QED
      BY <1>7, <3>1, <3>2
  <2>3. slots[p + (q + 1)] = Sfn(name, c)
    <3>1. seqs[i][q + 1] = Sfn(name, c) /\ Len(seqs[i]) = q + 1
      BY <1>3
    <3>2. q + 1 \in 1 .. Len(seqs[i])
      BY <2>1, <3>1
    <3>3. slots[o[i] + (q + 1)] = seqs[i][q + 1]
      BY <1>7, <3>2
    <3> QED
      BY ONLY <3>1, <3>3
  <2>4. name \in Word /\ root[i] = [name |-> name, clus |-> c]
    BY <1>2
  <2> HIDE DEF p, q, name, c
  <2>5. Ost(slots[p + 1]) = q
    <3>1. slots[p + 1] = Lfn(name, q)
      <4>1. 1 \in 1 .. q /\ q - 1 + 1 = q
        BY <2>1
      <4> QED
        BY <2>2, <4>1
    <3>2. /\ slots[p + 1].ord = q
          /\ slots[p + 1].last = (q = Pieces(name))
      BY ONLY <3>1 DEF Lfn
    <3>3. slots[p + 1].last
      BY ONLY <2>1, <3>2
    <3> QED
      BY ONLY <3>2, <3>3 DEF Ost
  <2>6. [k \in 1 .. q |-> slots[(p + 1) + q - k].text] = [k \in 1 .. q |-> Piece(name, k)]
    <3>1. ASSUME NEW k \in 1 .. q
          PROVE  slots[(p + 1) + q - k].text = Piece(name, k)
      <4>1. /\ q - k + 1 \in 1 .. q /\ q - (q - k + 1) + 1 = k
            /\ (p + 1) + q - k = p + (q - k + 1)
        BY <2>1
      <4>2. slots[p + (q - k + 1)] = Lfn(name, k)
        BY <2>2, <4>1
      <4> QED
        BY <4>1, <4>2 DEF Lfn
    <3> QED
      BY <3>1
  <2>7. slots[(p + 1) + q].clus = c
    <3>1. (p + 1) + q = p + (q + 1)
      BY <2>1
    <3> QED
      BY <2>3, <3>1 DEF Sfn
  <2>8. CString(FlattenSeq([k \in 1 .. q |-> Piece(name, k)])) = name
    BY <2>1, <2>4, NameBack DEF NameText
  <2>9. FileAt(slots, p + 1) = [name |-> name, clus |-> c]
    <3>1. FileAt(slots, p + 1) =
            [name |-> CString(FlattenSeq([k \in 1 .. q |-> slots[(p + 1) + q - k].text])),
             clus |-> slots[(p + 1) + q].clus]
      BY ONLY <2>5 DEF FileAt
    <3> QED
      BY <2>6, <2>7, <2>8, <3>1
  <2> QED
    BY <2>4, <2>5, <2>9 DEF p, q
<1>9. PICK from :
        /\ Parsed(slots) = from[1]
        /\ \A p \in Nat \ {0} :
             from[p] = IF p > Len(slots) THEN <<>>
                       ELSE <<FileAt(slots, p)>> \o from[p + Ost(slots[p]) + 1]
  BY <1>7, ParseSteps
<1> DEFINE Rest(i) == from[o[i] + 1] = SubSeq(root, i, n)
           Good == {k \in Nat : k <= n => o[n + 1 - k] <= Len(slots) /\ Rest(n + 1 - k)}
<1>10. Len(slots) \in Nat /\ \A i \in 1 .. n + 1 : o[i] \in Nat
  BY <1>6, <1>7
<1>11. 0 \in Good
  <2>1. n + 1 - 0 = n + 1
    BY <1>1
  <2>2. from[o[n + 1] + 1] = <<>>
    <3>1. o[n + 1] + 1 \in Nat \ {0} /\ o[n + 1] + 1 > Len(slots)
      BY <1>7, <1>10
    <3> QED
      BY <1>9, <3>1
  <2>3. SubSeq(root, n + 1, n) = <<>>
    BY <1>1
  <2>4. o[n + 1] <= Len(slots)
    BY <1>7, <1>10
  <2>5. o[n + 1 - 0] <= Len(slots) /\ Rest(n + 1 - 0)
    BY <2>1, <2>2, <2>3, <2>4
  <2> HIDE DEF Rest
  <2> QED
    BY <2>5
<1>12. ASSUME NEW k \in Good
       PROVE  k + 1 \in Good
  <2> SUFFICES ASSUME k + 1 <= n
               PROVE  o[n + 1 - (k + 1)] <= Len(slots) /\ Rest(n + 1 - (k + 1))
    OBVIOUS
  <2> DEFINE i == n - k
  <2>1. i \in 1 .. n /\ n + 1 - k = i + 1 /\ n + 1 - (k + 1) = i
    BY <1>1
  <2>2. o[i + 1] <= Len(slots) /\ Rest(i + 1)
    BY <1>1, <2>1
  <2> HIDE DEF i, Rest
  <2>3. o[i] \in Nat /\ P(i) \in Nat \ {0} /\ o[i + 1] = o[i] + (P(i) + 1)
    <3>1. o[i] \in Nat /\ o[i + 1] = o[i] + Len(seqs[i])
      <4>1. i \in 1 .. n + 1
        BY ONLY <1>1, <2>1
      <4> QED
        BY ONLY <1>6, <1>10, <2>1, <4>1
    <3>2. P(i) \in Nat \ {0} /\ Len(seqs[i]) = P(i) + 1
      BY <1>3, <2>1
    <3> QED
      BY <3>1, <3>2
  <2>4. o[i] < Len(slots)
    BY <1>10, <2>2, <2>3
  <2>5. from[o[i] + 1] = <<root[i]>> \o from[o[i + 1] + 1]
    <3>1. o[i] + 1 \in Nat \ {0} /\ ~ (o[i] + 1 > Len(slots))
      BY <1>10, <2>3, <2>4
    <3>2. (o[i] + 1) + P(i) + 1 = o[i + 1] + 1
      BY <2>3
    <3> QED
      BY <1>8, <1>9, <2>1, <3>1, <3>2
  <2>6. from[o[i + 1] + 1] = SubSeq(root, i + 1, n)
    BY <2>2 DEF Rest
  <2>7. <<root[i]>> \o SubSeq(root, i + 1, n) = SubSeq(root, i, n)
    BY <1>1, <2>1 DEF n
  <2>8. Rest(i)
    BY <2>5, <2>6, <2>7 DEF Rest
  <2> QED
    BY <1>10, <2>1, <2>3, <2>4, <2>8
<1>13. n \in Good
  <2>1. Good \in SUBSET Nat
    OBVIOUS
  <2> HIDE DEF Good
  <2> QED
    BY <1>1, <1>11, <1>12, <2>1, Inductive
<1>14. from[1] = root
  <2>1. n + 1 - n = 1 /\ Rest(n + 1 - n)
    <3> HIDE DEF Rest
    <3> QED
      BY <1>1, <1>13
  <2>2. from[0 + 1] = SubSeq(root, 1, n)
    BY <1>6, <2>1
  <2>3. SubSeq(root, 1, n) = root
    BY DEF n
  <2>4. 0 + 1 = 1
    OBVIOUS
  <2> QED
    BY ONLY <2>2, <2>3, <2>4
<1> QED
  BY <1>7, <1>9, <1>14 DEF slots

-----------------------------------------------------------------------------
(* The search tree *)

Added(t, file) == Insert(t, file.name, Inserting(file.name, t))

(* DirTree adds the files one after the other: the fold, unfolded.         *)
LEMMA DirTreeSteps ==
  ASSUME NEW n \in Nat, NEW found, DOMAIN found = 1 .. n
  PROVE  \E g : /\ g[0] = Root(RootName)
                /\ \A k \in 1 .. n : g[k] = Added(g[k - 1], found[k])
                /\ DirTree(found) = g[n]
<1> DEFINE Value(h, s) == IF s = {} THEN Root(RootName)
                          ELSE Added(h[s \ {Max(s)}], found[Max(s)])
           Good == {k \in Nat : \E h : \A s \in SUBSET (1 .. k) : h[s] = Value(h, s)}
           iter[s \in SUBSET (1 .. n)] == IF s = {} THEN Root(RootName)
                                          ELSE Added(iter[s \ {Max(s)}], found[Max(s)])
<1>1. ASSUME NEW k \in Nat, NEW s \in SUBSET (1 .. k), s # {}
      PROVE  Max(s) \in s /\ \A y \in s : Max(s) >= y
  <2>1. s \in SUBSET (0 .. k)
    OBVIOUS
  <2> QED
    BY <1>1, <2>1, MaxIs
<1>2. 0 \in Good
  <2> DEFINE h == [s \in {{}} |-> Root(RootName)]
  <2>1. \A s \in SUBSET (1 .. 0) : s = {}
    OBVIOUS
  <2>2. h[{}] = Value(h, {})
    OBVIOUS
  <2> HIDE DEF Value, h
  <2>3. \E f : \A s \in SUBSET (1 .. 0) : f[s] = Value(f, s)
    BY <2>1, <2>2
  <2> QED
    BY <2>3
<1>3. ASSUME NEW k \in Good
      PROVE  k + 1 \in Good
  <2>1. PICK f : \A s \in SUBSET (1 .. k) : f[s] = Value(f, s)
    OBVIOUS
  <2> DEFINE h == [s \in SUBSET (1 .. k + 1) |->
                     IF s \in SUBSET (1 .. k) THEN f[s] ELSE Value(f, s)]
  <2> HIDE DEF Value
  <2>2. ASSUME NEW s \in SUBSET (1 .. k + 1)
        PROVE  h[s] = Value(f, s)
    BY <2>1
  <2>3. ASSUME NEW s \in SUBSET (1 .. k + 1)
        PROVE  Value(f, s) = Value(h, s)
    <3>1. CASE s = {}
      BY <3>1 DEF Value
    <3>2. CASE s # {}
      <4> DEFINE rest == s \ {Max(s)}
      <4>1. Max(s) \in s /\ \A y \in s : Max(s) >= y
        <5>1. k + 1 \in Nat
          OBVIOUS
        <5> QED
          BY <1>1, <3>2, <5>1
      <4>2. rest \in SUBSET (1 .. k) /\ rest \in SUBSET (1 .. k + 1)
        <5>1. k \in Nat
          OBVIOUS
        <5>2. \A y \in rest : y \in 1 .. k + 1 /\ y # Max(s) /\ y <= Max(s)
          BY <4>1
        <5>3. Max(s) \in 1 .. k + 1
          BY <4>1
        <5> HIDE DEF rest
        <5>4. \A y \in rest : y \in 1 .. k
          BY <5>1, <5>2, <5>3
        <5> QED
          BY <5>2, <5>4
      <4> HIDE DEF rest
      <4>3. h[rest] = f[rest]
        BY <4>2
      <4> HIDE DEF h
      <4> QED
        BY <3>2, <4>3 DEF Value, rest
    <3> QED
      BY <3>1, <3>2
  <2> HIDE DEF h
  <2>4. \E g : \A s \in SUBSET (1 .. k + 1) : g[s] = Value(g, s)
    BY <2>2, <2>3
  <2>5. k + 1 \in Nat
    OBVIOUS
  <2> QED
    BY <2>4, <2>5
<1>4. PICK f : \A s \in SUBSET (1 .. n) : f[s] = Value(f, s)
  <2>1. Good \in SUBSET Nat
    OBVIOUS
  <2>2. n \in Good
    <3> HIDE DEF Good
    <3> QED
      BY <1>2, <1>3, <2>1, Inductive
  <2> HIDE DEF Value
  <2> QED
    BY <2>2
<1> DEFINE h == [s \in SUBSET (1 .. n) |-> f[s]]
<1>5. h = [s \in SUBSET (1 .. n) |-> IF s = {} THEN Root(RootName)
                                     ELSE Added(h[s \ {Max(s)}], found[Max(s)])]
  <2>1. ASSUME NEW s \in SUBSET (1 .. n)
        PROVE  f[s] = Value(h, s)
    <3>1. h[s \ {Max(s)}] = f[s \ {Max(s)}]
      OBVIOUS
    <3> HIDE DEF h
    <3> QED
      BY <1>4, <3>1
  <2> HIDE DEF Value
  <2>2. h = [s \in SUBSET (1 .. n) |-> Value(h, s)]
    <3>1. [s \in SUBSET (1 .. n) |-> f[s]] = [s \in SUBSET (1 .. n) |-> Value(h, s)]
      BY <2>1
    <3> QED
      BY <3>1
  <2> HIDE DEF h
  <2> QED
    BY <2>2 DEF Value
<1>6. iter = [s \in SUBSET (1 .. n) |-> IF s = {} THEN Root(RootName)
                                        ELSE Added(iter[s \ {Max(s)}], found[Max(s)])]
  <2> HIDE DEF h
  <2> QED
    BY <1>5
<1>7. DirTree(found) = iter[1 .. n]
  BY DEF DirTree, FoldLeft, MapThenFoldSet, Added
<1> HIDE DEF iter
<1> DEFINE g == [k \in 0 .. n |-> iter[1 .. k]]
<1>8. g[0] = Root(RootName)
  <2>1. 1 .. 0 = {} /\ {} \in SUBSET (1 .. n)
    OBVIOUS
  <2> QED
    BY <1>6, <2>1
<1>9. ASSUME NEW k \in 1 .. n
      PROVE  g[k] = Added(g[k - 1], found[k])
  <2>1. 1 .. k \in SUBSET (1 .. n) /\ 1 .. k # {}
    <3>1. k \in 1 .. k /\ \A y \in 1 .. k : y \in 1 .. n
      OBVIOUS
    <3> QED
      BY <3>1
  <2>2. Max(1 .. k) = k
    <3>1. Max(1 .. k) \in 1 .. k /\ \A y \in 1 .. k : Max(1 .. k) >= y
      BY <1>1, <2>1
    <3> QED
      BY <3>1
  <2>3. (1 .. k) \ {k} = 1 .. (k - 1)
    OBVIOUS
  <2>4. iter[1 .. k] = Added(iter[(1 .. k) \ {k}], found[k])
    BY <1>6, <2>1, <2>2
  <2>5. k - 1 \in 0 .. n /\ k \in 0 .. n
    OBVIOUS
  <2> QED
    BY <2>3, <2>4, <2>5
<1>10. DirTree(found) = g[n]
  BY <1>7
<1> HIDE DEF g
<1> QED
  BY <1>8, <1>9, <1>10

(* strcmp of nonempty strings is 0 only if one of them begins the other.   *)
LEMMA StrcmpIs ==
  ASSUME NEW s \in Word, NEW t \in Word
  PROVE  /\ Strcmp(s, t) \in Int
         /\ Strcmp(s, t) = 0 => IsPrefix(s, t) \/ IsPrefix(t, s)
         /\ Strcmp(s, s) = 0
<1> DEFINE most(u) == Min({Len(s), Len(u)})
           diffs(u) == {i \in 0 .. most(u) - 1 : CharAt(s, i) # CharAt(u, i)}
<1>1. ASSUME NEW u \in Word
      PROVE  u \in Seq(Int) /\ Len(u) \in Nat \ {0} /\ \A i \in 1 .. Len(u) : u[i] \in Int
  <2>1. Len(u) \in Nat \ {0}
    BY PiecesFit
  <2> QED
    BY <2>1 DEF Word
<1>2. ASSUME NEW u \in Word
      PROVE  most(u) \in Nat \ {0} /\ most(u) \in {Len(s), Len(u)}
             /\ most(u) <= Len(s) /\ most(u) <= Len(u)
  <2>1. {Len(s), Len(u)} \in SUBSET Nat /\ {Len(s), Len(u)} # {}
    BY <1>1
  <2> QED
    BY <1>1, <2>1, MinIs
<1>3. ASSUME NEW u \in Word
      PROVE  Strcmp(s, u) = IF diffs(u) = {} THEN 0
                            ELSE CharAt(s, Min(diffs(u))) - CharAt(u, Min(diffs(u)))
  BY <1>2 DEF Strcmp
<1>4. ASSUME NEW u \in Word, NEW i \in 0 .. most(u) - 1
      PROVE  /\ CharAt(s, i) = s[i + 1] /\ CharAt(u, i) = u[i + 1]
             /\ s[i + 1] \in Int /\ u[i + 1] \in Int
  <2> HIDE DEF most
  <2>1. i < Len(s) /\ i < Len(u)
    BY <1>1, <1>2
  <2> QED
    BY <1>1, <2>1 DEF CharAt
<1> HIDE DEF most
<1>5. ASSUME NEW u \in Word, diffs(u) # {}
      PROVE  Strcmp(s, u) \in Int /\ Strcmp(s, u) # 0
  <2> DEFINE m == Min(diffs(u))
  <2>1. diffs(u) \in SUBSET Nat
    BY <1>2
  <2>2. m \in diffs(u)
    BY <1>5, <2>1, MinIs
  <2> HIDE DEF m
  <2>3. Strcmp(s, u) = CharAt(s, m) - CharAt(u, m)
    BY <1>3, <1>5 DEF m
  <2>4. m \in 0 .. most(u) - 1 /\ CharAt(s, m) # CharAt(u, m)
    BY <2>2
  <2>5. CharAt(s, m) \in Int /\ CharAt(u, m) \in Int
    BY <1>4, <2>4
  <2> QED
    BY <2>3, <2>4, <2>5
<1>6. Strcmp(s, t) \in Int
  <2>1. CASE diffs(t) = {}
    <3>1. Strcmp(s, t) = 0
      BY <1>3, <2>1
    <3> QED
      BY ONLY <3>1
  <2>2. CASE diffs(t) # {}
    BY <1>5, <2>2
  <2> QED
    BY <2>1, <2>2
<1>7. ASSUME Strcmp(s, t) = 0
      PROVE  IsPrefix(s, t) \/ IsPrefix(t, s)
  <2> DEFINE m == most(t)
  <2>1. diffs(t) = {}
    BY <1>5, <1>7
  <2>2. m \in {Len(s), Len(t)} /\ m <= Len(s) /\ m <= Len(t) /\ m \in Nat
    BY <1>2
  <2>3. ASSUME NEW i \in 1 .. m
        PROVE  s[i] = t[i]
    <3>1. i - 1 \in 0 .. most(t) - 1 /\ (i - 1) + 1 = i
      BY <2>2
    <3>2. CharAt(s, i - 1) = CharAt(t, i - 1)
      BY <2>1, <3>1
    <3> QED
      BY <1>4, <3>1, <3>2
  <2> HIDE DEF m
  <2>4. SubSeq(s, 1, m) = SubSeq(t, 1, m)
    <3>1. ASSUME NEW u \in Word, m <= Len(u)
          PROVE  SubSeq(u, 1, m) = [i \in 1 .. m |-> u[i]]
      BY <1>1, <2>2, <3>1
    <3> QED
      BY <2>2, <2>3, <3>1
  <2> QED
    BY <2>2, <2>4 DEF IsPrefix
<1>8. Strcmp(s, s) = 0
  BY <1>3
<1> QED
  BY <1>6, <1>7, <1>8

(* A name takes the turns that lead to a place. *)
Follows(t, name, p) ==
  \A i \in 1 .. Len(p) : p[i] = Turn(Strcmp(name, t[SubSeq(p, 1, i - 1)]))

(* A tree of names, in which each node is where its own name leads. *)
NameTree(t) ==
  /\ DOMAIN t \in SUBSET Seq({Left, Right}) /\ <<>> \in DOMAIN t
  /\ \A p \in DOMAIN t : \A i \in 1 .. Len(p) : SubSeq(p, 1, i - 1) \in DOMAIN t
  /\ \E h \in Nat : \A p \in DOMAIN t : Len(p) <= h
  /\ \A p \in DOMAIN t : t[p] \in Known /\ Follows(t, t[p], p)

(* A name has come to the end of its way. *)
Ends(t, name, p) ==
  /\ p \in DOMAIN t /\ Follows(t, name, p)
  /\ Append(p, Turn(Strcmp(name, t[p]))) \notin DOMAIN t

(* For a name that is not empty, searching and inserting turn alike.       *)
LEMMA SameTurns ==
  ASSUME NEW t, NameTree(t), NEW name
  PROVE  /\ name # <<>> => Inserting(name, t) = Searching(name, t)
         /\ \A p \in DOMAIN t : Searching(name, t)[t[p]] = Turn(Strcmp(name, t[p]))
<1>1. \A p \in DOMAIN t : t[p] \in Range(t)
  BY DEF Range
<1>2. ASSUME NEW node \in Range(t)
      PROVE  node # <<>>
  <2>1. PICK p \in DOMAIN t : node = t[p]
    BY DEF Range
  <2>2. node \in Word
    BY <2>1, Words DEF NameTree
  <2> QED
    BY <2>2 DEF Word
<1>4. name # <<>> => \A node \in Range(t) : InsertTurn(node, name) = SearchTurn(node, name)
  BY <1>2 DEF InsertTurn, SearchTurn
<1>5. name # <<>> => Inserting(name, t) = Searching(name, t)
  BY <1>4 DEF Inserting, Searching
<1>6. \A p \in DOMAIN t : Searching(name, t)[t[p]] = SearchTurn(t[p], name)
  BY <1>1 DEF Searching
<1> QED
  BY <1>5, <1>6 DEF SearchTurn

(* The loop of bst_insert and bst_search ends. *)
LEMMA DescentIs ==
  ASSUME NEW t, NameTree(t), NEW name
  PROVE  Ends(t, name, Descent(t, Searching(name, t)))
<1> DEFINE turn == Searching(name, t)
           next(p) == Turn(Strcmp(name, t[p]))
           ways == {p \in DOMAIN t : Follows(t, name, p)}
<1>1. /\ DOMAIN t \in SUBSET Seq({Left, Right}) /\ <<>> \in DOMAIN t
      /\ \A p \in DOMAIN t : \A i \in 1 .. Len(p) : SubSeq(p, 1, i - 1) \in DOMAIN t
  BY DEF NameTree
<1>2. \A p \in DOMAIN t : turn[t[p]] = next(p)
  BY SameTurns
<1>3. \A p \in DOMAIN t : Len(p) \in Nat
  BY <1>1
<1> HIDE DEF turn
<1>4. ASSUME NEW p \in DOMAIN t
      PROVE  /\ (\A i \in 1 .. Len(p) : p[i] = turn[t[SubSeq(p, 1, i - 1)]])
                  <=> Follows(t, name, p)
             /\ Append(p, turn[t[p]]) = Append(p, next(p))
  <2> HIDE DEF next
  <2>1. \A i \in 1 .. Len(p) : turn[t[SubSeq(p, 1, i - 1)]] = next(SubSeq(p, 1, i - 1))
    BY <1>1, <1>2
  <2>2. Append(p, turn[t[p]]) = Append(p, next(p))
    BY <1>2
  <2>3. Follows(t, name, p) = \A i \in 1 .. Len(p) : p[i] = next(SubSeq(p, 1, i - 1))
    BY DEF Follows, next
  <2> QED
    BY <2>1, <2>2, <2>3
<1>5. \E p \in DOMAIN t : Ends(t, name, p)
  <2> DEFINE lens == {Len(p) : p \in ways}
  <2>1. PICK h \in Nat : \A p \in DOMAIN t : Len(p) <= h
    BY DEF NameTree
  <2>2. <<>> \in ways
    <3>1. Follows(t, name, <<>>)
      BY DEF Follows
    <3> QED
      BY <1>1, <3>1
  <2>3. lens \in SUBSET (0 .. h) /\ lens # {}
    <3>1. \A p \in ways : Len(p) \in 0 .. h
      BY <1>3, <2>1
    <3>2. Len(<<>>) \in lens
      BY <2>2
    <3> HIDE DEF ways
    <3> QED
      BY <3>1, <3>2
  <2>4. Max(lens) \in lens /\ \A l \in lens : Max(lens) >= l
    BY <2>3, MaxIs
  <2>5. PICK p \in ways : \A q \in ways : Len(p) >= Len(q)
    BY <2>4
  <2>6. Append(p, next(p)) \notin DOMAIN t
    <3> DEFINE q == Append(p, next(p))
    <3> SUFFICES ASSUME q \in DOMAIN t
                 PROVE  FALSE
      OBVIOUS
    <3> HIDE DEF next
    <3>1. p \in Seq({Left, Right}) /\ Len(p) \in Nat
      BY <1>1, <1>3
    <3>2. /\ Len(q) = Len(p) + 1 /\ q[Len(p) + 1] = next(p)
          /\ \A i \in 1 .. Len(p) : q[i] = p[i]
      BY <3>1, AppendProperties
    <3>3. \A i \in 0 .. Len(p) : SubSeq(q, 1, i) = SubSeq(p, 1, i)
      BY <3>1
    <3>4. SubSeq(p, 1, Len(p)) = p
      BY <3>1
    <3>5. ASSUME NEW i \in 1 .. Len(q)
          PROVE  q[i] = next(SubSeq(q, 1, i - 1))
      <4>1. CASE i = Len(p) + 1
        <5>1. SubSeq(q, 1, i - 1) = p
          BY <3>1, <3>3, <3>4, <4>1
        <5> QED
          BY <3>2, <4>1, <5>1
      <4>2. CASE i # Len(p) + 1
        <5>1. i \in 1 .. Len(p) /\ i - 1 \in 0 .. Len(p)
          BY <3>1, <3>2, <4>2
        <5>2. p[i] = next(SubSeq(p, 1, i - 1))
          BY <5>1 DEF Follows, next
        <5> QED
          BY <3>2, <3>3, <5>1, <5>2
      <4> QED
        BY <4>1, <4>2
    <3>6. Follows(t, name, q)
      BY <3>5 DEF Follows, next
    <3> HIDE DEF q
    <3>7. q \in ways
      BY <3>6
    <3> QED
      BY <2>5, <3>1, <3>2, <3>7
  <2> QED
    BY <2>6 DEF Ends
<1>6. Descent(t, turn) = CHOOSE p \in DOMAIN t :
        /\ \A i \in 1 .. Len(p) : p[i] = turn[t[SubSeq(p, 1, i - 1)]]
        /\ Append(p, turn[t[p]]) \notin DOMAIN t
  BY DEF Descent
<1>7. \A p \in DOMAIN t :
        Ends(t, name, p) <=>
          /\ \A i \in 1 .. Len(p) : p[i] = turn[t[SubSeq(p, 1, i - 1)]]
          /\ Append(p, turn[t[p]]) \notin DOMAIN t
  BY <1>4 DEF Ends
<1>8. Ends(t, name, Descent(t, turn))
  BY <1>5, <1>6, <1>7
<1> QED
  BY <1>8 DEF turn

(* There is one way to go. *)
LEMMA DescentOnly ==
  ASSUME NEW t, NameTree(t), NEW name \in Word,
         NEW a, NEW b, Ends(t, name, a), Ends(t, name, b), Len(a) <= Len(b)
  PROVE  a = b
<1> DEFINE next(p) == Turn(Strcmp(name, t[p]))
           Good == {k \in Nat : k <= Len(a) => SubSeq(a, 1, k) = SubSeq(b, 1, k)}
<1>1. /\ a \in Seq({Left, Right}) /\ Len(a) \in Nat /\ a \in DOMAIN t
      /\ b \in Seq({Left, Right}) /\ Len(b) \in Nat /\ b \in DOMAIN t
  BY DEF NameTree, Ends
<1>2. /\ \A i \in 1 .. Len(a) : a[i] = next(SubSeq(a, 1, i - 1))
      /\ \A i \in 1 .. Len(b) : b[i] = next(SubSeq(b, 1, i - 1))
      /\ Append(a, next(a)) \notin DOMAIN t
  BY DEF Ends, Follows
<1> HIDE DEF next
<1>3. ASSUME NEW p \in {a, b}
      PROVE  /\ SubSeq(p, 1, 0) = <<>>
             /\ \A k \in 0 .. Len(p) - 1 : SubSeq(p, 1, k + 1) = Append(SubSeq(p, 1, k), p[k + 1])
             /\ SubSeq(p, 1, Len(p)) = p
  <2>1. p \in Seq({Left, Right}) /\ Len(p) \in Nat
    BY <1>1
  <2> QED
    BY <2>1
<1>4. 0 \in Good
  BY <1>3
<1>5. ASSUME NEW k \in Good
      PROVE  k + 1 \in Good
  <2>1. ASSUME k + 1 <= Len(a)
        PROVE  SubSeq(a, 1, k + 1) = SubSeq(b, 1, k + 1)
    <3>1. /\ k \in 0 .. Len(a) - 1 /\ k \in 0 .. Len(b) - 1
          /\ k + 1 \in 1 .. Len(a) /\ k + 1 \in 1 .. Len(b) /\ (k + 1) - 1 = k
      BY <1>1, <2>1
    <3>2. SubSeq(a, 1, k) = SubSeq(b, 1, k)
      BY <1>1, <3>1
    <3>3. a[k + 1] = b[k + 1]
      BY <1>2, <3>1, <3>2
    <3> QED
      BY <1>3, <3>1, <3>2, <3>3
  <2> QED
    BY <2>1
<1>6. Len(a) \in Good
  <2>1. Good \in SUBSET Nat
    OBVIOUS
  <2> HIDE DEF Good
  <2> QED
    BY <1>1, <1>4, <1>5, <2>1, Inductive
<1>7. a = SubSeq(b, 1, Len(a))
  BY <1>1, <1>3, <1>6
<1>8. CASE Len(a) = Len(b)
  BY <1>3, <1>7, <1>8
<1>9. CASE Len(a) < Len(b)
  <2> DEFINE k == Len(a)
  <2>1. k \in 0 .. Len(b) - 1 /\ k + 1 \in 1 .. Len(b) /\ (k + 1) - 1 = k
    BY <1>1, <1>9
  <2>2. SubSeq(b, 1, k + 1) = Append(a, next(a))
    BY <1>2, <1>3, <1>7, <2>1
  <2>3. SubSeq(b, 1, k + 1) \in DOMAIN t
    <3>1. CASE k + 1 = Len(b)
      BY <1>1, <1>3, <3>1
    <3>2. CASE k + 1 # Len(b)
      <4>1. k + 2 \in 1 .. Len(b) /\ (k + 2) - 1 = k + 1
        BY <1>1, <2>1, <3>2
      <4>2. \A i \in 1 .. Len(b) : SubSeq(b, 1, i - 1) \in DOMAIN t
        BY <1>1 DEF NameTree
      <4> QED
        BY <4>1, <4>2
    <3> QED
      BY <3>1, <3>2
  <2> QED
    BY <1>2, <2>2, <2>3
<1> QED
  BY <1>1, <1>8, <1>9

(* A name that compares equal to the node at the end of its way is found   *)
(* there.                                                                  *)
LEMMA SearchIs ==
  ASSUME NEW t, NameTree(t), NEW name \in Word,
         NEW p \in DOMAIN t, Follows(t, name, p), Turn(Strcmp(name, t[p])) = Match
  PROVE  Search(t, Searching(name, t)) = {t[p]}
<1> DEFINE turn == Searching(name, t)
           q == Descent(t, turn)
<1>1. Ends(t, name, q)
  BY DescentIs
<1>2. Ends(t, name, p)
  <2>1. DOMAIN t \in SUBSET Seq({Left, Right}) /\ p \in Seq({Left, Right})
    BY DEF NameTree
  <2>2. Append(p, Match)[Len(p) + 1] = Match /\ Len(Append(p, Match)) = Len(p) + 1
    BY <2>1, AppendProperties
  <2>3. Append(p, Match) \notin Seq({Left, Right})
    <3> SUFFICES ASSUME Append(p, Match) \in Seq({Left, Right})
                 PROVE  FALSE
      OBVIOUS
    <3> DEFINE r == Append(p, Match)
               k == Len(p) + 1
    <3>1. k \in 1 .. Len(r) /\ r \in Seq({Left, Right})
      BY <2>1, <2>2
    <3>2. r[k] = Match
      BY <2>2
    <3> HIDE DEF r, k
    <3>3. r[k] \in {Left, Right}
      BY <3>1
    <3> QED
      BY <3>2, <3>3 DEF Left, Right, Match
  <2> QED
    BY <2>1, <2>3 DEF Ends
<1>3. Len(p) \in Nat /\ Len(q) \in Nat
  BY <1>1, <1>2 DEF Ends, NameTree
<1>4. p = q
  <2> HIDE DEF q
  <2>1. CASE Len(p) <= Len(q)
    BY <1>1, <1>2, <2>1, DescentOnly
  <2>2. CASE Len(q) <= Len(p)
    BY <1>1, <1>2, <2>2, DescentOnly
  <2> QED
    BY <1>3, <2>1, <2>2
<1>5. turn[t[p]] = Match
  BY SameTurns
<1>6. Search(t, turn) = {t[r] : r \in {s \in {q} : turn[t[s]] = Match}}
  BY DEF Search
<1> HIDE DEF turn, q
<1>7. {s \in {q} : turn[t[s]] = Match} = {p}
  BY <1>4, <1>5
<1> QED
  BY <1>6, <1>7 DEF turn

(* What is found is a node of the tree. *)
LEMMA SearchType ==
  ASSUME NEW t, NameTree(t), NEW name
  PROVE  Search(t, Searching(name, t)) \subseteq Known
<1> DEFINE turn == Searching(name, t)
           q == Descent(t, turn)
<1>1. q \in DOMAIN t
  BY DescentIs DEF Ends
<1>2. t[q] \in Known
  BY <1>1 DEF NameTree
<1>3. Search(t, turn) = {t[r] : r \in {s \in {q} : turn[t[s]] = Match}}
  BY DEF Search
<1> HIDE DEF turn, q
<1> QED
  BY <1>2, <1>3 DEF turn

(* A file that is added to the tree is found in it, or else one that       *)
(* compares equal, and all others stay where they are.                     *)
LEMMA AddedIs ==
  ASSUME NEW t, NameTree(t), NEW file, file.name \in Known
  PROVE  LET u == Added(t, file) IN
         /\ NameTree(u)
         /\ \A q \in DOMAIN t : q \in DOMAIN u /\ u[q] = t[q]
         /\ \A name \in Word : \A q \in DOMAIN t : Follows(t, name, q) => Follows(u, name, q)
         /\ \E q \in DOMAIN u :
              Follows(u, file.name, q) /\ Turn(Strcmp(file.name, u[q])) = Match
<1> DEFINE name == file.name
           turn == Searching(name, t)
           p == Descent(t, turn)
           d == Turn(Strcmp(name, t[p]))
           leaf == Append(p, d)
           grown == [q \in DOMAIN t \cup {leaf} |-> IF q = leaf THEN name ELSE t[q]]
           u == Added(t, file)
<1>1. name \in Word /\ name \in Known /\ name # <<>>
  BY Words DEF Word
<1>2. p \in DOMAIN t /\ Follows(t, name, p) /\ leaf \notin DOMAIN t
  BY <1>1, DescentIs DEF Ends
<1>3. turn[t[p]] = d /\ Inserting(name, t) = turn
  BY <1>1, <1>2, SameTurns
<1>4. u = IF d = Match THEN t ELSE grown
  BY <1>3 DEF Added, Insert, Error
<1>5. d \in {Left, Right, Match}
  BY DEF Turn
<1>6. CASE d = Match
  BY <1>2, <1>4, <1>6
<1>7. CASE d # Match
  <2> HIDE DEF u, turn
  <2>1. /\ DOMAIN t \in SUBSET Seq({Left, Right}) /\ <<>> \in DOMAIN t
        /\ \A q \in DOMAIN t : \A i \in 1 .. Len(q) : SubSeq(q, 1, i - 1) \in DOMAIN t
        /\ \A q \in DOMAIN t : t[q] \in Known /\ Follows(t, t[q], q)
    BY DEF NameTree
  <2>2. /\ DOMAIN u = DOMAIN t \cup {leaf} /\ u[leaf] = name
        /\ \A q \in DOMAIN t : u[q] = t[q]
    BY <1>2, <1>4, <1>7
  <2> HIDE DEF p, d
  <2>3. p \in Seq({Left, Right}) /\ Len(p) \in Nat /\ d \in {Left, Right}
    BY <1>2, <1>5, <1>7, <2>1
  <2>4. /\ leaf \in Seq({Left, Right}) /\ Len(leaf) = Len(p) + 1 /\ leaf[Len(p) + 1] = d
        /\ \A i \in 1 .. Len(p) : leaf[i] = p[i]
    BY <2>3, AppendProperties
  <2>5. ASSUME NEW i \in 1 .. Len(p) + 1
        PROVE  SubSeq(leaf, 1, i - 1) = SubSeq(p, 1, i - 1) /\ SubSeq(p, 1, i - 1) \in DOMAIN t
    <3>1. SubSeq(leaf, 1, i - 1) = SubSeq(p, 1, i - 1)
      BY <2>3
    <3>2. CASE i = Len(p) + 1
      <4>1. SubSeq(p, 1, i - 1) = p
        BY <2>3, <3>2
      <4> QED
        BY <1>2, <3>1, <4>1
    <3>3. CASE i # Len(p) + 1
      <4>1. i \in 1 .. Len(p)
        BY <2>3, <3>3
      <4> QED
        BY <1>2, <2>1, <3>1, <4>1
    <3> QED
      BY <3>2, <3>3
  <2> HIDE DEF leaf, grown
  <2>6. ASSUME NEW x, NEW q \in DOMAIN t, Follows(t, x, q)
        PROVE  Follows(u, x, q)
    <3>1. \A i \in 1 .. Len(q) : u[SubSeq(q, 1, i - 1)] = t[SubSeq(q, 1, i - 1)]
      BY <2>1, <2>2
    <3> QED
      BY <2>6, <3>1 DEF Follows
  <2>7. Follows(u, name, leaf)
    <3>1. ASSUME NEW i \in 1 .. Len(leaf)
          PROVE  leaf[i] = Turn(Strcmp(name, u[SubSeq(leaf, 1, i - 1)]))
      <4>1. i \in 1 .. Len(p) + 1
        BY <2>4
      <4>2. u[SubSeq(leaf, 1, i - 1)] = t[SubSeq(p, 1, i - 1)]
        BY <2>2, <2>5, <4>1
      <4>3. CASE i = Len(p) + 1
        <5>1. SubSeq(p, 1, i - 1) = p
          BY <2>3, <4>3
        <5> QED
          BY <2>4, <4>2, <4>3, <5>1 DEF d
      <4>4. CASE i # Len(p) + 1
        <5>1. i \in 1 .. Len(p)
          BY <2>3, <4>1, <4>4
        <5>2. p[i] = Turn(Strcmp(name, t[SubSeq(p, 1, i - 1)]))
          BY <1>2, <5>1 DEF Follows
        <5> QED
          BY <2>4, <4>2, <5>1, <5>2
      <4> QED
        BY <4>3, <4>4
    <3> HIDE DEF name
    <3> QED
      BY <3>1 DEF Follows
  <2>8. NameTree(u)
    <3>1. DOMAIN u \in SUBSET Seq({Left, Right}) /\ <<>> \in DOMAIN u
      BY <2>1, <2>2, <2>4
    <3>2. \A q \in DOMAIN u : \A i \in 1 .. Len(q) : SubSeq(q, 1, i - 1) \in DOMAIN u
      BY <2>1, <2>2, <2>4, <2>5
    <3>3. \E h \in Nat : \A q \in DOMAIN u : Len(q) <= h
      <4>1. PICK h \in Nat : \A q \in DOMAIN t : Len(q) <= h
        BY DEF NameTree
      <4>2. \A q \in DOMAIN u : Len(q) <= h + 1
        <5>1. \A q \in DOMAIN t : Len(q) \in Nat
          BY <2>1
        <5>2. Len(p) <= h
          BY <1>2, <4>1
        <5> QED
          BY <2>2, <2>3, <2>4, <4>1, <5>1, <5>2
      <4>3. h + 1 \in Nat
        OBVIOUS
      <4> QED
        BY <4>2, <4>3
    <3>4. ASSUME NEW q \in DOMAIN u
          PROVE  u[q] \in Known /\ Follows(u, u[q], q)
      <4>1. CASE q = leaf
        BY <1>1, <2>2, <2>7, <4>1
      <4>2. CASE q \in DOMAIN t
        BY <2>1, <2>2, <2>6, <4>2
      <4> QED
        BY <2>2, <4>1, <4>2
    <3> QED
      BY <3>1, <3>2, <3>3, <3>4 DEF NameTree
  <2>9. Turn(Strcmp(name, u[leaf])) = Match
    <3>1. Strcmp(name, u[leaf]) = 0
      BY <1>1, <2>2, StrcmpIs
    <3> QED
      BY ONLY <3>1 DEF Turn
  <2>10. leaf \in DOMAIN u
    BY <2>2
  <2> QED
    BY <2>2, <2>6, <2>7, <2>8, <2>9, <2>10 DEF u, name
<1> QED
  BY <1>6, <1>7

(* The tree of the root alone. *)
LEMMA EmptyTree == NameTree(Root(RootName))
<1>1. DOMAIN Root(RootName) = {<<>>} /\ Root(RootName)[<<>>] = RootName
  BY DEF Root
<1>2. <<>> \in Seq({Left, Right}) /\ Len(<<>>) = 0 /\ 1 .. 0 = {}
  OBVIOUS
<1>3. Follows(Root(RootName), RootName, <<>>)
  BY <1>2 DEF Follows
<1> QED
  BY <1>1, <1>2, <1>3 DEF NameTree, Known

(* Every file that mounting finds is in the tree, or one that compares     *)
(* equal.                                                                  *)
LEMMA DirTreeIs ==
  ASSUME NEW found \in Seq(Kept)
  PROVE  /\ NameTree(DirTree(found))
         /\ \A i \in DOMAIN found : \E q \in DOMAIN DirTree(found) :
              /\ Follows(DirTree(found), found[i].name, q)
              /\ Turn(Strcmp(found[i].name, DirTree(found)[q])) = Match
<1> DEFINE n == Len(found)
           In(t, i) == \E q \in DOMAIN t : /\ Follows(t, found[i].name, q)
                                           /\ Turn(Strcmp(found[i].name, t[q])) = Match
<1>1. n \in Nat /\ DOMAIN found = 1 .. n
  OBVIOUS
<1>2. \A i \in 1 .. n : found[i].name \in Known /\ found[i].name \in Word
  <2>1. \A i \in 1 .. n : found[i] \in Kept
    OBVIOUS
  <2> QED
    BY <2>1, KeptKnown
<1> HIDE DEF n
<1>3. PICK g : /\ g[0] = Root(RootName)
               /\ \A k \in 1 .. n : g[k] = Added(g[k - 1], found[k])
               /\ DirTree(found) = g[n]
  BY <1>1, DirTreeSteps
<1> DEFINE Good == {k \in Nat : k <= n => NameTree(g[k]) /\ \A i \in 1 .. k : In(g[k], i)}
<1>4. 0 \in Good
  <2>1. 1 .. 0 = {}
    OBVIOUS
  <2> QED
    BY <1>3, <2>1, EmptyTree
<1>5. ASSUME NEW k \in Good
      PROVE  k + 1 \in Good
  <2>1. ASSUME k + 1 <= n
        PROVE  NameTree(g[k + 1]) /\ \A i \in 1 .. k + 1 : In(g[k + 1], i)
    <3> DEFINE t == g[k]
               u == g[k + 1]
    <3>1. k \in Nat /\ k + 1 \in 1 .. n /\ (k + 1) - 1 = k
      BY <1>1, <2>1
    <3>2. NameTree(t) /\ \A i \in 1 .. k : In(t, i)
      BY <1>1, <2>1
    <3>3. u = Added(t, found[k + 1])
      BY <1>3, <3>1
    <3> HIDE DEF t, u
    <3>4. /\ NameTree(u)
          /\ \A q \in DOMAIN t : q \in DOMAIN u /\ u[q] = t[q]
          /\ \A name \in Word : \A q \in DOMAIN t : Follows(t, name, q) => Follows(u, name, q)
          /\ In(u, k + 1)
      BY <1>2, <3>1, <3>2, <3>3, AddedIs
    <3>5. ASSUME NEW i \in 1 .. k
          PROVE  In(u, i)
      <4>1. found[i].name \in Word
        BY <1>1, <1>2, <2>1
      <4>2. In(t, i)
        BY <3>2
      <4> QED
        BY <3>4, <4>1, <4>2
    <3>6. \A i \in 1 .. k + 1 : i \in 1 .. k \/ i = k + 1
      BY <3>1
    <3> HIDE DEF In
    <3>7. NameTree(u) /\ \A i \in 1 .. k + 1 : In(u, i)
      BY <3>4, <3>5, <3>6
    <3> QED
      BY <3>7 DEF u
  <2> QED
    BY <2>1
<1>6. NameTree(g[n]) /\ \A i \in 1 .. n : In(g[n], i)
  <2>1. Good \in SUBSET Nat
    OBVIOUS
  <2> HIDE DEF In
  <2>2. n \in Good
    <3> HIDE DEF Good
    <3> QED
      BY <1>1, <1>4, <1>5, <2>1, Inductive
  <2> QED
    BY <1>1, <2>2
<1> QED
  BY <1>1, <1>3, <1>6

-----------------------------------------------------------------------------
(* The inductive invariant *)

(* The disk holds the first cluster of what the last fat_sync was called   *)
(* with: files with names, whose clusters are theirs alone.                *)
OnDisk ==
  /\ synced \in Seq(Kept) /\ disk = FirstCluster(SlotsOf(synced))
  /\ \A i \in DOMAIN synced : synced[i].clus \in Cluster \ {0}
  /\ \A i, j \in DOMAIN synced : synced[i].clus = synced[j].clus => i = j

(* The files that got a cluster. *)
Own == {i \in DOMAIN files : files[i].clus # None}

(* After a mount the list begins with the files of the disk, the bitmap    *)
(* has the clusters of the list and the system directory's and no other,   *)
(* and the counter has the rest.                                           *)
InMemory ==
  mounted =>
    /\ files \in Seq(File)
    /\ \A i \in Own : files[i].clus \in Cluster \ {0}
    /\ \A i, j \in Own : files[i].clus = files[j].clus => i = j
    /\ \A i \in DOMAIN synced : i \in DOMAIN files /\ files[i] = synced[i]
    /\ bits = {0} \cup {files[i].clus : i \in Own}
    /\ frees = Nums - Cardinality(bits)

Empty == ~ mounted => bits = {} /\ frees = 0 /\ files = <<>>

FatInv ==
  /\ mounted \in BOOLEAN
  /\ OnDisk /\ InMemory /\ Empty
  /\ NameTree(tree)
  /\ cd \in Name \cup {RootName, <<>>, Wild}

(* The first bit of an empty bitmap. *)
LEMMA FirstBit == FirstFree(Unmarked) = 0
<1>1. 0 \in (0 .. Nums) \ Unmarked /\ (0 .. Nums) \ Unmarked \in SUBSET Nat
  BY FatAssumption DEF Unmarked
<1> DEFINE S == (0 .. Nums) \ Unmarked
<1> HIDE DEF S
<1>2. Min(S) \in S /\ Min(S) <= 0
  BY <1>1, MinIs DEF S
<1> QED
  BY <1>1, <1>2 DEF FirstFree, S

(* While the bitmap has fewer bits than there are clusters, the first free *)
(* one is a cluster.                                                       *)
LEMMA FirstFreeIs ==
  ASSUME NEW used \in SUBSET Cluster, Cardinality(used) # Nums
  PROVE  FirstFree(used) \in Cluster \ used
<1> DEFINE S == (0 .. Nums) \ used
<1>1. Nums \in Nat \ {0}
  BY FatAssumption
<1>2. IsFiniteSet(Cluster) /\ Cardinality(Cluster) = Nums
  BY <1>1, FS_Interval DEF Cluster
<1>3. PICK c \in Cluster : c \notin used
  BY <1>2
<1>4. S \in SUBSET Nat /\ c \in S /\ c <= Nums - 1
  BY <1>1, <1>3 DEF Cluster
<1> HIDE DEF S
<1>5. Min(S) \in S /\ Min(S) <= c
  BY <1>4, MinIs
<1>6. Min(S) \in (0 .. Nums) \ used
  BY <1>5 DEF S
<1>7. Min(S) \in 0 .. Nums - 1
  BY <1>1, <1>4, <1>5, <1>6
<1> QED
  BY <1>6, <1>7 DEF FirstFree, Cluster, S

(* Files with clusters of their own have as many clusters as files, and    *)
(* the system directory has one more.                                      *)
LEMMA ClustersCounted ==
  ASSUME NEW root \in Seq(File),
         \A i \in DOMAIN root : root[i].clus \in Cluster \ {0},
         \A i, j \in DOMAIN root : root[i].clus = root[j].clus => i = j
  PROVE  Cardinality({0} \cup {root[i].clus : i \in DOMAIN root}) = Len(root) + 1
<1> DEFINE n == Len(root)
           T == {root[i].clus : i \in DOMAIN root}
           f == [i \in 1 .. n |-> root[i].clus]
<1>1. n \in Nat /\ DOMAIN root = 1 .. n
  OBVIOUS
<1>2. IsFiniteSet(1 .. n) /\ Cardinality(1 .. n) = n
  <2> HIDE DEF n
  <2>1. 1 \in Int /\ n \in Int /\ (IF 1 > n THEN 0 ELSE n - 1 + 1) = n
    BY <1>1
  <2> QED
    BY <2>1, FS_Interval
<1>3. f \in Surjection(1 .. n, T)
  BY <1>1 DEF Surjection
<1>4. f \in Injection(1 .. n, T)
  BY <1>1 DEF Injection, IsInjective
<1>5. 0 \notin T
  BY <1>1
<1> HIDE DEF n, f, T
<1>6. IsFiniteSet(T) /\ Cardinality(T) = n
  BY <1>2, <1>3, <1>4, FS_Surjection
<1>7. Cardinality(T \cup {0}) = n + 1
  BY <1>5, <1>6, FS_AddElement
<1>8. {0} \cup T = T \cup {0}
  OBVIOUS
<1> QED
  BY <1>7, <1>8 DEF n, T

(* What fits the cluster is written as it is. *)
LEMMA FirstClusterIs ==
  ASSUME NEW slots \in Seq(Slot)
  PROVE  /\ FirstCluster(slots) \in Seq(Slot)
         /\ Len(FirstCluster(slots)) < ClusterSlots => FirstCluster(slots) = slots
         /\ slots = <<>> => FirstCluster(slots) = <<>>
<1> DEFINE n == Len(slots)
           m == Min({n, ClusterSlots})
<1>1. n \in Nat /\ \A i \in 1 .. n : slots[i] \in Slot
  OBVIOUS
<1>2. ClusterSlots \in Nat
  <2>1. Bpb.bps \in Nat /\ Bpb.spc = 1
    BY FatAssumption, OneSector
  <2>2. Bpb.bps * Bpb.spc \in Nat
    BY ONLY <2>1
  <2> QED
    BY ONLY <2>2 DEF ClusterSlots, EntrySize
<1>3. m \in {n, ClusterSlots} /\ m <= n /\ m <= ClusterSlots
  <2>1. {n, ClusterSlots} \in SUBSET Nat /\ {n, ClusterSlots} # {}
    BY <1>1, <1>2
  <2> QED
    BY <2>1, MinIs
<1>4. FirstCluster(slots) = SubSeq(slots, 1, m)
  BY DEF FirstCluster
<1> HIDE DEF m, n
<1>5. m \in Nat
  BY <1>1, <1>2, <1>3
<1>6. /\ SubSeq(slots, 1, m) \in Seq(Slot) /\ Len(SubSeq(slots, 1, m)) = m
  BY <1>1, <1>3, <1>5 DEF n
<1>7. ASSUME m < ClusterSlots
      PROVE  SubSeq(slots, 1, m) = slots
  <2>1. m = n
    BY <1>2, <1>3, <1>5, <1>7
  <2> QED
    BY <2>1 DEF n
<1>8. ASSUME slots = <<>>
      PROVE  SubSeq(slots, 1, m) = <<>>
  <2>1. m = 0
    BY <1>1, <1>3, <1>5, <1>8 DEF n
  <2> QED
    BY <1>8, <2>1
<1> QED
  BY <1>4, <1>6, <1>7, <1>8

(* What mounting finds, if the directory left a slot free. *)
LEMMA MountFinds ==
  ASSUME FatInv, ~ Unended
  PROVE  Parsed(disk) = synced
<1>1. synced \in Seq(Kept) /\ disk = FirstCluster(SlotsOf(synced))
  BY DEF FatInv, OnDisk
<1>2. SlotsOf(synced) \in Seq(Slot) /\ Parsed(SlotsOf(synced)) = synced
  BY <1>1, ParsedBack
<1>3. disk \in Seq(Slot) /\ (Len(disk) < ClusterSlots => disk = SlotsOf(synced))
  BY <1>1, <1>2, FirstClusterIs
<1>4. ClusterSlots \in Nat
  <2>1. Bpb.bps \in Nat /\ Bpb.spc = 1
    BY FatAssumption, OneSector
  <2>2. Bpb.bps * Bpb.spc \in Nat
    BY ONLY <2>1
  <2> QED
    BY ONLY <2>2 DEF ClusterSlots, EntrySize
<1>5. Len(disk) < ClusterSlots
  <2>1. Len(disk) \in Nat /\ ~ (Len(disk) >= ClusterSlots)
    BY <1>3 DEF Unended
  <2> QED
    BY ONLY <1>4, <2>1
<1> QED
  BY <1>2, <1>3, <1>5

LEMMA FatInit ==
  ASSUME Init
  PROVE  FatInv
<1>1. disk = <<>> /\ mounted = FALSE /\ bits = {} /\ frees = 0 /\ files = <<>>
      /\ tree = Root(RootName) /\ cd = <<>> /\ synced = <<>>
  BY DEF Init
<1>2. OnDisk
  <2>1. synced \in Seq(Kept) /\ DOMAIN synced = {}
    BY <1>1
  <2>2. SlotsOf(synced) = <<>>
    <3>1. [i \in DOMAIN synced |-> Slots(synced[i])] = <<>>
      BY <2>1
    <3> QED
      BY <3>1 DEF SlotsOf, FlattenSeq
  <2>3. FirstCluster(<<>>) = <<>>
    <3>1. <<>> \in Seq(Slot)
      OBVIOUS
    <3> QED
      BY <3>1, FirstClusterIs
  <2> QED
    BY <1>1, <2>1, <2>2, <2>3 DEF OnDisk
<1>3. InMemory /\ Empty
  BY <1>1 DEF InMemory, Empty
<1>4. NameTree(tree)
  BY <1>1, EmptyTree
<1> QED
  BY <1>1, <1>2, <1>3, <1>4 DEF FatInv

LEMMA MountStep ==
  ASSUME FatInv, Mount
  PROVE  FatInv'
<1>1. /\ mounted' = TRUE /\ files' = synced /\ bits' = Marked(synced)
      /\ frees' = Nums - 1 - Len(synced) /\ tree' = DirTree(synced) /\ cd' = RootName
      /\ disk' = disk /\ synced' = synced
  BY MountFinds DEF Mount, Counted
<1>2. OnDisk
  BY DEF FatInv
<1>3. OnDisk'
  BY <1>1, <1>2 DEF OnDisk
<1>4. InMemory'
  <2>1. /\ synced \in Seq(File) /\ \A i \in DOMAIN synced : synced[i].clus \in Cluster \ {0}
        /\ \A i, j \in DOMAIN synced : synced[i].clus = synced[j].clus => i = j
    BY <1>2 DEF OnDisk, Kept
  <2>2. Own' = DOMAIN synced
    <3>1. \A i \in DOMAIN synced : synced[i].clus # None
      BY <2>1 DEF Cluster, None
    <3> QED
      BY <1>1, <3>1 DEF Own
  <2>3. bits' = {0} \cup {synced[i].clus : i \in DOMAIN synced}
    BY <1>1, FirstBit DEF Marked
  <2>4. Cardinality(bits') = Len(synced) + 1
    BY <2>1, <2>3, ClustersCounted
  <2>5. frees' = Nums - Cardinality(bits')
    <3>1. Nums \in Nat
      BY ONLY FatAssumption
    <3>2. Len(synced) \in Nat
      BY <2>1, LenProperties
    <3> QED
      BY <1>1, <2>4, <3>1, <3>2
  <2> QED
    BY <1>1, <2>1, <2>2, <2>3, <2>5 DEF InMemory
<1>5. NameTree(tree)'
  <2>1. NameTree(DirTree(synced))
    BY <1>2, DirTreeIs DEF OnDisk
  <2> QED
    BY <1>1, <2>1
<1>6. Empty' /\ cd' \in Name \cup {RootName, <<>>, Wild} /\ mounted' \in BOOLEAN
  BY <1>1 DEF Empty
<1> QED
  BY <1>3, <1>4, <1>5, <1>6 DEF FatInv

LEMMA CrtDirStep ==
  ASSUME FatInv, NEW name \in Name, CrtDir(name)
  PROVE  FatInv'
<1> DEFINE ost == FirstFree(bits)
           n == Len(files)
           file == [name |-> name, clus |-> ost]
<1>1. /\ mounted /\ frees # 0
      /\ bits' = bits \cup {ost} /\ frees' = frees - 1 /\ files' = Append(files, file)
      /\ disk' = disk /\ synced' = synced /\ mounted' = mounted /\ tree' = tree /\ cd' = cd
  BY DEF CrtDir, Exhausted
<1>2. /\ files \in Seq(File)
      /\ \A i \in Own : files[i].clus \in Cluster \ {0}
      /\ \A i, j \in Own : files[i].clus = files[j].clus => i = j
      /\ \A i \in DOMAIN synced : i \in DOMAIN files /\ files[i] = synced[i]
      /\ bits = {0} \cup {files[i].clus : i \in Own}
      /\ frees = Nums - Cardinality(bits)
  BY <1>1 DEF FatInv, InMemory
<1>3. n \in Nat /\ DOMAIN files = 1 .. n
  BY <1>2
<1>4. Nums \in Nat \ {0}
  BY FatAssumption
<1>5. bits \in SUBSET Cluster /\ IsFiniteSet(bits) /\ Cardinality(bits) \in Nat
  <2>1. bits \in SUBSET Cluster
    BY <1>2, <1>4 DEF Cluster
  <2>2. IsFiniteSet(Cluster)
    BY <1>4, FS_Interval DEF Cluster
  <2> QED
    BY <2>1, <2>2, FS_Subset, FS_CardinalityType
<1>6. ost \in Cluster \ bits
  BY <1>1, <1>2, <1>4, <1>5, FirstFreeIs
<1> HIDE DEF ost, n
<1>7. ost \in Cluster \ {0} /\ ost # None /\ \A i \in Own : files[i].clus # ost
  BY <1>2, <1>6 DEF Cluster, None
<1>8. file \in File
  BY <1>7 DEF File
<1>9. file.clus = ost
  OBVIOUS
<1> HIDE DEF file
<1>10. /\ files' \in Seq(File) /\ DOMAIN files' = 1 .. n + 1 /\ files'[n + 1] = file
       /\ \A i \in 1 .. n : files'[i] = files[i]
  BY <1>1, <1>2, <1>3, <1>8, AppendProperties DEF n
<1>11. Own' = Own \cup {n + 1} /\ Own \subseteq 1 .. n
  <2>1. Own' = {i \in 1 .. n + 1 : files'[i].clus # None}
    BY <1>10 DEF Own
  <2>2. Own = {i \in 1 .. n : files[i].clus # None}
    BY <1>3 DEF Own
  <2>3. ASSUME NEW i
        PROVE  i \in Own' <=> i \in Own \/ i = n + 1
    BY <1>3, <1>7, <1>9, <1>10, <2>1, <2>2
  <2> QED
    BY <2>2, <2>3
<1>12. \A i \in Own : files'[i] = files[i]
  BY <1>10, <1>11
<1>13. InMemory'
  <2>1. \A i \in Own' : files'[i].clus \in Cluster \ {0}
    BY <1>2, <1>7, <1>9, <1>10, <1>11, <1>12
  <2>2. \A i, j \in Own' : files'[i].clus = files'[j].clus => i = j
    BY <1>2, <1>7, <1>9, <1>10, <1>11, <1>12
  <2>3. \A i \in DOMAIN synced' : i \in DOMAIN files' /\ files'[i] = synced'[i]
    BY <1>1, <1>2, <1>3, <1>10
  <2>4. bits' = {0} \cup {files'[i].clus : i \in Own'}
    <3>1. {files'[i].clus : i \in Own'} = {files'[i].clus : i \in Own} \cup {files'[n + 1].clus}
      BY <1>11
    <3>2. {files'[i].clus : i \in Own} = {files[i].clus : i \in Own}
      BY <1>12
    <3>3. files'[n + 1].clus = ost
      BY <1>9, <1>10
    <3> QED
      BY <1>1, <1>2, <3>1, <3>2, <3>3
  <2>5. frees' = Nums - Cardinality(bits')
    <3>1. Cardinality(bits') = Cardinality(bits) + 1
      BY <1>1, <1>5, <1>6, FS_AddElement
    <3> QED
      BY <1>1, <1>2, <1>4, <1>5, <3>1
  <2> QED
    BY <1>10, <2>1, <2>2, <2>3, <2>4, <2>5 DEF InMemory
<1> QED
  BY <1>1, <1>13 DEF FatInv, OnDisk, Empty

LEMMA CrtDirExhaustedStep ==
  ASSUME FatInv, NEW name \in Name, CrtDirExhausted(name)
  PROVE  FatInv'
<1> DEFINE n == Len(files)
           file == [name |-> name, clus |-> None]
<1>1. /\ mounted /\ files' = Append(files, file) /\ bits' = bits /\ frees' = frees
      /\ disk' = disk /\ synced' = synced /\ mounted' = mounted /\ tree' = tree /\ cd' = cd
  BY DEF CrtDirExhausted
<1>2. /\ files \in Seq(File)
      /\ \A i \in Own : files[i].clus \in Cluster \ {0}
      /\ \A i, j \in Own : files[i].clus = files[j].clus => i = j
      /\ \A i \in DOMAIN synced : i \in DOMAIN files /\ files[i] = synced[i]
      /\ bits = {0} \cup {files[i].clus : i \in Own}
      /\ frees = Nums - Cardinality(bits)
  BY <1>1 DEF FatInv, InMemory
<1>3. n \in Nat /\ DOMAIN files = 1 .. n
  BY <1>2
<1>4. file \in File /\ file.clus = None
  BY DEF File
<1> HIDE DEF n, file
<1>5. /\ files' \in Seq(File) /\ DOMAIN files' = 1 .. n + 1 /\ files'[n + 1] = file
      /\ \A i \in 1 .. n : files'[i] = files[i]
  BY <1>1, <1>2, <1>3, <1>4, AppendProperties DEF n
<1>6. Own' = Own /\ Own \subseteq 1 .. n
  <2>1. Own' = {i \in 1 .. n + 1 : files'[i].clus # None}
    BY <1>5 DEF Own
  <2>2. Own = {i \in 1 .. n : files[i].clus # None}
    BY <1>3 DEF Own
  <2>3. ASSUME NEW i
        PROVE  i \in Own' <=> i \in Own
    BY <1>3, <1>4, <1>5, <2>1, <2>2
  <2> QED
    BY <2>2, <2>3
<1>7. InMemory'
  <2>1. \A i \in Own : files'[i] = files[i]
    BY <1>5, <1>6
  <2>2. \A i \in DOMAIN synced' : i \in DOMAIN files' /\ files'[i] = synced'[i]
    BY <1>1, <1>2, <1>3, <1>5
  <2>3. {files'[i].clus : i \in Own'} = {files[i].clus : i \in Own}
    BY <1>6, <2>1
  <2>4. /\ \A i \in Own' : files'[i].clus \in Cluster \ {0}
        /\ \A i, j \in Own' : files'[i].clus = files'[j].clus => i = j
    <3>1. \A i \in Own : files'[i].clus = files[i].clus
      BY <2>1
    <3>2. \A i \in Own : files'[i].clus \in Cluster \ {0}
      BY <1>2, <3>1
    <3>3. \A i, j \in Own : files'[i].clus = files'[j].clus => i = j
      BY <1>2, <3>1
    <3> QED
      BY ONLY <1>6, <3>2, <3>3
  <2>5. bits' = {0} \cup {files'[i].clus : i \in Own'} /\ frees' = Nums - Cardinality(bits')
    BY <1>1, <1>2, <2>3
  <2> QED
    BY <1>5, <2>2, <2>4, <2>5 DEF InMemory
<1> QED
  BY <1>1, <1>7 DEF FatInv, OnDisk, Empty

LEMMA SyncStep ==
  ASSUME FatInv, Sync
  PROVE  FatInv'
<1>1. /\ mounted /\ \A i \in DOMAIN files : files[i].clus # None /\ files[i].name # <<>>
      /\ disk' = FirstCluster(SlotsOf(files)) /\ synced' = files
      /\ mounted' = mounted /\ bits' = bits /\ frees' = frees
      /\ files' = files /\ tree' = tree /\ cd' = cd
  BY DEF Sync, SlotsOf
<1>2. InMemory
  BY DEF FatInv
<1>3. Own = DOMAIN files /\ Own' = Own
  BY <1>1 DEF Own
<1>4. OnDisk'
  <2>1. files \in Seq(Kept)
    <3>1. files \in Seq(File)
      BY <1>1, <1>2 DEF InMemory
    <3>2. \A i \in 1 .. Len(files) : files[i] \in Kept
      BY <1>1, <3>1 DEF Kept
    <3> QED
      BY <3>1, <3>2
  <2>2. (FirstCluster(SlotsOf(synced)))' = FirstCluster(SlotsOf(synced'))
    BY DEF FirstCluster, SlotsOf
  <2> QED
    BY <1>1, <1>2, <1>3, <2>1, <2>2 DEF OnDisk, InMemory
<1>5. InMemory'
  BY <1>1, <1>2, <1>3 DEF InMemory
<1> QED
  BY <1>1, <1>4, <1>5 DEF FatInv, Empty

LEMMA SetDirStep ==
  ASSUME FatInv, NEW path \in Path, SetDir(path)
  PROVE  FatInv'
<1> DEFINE name == BaseName(path)
           hits == Search(tree, Searching(name, tree))
<1>1. /\ cd' = IF hits = {} THEN Wild ELSE CHOOSE dir \in hits : TRUE
      /\ disk' = disk /\ synced' = synced /\ mounted' = mounted /\ bits' = bits
      /\ frees' = frees /\ files' = files /\ tree' = tree
  BY DEF SetDir
<1>3. hits \subseteq Known
  BY SearchType DEF FatInv
<1> HIDE DEF hits
<1>4. cd' \in Name \cup {RootName, <<>>, Wild}
  BY <1>1, <1>3 DEF Known
<1> QED
  BY <1>1, <1>4 DEF FatInv, OnDisk, InMemory, Empty, Own

LEMMA CrashStep ==
  ASSUME FatInv, Crash
  PROVE  FatInv'
<1>1. /\ mounted' = FALSE /\ bits' = {} /\ frees' = 0 /\ files' = <<>>
      /\ tree' = Root(RootName) /\ cd' = <<>> /\ disk' = disk /\ synced' = synced
  BY DEF Crash, Lost
<1>2. NameTree(tree)'
  BY <1>1, EmptyTree
<1>3. OnDisk'
  BY <1>1 DEF FatInv, OnDisk
<1> QED
  BY <1>1, <1>2, <1>3 DEF FatInv, InMemory, Empty

LEMMA StutterStep ==
  ASSUME FatInv, UNCHANGED vars
  PROVE  FatInv'
BY DEF vars, FatInv, OnDisk, InMemory, Empty, Own

(* What is in memory and on the disk agree, over every order of mounts,    *)
(* new directories, fat_sync, fat_set_dir and crashes.                     *)
THEOREM FatInvHolds == Spec => []FatInv
<1>1. Init => FatInv
  BY FatInit
<1>2. FatInv /\ [Next]_vars => FatInv'
  <2> SUFFICES ASSUME FatInv, [Next]_vars
               PROVE  FatInv'
    OBVIOUS
  <2>1. CASE Mount
    BY <2>1, MountStep
  <2>2. CASE Sync
    BY <2>2, SyncStep
  <2>3. CASE Crash
    BY <2>3, CrashStep
  <2>4. ASSUME NEW path \in Path, SetDir(path)
        PROVE  FatInv'
    BY <2>4, SetDirStep
  <2>5. ASSUME NEW name \in Name, CrtDir(name)
        PROVE  FatInv'
    BY <2>5, CrtDirStep
  <2>6. ASSUME NEW name \in Name, CrtDirExhausted(name)
        PROVE  FatInv'
    BY <2>6, CrtDirExhaustedStep
  <2>7. CASE UNCHANGED vars
    BY <2>7, StutterStep
  <2> QED
    BY <2>1, <2>2, <2>3, <2>4, <2>5, <2>6, <2>7 DEF Next
<1> QED
  BY <1>1, <1>2, PTL DEF Spec

-----------------------------------------------------------------------------
(* What follows from it *)

(* The counter that decides when the disk is full is the number of free    *)
(* clusters.                                                               *)
THEOREM FreesExactHolds == Spec => []FreesExact
<1>1. FatInv => FreesExact
  BY DEF FatInv, InMemory, FreesExact
<1> QED
  BY <1>1, FatInvHolds, PTL

(* A file's cluster is its own: neither the system directory nor another   *)
(* file, of this session or an earlier one, has it.                        *)
THEOREM ClustersDistinctHolds == Spec => []ClustersDistinct
<1>1. FatInv => ClustersDistinct
  <2> SUFFICES ASSUME FatInv
               PROVE  ClustersDistinct
    OBVIOUS
  <2>1. CASE ~ mounted
    <3>1. files = <<>>
      BY <2>1 DEF FatInv, Empty
    <3>2. DOMAIN files = {}
      BY <3>1
    <3> QED
      BY <2>1, <3>2 DEF ClustersDistinct
  <2>2. CASE mounted
    <3>1. /\ \A i \in Own : files[i].clus \in Cluster \ {0}
          /\ \A i, j \in Own : files[i].clus = files[j].clus => i = j
          /\ \A i \in DOMAIN synced : i \in DOMAIN files /\ files[i] = synced[i]
          /\ bits = {0} \cup {files[i].clus : i \in Own}
      BY <2>2 DEF FatInv, InMemory
    <3>2. \A i \in Own : files[i].clus \in bits \ {0}
      BY <3>1
    <3>3. \A i \in DOMAIN synced : i \in Own
      <4>1. \A i \in DOMAIN synced : synced[i].clus # None
        BY DEF FatInv, OnDisk, Cluster, None
      <4> QED
        BY <3>1, <4>1 DEF Own
    <3>4. \A i \in DOMAIN synced : \E j \in Own : files[j] = synced[i]
      BY <3>1, <3>3
    <3> QED
      BY <3>1, <3>2, <3>4 DEF ClustersDistinct, Own
  <2> QED
    BY <2>1, <2>2
<1> QED
  BY <1>1, FatInvHolds, PTL

(* Mounting finds the files of the last fat_sync, whatever came after it,  *)
(* if they left a slot of their cluster free.                              *)
THEOREM DurableHolds == Spec => Durable
<1>1. FatInv /\ [Next]_vars => (~ mounted /\ mounted' => files' = synced)
  <2> SUFFICES ASSUME FatInv, [Next]_vars, ~ mounted, mounted'
               PROVE  files' = synced
    OBVIOUS
  <2>1. Mount
    BY DEF Next, vars, CrtDir, CrtDirExhausted, Sync, SetDir, Crash
  <2> QED
    BY <2>1, MountFinds DEF Mount
<1> QED
  BY <1>1, FatInvHolds, PTL DEF Spec, Durable

(* A directory that mounting finds can be entered, or one whose name       *)
(* begins its name or is begun by it; if it has a node, it is found.       *)
THEOREM DirsFoundHolds == Spec => DirsFound
<1> DEFINE Found(name, t) ==
             LET hits == Search(t, Searching(name, t)) IN
             /\ \E hit \in hits : IsPrefix(hit, name) \/ IsPrefix(name, hit)
             /\ (\E p \in DOMAIN t : t[p] = name) => hits = {name}
<1>1. ASSUME NEW root \in Seq(Kept), NEW i \in DOMAIN root
      PROVE  Found(root[i].name, DirTree(root))
  <2> DEFINE t == DirTree(root)
             name == root[i].name
             hits == Search(t, Searching(name, t))
  <2>1. name \in Word
    <3>1. root[i] \in Kept
      OBVIOUS
    <3> QED
      BY <3>1, KeptKnown
  <2>2. NameTree(t)
    BY DirTreeIs
  <2>3. PICK q \in DOMAIN t : Follows(t, name, q) /\ Turn(Strcmp(name, t[q])) = Match
    BY DirTreeIs
  <2> HIDE DEF t, name
  <2>4. \A p \in DOMAIN t : t[p] \in Word /\ Follows(t, t[p], p)
    BY <2>2, Words DEF NameTree
  <2>5. \E hit \in hits : IsPrefix(hit, name) \/ IsPrefix(name, hit)
    <3>1. hits = {t[q]}
      BY <2>1, <2>2, <2>3, SearchIs
    <3>2. Strcmp(name, t[q]) \in Int /\ t[q] \in Word
      BY <2>1, <2>4, StrcmpIs
    <3>3. Strcmp(name, t[q]) = 0
      BY <2>3, <3>2 DEF Turn, Left, Right, Match
    <3> QED
      BY <2>1, <3>1, <3>2, <3>3, StrcmpIs
  <2>6. ASSUME NEW p \in DOMAIN t, t[p] = name
        PROVE  hits = {name}
    <3>1. Strcmp(name, t[p]) = 0
      BY <2>1, <2>6, StrcmpIs
    <3>2. Turn(Strcmp(name, t[p])) = Match
      BY ONLY <3>1 DEF Turn
    <3>3. Follows(t, name, p)
      BY <2>4, <2>6
    <3> QED
      BY <2>1, <2>2, <2>6, <3>2, <3>3, SearchIs
  <2>7. Found(name, t)
    BY <2>5, <2>6
  <2> QED
    BY <2>7 DEF name, t
<1> HIDE DEF Found
<1>2. FatInv /\ [Next]_vars =>
        (~ mounted /\ mounted' => \A i \in DOMAIN files' : Found(files'[i].name, tree'))
  <2> SUFFICES ASSUME FatInv, [Next]_vars, ~ mounted, mounted'
               PROVE  \A i \in DOMAIN files' : Found(files'[i].name, tree')
    OBVIOUS
  <2>1. Mount
    BY DEF Next, vars, CrtDir, CrtDirExhausted, Sync, SetDir, Crash
  <2>2. files' = synced /\ tree' = DirTree(synced) /\ synced \in Seq(Kept)
    BY <2>1, MountFinds DEF Mount, FatInv, OnDisk
  <2> QED
    BY <1>1, <2>2
<1>3. Spec => [][~ mounted /\ mounted' =>
                   \A i \in DOMAIN files' : Found(files'[i].name, tree')]_vars
  BY <1>2, FatInvHolds, PTL DEF Spec
<1>4. (~ mounted /\ mounted' => \A i \in DOMAIN files' : Found(files'[i].name, tree'))
      <=> (~ mounted /\ mounted' =>
             \A i \in DOMAIN files' :
               LET name == files'[i].name
                   hits == Search(tree', Searching(name, tree'))
               IN  /\ \E hit \in hits : IsPrefix(hit, name) \/ IsPrefix(name, hit)
                   /\ (\E p \in DOMAIN tree' : tree'[p] = name) => hits = {name})
  BY Zenon DEF Found
<1> QED
  BY <1>3, <1>4, PTL DEF DirsFound

(* A number of equal parts, divided by that number. *)
LEMMA DivExact ==
  ASSUME NEW a \in Nat, NEW b \in Nat \ {0}
  PROVE  (a * b) \div b = a
<1> DEFINE q == (a * b) \div b
           r == (a * b) % b
<1>1. a * b \in Nat
  OBVIOUS
<1>2. q \in Nat /\ r \in 0 .. b - 1 /\ a * b = b * q + r
  BY <1>1, DivMod
<1> HIDE DEF q, r
<1>3. ASSUME q < a
      PROVE  FALSE
  <2>1. PICK d \in Nat : a = q + 1 + d
    <3>1. a - q - 1 \in Nat /\ a = q + 1 + (a - q - 1)
      BY <1>2, <1>3
    <3> QED
      BY <3>1
  <2>2. a * b = b * q + b + d * b /\ d * b \in Nat
    BY <1>2, <2>1
  <2> QED
    BY <1>2, <2>2
<1>4. ASSUME q > a
      PROVE  FALSE
  <2>1. PICK d \in Nat : q = a + 1 + d
    <3>1. q - a - 1 \in Nat /\ q = a + 1 + (q - a - 1)
      BY <1>2, <1>4
    <3> QED
      BY <3>1
  <2>2. b * q = a * b + b + d * b /\ d * b \in Nat
    BY <2>1
  <2> QED
    BY <1>2, <2>2
<1>5. q = a
  BY <1>2, <1>3, <1>4
<1> QED
  BY <1>5 DEF q

(* The regions of the disk: the clusters begin behind the FAT and the      *)
(* system directory's sector, and there are as many as fit.                *)
LEMMA Regions ==
  /\ Ffs \in Nat /\ Fsn \in Int /\ Cfs \in Nat /\ Ts \in Nat /\ Nums \in Nat
  /\ Ffs + Fsn <= Cfs - 1
  /\ Cfs + Nums = Ts
<1> DEFINE size == IF Bpb.fat16_region_size # 0 THEN Bpb.fat16_region_size
                   ELSE Bpb.fat32_region_size
           num == Bpb.fat_num
           rsv == Bpb.reserved_sector_count
<1>1. size \in Nat /\ num \in Nat \ {0} /\ rsv \in Nat /\ Ts \in Nat /\ Bpb.spc = 1
      /\ Nums \in 1 .. 32
  BY FatAssumption, OneSector DEF Ts
<1>2. FatSectors = size * num
  BY DEF FatSectors
<1> HIDE DEF size, num, rsv
<1>3. FatSectors \div num = size
  BY <1>1, <1>2, DivExact
<1>4. size * num >= size /\ size * num \in Nat
  <2>1. PICK d \in Nat : num = d + 1
    <3>1. num - 1 \in Nat /\ num = (num - 1) + 1
      BY <1>1
    <3> QED
      BY <3>1
  <2>2. size * num = size * d + size /\ size * d \in Nat
    BY <1>1, <2>1
  <2> QED
    BY <1>1, <2>2
<1>5. Ffs = rsv + 3 /\ Fsn = size - 3
  BY <1>1, <1>3 DEF Ffs, Fsn, rsv, num
<1>6. Dfs = rsv + size * num
  BY <1>2 DEF Dfs, rsv
<1>7. Cfs = rsv + size * num + 3
  BY <1>1, <1>4, <1>6 DEF Cfs, Reserved
<1>8. Csn = Ts - (rsv + size * num) - 3
  BY <1>1, <1>4, <1>6 DEF Csn, Dsn, Reserved
<1>9. Nums = Csn
  <2>1. Csn \in Int
    BY <1>1, <1>4, <1>8
  <2> QED
    BY <1>1, <2>1 DEF Nums
<1> DEFINE all == size * num
<1> HIDE DEF all
<1>10. /\ all \in Nat /\ all >= size /\ Cfs = rsv + all + 3 /\ Nums = Ts - (rsv + all) - 3
  BY <1>4, <1>7, <1>8, <1>9 DEF all
<1> QED
  BY <1>1, <1>5, <1>10

LEMMA TypesHold ==
  ASSUME FatInv
  PROVE  Types
<1>1. mounted \in BOOLEAN /\ synced \in Seq(File)
      /\ cd \in Name \cup {RootName, <<>>, Wild}
  BY DEF FatInv, OnDisk, Kept
<1>2. disk \in Seq(Slot)
  <2>1. synced \in Seq(Kept) /\ disk = FirstCluster(SlotsOf(synced))
    BY DEF FatInv, OnDisk
  <2> QED
    BY <2>1, ParsedBack, FirstClusterIs
<1>3. \A p \in DOMAIN tree : tree[p] \in Name \cup {RootName}
  BY DEF FatInv, NameTree, Known
<1>4. Nums \in Nat \ {0}
  BY FatAssumption
<1>5. files \in Seq(File) /\ bits \subseteq Cluster /\ frees \in 0 .. Nums
  <2>1. CASE ~ mounted
    BY <1>4, <2>1 DEF FatInv, Empty
  <2>2. CASE mounted
    <3>1. /\ files \in Seq(File) /\ \A i \in Own : files[i].clus \in Cluster \ {0}
          /\ bits = {0} \cup {files[i].clus : i \in Own}
          /\ frees = Nums - Cardinality(bits)
      BY <2>2 DEF FatInv, InMemory
    <3>2. bits \in SUBSET Cluster
      BY <1>4, <3>1 DEF Cluster
    <3>3. IsFiniteSet(Cluster) /\ Cardinality(Cluster) = Nums
      BY <1>4, FS_Interval DEF Cluster
    <3>4. Cardinality(bits) \in 0 .. Nums
      <4>1. IsFiniteSet(bits) /\ Cardinality(bits) <= Nums
        BY <3>2, <3>3, FS_Subset
      <4>2. Cardinality(bits) \in Nat
        BY <4>1, FS_CardinalityType
      <4> QED
        BY <1>4, <4>1, <4>2
    <3> QED
      BY <1>4, <3>1, <3>2, <3>4
  <2> QED
    BY <1>1, <2>1, <2>2
<1> QED
  BY <1>1, <1>2, <1>3, <1>5 DEF Types

(* Each sector that is written for a directory is on the disk and belongs  *)
(* neither to the FAT nor to the system directory.                         *)
THEOREM WithinClustersHolds == Spec => []WithinClusters
<1>1. FatInv => WithinClusters
  <2> SUFFICES ASSUME FatInv
               PROVE  WithinClusters
    OBVIOUS
  <2> DEFINE used == {RootDir} \cup ({files[i].clus : i \in DOMAIN files} \ {None})
             fat == Ffs .. Ffs + Fsn - 1
  <2>1. Types
    BY TypesHold
  <2>2. \A c \in used : c \in 0 .. Nums - 1
    <3>1. \A i \in DOMAIN files : files[i].clus \in Cluster \cup {None}
      <4>1. \A i \in DOMAIN files : files[i] \in File
        BY <2>1 DEF Types
      <4> QED
        BY <4>1 DEF File
    <3>2. RootDir \in 0 .. Nums - 1
      BY FatAssumption DEF RootDir
    <3> QED
      BY <3>1, <3>2 DEF Cluster
  <2> HIDE DEF used
  <2>3. \A c \in Int : Sectors(c) = {Cfs + c}
    <3>1. Bpb.spc = 1 /\ Cfs \in Nat
      BY OneSector, Regions
    <3>2. ASSUME NEW c \in Int
          PROVE  Cfs + c .. Cfs + c + 1 - 1 = {Cfs + c}
      <4> DEFINE s == Cfs + c
      <4>1. s \in Int
        BY <3>1
      <4> HIDE DEF s
      <4>2. s .. s + 1 - 1 = {s}
        BY <4>1
      <4> QED
        BY <4>2 DEF s
    <3> QED
      BY <3>1, <3>2 DEF Sectors
  <2>4. Sectors(SysDir) = {Cfs - 1}
    <3>1. Cfs + (-1) = Cfs - 1 /\ SysDir \in Int
      BY Regions DEF SysDir
    <3> QED
      BY <2>3, <3>1 DEF SysDir
  <2>5. \A s \in fat : s < Cfs - 1
    BY Regions
  <2> HIDE DEF fat
  <2>6. ASSUME NEW c \in used
        PROVE  /\ Sectors(c) \subseteq Cfs .. Ts - 1
               /\ Sectors(c) \cap (fat \cup Sectors(SysDir)) = {}
    <3>1. c \in Int /\ Sectors(c) = {Cfs + c} /\ 0 <= c /\ c <= Nums - 1
      BY <2>2, <2>3, Regions
    <3>2. Cfs + c \in Cfs .. Ts - 1 /\ ~ (Cfs + c < Cfs - 1) /\ Cfs + c # Cfs - 1
      BY <3>1, Regions
    <3> QED
      BY <2>4, <2>5, <3>1, <3>2
  <2>7. Sectors(SysDir) \cap fat = {}
    <3>1. ~ (Cfs - 1 < Cfs - 1)
      BY Regions
    <3> QED
      BY <2>4, <2>5, <3>1
  <2> QED
    BY <2>1, <2>6, <2>7 DEF WithinClusters, used, fat
<1> QED
  BY <1>1, FatInvHolds, PTL

-----------------------------------------------------------------------------
(* kprintf: where a call is *)

(* The text that a piece promises is what kprintf makes of it when nothing *)
(* comes between: what itoa and itoh write is compared with the number     *)
(* where the constants get their values.                                   *)
TextsRight ==
  \A call \in Call : \A k \in DOMAIN call :
    call[k].text = IF IsConversion(call[k])
                   THEN Converted(Chosen(call[k].fmt[2]), call[k])
                   ELSE IF Printable(call[k].fmt[1]) = "char" THEN call[k].fmt ELSE <<>>

(* The formats of the pieces of a call, its conversions, how many there    *)
(* are up to a piece, and what comes out of a piece and of all of them.    *)
Fmts(call)  == [k \in DOMAIN call |-> call[k].fmt]
Convs(call) == [k \in DOMAIN call |-> IF IsConversion(call[k]) THEN <<call[k]>> ELSE <<>>]
Number(call, k) == Len(Before(Convs(call), k))
Out(call, hits, k) ==
  IF IsConversion(call[k]) /\ Number(call, k) \in hits THEN Char(call[k].word) ELSE call[k].text
Outs(call, hits) == [k \in DOMAIN call |-> Out(call, hits, k)]

(* vkprintf is at the k-th piece of its format. *)
AtPiece(k) ==
  /\ pi.i = Len(Before(Fmts(pi.call), k - 1)) + (IF pi.state = "format" THEN 2 ELSE 1)
  /\ pi.args = SubSeq(Conversions(pi.call), Number(pi.call, k - 1) + 1,
                      Len(Conversions(pi.call)))
  /\ pi.buf = Before(Outs(pi.call, pi.hits), k - 1)
  /\ pi.state = "format" => k <= Len(pi.call) /\ IsConversion(pi.call[k])
  /\ pi.at = "read" => pi.hits \subseteq 1 .. Number(pi.call, k - 1)
  /\ pi.at = "call" =>
       /\ pi.state = "format"
       /\ pi.hits \subseteq 1 .. Number(pi.call, k)
       /\ pending # <<>> => Number(pi.call, k) \in pi.hits
       /\ pending = <<>> => parse = IF Number(pi.call, k) \in pi.hits THEN "char"
                                    ELSE Chosen(pi.call[k].fmt[2])

Conversion == {"int", "char", "str", "hex"}

(* The variables of kprintf have their types. *)
CallTypes ==
  /\ pi \in [at : {"idle", "read", "call"}, call : Seq(FormatPiece), i : Nat,
             args : Seq(FormatPiece),
             state : {"normal", "format"}, buf : Seq(Character), hits : SUBSET Nat]
  /\ pending \in Seq([conversion : Conversion, text : Seq(Character)])
  /\ parse \in Conversion \cup {"none"}

(* A call is at one of its pieces, or behind the last; what the handler    *)
(* prints last leaves the conversion of a character behind.                *)
CallInv ==
  /\ pi.at # "idle" => pi.call \in Call /\ \E k \in 1 .. Len(pi.call) + 1 : AtPiece(k)
  /\ pending # <<>> => pending[Len(pending)].conversion = "char"

(* How many characters the handler has still to print. *)
Owed == IF pending = <<>> THEN 0
        ELSE IF Len(pending) = 1 THEN Len(pending[1].text)
        ELSE Len(pending[1].text) + Len(pending[2].text)

(* The rows that may be used: the handler starts in reach and prints what  *)
(* its key echoes, and the program has started in reach.                   *)
RowInv ==
  /\ Len(pending) <= 2
  /\ \A k \in 1 .. Len(pending) : pending[k].text \in Text
  /\ pending # <<>> => \E key \in Key : cur.row + Owed <= LastRow + Echoed(key)
  /\ pi.at # "idle" => \/ cur.row + Owed <= LastRow
                       \/ \E key \in Key : cur.row + Owed <= LastRow + Echoed(key)

(* What a piece of a call is made of. *)
LEMMA PieceIs ==
  ASSUME NEW piece \in FormatPiece
  PROVE  /\ piece.fmt \in Seq(Character) /\ piece.word \in Int
         /\ piece.str \in Seq(Character) /\ piece.text \in Seq(Character)
         /\ IsConversion(piece) => /\ Len(piece.fmt) = 2 /\ piece.fmt[1] = Percent
                                   /\ piece.fmt[2] \in {100, 99, 115, 88, 120}
         /\ ~ IsConversion(piece) => Len(piece.fmt) = 1 /\ piece.fmt[1] # Percent
<1>1. /\ piece.fmt \in Seq(Character) /\ piece.word \in Int
      /\ piece.str \in Seq(Character) /\ piece.text \in Seq(Character)
  BY DEF FormatPiece
<1>2. \/ \E c \in Character \ {Percent} : piece.fmt = <<c>>
      \/ \E c \in {100, 99, 115, 88, 120} : piece.fmt = <<Percent, c>>
  BY DEF FormatPiece
<1>3. CASE \E c \in Character \ {Percent} : piece.fmt = <<c>>
  <2>1. PICK c \in Character \ {Percent} : piece.fmt = <<c>>
    BY <1>3
  <2>2. Head(piece.fmt) = c /\ Len(piece.fmt) = 1 /\ piece.fmt[1] = c
    BY <2>1
  <2> QED
    BY <1>1, <2>1, <2>2 DEF IsConversion
<1>4. CASE \E c \in {100, 99, 115, 88, 120} : piece.fmt = <<Percent, c>>
  <2>1. PICK c \in {100, 99, 115, 88, 120} : piece.fmt = <<Percent, c>>
    BY <1>4
  <2>2. /\ Head(piece.fmt) = Percent /\ Len(piece.fmt) = 2
        /\ piece.fmt[1] = Percent /\ piece.fmt[2] = c
    BY <2>1
  <2> QED
    BY <1>1, <2>1, <2>2 DEF IsConversion
<1> QED
  BY <1>2, <1>3, <1>4

(* A conversion to a character yields one character or none. *)
LEMMA CharIs ==
  ASSUME NEW word \in Int
  PROVE  Char(word) \in Seq(Character)
<1>1. word % 256 \in 0 .. 255
  OBVIOUS
<1>2. CASE word % 256 = 0
  BY <1>2 DEF Char
<1>3. CASE word % 256 # 0
  <2>1. word % 256 \in Character
    BY <1>1, <1>3 DEF Character
  <2>2. <<word % 256>> \in Seq(Character)
    BY <2>1
  <2> QED
    BY <1>3, <2>2 DEF Char
<1> QED
  BY <1>2, <1>3

(* The lists of a call are as long as the call. *)
LEMMA CallIs ==
  ASSUME NEW call \in Call
  PROVE  /\ call \in Seq(FormatPiece) /\ Len(call) \in Nat /\ DOMAIN call = 1 .. Len(call)
         /\ \A k \in 1 .. Len(call) : call[k] \in FormatPiece
         /\ Fmts(call) \in Seq(Seq(Character)) /\ Len(Fmts(call)) = Len(call)
         /\ Convs(call) \in Seq(Seq(FormatPiece)) /\ Len(Convs(call)) = Len(call)
         /\ \A hits : Outs(call, hits) \in Seq(Seq(Character)) /\ Len(Outs(call, hits)) = Len(call)
<1>1. /\ call \in Seq(FormatPiece) /\ Len(call) \in Nat /\ DOMAIN call = 1 .. Len(call)
      /\ \A k \in 1 .. Len(call) : call[k] \in FormatPiece
  BY KprintfAssumption
<1> DEFINE n == Len(call)
<1>2. ASSUME NEW S, NEW f, f \in [1 .. n -> S]
      PROVE  f \in Seq(S) /\ Len(f) = n
  BY <1>1, <1>2
<1>3. Fmts(call) \in [1 .. n -> Seq(Character)]
  BY <1>1, PieceIs DEF Fmts
<1>4. Convs(call) \in [1 .. n -> Seq(FormatPiece)]
  <2>1. ASSUME NEW k \in 1 .. n
        PROVE  (IF IsConversion(call[k]) THEN <<call[k]>> ELSE <<>>) \in Seq(FormatPiece)
    <3>1. <<call[k]>> \in Seq(FormatPiece) /\ <<>> \in Seq(FormatPiece)
      BY <1>1
    <3> QED
      BY <3>1
  <2> QED
    BY <1>1, <2>1 DEF Convs
<1>5. ASSUME NEW hits
      PROVE  Outs(call, hits) \in [1 .. n -> Seq(Character)]
  <2>1. ASSUME NEW k \in 1 .. n
        PROVE  Out(call, hits, k) \in Seq(Character)
    BY <1>1, PieceIs, CharIs DEF Out
  <2> QED
    BY <1>1, <2>1 DEF Outs
<1> QED
  BY <1>1, <1>2, <1>3, <1>4, <1>5

(* The numbers of conversions. *)
LEMMA NumberIs ==
  ASSUME NEW call \in Call, NEW k \in 1 .. Len(call)
  PROVE  /\ Number(call, k - 1) \in Nat /\ Number(call, k) \in Nat
         /\ Number(call, k) = Number(call, k - 1) + (IF IsConversion(call[k]) THEN 1 ELSE 0)
         /\ Len(Conversions(call)) \in Nat /\ Number(call, k) <= Len(Conversions(call))
         /\ Conversions(call) \in Seq(FormatPiece)
         /\ IsConversion(call[k]) => Conversions(call)[Number(call, k)] = call[k]
<1>1. Convs(call) \in Seq(Seq(FormatPiece)) /\ Len(Convs(call)) = Len(call)
  BY CallIs
<1>2. Conversions(call) = FlattenSeq(Convs(call))
  BY DEF Conversions, Convs
<1>3. Convs(call)[k] = IF IsConversion(call[k]) THEN <<call[k]>> ELSE <<>>
  BY CallIs DEF Convs
<1>4. Len(Convs(call)[k]) = IF IsConversion(call[k]) THEN 1 ELSE 0
  BY <1>3
<1>5. /\ Len(Before(Convs(call), k)) = Len(Before(Convs(call), k - 1)) + Len(Convs(call)[k])
      /\ Len(Before(Convs(call), k - 1)) \in Nat
      /\ Len(Before(Convs(call), k)) <= Len(FlattenSeq(Convs(call)))
      /\ \A j \in 1 .. Len(Convs(call)[k]) :
           FlattenSeq(Convs(call))[Len(Before(Convs(call), k - 1)) + j] = Convs(call)[k][j]
  <2> DEFINE seqs == Convs(call)
  <2>1. seqs \in Seq(Seq(FormatPiece)) /\ k \in 1 .. Len(seqs)
    BY <1>1
  <2> HIDE DEF seqs
  <2>2. /\ Len(Before(seqs, k)) = Len(Before(seqs, k - 1)) + Len(seqs[k])
        /\ Len(Before(seqs, k - 1)) \in Nat
        /\ Len(Before(seqs, k)) <= Len(FlattenSeq(seqs))
        /\ \A j \in 1 .. Len(seqs[k]) :
             FlattenSeq(seqs)[Len(Before(seqs, k - 1)) + j] = seqs[k][j]
    BY ONLY <2>1, FlattenAt
  <2> QED
    BY <2>2 DEF seqs
<1>6. FlattenSeq(Convs(call)) \in Seq(FormatPiece)
  <2>1. Len(call) \in 0 .. Len(call)
    BY CallIs
  <2>2. Before(Convs(call), Len(call)) \in Seq(FormatPiece)
    BY <1>1, <2>1, BeforeSteps
  <2> QED
    BY <1>1, <2>2, BeforeSteps
<1>7. IsConversion(call[k]) => Conversions(call)[Number(call, k)] = call[k]
  <2> SUFFICES ASSUME IsConversion(call[k])
               PROVE  Conversions(call)[Number(call, k)] = call[k]
    OBVIOUS
  <2>1. Len(Convs(call)[k]) = 1 /\ Convs(call)[k][1] = call[k]
    BY <1>3
  <2>2. Number(call, k) = Len(Before(Convs(call), k - 1)) + 1
    BY <1>5, <2>1 DEF Number
  <2> QED
    BY <1>2, <1>5, <2>1, <2>2
<1>8. Number(call, k) = Number(call, k - 1) + (IF IsConversion(call[k]) THEN 1 ELSE 0)
      /\ Number(call, k - 1) \in Nat
  BY <1>4, <1>5 DEF Number
<1>9. Number(call, k) \in Nat
  <2> DEFINE a == Number(call, k - 1)
             b == Number(call, k)
  <2>1. a \in Nat /\ (b = a \/ b = a + 1)
    BY <1>8
  <2> HIDE DEF a, b
  <2>2. b \in Nat
    BY <2>1
  <2> QED
    BY <2>2 DEF b
<1> QED
  BY <1>2, <1>5, <1>6, <1>7, <1>8, <1>9, LenProperties DEF Number

(* Before the first piece there is no conversion. *)
LEMMA NumberOfNone == \A call \in Call : Number(call, 0) = 0
<1> SUFFICES ASSUME NEW call \in Call
             PROVE  Number(call, 0) = 0
  OBVIOUS
<1>1. Before(Convs(call), 0) = <<>>
  BY CallIs, BeforeSteps
<1> QED
  BY <1>1 DEF Number

(* The places of pieces in the format. *)
LEMMA FormatIs ==
  ASSUME NEW call \in Call, NEW k \in 1 .. Len(call)
  PROVE  /\ Len(Before(Fmts(call), k - 1)) \in Nat
         /\ Len(Before(Fmts(call), k)) = Len(Before(Fmts(call), k - 1)) + Len(call[k].fmt)
         /\ Len(Before(Fmts(call), k)) <= Len(Format(call))
         /\ \A j \in 1 .. Len(call[k].fmt) :
              Format(call)[Len(Before(Fmts(call), k - 1)) + j] = call[k].fmt[j]
<1>1. Fmts(call) \in Seq(Seq(Character)) /\ Len(Fmts(call)) = Len(call)
  BY CallIs
<1>2. Format(call) = FlattenSeq(Fmts(call)) /\ Fmts(call)[k] = call[k].fmt
  BY CallIs DEF Format, Fmts
<1> DEFINE seqs == Fmts(call)
<1>3. seqs \in Seq(Seq(Character)) /\ k \in 1 .. Len(seqs)
  BY <1>1
<1> HIDE DEF seqs
<1>4. /\ Len(Before(seqs, k)) = Len(Before(seqs, k - 1)) + Len(seqs[k])
      /\ Len(Before(seqs, k - 1)) \in Nat
      /\ Len(Before(seqs, k)) <= Len(FlattenSeq(seqs))
      /\ \A j \in 1 .. Len(seqs[k]) :
           FlattenSeq(seqs)[Len(Before(seqs, k - 1)) + j] = seqs[k][j]
  BY ONLY <1>3, FlattenAt
<1> QED
  BY <1>2, <1>4 DEF seqs

(* The characters of a piece are in the format. *)
LEMMA FormatEnds ==
  ASSUME NEW call \in Call
  PROVE  Len(Before(Fmts(call), Len(call))) = Len(Format(call)) /\ Len(Format(call)) \in Nat
         /\ Before(Fmts(call), 0) = <<>>
<1>1. Fmts(call) \in Seq(Seq(Character)) /\ Len(Fmts(call)) = Len(call)
  BY CallIs
<1>2. Format(call) = FlattenSeq(Fmts(call))
  BY CallIs DEF Format, Fmts
<1>3. Before(Fmts(call), Len(call)) = FlattenSeq(Fmts(call)) /\ Before(Fmts(call), 0) = <<>>
  BY <1>1, BeforeSteps
<1>4. Before(Fmts(call), Len(call)) \in Seq(Character)
  <2>1. Len(call) \in 0 .. Len(call)
    BY CallIs
  <2> QED
    BY <1>1, <2>1, BeforeSteps
<1> QED
  BY <1>2, <1>3, <1>4, LenProperties

(* What a call prints is the texts of its pieces, or the characters of    *)
(* those that were hit.                                                    *)
LEMMA ExpectedIs ==
  ASSUME NEW call \in Call, NEW hits
  PROVE  Expected(call, hits) = Before(Outs(call, hits), Len(call))
<1>1. ASSUME NEW k \in 1 .. Len(call)
      PROVE  Len(Conversions(SubSeq(call, 1, k))) = Number(call, k)
  <2> DEFINE part == SubSeq(call, 1, k)
  <2>1. /\ call \in Seq(FormatPiece) /\ k \in Nat /\ k <= Len(call) /\ Len(call) \in Nat
        /\ DOMAIN call = 1 .. Len(call)
    BY CallIs
  <2>2. DOMAIN part = 1 .. k /\ \A i \in 1 .. k : part[i] = call[i]
    BY <2>1
  <2> HIDE DEF part
  <2>3. Conversions(part)
          = FlattenSeq([i \in 1 .. k |-> IF IsConversion(call[i]) THEN <<call[i]>> ELSE <<>>])
    <3>1. [i \in DOMAIN part |-> IF IsConversion(part[i]) THEN <<part[i]>> ELSE <<>>]
            = [i \in 1 .. k |-> IF IsConversion(call[i]) THEN <<call[i]>> ELSE <<>>]
      BY <2>2
    <3> QED
      BY <3>1 DEF Conversions
  <2>4. SubSeq(Convs(call), 1, k)
          = [i \in 1 .. k |-> IF IsConversion(call[i]) THEN <<call[i]>> ELSE <<>>]
    <3>1. Convs(call) \in Seq(Seq(FormatPiece)) /\ Len(Convs(call)) = Len(call)
      BY CallIs
    <3>2. SubSeq(Convs(call), 1, k) = [i \in 1 .. k |-> Convs(call)[i]]
      BY <2>1, <3>1
    <3>3. \A i \in 1 .. k : Convs(call)[i] = IF IsConversion(call[i]) THEN <<call[i]>> ELSE <<>>
      BY <2>1 DEF Convs
    <3> QED
      BY <3>2, <3>3
  <2> QED
    BY <2>3, <2>4 DEF Number, Before, part
<1>2. [k \in DOMAIN call |-> IF IsConversion(call[k]) /\ Len(Conversions(SubSeq(call, 1, k))) \in hits
                             THEN Char(call[k].word) ELSE call[k].text]
        = Outs(call, hits)
  <2>1. DOMAIN call = 1 .. Len(call)
    BY CallIs
  <2> QED
    BY <1>1, <2>1 DEF Outs, Out
<1>3. Expected(call, hits) = FlattenSeq(Outs(call, hits))
  BY <1>2 DEF Expected
<1>4. Outs(call, hits) \in Seq(Seq(Character)) /\ Len(Outs(call, hits)) = Len(call)
  BY CallIs
<1> QED
  BY <1>3, <1>4, BeforeSteps

(* A later piece has no fewer conversions in front of it. *)
LEMMA NumbersGrow ==
  ASSUME NEW call \in Call, NEW k \in 0 .. Len(call), NEW j \in 0 .. k
  PROVE  Number(call, j) <= Number(call, k)
<1>1. Len(call) \in Nat
  BY CallIs
<1>2. \A m \in 0 .. Len(call) : Number(call, m) \in Nat
  <2>1. ASSUME NEW m \in 1 .. Len(call)
        PROVE  Number(call, m) \in Nat
    BY NumberIs
  <2> QED
    BY <1>1, <2>1, NumberOfNone
<1> DEFINE Good == {i \in Nat : j + i <= Len(call) => Number(call, j) <= Number(call, j + i)}
<1>3. Good \in SUBSET Nat /\ 0 \in Good
  <2>1. j \in 0 .. Len(call) /\ j + 0 = j
    BY <1>1
  <2> QED
    BY <1>2, <2>1
<1>4. ASSUME NEW i \in Good
      PROVE  i + 1 \in Good
  <2>1. i \in Nat /\ i + 1 \in Nat /\ j \in Nat
    OBVIOUS
  <2> SUFFICES ASSUME j + (i + 1) <= Len(call)
               PROVE  Number(call, j) <= Number(call, j + (i + 1))
    BY <2>1
  <2> DEFINE m == j + (i + 1)
  <2>2. /\ m \in 1 .. Len(call) /\ m - 1 = j + i /\ j + i <= Len(call)
        /\ m - 1 \in 0 .. Len(call) /\ j \in 0 .. Len(call)
    BY <1>1, <2>1
  <2>3. Number(call, j) <= Number(call, j + i)
    BY <2>2
  <2> HIDE DEF m
  <2>4. Number(call, m) = Number(call, m - 1) \/ Number(call, m) = Number(call, m - 1) + 1
    <3>1. /\ Number(call, m) = Number(call, m - 1) + (IF IsConversion(call[m]) THEN 1 ELSE 0)
          /\ Number(call, m - 1) \in Nat
      BY <2>2, NumberIs
    <3> QED
      BY <3>1
  <2>5. Number(call, m - 1) \in Nat /\ Number(call, j) \in Nat
    BY <1>2, <2>2
  <2> DEFINE a == Number(call, j)
             b == Number(call, m - 1)
             c == Number(call, m)
  <2>6. a \in Nat /\ b \in Nat /\ a <= b /\ (c = b \/ c = b + 1)
    BY <2>2, <2>3, <2>4, <2>5
  <2> HIDE DEF a, b, c
  <2>7. a <= c
    BY ONLY <2>6
  <2> QED
    BY <2>7 DEF a, c, m
<1>5. k - j \in Good
  <2>1. k - j \in Nat
    BY <1>1
  <2> HIDE DEF Good
  <2> QED
    BY <1>3, <1>4, <2>1, Inductive
<1>6. j + (k - j) = k /\ k <= Len(call)
  BY <1>1
<1> QED
  BY <1>5, <1>6

(* What may be in a call at the k-th piece. *)
LEMMA PartsAre ==
  ASSUME NEW call \in Call, NEW hits, NEW k \in 1 .. Len(call) + 1
  PROVE  /\ Before(Outs(call, hits), k - 1) \in Seq(Character)
         /\ SubSeq(Conversions(call), Number(call, k - 1) + 1, Len(Conversions(call))) \in Seq(FormatPiece)
         /\ Number(call, k - 1) \in Nat
         /\ Len(Before(Fmts(call), k - 1)) \in Nat
<1>1. /\ call \in Seq(FormatPiece) /\ Len(call) \in Nat
      /\ Fmts(call) \in Seq(Seq(Character)) /\ Len(Fmts(call)) = Len(call)
      /\ Convs(call) \in Seq(Seq(FormatPiece)) /\ Len(Convs(call)) = Len(call)
      /\ Outs(call, hits) \in Seq(Seq(Character)) /\ Len(Outs(call, hits)) = Len(call)
  BY CallIs
<1>2. k - 1 \in 0 .. Len(call)
  BY <1>1
<1>3. /\ Before(Outs(call, hits), k - 1) \in Seq(Character)
      /\ Before(Fmts(call), k - 1) \in Seq(Character)
      /\ Before(Convs(call), k - 1) \in Seq(FormatPiece)
      /\ Before(Convs(call), Len(call)) \in Seq(FormatPiece)
      /\ FlattenSeq(Convs(call)) = Before(Convs(call), Len(call))
  <2>1. Len(call) \in 0 .. Len(call)
    BY <1>1
  <2>2. Before(Outs(call, hits), k - 1) \in Seq(Character)
    BY <1>1, <1>2, BeforeSteps
  <2>3. Before(Fmts(call), k - 1) \in Seq(Character)
    BY <1>1, <1>2, BeforeSteps
  <2> QED
    BY <1>1, <1>2, <2>1, <2>2, <2>3, BeforeSteps
<1>4. Conversions(call) \in Seq(FormatPiece)
  BY <1>3 DEF Conversions, Convs
<1>5. Number(call, k - 1) \in Nat
  BY <1>3, LenProperties DEF Number
<1>6. SubSeq(Conversions(call), Number(call, k - 1) + 1, Len(Conversions(call))) \in Seq(FormatPiece)
  <2> DEFINE c == Conversions(call)
             m == Number(call, k - 1) + 1
  <2>1. c \in Seq(FormatPiece) /\ m \in Nat \ {0} /\ Len(c) \in Nat
    BY <1>4, <1>5
  <2> HIDE DEF c, m
  <2>2. SubSeq(c, m, Len(c)) \in Seq(FormatPiece)
    BY ONLY <2>1
  <2> QED
    BY <2>2 DEF c, m
<1> QED
  BY <1>3, <1>5, <1>6, LenProperties

(* The current piece gives the current character. *)
LEMMA CharacterIs ==
  ASSUME CallTypes, CallInv, pi.at # "idle", pi.i <= Len(Fmt),
         NEW k \in 1 .. Len(pi.call) + 1, AtPiece(k)
  PROVE  /\ k \in 1 .. Len(pi.call) /\ pi.call[k] \in FormatPiece
         /\ pi.state = "normal" => C = pi.call[k].fmt[1]
         /\ pi.state = "format" => C = pi.call[k].fmt[2]
<1> DEFINE call == pi.call
<1>1. call \in Call /\ pi.i \in Nat /\ pi.state \in {"normal", "format"}
  BY DEF CallInv, CallTypes
<1> HIDE DEF call
<1>2. Len(call) \in Nat /\ \A j \in 1 .. Len(call) : call[j] \in FormatPiece
  BY <1>1, CallIs
<1>3. pi.i = Len(Before(Fmts(call), k - 1)) + (IF pi.state = "format" THEN 2 ELSE 1)
  BY DEF AtPiece, call
<1>4. pi.i <= Len(Format(call))
  BY DEF Fmt, call
<1>5. k # Len(call) + 1
  <2> SUFFICES ASSUME k = Len(call) + 1
               PROVE  FALSE
    OBVIOUS
  <2>1. k - 1 = Len(call)
    BY <1>2
  <2>2. Len(Before(Fmts(call), k - 1)) = Len(Format(call)) /\ Len(Format(call)) \in Nat
    BY <1>1, <2>1, FormatEnds
  <2> DEFINE m == Len(Format(call))
  <2>3. m \in Nat /\ pi.i <= m /\ (pi.i = m + 1 \/ pi.i = m + 2)
    BY <1>3, <1>4, <2>2
  <2> HIDE DEF m
  <2> QED
    BY <2>3
<1>6. k \in 1 .. Len(call)
  BY <1>2, <1>5 DEF call
<1>7. /\ Len(Before(Fmts(call), k - 1)) \in Nat
      /\ \A j \in 1 .. Len(call[k].fmt) :
           Format(call)[Len(Before(Fmts(call), k - 1)) + j] = call[k].fmt[j]
  BY <1>1, <1>6, FormatIs
<1>8. call[k] \in FormatPiece
  BY <1>2, <1>6
<1>9. ASSUME pi.state = "normal"
      PROVE  C = call[k].fmt[1]
  <2>1. 1 \in 1 .. Len(call[k].fmt)
    BY <1>8, PieceIs
  <2>2. pi.i = Len(Before(Fmts(call), k - 1)) + 1
    BY <1>3, <1>9
  <2> QED
    BY <1>7, <2>1, <2>2 DEF C, Fmt, call
<1>10. ASSUME pi.state = "format"
       PROVE  C = call[k].fmt[2]
  <2>1. IsConversion(call[k])
    BY <1>10 DEF AtPiece, call
  <2>2. 2 \in 1 .. Len(call[k].fmt)
    BY <1>8, <2>1, PieceIs
  <2>3. pi.i = Len(Before(Fmts(call), k - 1)) + 2
    BY <1>3, <1>10
  <2> QED
    BY <1>7, <2>2, <2>3 DEF C, Fmt, call
<1> QED
  BY <1>6, <1>8, <1>9, <1>10 DEF call

(* What a character other than a percent sign is printed as. *)
LEMMA PrintableIs ==
  /\ Printable(Percent) = "format"
  /\ \A c \in Character \ {Percent} : Printable(c) \in {"char", "not"}
  /\ \A c \in {100, 99, 115, 88, 120} : Printable(c) = "char"
<1>1. Printable(Percent) = "format"
  BY DEF Printable, Percent, NewLine
<1>2. ASSUME NEW c \in Character \ {Percent}
      PROVE  Printable(c) \in {"char", "not"}
  <2>1. CASE c = NewLine
    BY <2>1 DEF Printable, NewLine, Percent
  <2>2. CASE c # NewLine /\ c \in 32 .. 126 \ {Percent}
    BY <2>2 DEF Printable
  <2>3. CASE c # NewLine /\ c \notin 32 .. 126 \ {Percent}
    BY <2>3 DEF Printable
  <2> QED
    BY <2>1, <2>2, <2>3
<1>3. ASSUME NEW c \in {100, 99, 115, 88, 120}
      PROVE  Printable(c) = "char"
  <2>1. c # Percent /\ c # NewLine /\ c \in 32 .. 126 \ {Percent}
    BY DEF Percent, NewLine
  <2> QED
    BY <2>1 DEF Printable
<1> QED
  BY <1>1, <1>2, <1>3

(* Every letter of a conversion chooses one. *)
LEMMA ChosenIs ==
  \A c \in {100, 99, 115, 88, 120} : Chosen(c) \in {"int", "char", "str", "hex"}
<1>1. Chosen(100) = "int"
  BY DEF Chosen
<1>2. Chosen(99) = "char"
  BY DEF Chosen
<1>3. Chosen(115) = "str"
  BY DEF Chosen
<1>4. Chosen(88) = "hex"
  BY DEF Chosen
<1>5. Chosen(120) = "hex"
  BY DEF Chosen
<1> QED
  BY <1>1, <1>2, <1>3, <1>4, <1>5

(* The types follow from the place in the call. *)
LEMMA TypesAt ==
  ASSUME pi' \in [at : {"idle", "read", "call"}, call : {pi'.call}, i : {pi'.i}, args : {pi'.args},
                  state : {"normal", "format"}, buf : {pi'.buf}, hits : {pi'.hits}],
         pi'.at # "idle", pi'.call \in Call, NEW k \in 1 .. Len(pi'.call) + 1, AtPiece(k)',
         pending' \in Seq([conversion : Conversion, text : Seq(Character)]),
         parse' \in Conversion \cup {"none"}
  PROVE  CallTypes'
<1> DEFINE call == pi'.call
<1>1. call \in Call /\ call \in Seq(FormatPiece) /\ Len(call) \in Nat /\ k \in 1 .. Len(call) + 1
  BY CallIs
<1>2. /\ pi'.i = Len(Before(Fmts(call), k - 1)) + (IF pi'.state = "format" THEN 2 ELSE 1)
      /\ pi'.args = SubSeq(Conversions(call), Number(call, k - 1) + 1, Len(Conversions(call)))
      /\ pi'.buf = Before(Outs(call, pi'.hits), k - 1)
  BY DEF AtPiece
<1>3. pi'.hits \in SUBSET Nat
  <2>1. CASE pi'.at = "read"
    <3>1. pi'.hits \subseteq 1 .. Number(call, k - 1)
      BY <2>1 DEF AtPiece
    <3> QED
      BY <3>1
  <2>2. CASE pi'.at = "call"
    <3>1. pi'.hits \subseteq 1 .. Number(call, k)
      BY <2>2 DEF AtPiece
    <3> QED
      BY <3>1
  <2> QED
    BY <2>1, <2>2
<1> HIDE DEF call
<1>4. pi'.buf \in Seq(Character) /\ pi'.args \in Seq(FormatPiece) /\ pi'.i \in Nat
  <2>1. /\ Before(Outs(call, pi'.hits), k - 1) \in Seq(Character)
        /\ SubSeq(Conversions(call), Number(call, k - 1) + 1, Len(Conversions(call))) \in Seq(FormatPiece)
        /\ Len(Before(Fmts(call), k - 1)) \in Nat
    BY <1>1, PartsAre
  <2> QED
    BY <1>2, <2>1
<1>5. pi' \in [at : {"idle", "read", "call"}, call : Seq(FormatPiece), i : Nat, args : Seq(FormatPiece),
               state : {"normal", "format"}, buf : Seq(Character), hits : SUBSET Nat]
  BY <1>1, <1>3, <1>4 DEF call
<1> QED
  BY <1>5 DEF CallTypes

(* A piece that is a character of the format is passed in one step, and    *)
(* adds its text.                                                          *)
LEMMA PassCharacter ==
  ASSUME TextsRight, CallTypes, CallInv, Reads,
         pi.state = "normal", Printable(C) \in {"char", "not"},
         pi' = [pi EXCEPT !.i = @ + 1,
                          !.buf = IF Printable(C) = "char" THEN Append(@, C) ELSE @],
         UNCHANGED <<parse, pending>>
  PROVE  CallTypes' /\ CallInv'
<1> DEFINE call == pi.call
           hits == pi.hits
<1>1. PICK k \in 1 .. Len(call) + 1 : AtPiece(k)
  BY DEF CallInv, Reads
<1>2. call \in Call /\ pi.at = "read" /\ pi.i \in Nat /\ pi.buf \in Seq(Character)
  BY DEF CallInv, CallTypes, Reads
<1>3. k \in 1 .. Len(call) /\ call[k] \in FormatPiece /\ C = call[k].fmt[1]
  BY <1>1, CharacterIs DEF Reads
<1>4. ~ IsConversion(call[k]) /\ Len(call[k].fmt) = 1 /\ call[k].fmt = <<C>>
  <2>1. ~ IsConversion(call[k])
    BY <1>3, PieceIs, PrintableIs
  <2>2. call[k].fmt \in Seq(Character) /\ Len(call[k].fmt) = 1
    BY <1>3, <2>1, PieceIs
  <2>3. call[k].fmt = <<call[k].fmt[1]>>
    BY <2>2
  <2> QED
    BY <1>3, <2>1, <2>2, <2>3
<1>5. Out(call, hits, k) = IF Printable(C) = "char" THEN <<C>> ELSE <<>>
  <2>1. call[k].text = IF Printable(call[k].fmt[1]) = "char" THEN call[k].fmt ELSE <<>>
    BY <1>2, <1>3, <1>4, CallIs DEF TextsRight
  <2> QED
    BY <1>3, <1>4, <2>1 DEF Out
<1>6. /\ pi'.at = "read" /\ pi'.call = call /\ pi'.i = pi.i + 1 /\ pi'.args = pi.args
      /\ pi'.state = "normal" /\ pi'.hits = hits
      /\ pi'.buf = IF Printable(C) = "char" THEN Append(pi.buf, C) ELSE pi.buf
      /\ parse' = parse /\ pending' = pending
  BY <1>2 DEF CallTypes
<1>7. pi'.buf = Before(Outs(call, hits), k)
  <2>1. pi.buf = Before(Outs(call, hits), k - 1)
    BY <1>1 DEF AtPiece
  <2>2. /\ Outs(call, hits) \in Seq(Seq(Character)) /\ Len(Outs(call, hits)) = Len(call)
        /\ DOMAIN call = 1 .. Len(call)
    BY <1>2, CallIs
  <2>3. Before(Outs(call, hits), k) = Before(Outs(call, hits), k - 1) \o Outs(call, hits)[k]
    BY <1>3, <2>2, BeforeSteps
  <2>4. Outs(call, hits)[k] = Out(call, hits, k)
    BY <1>3, <2>2 DEF Outs
  <2>5. C \in Character
    BY <1>3, <1>4, PieceIs
  <2> DEFINE b == pi.buf
             c == C
  <2>6. b \in Seq(Character) /\ c \in Character
    BY <1>2, <2>5
  <2> HIDE DEF b, c
  <2>7. b \o <<c>> = Append(b, c) /\ b \o <<>> = b
    BY ONLY <2>6
  <2> QED
    BY <1>5, <1>6, <2>1, <2>3, <2>4, <2>7 DEF b, c
<1>8. Len(Before(Fmts(call), k)) = Len(Before(Fmts(call), k - 1)) + 1
      /\ Len(Before(Fmts(call), k - 1)) \in Nat
  BY <1>2, <1>3, <1>4, FormatIs
<1>9. Number(call, k) = Number(call, k - 1) /\ Number(call, k - 1) \in Nat
  BY <1>2, <1>3, <1>4, NumberIs
<1>10. k + 1 \in 1 .. Len(call) + 1 /\ (k + 1) - 1 = k /\ Len(call) \in Nat
  BY <1>2, <1>3, CallIs
<1> HIDE DEF call, hits
<1>11. AtPiece(k + 1)'
  <2>1. pi'.i = Len(Before(Fmts(call), (k + 1) - 1)) + (IF pi'.state = "format" THEN 2 ELSE 1)
    <3>1. pi.i = Len(Before(Fmts(call), k - 1)) + 1
      BY <1>1 DEF AtPiece, call
    <3> QED
      BY <1>6, <1>8, <1>10, <3>1
  <2>2. pi'.args = SubSeq(Conversions(call), Number(call, (k + 1) - 1) + 1, Len(Conversions(call)))
    <3>1. pi.args = SubSeq(Conversions(call), Number(call, k - 1) + 1, Len(Conversions(call)))
      BY <1>1 DEF AtPiece, call
    <3> QED
      BY <1>6, <1>9, <1>10, <3>1
  <2>3. pi'.buf = Before(Outs(call, hits), (k + 1) - 1)
    BY <1>7, <1>10
  <2>4. hits \subseteq 1 .. Number(call, (k + 1) - 1)
    <3>1. hits \subseteq 1 .. Number(call, k - 1)
      BY <1>1, <1>2 DEF AtPiece, call, hits
    <3> QED
      BY <1>9, <1>10, <3>1
  <2> QED
    BY <1>6, <2>1, <2>2, <2>3, <2>4 DEF AtPiece
<1>12. CallTypes'
  <2>1. pi' \in [at : {"idle", "read", "call"}, call : {pi'.call}, i : {pi'.i}, args : {pi'.args},
                 state : {"normal", "format"}, buf : {pi'.buf}, hits : {pi'.hits}]
    BY <1>6 DEF CallTypes
  <2> QED
    BY <1>2, <1>6, <1>10, <1>11, <2>1, TypesAt DEF CallTypes
<1>13. CallInv'
  BY <1>2, <1>6, <1>10, <1>11 DEF CallInv
<1> QED
  BY <1>12, <1>13

(* A percent sign leads into a conversion. *)
LEMMA CallFormatMark ==
  ASSUME CallTypes, CallInv, FormatMark
  PROVE  CallTypes' /\ CallInv'
<1> DEFINE call == pi.call
<1>1. PICK k \in 1 .. Len(call) + 1 : AtPiece(k)
  BY DEF CallInv, FormatMark, Reads
<1>2. /\ call \in Call /\ pi.at = "read" /\ pi.i \in Nat /\ pi.state = "normal"
      /\ Printable(C) = "format"
  BY DEF CallInv, CallTypes, FormatMark, Reads
<1>3. k \in 1 .. Len(call) /\ call[k] \in FormatPiece /\ C = call[k].fmt[1]
  BY <1>1, <1>2, CharacterIs DEF FormatMark, Reads
<1>4. IsConversion(call[k])
  <2> SUFFICES ASSUME ~ IsConversion(call[k])
               PROVE  FALSE
    OBVIOUS
  <2>1. call[k].fmt \in Seq(Character) /\ Len(call[k].fmt) = 1 /\ call[k].fmt[1] # Percent
    BY <1>3, PieceIs
  <2>2. call[k].fmt[1] \in Character
    BY <2>1
  <2> QED
    BY <1>2, <1>3, <2>1, <2>2, PrintableIs
<1>5. /\ pi'.at = "read" /\ pi'.call = call /\ pi'.i = pi.i + 1 /\ pi'.args = pi.args
      /\ pi'.state = "format" /\ pi'.hits = pi.hits /\ pi'.buf = pi.buf
      /\ parse' = parse /\ pending' = pending
  BY <1>2 DEF CallTypes, FormatMark
<1>6. AtPiece(k)'
  <2>1. pi.i = Len(Before(Fmts(call), k - 1)) + 1 /\ Len(Before(Fmts(call), k - 1)) \in Nat
    BY <1>1, <1>2, PartsAre DEF AtPiece
  <2>2. pi'.i = Len(Before(Fmts(call), k - 1)) + 2
    BY <1>5, <2>1
  <2>3. k <= Len(call)
    BY <1>3
  <2> QED
    BY <1>1, <1>2, <1>4, <1>5, <2>2, <2>3 DEF AtPiece
<1>7. CallTypes'
  <2>1. pi' \in [at : {"idle", "read", "call"}, call : {pi'.call}, i : {pi'.i}, args : {pi'.args},
                 state : {"normal", "format"}, buf : {pi'.buf}, hits : {pi'.hits}]
    BY <1>5 DEF CallTypes, FormatMark
  <2> QED
    BY <1>1, <1>2, <1>5, <1>6, <2>1, TypesAt DEF CallTypes
<1>8. CallInv'
  BY <1>1, <1>2, <1>5, <1>6 DEF CallInv
<1> QED
  BY <1>7, <1>8

(* The letter of a conversion chooses it, and nothing is called yet. *)
LEMMA CallChoose ==
  ASSUME CallTypes, CallInv, Choose
  PROVE  CallTypes' /\ CallInv'
<1> DEFINE call == pi.call
<1>1. PICK k \in 1 .. Len(call) + 1 : AtPiece(k)
  BY DEF CallInv, Choose, Reads
<1>2. /\ call \in Call /\ pi.at = "read" /\ pi.i \in Nat /\ pi.state = "format" /\ pending = <<>>
  BY DEF CallInv, CallTypes, Choose, Reads, Runs
<1>3. k \in 1 .. Len(call) /\ call[k] \in FormatPiece /\ C = call[k].fmt[2] /\ IsConversion(call[k])
  <2>1. k \in 1 .. Len(call) /\ call[k] \in FormatPiece /\ C = call[k].fmt[2]
    BY <1>1, <1>2, CharacterIs DEF Choose, Reads
  <2> QED
    BY <1>1, <1>2, <2>1 DEF AtPiece
<1>4. C \in {100, 99, 115, 88, 120}
  BY <1>3, PieceIs
<1>5. /\ pi'.at = "call" /\ pi'.call = call /\ pi'.i = pi.i /\ pi'.args = pi.args
      /\ pi'.state = "format" /\ pi'.hits = pi.hits /\ pi'.buf = pi.buf
      /\ parse' = Chosen(C) /\ pending' = pending
  BY <1>2 DEF CallTypes, Choose
<1>6. Number(call, k) = Number(call, k - 1) + 1 /\ Number(call, k - 1) \in Nat
  BY <1>2, <1>3, NumberIs
<1>7. AtPiece(k)'
  <2>1. pi.hits \subseteq 1 .. Number(call, k - 1)
    BY <1>1, <1>2 DEF AtPiece
  <2>2. pi.hits \subseteq 1 .. Number(call, k) /\ Number(call, k) \notin pi.hits
    BY <1>6, <2>1
  <2> QED
    BY <1>1, <1>2, <1>3, <1>5, <2>2 DEF AtPiece
<1>8. CallTypes'
  <2>1. pi' \in [at : {"idle", "read", "call"}, call : {pi'.call}, i : {pi'.i}, args : {pi'.args},
                 state : {"normal", "format"}, buf : {pi'.buf}, hits : {pi'.hits}]
    BY <1>5 DEF CallTypes, Choose
  <2>2. parse' \in Conversion \cup {"none"}
    BY <1>4, <1>5, ChosenIs DEF Conversion
  <2> QED
    BY <1>1, <1>2, <1>5, <1>7, <2>1, <2>2, TypesAt DEF CallTypes
<1>9. CallInv'
  BY <1>1, <1>2, <1>5, <1>7 DEF CallInv
<1> QED
  BY <1>8, <1>9

(* A call begins at its first piece. *)
LEMMA CallBegin ==
  ASSUME CallTypes, CallInv, NEW call \in Call, Begin(call)
  PROVE  CallTypes' /\ CallInv'
<1>1. /\ pi'.at = "read" /\ pi'.call = call /\ pi'.i = 1 /\ pi'.args = Conversions(call)
      /\ pi'.state = "normal" /\ pi'.hits = {} /\ pi'.buf = <<>>
      /\ parse' = parse /\ pending' = pending
  BY DEF Begin, NoCall
<1>2. /\ call \in Seq(FormatPiece) /\ Len(call) \in Nat
      /\ Fmts(call) \in Seq(Seq(Character)) /\ Convs(call) \in Seq(Seq(FormatPiece))
      /\ Outs(call, {}) \in Seq(Seq(Character))
  BY CallIs
<1>3. 1 \in 1 .. Len(call) + 1 /\ 1 - 1 = 0
  BY <1>2
<1>4. AtPiece(1)'
  <2>1. Before(Fmts(call), 0) = <<>> /\ Before(Outs(call, {}), 0) = <<>>
    <3>1. Before(Fmts(call), 0) = <<>>
      BY <1>2, BeforeSteps
    <3> QED
      BY <1>2, <3>1, BeforeSteps
  <2>2. Number(call, 0) = 0
    BY NumberOfNone
  <2>3. Conversions(call) = SubSeq(Conversions(call), 0 + 1, Len(Conversions(call)))
    <3>1. Conversions(call) = FlattenSeq(Convs(call))
      BY DEF Conversions, Convs
    <3>2. Before(Convs(call), Len(call)) \in Seq(FormatPiece) /\ Len(Convs(call)) = Len(call)
      <4>1. Len(call) \in 0 .. Len(call) /\ Len(Convs(call)) = Len(call)
        BY <1>2, CallIs
      <4> QED
        BY <1>2, <4>1, BeforeSteps
    <3>3. Conversions(call) \in Seq(FormatPiece)
      BY <1>2, <3>1, <3>2, BeforeSteps
    <3> DEFINE c == Conversions(call)
    <3>4. c \in Seq(FormatPiece)
      BY <3>3
    <3> HIDE DEF c
    <3>5. c = SubSeq(c, 0 + 1, Len(c))
      BY ONLY <3>4
    <3> QED
      BY <3>5 DEF c
  <2>4. Len(<<>>) = 0
    OBVIOUS
  <2> QED
    BY <1>1, <1>3, <2>1, <2>2, <2>3, <2>4 DEF AtPiece
<1>5. CallTypes'
  <2>1. pi' \in [at : {"idle", "read", "call"}, call : {pi'.call}, i : {pi'.i}, args : {pi'.args},
                 state : {"normal", "format"}, buf : {pi'.buf}, hits : {pi'.hits}]
    BY <1>1 DEF Begin, NoCall
  <2> QED
    BY <1>1, <1>3, <1>4, <2>1, TypesAt DEF CallTypes
<1>6. CallInv'
  BY <1>1, <1>3, <1>4 DEF CallInv
<1> QED
  BY <1>5, <1>6

(* A conversion is called for its own argument: what was chosen, or what   *)
(* the handler has left in parse.                                          *)
LEMMA CallCallParse ==
  ASSUME TextsRight, CallTypes, CallInv, CallParse
  PROVE  CallTypes' /\ CallInv'
<1> DEFINE call == pi.call
           hits == pi.hits
           conv == Conversions(call)
<1>1. PICK k \in 1 .. Len(call) + 1 : AtPiece(k)
  BY DEF CallInv, CallParse
<1>2. /\ call \in Call /\ pi.at = "call" /\ pi.i \in Nat /\ pi.state = "format" /\ pending = <<>>
      /\ pi.buf \in Seq(Character) /\ pi.args \in Seq(FormatPiece)
  BY <1>1 DEF CallInv, CallTypes, CallParse, Runs, AtPiece
<1>3. k \in 1 .. Len(call) /\ call[k] \in FormatPiece /\ IsConversion(call[k])
  <2>1. k <= Len(call) /\ IsConversion(call[k])
    BY <1>1, <1>2 DEF AtPiece
  <2>2. Len(call) \in Nat /\ \A j \in 1 .. Len(call) : call[j] \in FormatPiece
    BY <1>2, CallIs
  <2> QED
    BY <2>1, <2>2
<1>4. /\ Number(call, k) = Number(call, k - 1) + 1 /\ Number(call, k - 1) \in Nat
      /\ Number(call, k) <= Len(conv) /\ conv \in Seq(FormatPiece) /\ conv[Number(call, k)] = call[k]
  BY <1>2, <1>3, NumberIs
<1>5. pi.args = SubSeq(conv, Number(call, k), Len(conv))
  BY <1>1, <1>4 DEF AtPiece
<1>6. Head(pi.args) = call[k] /\ Tail(pi.args) = SubSeq(conv, Number(call, k) + 1, Len(conv))
  <2> DEFINE m == Number(call, k)
             c == conv
  <2>1. c \in Seq(FormatPiece) /\ m \in Nat \ {0} /\ m <= Len(c)
    BY <1>4
  <2> HIDE DEF m, c
  <2>2. Len(c) \in Nat
    BY <2>1
  <2>3. Head(SubSeq(c, m, Len(c))) = c[m]
    BY ONLY <2>1, <2>2
  <2>4. Tail(SubSeq(c, m, Len(c))) = SubSeq(c, m + 1, Len(c))
    <3>1. /\ SubSeq(c, m, Len(c)) \in Seq(FormatPiece) /\ SubSeq(c, m + 1, Len(c)) \in Seq(FormatPiece)
          /\ Len(SubSeq(c, m, Len(c))) = Len(c) - m + 1
          /\ Len(SubSeq(c, m + 1, Len(c))) = Len(c) - m
      BY ONLY <2>1, <2>2
    <3> DEFINE s == SubSeq(c, m, Len(c))
               t == SubSeq(c, m + 1, Len(c))
    <3>2. \A j \in 1 .. Len(c) - m : s[j + 1] = c[m + j] /\ t[j] = c[m + j]
      BY ONLY <2>1, <2>2
    <3> HIDE DEF s, t
    <3>3. s \in Seq(FormatPiece) /\ t \in Seq(FormatPiece) /\ Len(s) = Len(c) - m + 1 /\ Len(t) = Len(c) - m
      BY <3>1 DEF s, t
    <3>4. /\ Tail(s) \in Seq(FormatPiece) /\ Len(Tail(s)) = Len(c) - m
          /\ \A j \in 1 .. Len(c) - m : Tail(s)[j] = s[j + 1]
      BY ONLY <2>1, <2>2, <3>3
    <3>5. Tail(s) = t
      <4> DEFINE u == Tail(s)
      <4>1. u \in Seq(FormatPiece) /\ Len(u) = Len(t) /\ \A j \in 1 .. Len(t) : u[j] = t[j]
        BY <3>2, <3>3, <3>4
      <4> HIDE DEF u
      <4>2. u = t
        BY ONLY <3>3, <4>1
      <4> QED
        BY <4>2 DEF u
    <3> QED
      BY <3>5 DEF s, t
  <2> QED
    BY <1>5, <2>3, <2>4, <1>4 DEF m, c
<1>7. Converted(parse, call[k]) = Out(call, hits, k)
  <2>1. parse = IF Number(call, k) \in hits THEN "char" ELSE Chosen(call[k].fmt[2])
    BY <1>1, <1>2 DEF AtPiece
  <2>2. call[k].text = Converted(Chosen(call[k].fmt[2]), call[k])
    BY <1>2, <1>3, CallIs DEF TextsRight
  <2>3. Converted("char", call[k]) = Char(call[k].word)
    BY DEF Converted
  <2> QED
    BY <1>3, <2>1, <2>2, <2>3 DEF Out
<1>8. /\ pi'.at = "read" /\ pi'.call = call /\ pi'.i = pi.i + 1 /\ pi'.args = Tail(pi.args)
      /\ pi'.state = "normal" /\ pi'.hits = hits
      /\ pi'.buf = pi.buf \o Converted(parse, Head(pi.args))
      /\ parse' = parse /\ pending' = pending
  BY <1>2 DEF CallTypes, CallParse
<1>9. pi'.buf = Before(Outs(call, hits), k)
  <2>1. pi.buf = Before(Outs(call, hits), k - 1)
    BY <1>1 DEF AtPiece
  <2>2. /\ Outs(call, hits) \in Seq(Seq(Character)) /\ Len(Outs(call, hits)) = Len(call)
        /\ DOMAIN call = 1 .. Len(call)
    BY <1>2, CallIs
  <2>3. Before(Outs(call, hits), k) = Before(Outs(call, hits), k - 1) \o Outs(call, hits)[k]
    BY <1>3, <2>2, BeforeSteps
  <2>4. Outs(call, hits)[k] = Out(call, hits, k)
    BY <1>3, <2>2 DEF Outs
  <2> QED
    BY <1>6, <1>7, <1>8, <2>1, <2>3, <2>4
<1>10. Len(Before(Fmts(call), k)) = Len(Before(Fmts(call), k - 1)) + 2
       /\ Len(Before(Fmts(call), k - 1)) \in Nat
  <2>1. Len(call[k].fmt) = 2
    BY <1>3, PieceIs
  <2> QED
    BY <1>2, <1>3, <2>1, FormatIs
<1>11. k + 1 \in 1 .. Len(call) + 1 /\ (k + 1) - 1 = k /\ Len(call) \in Nat
  BY <1>2, <1>3, CallIs
<1> HIDE DEF call, hits, conv
<1>12. AtPiece(k + 1)'
  <2>1. pi'.i = Len(Before(Fmts(call), (k + 1) - 1)) + (IF pi'.state = "format" THEN 2 ELSE 1)
    <3>1. pi.i = Len(Before(Fmts(call), k - 1)) + 2
      BY <1>1, <1>2 DEF AtPiece, call
    <3> QED
      BY <1>8, <1>10, <1>11, <3>1
  <2>2. pi'.args = SubSeq(Conversions(call), Number(call, (k + 1) - 1) + 1, Len(Conversions(call)))
    BY <1>6, <1>8, <1>11 DEF conv
  <2>3. pi'.buf = Before(Outs(call, hits), (k + 1) - 1)
    BY <1>9, <1>11
  <2>4. hits \subseteq 1 .. Number(call, (k + 1) - 1)
    BY <1>1, <1>2, <1>11 DEF AtPiece, call, hits
  <2> QED
    BY <1>8, <2>1, <2>2, <2>3, <2>4 DEF AtPiece
<1>13. CallTypes'
  <2>1. pi' \in [at : {"idle", "read", "call"}, call : {pi'.call}, i : {pi'.i}, args : {pi'.args},
                 state : {"normal", "format"}, buf : {pi'.buf}, hits : {pi'.hits}]
    BY <1>8 DEF CallTypes, CallParse
  <2> QED
    BY <1>2, <1>8, <1>11, <1>12, <2>1, TypesAt DEF CallTypes
<1>14. CallInv'
  BY <1>2, <1>8, <1>11, <1>12 DEF CallInv
<1> QED
  BY <1>13, <1>14

(* A call ends. *)
LEMMA CallFlushOut ==
  ASSUME CallTypes, CallInv, FlushOut
  PROVE  CallTypes' /\ CallInv'
<1>1. pi' = NoCall /\ parse' = parse /\ pending' = pending
  BY DEF FlushOut
<1>2. NoCall \in [at : {"idle", "read", "call"}, call : Seq(FormatPiece), i : Nat, args : Seq(FormatPiece),
                  state : {"normal", "format"}, buf : Seq(Character), hits : SUBSET Nat]
  BY DEF NoCall
<1>3. pi'.at = "idle"
  BY <1>1 DEF NoCall
<1> QED
  BY <1>1, <1>2, <1>3 DEF CallTypes, CallInv

(* What a key makes the handler print. *)
LEMMA AnnouncementIs ==
  ASSUME NEW key \in Key
  PROVE  LET p == Append(Announcement(key), Printing("char", Char(key.code))) IN
         /\ p \in Seq([conversion : Conversion, text : Seq(Character)])
         /\ p # <<>> /\ Len(p) \in 1 .. 2 /\ p[Len(p)].conversion = "char"
         /\ \A k \in 1 .. Len(p) : p[k].text \in Text
         /\ Len(p) = 1 => Len(p[1].text) = Echoed(key)
         /\ Len(p) = 2 => Len(p[1].text) + Len(p[2].text) = Echoed(key)
<1> DEFINE P == [conversion : Conversion, text : Seq(Character)]
           last == Printing("char", Char(key.code))
           first == Printing("str", Append(key.label, NewLine))
<1>1. /\ key.label \in Seq(Character) /\ key.code \in Nat
      /\ key.label # <<>> => Append(key.label, NewLine) \in Text
      /\ Char(key.code) \in Text
  BY KprintfAssumption
<1>2. Char(key.code) \in Seq(Character)
  BY <1>1, CharIs
<1>3. /\ last \in P /\ last.conversion = "char" /\ last.text = Char(key.code)
      /\ first.text = Append(key.label, NewLine)
  BY <1>2 DEF Printing, Conversion
<1>4. first \in P
  <2>1. NewLine \in Character
    BY DEF NewLine, Character
  <2> QED
    BY <1>1, <2>1 DEF Printing, Conversion
<1>5. CASE key.label = <<>>
  <2>1. Announcement(key) = <<>> /\ Announced(key) = 0
    BY <1>5 DEF Announcement, Announced
  <2>2. Len(Char(key.code)) \in Nat
    BY <1>2, LenProperties
  <2>3. Echoed(key) = Len(Char(key.code))
    BY <2>1, <2>2 DEF Echoed
  <2> HIDE DEF last, first, P
  <2> DEFINE p == Append(<<>>, last)
  <2>4. p \in Seq(P) /\ p # <<>> /\ Len(p) = 1 /\ p[1] = last
    BY <1>3
  <2> HIDE DEF p
  <2>5. \A k \in 1 .. Len(p) : p[k].text \in Text
    BY <1>1, <1>3, <2>4
  <2> QED
    BY <1>3, <2>1, <2>3, <2>4, <2>5 DEF p, last, P
<1>6. CASE key.label # <<>>
  <2>1. Announcement(key) = <<first>> /\ Announced(key) = Len(key.label) + 1
    BY <1>6 DEF Announcement, Announced
  <2>2. Len(Char(key.code)) \in Nat /\ Len(key.label) \in Nat
    BY <1>1, <1>2, LenProperties
  <2>3. Echoed(key) = (Len(key.label) + 1) + Len(Char(key.code))
    BY <2>1 DEF Echoed
  <2>4. Len(Append(key.label, NewLine)) = Len(key.label) + 1
    BY <1>1
  <2> HIDE DEF last, first, P
  <2> DEFINE p == Append(<<first>>, last)
  <2>5. p \in Seq(P) /\ p # <<>> /\ Len(p) = 2 /\ p[1] = first /\ p[2] = last
    BY <1>3, <1>4
  <2> HIDE DEF p
  <2>6. \A k \in 1 .. Len(p) : p[k].text \in Text
    <3>1. ASSUME NEW k \in 1 .. Len(p)
          PROVE  p[k] = first \/ p[k] = last
      BY <2>5
    <3> QED
      BY <1>1, <1>3, <1>6, <3>1
  <2>7. Len(p[1].text) + Len(p[2].text) = Echoed(key)
    BY <1>3, <2>3, <2>4, <2>5
  <2> QED
    BY <1>3, <2>1, <2>5, <2>6, <2>7 DEF p, last, P
<1> QED
  BY <1>5, <1>6

(* A key hits the conversion that is chosen and not called. *)
LEMMA CallKeyPressed ==
  ASSUME CallTypes, CallInv, NEW key \in Key, KeyPressed(key)
  PROVE  CallTypes' /\ CallInv'
<1> DEFINE call == pi.call
           hits == pi.hits
           now  == hits \cup Hit
<1>1. /\ pending' \in Seq([conversion : Conversion, text : Seq(Character)])
      /\ pending' # <<>> /\ pending'[Len(pending')].conversion = "char"
  BY AnnouncementIs DEF KeyPressed
<1>2. /\ pi'.at = pi.at /\ pi'.call = call /\ pi'.i = pi.i /\ pi'.args = pi.args
      /\ pi'.state = pi.state /\ pi'.hits = now /\ pi'.buf = pi.buf
      /\ parse' = parse /\ pending = <<>>
  BY DEF CallTypes, KeyPressed, Runs
<1>3. CASE pi.at = "idle"
  <2>1. Hit = {} /\ now = hits
    BY <1>3 DEF Hit
  <2>2. pi' = pi
    BY <2>1 DEF CallTypes, KeyPressed
  <2> QED
    BY <1>1, <1>2, <1>3, <2>2 DEF CallTypes, CallInv
<1>4. CASE pi.at # "idle"
  <2>1. PICK k \in 1 .. Len(call) + 1 : AtPiece(k)
    BY <1>4 DEF CallInv
  <2>2. call \in Call /\ pi.at \in {"read", "call"} /\ hits \in SUBSET Nat
    BY <1>4 DEF CallInv, CallTypes
  <2>3. Number(call, k - 1) \in Nat
    BY <2>1, <2>2, PartsAre
  <2>4. AtPiece(k)'
    <3>1. CASE pi.at = "read"
      <4>1. now = hits
        BY <3>1 DEF Hit
      <4> QED
        BY <1>2, <2>1, <3>1, <4>1 DEF AtPiece
    <3>2. CASE pi.at = "call"
      <4> DEFINE n == Number(call, k)
                 conv == Conversions(call)
      <4>1. k \in 1 .. Len(call) /\ IsConversion(call[k]) /\ Len(call) \in Nat
        <5>1. k <= Len(call) /\ IsConversion(call[k])
          BY <2>1, <3>2 DEF AtPiece
        <5> QED
          BY <2>2, <5>1, CallIs
      <4>2. /\ n = Number(call, k - 1) + 1 /\ n \in Nat /\ n <= Len(conv) /\ Len(conv) \in Nat
            /\ conv \in Seq(FormatPiece)
        BY <2>2, <4>1, NumberIs
      <4>3. pi.args = SubSeq(conv, n, Len(conv))
        BY <2>1, <4>2 DEF AtPiece
      <4>4. Hit = {n}
        <5>1. Hit = {Len(conv) - Len(pi.args) + 1}
          BY <3>2 DEF Hit
        <5>2. n \in Nat \ {0}
          BY <2>3, <4>2
        <5> DEFINE c == conv
                   m == n
        <5>3. c \in Seq(FormatPiece) /\ m \in Nat \ {0} /\ m <= Len(c) /\ Len(c) \in Nat
          BY <4>2, <5>2
        <5> HIDE DEF c, m
        <5>4. Len(c) - Len(SubSeq(c, m, Len(c))) + 1 = m
          BY ONLY <5>3
        <5>5. Len(conv) - Len(pi.args) + 1 = n
          BY <4>3, <5>4 DEF c, m
        <5> QED
          BY <5>1, <5>5
      <4>5. hits \subseteq 1 .. n
        BY <2>1, <3>2 DEF AtPiece
      <4>6. now \subseteq 1 .. n /\ n \in now
        <5>1. n \in 1 .. n
          BY <2>3, <4>2
        <5> QED
          BY <4>4, <4>5, <5>1
      <4>7. Before(Outs(call, now), k - 1) = Before(Outs(call, hits), k - 1)
        <5>1. /\ Outs(call, hits) \in Seq(Seq(Character)) /\ Len(Outs(call, hits)) = Len(call)
              /\ Outs(call, now) \in Seq(Seq(Character)) /\ Len(Outs(call, now)) = Len(call)
              /\ DOMAIN call = 1 .. Len(call)
          BY <2>2, CallIs
        <5>2. k - 1 \in Nat /\ k - 1 <= Len(call)
          BY <4>1
        <5>3. ASSUME NEW j \in 1 .. k - 1
              PROVE  Outs(call, now)[j] = Outs(call, hits)[j]
          <6>1. j \in 1 .. Len(call)
            BY <4>1
          <6>2. Number(call, j) # n
            <7>1. Number(call, j) <= Number(call, k - 1)
              BY <2>2, <4>1, NumbersGrow
            <7>2. Number(call, j) \in Nat
              BY <2>2, <6>1, NumberIs
            <7> QED
              BY <2>3, <4>2, <7>1, <7>2
          <6>3. Number(call, j) \in now <=> Number(call, j) \in hits
            BY <4>4, <6>2
          <6>4. Out(call, now, j) = Out(call, hits, j)
            BY <6>3 DEF Out
          <6> QED
            BY <5>1, <6>1, <6>4 DEF Outs
        <5> DEFINE s == Outs(call, now)
                   t == Outs(call, hits)
        <5>4. /\ s \in Seq(Seq(Character)) /\ t \in Seq(Seq(Character))
              /\ k - 1 <= Len(s) /\ k - 1 <= Len(t) /\ \A j \in 1 .. k - 1 : s[j] = t[j]
          BY <5>1, <5>2, <5>3
        <5> HIDE DEF s, t
        <5>5. Before(s, k - 1) = Before(t, k - 1)
          BY <5>2, <5>4, BeforeSame
        <5> QED
          BY <5>5 DEF s, t
      <4> HIDE DEF now, n, conv
      <4>8. pi'.at = "call" /\ pi'.hits = now
        BY <1>2, <3>2
      <4>9. pi'.buf = Before(Outs(pi'.call, pi'.hits), k - 1)
        BY <1>2, <2>1, <4>7 DEF AtPiece
      <4>10. pi'.hits \subseteq 1 .. Number(pi'.call, k) /\ Number(pi'.call, k) \in pi'.hits
        BY <1>2, <4>6 DEF n
      <4>11. /\ pi'.state = "format" /\ k <= Len(pi'.call) /\ IsConversion(pi'.call[k])
             /\ pi'.i = Len(Before(Fmts(pi'.call), k - 1)) + (IF pi'.state = "format" THEN 2 ELSE 1)
             /\ pi'.args = SubSeq(Conversions(pi'.call), Number(pi'.call, k - 1) + 1,
                                  Len(Conversions(pi'.call)))
        BY <1>2, <2>1, <3>2 DEF AtPiece
      <4> QED
        BY <1>1, <4>8, <4>9, <4>10, <4>11 DEF AtPiece
    <3> QED
      BY <2>2, <3>1, <3>2
  <2>5. CallTypes'
    <3>1. pi' \in [at : {"idle", "read", "call"}, call : {pi'.call}, i : {pi'.i}, args : {pi'.args},
                   state : {"normal", "format"}, buf : {pi'.buf}, hits : {pi'.hits}]
      BY <1>2 DEF CallTypes, KeyPressed
    <3> QED
      BY <1>1, <1>2, <1>4, <2>1, <2>2, <2>4, <3>1, TypesAt DEF CallTypes
  <2>6. CallInv'
    BY <1>1, <1>2, <2>1, <2>2, <2>4 DEF CallInv
  <2> QED
    BY <2>5, <2>6
<1> QED
  BY <1>3, <1>4

(* When the handler is done, the conversion it has left is that of a       *)
(* character.                                                              *)
LEMMA CallHandlerPrints ==
  ASSUME CallTypes, CallInv, HandlerPrints
  PROVE  CallTypes' /\ CallInv'
<1>1. /\ pending # <<>> /\ parse' = pending[1].conversion /\ pending' = Tail(pending) /\ pi' = pi
      /\ pending \in Seq([conversion : Conversion, text : Seq(Character)])
      /\ pending[Len(pending)].conversion = "char"
  BY DEF CallTypes, CallInv, HandlerPrints
<1> DEFINE P == [conversion : Conversion, text : Seq(Character)]
           p == pending
<1>2. p \in Seq(P) /\ p # <<>>
  BY <1>1
<1> HIDE DEF P, p
<1>3. /\ p[1] \in P /\ Tail(p) \in Seq(P) /\ Len(p) \in Nat \ {0}
      /\ Tail(p) = <<>> <=> Len(p) = 1
      /\ Len(p) > 1 => Tail(p)[Len(Tail(p))] = p[Len(p)]
  <2>1. Len(p) \in Nat \ {0}
    BY ONLY <1>2
  <2>2. p[1] \in P /\ Tail(p) \in Seq(P) /\ Len(Tail(p)) = Len(p) - 1
    BY ONLY <1>2, <2>1
  <2>3. Tail(p) = <<>> <=> Len(p) = 1
    <3> DEFINE t == Tail(p)
    <3>1. t \in Seq(P) /\ Len(t) = Len(p) - 1
      BY <2>2
    <3> HIDE DEF t
    <3>2. t = <<>> <=> Len(t) = 0
      BY <3>1, EmptySeq
    <3> QED
      BY ONLY <2>1, <3>1, <3>2 DEF t
  <2>4. Len(p) > 1 => Tail(p)[Len(Tail(p))] = p[Len(p)]
    BY ONLY <1>2, <2>1, <2>2
  <2> QED
    BY <2>1, <2>2, <2>3, <2>4
<1>4. pending' = <<>> => parse' = "char"
  BY <1>1, <1>3 DEF p
<1>5. pending' # <<>> => pending'[Len(pending')].conversion = "char"
  <2> SUFFICES ASSUME Len(p) > 1
               PROVE  pending'[Len(pending')].conversion = "char"
    BY <1>1, <1>3 DEF p
  <2> QED
    BY <1>1, <1>3 DEF p
<1>8. CallTypes'
  <2>1. p[1].conversion \in Conversion
    BY <1>3 DEF P
  <2> QED
    BY <1>1, <1>3, <2>1 DEF CallTypes, P, p
<1>6. ASSUME pi.at # "idle"
      PROVE  \E k \in 1 .. Len(pi.call) + 1 : AtPiece(k)'
  <2>1. PICK k \in 1 .. Len(pi.call) + 1 : AtPiece(k)
    BY <1>6 DEF CallInv
  <2>2. AtPiece(k)'
    BY <1>1, <1>4, <2>1 DEF AtPiece
  <2> QED
    BY <2>2
<1>7. CallInv'
  BY <1>1, <1>5, <1>6 DEF CallInv
<1> QED
  BY <1>7, <1>8

(* No step disturbs the calls. *)
LEMMA CallStep ==
  ASSUME TextsRight, CallTypes, CallInv, [KprintfNext]_kprintfVars
  PROVE  CallTypes' /\ CallInv'
<1>1. ASSUME UNCHANGED <<parse, pi, pending>>
      PROVE  CallTypes' /\ CallInv'
  <2>1. \A k : AtPiece(k)' <=> AtPiece(k)
    BY <1>1 DEF AtPiece
  <2> QED
    BY <1>1, <2>1 DEF CallTypes, CallInv
<1>2. ASSUME NEW call \in Call, Begin(call)
      PROVE  CallTypes' /\ CallInv'
  BY <1>2, CallBegin
<1>3. CASE Skip
  <2> SUFFICES ASSUME pi.state = "normal"
               PROVE  CallTypes' /\ CallInv'
    <3> SUFFICES ASSUME pi.state = "format"
                 PROVE  FALSE
      BY DEF CallTypes
    <3>1. PICK k \in 1 .. Len(pi.call) + 1 : AtPiece(k)
      BY <1>3 DEF CallInv, Skip, Reads
    <3>2. C = pi.call[k].fmt[2] /\ pi.call[k] \in FormatPiece /\ IsConversion(pi.call[k])
      BY <1>3, <3>1, CharacterIs DEF Skip, Reads, AtPiece
    <3>3. Printable(C) = "char"
      BY <3>2, PieceIs, PrintableIs
    <3> QED
      BY <1>3, <3>3 DEF Skip
  <2>1. Reads /\ Printable(C) = "not" /\ UNCHANGED <<parse, pending>>
    BY <1>3 DEF Skip
  <2>2. pi' = [pi EXCEPT !.i = @ + 1, !.buf = IF Printable(C) = "char" THEN Append(@, C) ELSE @]
    BY <1>3, <2>1 DEF Skip, CallTypes
  <2> QED
    BY <2>1, <2>2, PassCharacter
<1>4. CASE Copy
  <2>1. Reads /\ Printable(C) = "char" /\ pi.state = "normal" /\ UNCHANGED <<parse, pending>>
    BY <1>4 DEF Copy
  <2>2. pi' = [pi EXCEPT !.i = @ + 1, !.buf = IF Printable(C) = "char" THEN Append(@, C) ELSE @]
    BY <1>4, <2>1 DEF Copy
  <2> QED
    BY <2>1, <2>2, PassCharacter
<1>5. CASE FormatMark
  BY <1>5, CallFormatMark
<1>6. CASE Choose
  BY <1>6, CallChoose
<1>7. CASE CallParse
  BY <1>7, CallCallParse
<1>8. CASE FlushOut
  BY <1>8, CallFlushOut
<1>9. ASSUME NEW key \in Key, KeyPressed(key)
      PROVE  CallTypes' /\ CallInv'
  BY <1>9, CallKeyPressed
<1>10. CASE HandlerPrints
  BY <1>10, CallHandlerPrints
<1>11. CASE Direct
  BY <1>1, <1>11 DEF Direct
<1>12. CASE UNCHANGED kprintfVars
  BY <1>1, <1>12 DEF kprintfVars
<1> QED
  BY <1>2, <1>3, <1>4, <1>5, <1>6, <1>7, <1>8, <1>9, <1>10, <1>11, <1>12 DEF KprintfNext

(* At first there is no call. *)
LEMMA CallStarts ==
  ASSUME KprintfInit
  PROVE  CallTypes /\ CallInv
<1>1. NoCall \in [at : {"idle", "read", "call"}, call : Seq(FormatPiece), i : Nat, args : Seq(FormatPiece),
                  state : {"normal", "format"}, buf : Seq(Character), hits : SUBSET Nat]
  BY DEF NoCall
<1>2. pi = NoCall /\ parse = "none" /\ pending = <<>> /\ pi.at = "idle"
  BY DEF KprintfInit, NoCall
<1> QED
  BY <1>1, <1>2 DEF CallTypes, CallInv

(* At the end of the format, all of it is in the buffer. *)
LEMMA CallEnds ==
  ASSUME CallTypes, CallInv, pi.at = "read", pi.i > Len(Fmt)
  PROVE  /\ pi.buf = Expected(pi.call, pi.hits) /\ pi.call \in Call
         /\ pi.hits \in SUBSET (1 .. Len(Conversions(pi.call)))
<1> DEFINE call == pi.call
           n == Len(call)
<1>1. PICK k \in 1 .. n + 1 : AtPiece(k)
  BY DEF CallInv
<1>2. call \in Call /\ n \in Nat
  BY CallIs DEF CallInv
<1>3. pi.hits \subseteq 1 .. Number(call, k - 1) /\ pi.buf = Before(Outs(call, pi.hits), k - 1)
  BY <1>1 DEF AtPiece
<1>4. k = n + 1
  <2> SUFFICES ASSUME k \in 1 .. n
               PROVE  FALSE
    BY <1>2
  <2>1. /\ Len(Before(Fmts(call), k - 1)) \in Nat
        /\ Len(Before(Fmts(call), k)) = Len(Before(Fmts(call), k - 1)) + Len(call[k].fmt)
        /\ Len(Before(Fmts(call), k)) <= Len(Format(call))
        /\ Len(Format(call)) \in Nat
    BY <1>2, FormatIs, FormatEnds
  <2>2. call[k] \in FormatPiece
    BY <1>2, CallIs
  <2>3. /\ Len(call[k].fmt) \in 1 .. 2
        /\ pi.state = "format" => Len(call[k].fmt) = 2
    BY <1>1, <2>2, PieceIs DEF AtPiece
  <2>4. pi.i = Len(Before(Fmts(call), k - 1)) + (IF pi.state = "format" THEN 2 ELSE 1)
    BY <1>1 DEF AtPiece
  <2>5. pi.i > Len(Format(call))
    BY DEF Fmt
  <2> DEFINE a == Len(Before(Fmts(call), k - 1))
             b == Len(Before(Fmts(call), k))
             c == Len(Format(call))
             m == Len(call[k].fmt)
  <2>6. /\ a \in Nat /\ c \in Nat /\ b = a + m /\ b <= c /\ m \in 1 .. 2
        /\ pi.i > c /\ ((pi.i = a + 2 /\ m = 2) \/ pi.i = a + 1)
    BY <2>1, <2>3, <2>4, <2>5
  <2> HIDE DEF a, b, c, m
  <2> QED
    BY ONLY <2>6
<1>5. k - 1 = n
  BY <1>2, <1>4
<1>6. pi.buf = Expected(call, pi.hits)
  BY <1>2, <1>3, <1>5, ExpectedIs
<1>7. Number(call, n) = Len(Conversions(call))
  <2>1. Convs(call) \in Seq(Seq(FormatPiece)) /\ Len(Convs(call)) = n
    BY <1>2, CallIs
  <2>2. Before(Convs(call), n) = FlattenSeq(Convs(call))
    BY <2>1, BeforeSteps
  <2>3. Conversions(call) = FlattenSeq(Convs(call))
    BY DEF Conversions, Convs
  <2> QED
    BY <2>2, <2>3 DEF Number
<1> QED
  BY <1>2, <1>3, <1>5, <1>6, <1>7

-----------------------------------------------------------------------------
(* The console: lines *)

(* Places in the buffer, and what is in the cells of some rows. *)
Place == [row : 0 .. BufRows - 1, col : 0 .. Cols]
Cells(rows) == [0 .. rows - 1 -> [0 .. Cols - 1 -> 0 .. 255]]

(* The characters in a row, and what is not used behind them. *)
Filled(s, row) == Cardinality({j \in 0 .. Cols - 1 : \A k \in 0 .. j : s.buffer[row][k] # Blank})
(* How far a row is used, the text in it, and the text in all of them. *)
UsedOf(s, row) == IF row = s.cur.row THEN s.cur.col ELSE Filled(s, row)
LineOf(s, row) == SubSeq([j \in 1 .. Cols |-> s.buffer[row][j - 1]], 1, UsedOf(s, row))
LinesOf(s) == [i \in 1 .. s.cur.row + 1 |-> LineOf(s, i - 1)]

(* What is used of a row is in front of what is not; the row of the cursor *)
(* is used up to the cursor, and no row behind it.                         *)
Wellformed(s) ==
  /\ \A row \in 0 .. BufRows - 1 : \E u \in 0 .. Cols :
       /\ \A j \in 0 .. Cols - 1 : s.buffer[row][j] # Blank <=> j < u
       /\ row = s.cur.row => u = s.cur.col
       /\ row > s.cur.row => u = 0

(* Until the first screen is full: what the screen shows is in the buffer, *)
(* and all of it that is in front of the place where the next flush will   *)
(* start, if that is not the origin.                                       *)
OnScreen(s, scr) ==
  s.cur.row < Rows =>
    /\ \A i \in 0 .. Rows - 1, j \in 0 .. Cols - 1 : scr[i][j] \in {Blank, s.buffer[i][j]}
    /\ s.pre # Origin =>
         /\ s.pre.row = s.cur.row /\ s.pre.col <= s.cur.col
         /\ \A i \in 0 .. s.pre.row, j \in 0 .. Cols - 1 :
              i < s.pre.row \/ j < s.pre.col => scr[i][j] = s.buffer[i][j]

(* What holds of the console at any point of a call. *)
Sound(s, scr) ==
  /\ s \in [buffer : Cells(BufRows), cur : Place, pre : Place]
  /\ scr \in Cells(Rows)
  /\ Wellformed(s)
  /\ OnScreen(s, scr)

(* The buffer holds a screen at least. *)
LEMMA Sizes ==
  /\ Rows \in Nat \ {0} /\ Cols \in Nat \ {0} /\ BufRows \in Nat /\ Rows <= BufRows
  /\ LastRow \in Nat
<1>1. Rows \in Nat \ {0} /\ Cols \in Nat \ {0} /\ Mons \in Nat \ {0}
  BY ConsoleAssumption
<1>2. Mons * Rows = Rows + (Mons - 1) * Rows /\ (Mons - 1) * Rows \in Nat
  <2>1. Mons - 1 \in Nat /\ Rows \in Nat
    BY <1>1
  <2>2. (Mons - 1) * Rows \in Nat
    BY ONLY <2>1
  <2>3. Mons * Rows = Rows + (Mons - 1) * Rows
    BY ONLY <1>1
  <2> QED
    BY <2>2, <2>3
<1>3. BufRows \in Nat /\ Rows <= BufRows
  <2> DEFINE rest == (Mons - 1) * Rows
  <2>1. rest \in Nat /\ BufRows = Rows + rest
    BY <1>2 DEF BufRows
  <2> HIDE DEF rest
  <2> QED
    BY <1>1, <2>1
<1>4. LastRow \in Nat
  BY <1>3, ConsoleAssumption
<1> QED
  BY <1>1, <1>3, <1>4

(* How far a row is used. *)
LEMMA RowIs ==
  ASSUME NEW s \in [buffer : Cells(BufRows), cur : Place, pre : Place], Wellformed(s),
         NEW row \in 0 .. s.cur.row
  PROVE  /\ UsedOf(s, row) \in 0 .. Cols
         /\ \A j \in 0 .. Cols - 1 : s.buffer[row][j] # Blank <=> j < UsedOf(s, row)
         /\ row = s.cur.row => UsedOf(s, row) = s.cur.col
<1>1. s.cur.row \in 0 .. BufRows - 1 /\ Cols \in Nat \ {0} /\ BufRows \in Nat /\ s.cur.col \in 0 .. Cols
  BY Sizes DEF Place
<1>2. row \in 0 .. BufRows - 1
  BY <1>1
<1>3. PICK u \in 0 .. Cols :
        /\ \A j \in 0 .. Cols - 1 : s.buffer[row][j] # Blank <=> j < u
        /\ row = s.cur.row => u = s.cur.col
  BY <1>2 DEF Wellformed
<1>4. UsedOf(s, row) = u
  <2>1. CASE row = s.cur.row
    BY <1>3, <2>1 DEF UsedOf
  <2>2. CASE row # s.cur.row
    <3> DEFINE full == {j \in 0 .. Cols - 1 : \A k \in 0 .. j : s.buffer[row][k] # Blank}
    <3>1. full = 0 .. u - 1
      <4>1. ASSUME NEW j \in full
            PROVE  j \in 0 .. u - 1
        <5>1. j \in 0 .. Cols - 1 /\ j \in 0 .. j
          BY <1>1
        <5>2. j < u
          BY <1>3, <5>1
        <5> QED
          BY <5>1, <5>2
      <4>2. ASSUME NEW j \in 0 .. u - 1
            PROVE  j \in full
        <5>1. j \in 0 .. Cols - 1
          BY <1>1
        <5>2. ASSUME NEW k \in 0 .. j
              PROVE  s.buffer[row][k] # Blank
          <6>1. k \in 0 .. Cols - 1 /\ k < u
            BY ONLY <1>1, u \in 0 .. Cols, j \in 0 .. u - 1, k \in 0 .. j
          <6> QED
            BY <1>3, <6>1
        <5> QED
          BY <5>1, <5>2
      <4> HIDE DEF full
      <4> QED
        BY <4>1, <4>2
    <3>2. Cardinality(0 .. u - 1) = u
      BY FS_Interval
    <3> QED
      BY <2>2, <3>1, <3>2 DEF UsedOf, Filled
  <2> QED
    BY <2>1, <2>2
<1> QED
  BY <1>3, <1>4

(* A row as a line of text. *)
LEMMA LineIs ==
  ASSUME NEW s \in [buffer : Cells(BufRows), cur : Place, pre : Place], Wellformed(s),
         NEW row \in 0 .. s.cur.row
  PROVE  /\ LineOf(s, row) = [j \in 1 .. UsedOf(s, row) |-> s.buffer[row][j - 1]]
         /\ LineOf(s, row) \in Seq(Character) /\ Len(LineOf(s, row)) = UsedOf(s, row)
<1> DEFINE u == UsedOf(s, row)
           all == [j \in 1 .. Cols |-> s.buffer[row][j - 1]]
<1>1. /\ u \in 0 .. Cols /\ Cols \in Nat \ {0}
      /\ \A j \in 0 .. Cols - 1 : s.buffer[row][j] # Blank <=> j < u
  BY RowIs, Sizes
<1>2. \A j \in 0 .. Cols - 1 : s.buffer[row][j] \in 0 .. 255
  <2>1. s.cur.row \in 0 .. BufRows - 1 /\ BufRows \in Nat
    BY Sizes DEF Place
  <2>2. row \in 0 .. BufRows - 1
    BY <2>1
  <2> QED
    BY <2>2 DEF Cells
<1>3. all \in Seq(0 .. 255) /\ Len(all) = Cols
  <2>1. \A j \in 1 .. Cols : j - 1 \in 0 .. Cols - 1
    BY <1>1
  <2>2. all \in [1 .. Cols -> 0 .. 255]
    BY <1>2, <2>1
  <2> HIDE DEF all
  <2> QED
    BY <1>1, <2>2
<1>4. LineOf(s, row) = SubSeq(all, 1, u)
  BY DEF LineOf
<1>5. SubSeq(all, 1, u) = [j \in 1 .. u |-> all[j]]
  <2> HIDE DEF all, u
  <2> QED
    BY <1>1, <1>3
<1>6. \A j \in 1 .. u : all[j] = s.buffer[row][j - 1] /\ all[j] \in Character
  <2>1. ASSUME NEW j \in 1 .. u
        PROVE  all[j] = s.buffer[row][j - 1] /\ all[j] \in Character
    <3>1. j \in 1 .. Cols /\ j - 1 \in 0 .. Cols - 1 /\ j - 1 < u
      BY <1>1
    <3>2. s.buffer[row][j - 1] # Blank /\ s.buffer[row][j - 1] \in 0 .. 255
      BY <1>1, <1>2, <3>1
    <3> QED
      BY <3>1, <3>2 DEF Blank, Character
  <2> QED
    BY <2>1
<1> HIDE DEF all, u
<1>7. LineOf(s, row) = [j \in 1 .. u |-> s.buffer[row][j - 1]]
  BY <1>4, <1>5, <1>6
<1>8. [j \in 1 .. u |-> all[j]] \in [1 .. u -> Character]
  BY <1>6
<1>9. LineOf(s, row) \in Seq(Character) /\ Len(LineOf(s, row)) = u
  <2> DEFINE line == [j \in 1 .. u |-> all[j]]
  <2>1. line \in [1 .. u -> Character] /\ u \in Nat
    BY <1>1, <1>8
  <2> HIDE DEF line
  <2>2. line \in Seq(Character) /\ Len(line) = u
    BY ONLY <2>1
  <2> QED
    BY <1>4, <1>5, <2>2 DEF line
<1> QED
  BY <1>7, <1>9 DEF u

(* The lines of the buffer, the last of them the one of the cursor. *)
LEMMA LinesAre ==
  ASSUME NEW s \in [buffer : Cells(BufRows), cur : Place, pre : Place], Wellformed(s)
  PROVE  /\ LinesOf(s) \in Seq(Seq(Character)) /\ Len(LinesOf(s)) = s.cur.row + 1
         /\ LinesOf(s) # <<>>
         /\ \A i \in 1 .. s.cur.row + 1 : LinesOf(s)[i] = LineOf(s, i - 1)
         /\ Last(LinesOf(s)) = LineOf(s, s.cur.row) /\ Len(Last(LinesOf(s))) = s.cur.col
<1>1. s.cur.row \in Nat
  BY Sizes DEF Place
<1>2. LinesOf(s) \in [1 .. s.cur.row + 1 -> Seq(Character)]
  <2>1. ASSUME NEW i \in 1 .. s.cur.row + 1
        PROVE  LineOf(s, i - 1) \in Seq(Character)
    <3>1. i - 1 \in 0 .. s.cur.row
      BY <1>1
    <3> QED
      BY <3>1, LineIs
  <2> QED
    BY <2>1 DEF LinesOf
<1>3. \A i \in 1 .. s.cur.row + 1 : LinesOf(s)[i] = LineOf(s, i - 1)
  BY DEF LinesOf
<1> DEFINE ls == LinesOf(s)
           n == s.cur.row + 1
<1>4. n \in Nat \ {0} /\ ls \in [1 .. n -> Seq(Character)]
  BY <1>1, <1>2
<1> HIDE DEF ls, n
<1>5. ls \in Seq(Seq(Character)) /\ Len(ls) = n /\ ls # <<>> /\ n \in 1 .. n
  BY ONLY <1>4
<1>6. Last(ls) = LineOf(s, s.cur.row)
  <2>1. n - 1 = s.cur.row
    BY <1>1 DEF n
  <2> QED
    BY <1>3, <1>5, <2>1 DEF Last, ls, n
<1>7. Len(LineOf(s, s.cur.row)) = s.cur.col
  <2>1. s.cur.row \in 0 .. s.cur.row
    BY <1>1
  <2> QED
    BY <2>1, LineIs, RowIs
<1> QED
  BY <1>3, <1>5, <1>6, <1>7 DEF ls, n

(* A sequence that differs from another by one element at its end. *)
LEMMA SameAppend ==
  ASSUME NEW S, NEW a \in Seq(S), NEW b \in Seq(S), NEW e \in S, NEW n \in Nat,
         Len(a) = n + 1, Len(b) = n, a[n + 1] = e, \A i \in 1 .. n : a[i] = b[i]
  PROVE  a = Append(b, e)
<1> DEFINE c == Append(b, e)
<1>1. /\ c \in Seq(S) /\ Len(c) = n + 1 /\ c[n + 1] = e
      /\ \A i \in 1 .. n : c[i] = b[i]
  OBVIOUS
<1> HIDE DEF c
<1>2. \A i \in 1 .. n + 1 : a[i] = c[i]
  <2>1. \A i \in 1 .. n + 1 : i \in 1 .. n \/ i = n + 1
    OBVIOUS
  <2> QED
    BY <1>1, <2>1
<1>3. a = c
  BY <1>1, <1>2
<1> QED
  BY <1>3 DEF c

(* vt_new_line begins a line. *)
LEMMA NewLineIs ==
  ASSUME NEW scr, NEW s, Sound(s, scr), s.cur.row + 1 < BufRows
  PROVE  /\ Sound(NewLined(s), scr)
         /\ NewLined(s).cur = [row |-> s.cur.row + 1, col |-> 0]
         /\ LinesOf(NewLined(s)) = Append(LinesOf(s), <<>>)
<1> DEFINE t == NewLined(s)
           row == s.cur.row
           S == [buffer : Cells(BufRows), cur : Place, pre : Place]
<1>1. s \in S /\ Wellformed(s) /\ OnScreen(s, scr) /\ scr \in Cells(Rows)
  BY DEF Sound
<1>2. /\ row \in 0 .. BufRows - 1 /\ BufRows \in Nat /\ Cols \in Nat \ {0} /\ Rows \in Nat \ {0}
      /\ Rows <= BufRows /\ row + 1 \in 0 .. BufRows - 1
  BY <1>1, Sizes DEF Place
<1>3. /\ t.buffer = s.buffer /\ t.cur = [row |-> row + 1, col |-> 0] /\ t.pre = Origin
      /\ t \in S
  <2>1. Origin \in Place /\ [row |-> row + 1, col |-> 0] \in Place
    BY <1>2 DEF Origin, Place
  <2> DEFINE B == Cells(BufRows)
             P == Place
             x == [row |-> row + 1, col |-> 0]
  <2>2. s \in [buffer : B, cur : P, pre : P] /\ x \in P /\ Origin \in P
    BY <1>1, <2>1
  <2>3. t = [s EXCEPT !.cur = x, !.pre = Origin]
    BY DEF NewLined
  <2> HIDE DEF B, P, x, t
  <2>4. t.buffer = s.buffer /\ t.cur = x /\ t.pre = Origin
    BY ONLY <2>2, <2>3
  <2>5. t \in [buffer : B, cur : P, pre : P]
    BY ONLY <2>2, <2>3
  <2> QED
    BY <2>4, <2>5 DEF B, P, x
<1>4. t.cur.row = row + 1 /\ t.cur.col = 0
  BY <1>3
<1> HIDE DEF t
<1>5. Wellformed(t)
  <2>1. ASSUME NEW r \in 0 .. BufRows - 1
        PROVE  \E u \in 0 .. Cols :
                 /\ \A j \in 0 .. Cols - 1 : t.buffer[r][j] # Blank <=> j < u
                 /\ r = t.cur.row => u = t.cur.col
                 /\ r > t.cur.row => u = 0
    <3>1. PICK u \in 0 .. Cols :
            /\ \A j \in 0 .. Cols - 1 : s.buffer[r][j] # Blank <=> j < u
            /\ r = row => u = s.cur.col
            /\ r > row => u = 0
      BY <1>1 DEF Wellformed
    <3>2. r >= row + 1 => u = 0
      BY ONLY <1>2, <3>1, r \in 0 .. BufRows - 1
    <3>3. (r = t.cur.row => u = t.cur.col) /\ (r > t.cur.row => u = 0)
      BY ONLY <1>2, <1>4, <3>2, r \in 0 .. BufRows - 1
    <3> QED
      BY <1>3, <3>1, <3>3
  <2> QED
    BY <2>1 DEF Wellformed
<1>6. OnScreen(t, scr)
  <2> SUFFICES ASSUME row + 1 < Rows
               PROVE  \A i \in 0 .. Rows - 1, j \in 0 .. Cols - 1 :
                        scr[i][j] \in {Blank, s.buffer[i][j]}
    BY <1>3, <1>4 DEF OnScreen
  <2>1. row < Rows
    BY ONLY <1>2, row + 1 < Rows
  <2> QED
    BY <1>1, <2>1 DEF OnScreen
<1>7. ASSUME NEW r \in 0 .. row
      PROVE  LineOf(t, r) = LineOf(s, r)
  <2>1. r \in 0 .. t.cur.row /\ r \in 0 .. s.cur.row
    BY ONLY <1>2, <1>4, r \in 0 .. row
  <2>2. /\ UsedOf(t, r) \in 0 .. Cols
        /\ \A j \in 0 .. Cols - 1 : t.buffer[r][j] # Blank <=> j < UsedOf(t, r)
        /\ LineOf(t, r) = [j \in 1 .. UsedOf(t, r) |-> t.buffer[r][j - 1]]
    BY <1>3, <1>5, <2>1, RowIs, LineIs
  <2>3. /\ UsedOf(s, r) \in 0 .. Cols
        /\ \A j \in 0 .. Cols - 1 : s.buffer[r][j] # Blank <=> j < UsedOf(s, r)
        /\ LineOf(s, r) = [j \in 1 .. UsedOf(s, r) |-> s.buffer[r][j - 1]]
    BY <1>1, <2>1, RowIs, LineIs
  <2>4. UsedOf(t, r) = UsedOf(s, r)
    <3> DEFINE u == UsedOf(t, r)
               v == UsedOf(s, r)
    <3>1. u \in 0 .. Cols /\ v \in 0 .. Cols /\ \A j \in 0 .. Cols - 1 : j < u <=> j < v
      BY <1>3, <2>2, <2>3
    <3> HIDE DEF u, v
    <3>2. u = v
      BY ONLY <1>2, <3>1
    <3> QED
      BY <3>2 DEF u, v
  <2> QED
    BY <1>3, <2>2, <2>3, <2>4
<1>8. LineOf(t, row + 1) = <<>>
  <2>1. row + 1 \in 0 .. t.cur.row
    BY ONLY <1>2, <1>4
  <2>2. Len(LineOf(t, row + 1)) = 0 /\ LineOf(t, row + 1) \in Seq(Character)
    BY <1>3, <1>4, <1>5, <2>1, LineIs, RowIs
  <2> QED
    BY <2>2, EmptySeq
<1>9. LinesOf(t) = Append(LinesOf(s), <<>>)
  <2> DEFINE a == LinesOf(t)
             b == LinesOf(s)
  <2>1. /\ a \in Seq(Seq(Character)) /\ Len(a) = row + 2
        /\ \A i \in 1 .. row + 2 : a[i] = LineOf(t, i - 1)
    <3>1. t.cur.row + 1 = row + 2
      BY <1>2, <1>4
    <3> QED
      BY <1>3, <1>5, <3>1, LinesAre
  <2>2. /\ b \in Seq(Seq(Character)) /\ Len(b) = row + 1
        /\ \A i \in 1 .. row + 1 : b[i] = LineOf(s, i - 1)
    BY <1>1, LinesAre
  <2> HIDE DEF a, b
  <2>3. \A i \in 1 .. row + 1 : a[i] = b[i]
    <3>1. ASSUME NEW i \in 1 .. row + 1
          PROVE  a[i] = b[i]
      <4>1. i - 1 \in 0 .. row /\ i \in 1 .. row + 2
        BY <1>2
      <4> QED
        BY <1>7, <2>1, <2>2, <4>1
    <3> QED
      BY <3>1
  <2>4. a[row + 2] = <<>>
    <3>1. row + 2 \in 1 .. row + 2 /\ (row + 2) - 1 = row + 1
      BY <1>2
    <3> QED
      BY <1>8, <2>1, <3>1
  <2> DEFINE n == row + 1
  <2>5. /\ n \in Nat /\ Len(a) = n + 1 /\ Len(b) = n /\ a[n + 1] = <<>> /\ \A i \in 1 .. n : a[i] = b[i]
        /\ a \in Seq(Seq(Character)) /\ b \in Seq(Seq(Character)) /\ <<>> \in Seq(Character)
    <3>1. row + 2 = n + 1 /\ n \in Nat
      BY <1>2
    <3> QED
      BY <2>1, <2>2, <2>3, <2>4, <3>1
  <2> HIDE DEF n
  <2>6. a = Append(b, <<>>)
    <3> DEFINE c == Append(b, <<>>)
    <3>1. c \in Seq(Seq(Character)) /\ Len(c) = n + 1 /\ c[n + 1] = <<>>
          /\ \A i \in 1 .. n : c[i] = b[i]
      BY ONLY <2>5
    <3> HIDE DEF c
    <3>2. \A i \in 1 .. n + 1 : a[i] = c[i]
      <4>1. \A i \in 1 .. n + 1 : i \in 1 .. n \/ i = n + 1
        BY ONLY <2>5
      <4> QED
        BY <2>5, <3>1, <4>1
    <3>3. a = c
      BY ONLY <2>5, <3>1, <3>2
    <3> QED
      BY <3>3 DEF c
  <2> QED
    BY <2>6 DEF a, b
<1>10. Sound(t, scr)
  BY <1>1, <1>3, <1>5, <1>6 DEF Sound
<1> QED
  BY <1>3, <1>9, <1>10 DEF t

(* A character that fits is put where the cursor is. *)
LEMMA PutFits ==
  ASSUME NEW scr, NEW s, Sound(s, scr), NEW c \in Character, c # NewLine, ~ Full(s)
  PROVE  /\ Sound(Put(s, c), scr)
         /\ Put(s, c).cur.row = s.cur.row
         /\ LinesOf(Put(s, c)) = Append(Front(LinesOf(s)), Append(Last(LinesOf(s)), c))
<1> DEFINE t == Put(s, c)
           row == s.cur.row
           col == s.cur.col
           S == [buffer : Cells(BufRows), cur : Place, pre : Place]
<1>1. s \in S /\ Wellformed(s) /\ OnScreen(s, scr) /\ scr \in Cells(Rows)
  BY DEF Sound
<1>2. /\ row \in 0 .. BufRows - 1 /\ BufRows \in Nat /\ Cols \in Nat \ {0} /\ Rows \in Nat \ {0}
      /\ Rows <= BufRows /\ col \in 0 .. Cols - 1 /\ col + 1 \in 0 .. Cols
  <2>1. row \in 0 .. BufRows - 1 /\ col \in 0 .. Cols
    BY <1>1 DEF Place
  <2>2. col < Cols
    <3>1. ~ (col >= Cols)
      BY DEF Full
    <3> QED
      BY <2>1, <3>1, Sizes
  <2> QED
    BY <2>1, <2>2, Sizes
<1>3. c \in 0 .. 255 /\ c # Blank
  BY DEF Character, Blank
<1>4. /\ t \in S /\ t.pre = s.pre /\ t.cur.row = row /\ t.cur.col = col + 1
      /\ \A r \in 0 .. BufRows - 1, j \in 0 .. Cols - 1 :
           t.buffer[r][j] = IF r = row /\ j = col THEN c ELSE s.buffer[r][j]
  <2> DEFINE B == Cells(BufRows)
             P == Place
             x == [s.buffer EXCEPT ![row] = [s.buffer[row] EXCEPT ![col] = c]]
             y == [s.cur EXCEPT !.col = col + 1]
  <2>1. t = [s EXCEPT !.buffer[s.cur.row][s.cur.col] = c, !.cur.col = @ + 1]
    BY DEF Put
  <2>2. t = [s EXCEPT !.buffer = x, !.cur = y]
    BY <1>1, <2>1
  <2>3. y \in P /\ y.row = row /\ y.col = col + 1
    BY <1>1, <1>2 DEF Place
  <2>4. x \in B /\ \A r \in 0 .. BufRows - 1, j \in 0 .. Cols - 1 :
                     x[r][j] = IF r = row /\ j = col THEN c ELSE s.buffer[r][j]
    <3> DEFINE b == s.buffer
               z == [b[row] EXCEPT ![col] = c]
    <3>1. b \in [0 .. BufRows - 1 -> [0 .. Cols - 1 -> 0 .. 255]]
      BY <1>1 DEF Cells
    <3>2. b[row] \in [0 .. Cols - 1 -> 0 .. 255]
      BY <1>2, <3>1
    <3>3. /\ z \in [0 .. Cols - 1 -> 0 .. 255]
          /\ \A j \in 0 .. Cols - 1 : z[j] = IF j = col THEN c ELSE b[row][j]
      BY <1>2, <1>3, <3>2
    <3> HIDE DEF z
    <3>4. /\ [b EXCEPT ![row] = z] \in [0 .. BufRows - 1 -> [0 .. Cols - 1 -> 0 .. 255]]
          /\ \A r \in 0 .. BufRows - 1 : [b EXCEPT ![row] = z][r] = IF r = row THEN z ELSE b[r]
      BY <1>2, <3>1, <3>3
    <3>5. x = [b EXCEPT ![row] = z]
      BY DEF z
    <3> HIDE DEF x
    <3> QED
      BY <3>3, <3>4, <3>5 DEF Cells
  <2>5. s \in [buffer : B, cur : P, pre : P] /\ s.pre \in P
    BY <1>1
  <2> HIDE DEF B, P, x, y, t
  <2>6. t \in [buffer : B, cur : P, pre : P]
    BY ONLY <2>2, <2>3, <2>4, <2>5
  <2>7. t.buffer = x /\ t.cur = y /\ t.pre = s.pre
    BY ONLY <2>2, <2>3, <2>4, <2>5
  <2> QED
    BY <2>3, <2>4, <2>6, <2>7 DEF B, P
<1> HIDE DEF t
<1>5. \A j \in 0 .. Cols - 1 : s.buffer[row][j] # Blank <=> j < col
  <2>1. row \in 0 .. row
    BY <1>2
  <2> QED
    BY <1>1, <2>1, RowIs
<1>6. Wellformed(t)
  <2>1. ASSUME NEW r \in 0 .. BufRows - 1
        PROVE  \E u \in 0 .. Cols :
                 /\ \A j \in 0 .. Cols - 1 : t.buffer[r][j] # Blank <=> j < u
                 /\ r = t.cur.row => u = t.cur.col
                 /\ r > t.cur.row => u = 0
    <3>1. CASE r = row
      <4>1. ASSUME NEW j \in 0 .. Cols - 1
            PROVE  t.buffer[r][j] # Blank <=> j < col + 1
        <5>1. CASE j = col
          BY <1>2, <1>3, <1>4, <3>1, <5>1
        <5>2. CASE j # col
          <6>1. t.buffer[r][j] = s.buffer[row][j]
            BY <1>4, <3>1, <5>2
          <6>2. j < col + 1 <=> j < col
            BY ONLY <1>2, <5>2, j \in 0 .. Cols - 1
          <6> QED
            BY <1>5, <6>1, <6>2
        <5> QED
          BY <5>1, <5>2
      <4>2. ~ (r > t.cur.row)
        BY <1>2, <1>4, <3>1
      <4> QED
        BY <1>2, <1>4, <4>1, <4>2
    <3>2. CASE r # row
      <4>1. PICK u \in 0 .. Cols :
              /\ \A j \in 0 .. Cols - 1 : s.buffer[r][j] # Blank <=> j < u
              /\ r > row => u = 0
        BY <1>1 DEF Wellformed
      <4>2. \A j \in 0 .. Cols - 1 : t.buffer[r][j] = s.buffer[r][j]
        BY <1>4, <3>2
      <4> QED
        BY <1>4, <3>2, <4>1, <4>2
    <3> QED
      BY <3>1, <3>2
  <2> QED
    BY <2>1 DEF Wellformed
<1>7. OnScreen(t, scr)
  <2> SUFFICES ASSUME row < Rows
               PROVE  /\ \A i \in 0 .. Rows - 1, j \in 0 .. Cols - 1 :
                           scr[i][j] \in {Blank, t.buffer[i][j]}
                      /\ s.pre # Origin =>
                           /\ s.pre.row = row /\ s.pre.col <= col + 1
                           /\ \A i \in 0 .. s.pre.row, j \in 0 .. Cols - 1 :
                                i < s.pre.row \/ j < s.pre.col => scr[i][j] = t.buffer[i][j]
    BY <1>4 DEF OnScreen
  <2>1. /\ \A i \in 0 .. Rows - 1, j \in 0 .. Cols - 1 : scr[i][j] \in {Blank, s.buffer[i][j]}
        /\ s.pre # Origin =>
             /\ s.pre.row = row /\ s.pre.col <= col
             /\ \A i \in 0 .. s.pre.row, j \in 0 .. Cols - 1 :
                  i < s.pre.row \/ j < s.pre.col => scr[i][j] = s.buffer[i][j]
    BY <1>1 DEF OnScreen
  <2>2. ASSUME NEW i \in 0 .. Rows - 1, NEW j \in 0 .. Cols - 1
        PROVE  scr[i][j] \in {Blank, t.buffer[i][j]}
    <3>1. i \in 0 .. BufRows - 1
      BY <1>2
    <3>2. CASE i = row /\ j = col
      <4>1. s.buffer[i][j] = Blank
        BY <1>2, <1>5, <3>2
      <4> QED
        BY <2>1, <4>1
    <3>3. CASE ~ (i = row /\ j = col)
      BY <1>4, <2>1, <3>1, <3>3
    <3> QED
      BY <3>2, <3>3
  <2>3. ASSUME s.pre # Origin
        PROVE  /\ s.pre.row = row /\ s.pre.col <= col + 1
               /\ \A i \in 0 .. s.pre.row, j \in 0 .. Cols - 1 :
                    i < s.pre.row \/ j < s.pre.col => scr[i][j] = t.buffer[i][j]
    <3>1. s.pre.row = row /\ s.pre.col <= col /\ s.pre.col \in Int
      BY <1>1, <2>1, <2>3, <1>2 DEF Place
    <3>2. s.pre.col <= col + 1
      BY ONLY <1>2, <3>1
    <3>3. ASSUME NEW i \in 0 .. s.pre.row, NEW j \in 0 .. Cols - 1, i < s.pre.row \/ j < s.pre.col
          PROVE  scr[i][j] = t.buffer[i][j]
      <4>1. i \in 0 .. BufRows - 1 /\ ~ (i = row /\ j = col)
        BY ONLY <1>2, <3>1, <3>3
      <4> QED
        BY <1>4, <2>1, <2>3, <3>3, <4>1
    <3> QED
      BY <3>1, <3>2, <3>3
  <2> QED
    BY <2>2, <2>3
<1>8. ASSUME NEW r \in 0 .. row - 1
      PROVE  LineOf(t, r) = LineOf(s, r)
  <2>1. r \in 0 .. t.cur.row /\ r \in 0 .. s.cur.row /\ r # row /\ r \in 0 .. BufRows - 1
    BY ONLY <1>2, <1>4, r \in 0 .. row - 1
  <2>2. /\ UsedOf(t, r) \in 0 .. Cols
        /\ \A j \in 0 .. Cols - 1 : t.buffer[r][j] # Blank <=> j < UsedOf(t, r)
        /\ LineOf(t, r) = [j \in 1 .. UsedOf(t, r) |-> t.buffer[r][j - 1]]
    BY <1>4, <1>6, <2>1, RowIs, LineIs
  <2>3. /\ UsedOf(s, r) \in 0 .. Cols
        /\ \A j \in 0 .. Cols - 1 : s.buffer[r][j] # Blank <=> j < UsedOf(s, r)
        /\ LineOf(s, r) = [j \in 1 .. UsedOf(s, r) |-> s.buffer[r][j - 1]]
    BY <1>1, <2>1, RowIs, LineIs
  <2>4. \A j \in 0 .. Cols - 1 : t.buffer[r][j] = s.buffer[r][j]
    BY <1>4, <2>1
  <2> DEFINE u == UsedOf(t, r)
             v == UsedOf(s, r)
  <2>5. u = v
    <3>1. u \in 0 .. Cols /\ v \in 0 .. Cols /\ \A j \in 0 .. Cols - 1 : j < u <=> j < v
      BY <2>2, <2>3, <2>4
    <3> HIDE DEF u, v
    <3> QED
      BY ONLY <1>2, <3>1
  <2>6. \A j \in 1 .. v : t.buffer[r][j - 1] = s.buffer[r][j - 1]
    <3>1. v \in 0 .. Cols
      BY <2>3
    <3> HIDE DEF v
    <3>2. \A j \in 1 .. v : j - 1 \in 0 .. Cols - 1
      BY ONLY <1>2, <3>1
    <3> QED
      BY <2>4, <3>2
  <2> QED
    BY <2>2, <2>3, <2>5, <2>6
<1>9. LineOf(t, row) = Append(LineOf(s, row), c)
  <2>1. row \in 0 .. s.cur.row /\ row \in 0 .. t.cur.row
    BY <1>2, <1>4
  <2>2. /\ LineOf(s, row) = [j \in 1 .. col |-> s.buffer[row][j - 1]]
        /\ LineOf(s, row) \in Seq(Character) /\ Len(LineOf(s, row)) = col
    BY <1>1, <2>1, RowIs, LineIs
  <2>3. /\ LineOf(t, row) = [j \in 1 .. col + 1 |-> t.buffer[row][j - 1]]
        /\ LineOf(t, row) \in Seq(Character) /\ Len(LineOf(t, row)) = col + 1
    <3>1. UsedOf(t, row) = col + 1
      BY <1>4, <1>6, <2>1, RowIs
    <3>2. /\ LineOf(t, row) = [j \in 1 .. UsedOf(t, row) |-> t.buffer[row][j - 1]]
          /\ LineOf(t, row) \in Seq(Character) /\ Len(LineOf(t, row)) = UsedOf(t, row)
      BY <1>4, <1>6, <2>1, LineIs
    <3> QED
      BY ONLY <3>1, <3>2
  <2> DEFINE a == LineOf(t, row)
             b == LineOf(s, row)
  <2>4. \A j \in 1 .. col : a[j] = b[j]
    <3>1. ASSUME NEW j \in 1 .. col
          PROVE  a[j] = b[j]
      <4>1. j \in 1 .. col + 1 /\ j - 1 \in 0 .. Cols - 1 /\ j - 1 # col
        BY ONLY <1>2, j \in 1 .. col
      <4>2. a[j] = t.buffer[row][j - 1] /\ b[j] = s.buffer[row][j - 1]
        BY ONLY <2>2, <2>3, <4>1, j \in 1 .. col
      <4>3. t.buffer[row][j - 1] = s.buffer[row][j - 1]
        BY <1>2, <1>4, <4>1
      <4> QED
        BY <4>2, <4>3
    <3> QED
      BY <3>1
  <2>5. a[col + 1] = c
    <3>1. col + 1 \in 1 .. col + 1 /\ (col + 1) - 1 = col
      BY ONLY <1>2
    <3> QED
      BY <1>2, <1>4, <2>3, <3>1
  <2>6. a \in Seq(Character) /\ Len(a) = col + 1 /\ b \in Seq(Character) /\ Len(b) = col
    BY <2>2, <2>3
  <2> HIDE DEF a, b
  <2>7. a = Append(b, c)
    BY <1>2, <2>4, <2>5, <2>6, SameAppend
  <2> QED
    BY <2>7 DEF a, b
<1>10. LinesOf(t) = Append(Front(LinesOf(s)), Append(Last(LinesOf(s)), c))
  <2> DEFINE a == LinesOf(t)
             b == LinesOf(s)
             line == Append(Last(b), c)
  <2>1. /\ a \in Seq(Seq(Character)) /\ Len(a) = row + 1
        /\ \A i \in 1 .. row + 1 : a[i] = LineOf(t, i - 1)
    BY <1>4, <1>6, LinesAre
  <2>2. /\ b \in Seq(Seq(Character)) /\ Len(b) = row + 1
        /\ \A i \in 1 .. row + 1 : b[i] = LineOf(s, i - 1)
        /\ line = LineOf(t, row)
    BY <1>1, <1>9, LinesAre
  <2> HIDE DEF a, b, line
  <2>3. row + 1 \in 1 .. row + 1 /\ (row + 1) - 1 = row /\ row \in Nat
    BY ONLY <1>2
  <2>4. a[row + 1] = line
    BY <2>1, <2>2, <2>3
  <2>5. \A i \in 1 .. row : a[i] = b[i]
    <3>1. ASSUME NEW i \in 1 .. row
          PROVE  a[i] = b[i]
      <4>1. i \in 1 .. row + 1 /\ i - 1 \in 0 .. row - 1
        BY ONLY <2>3, i \in 1 .. row
      <4> QED
        BY <1>8, <2>1, <2>2, <4>1
    <3> QED
      BY <3>1
  <2>6. Front(b) \in Seq(Seq(Character)) /\ Len(Front(b)) = row /\ \A i \in 1 .. row : Front(b)[i] = b[i]
    <3>1. Front(b) = SubSeq(b, 1, row)
      BY <2>2, <2>3 DEF Front
    <3>2. SubSeq(b, 1, row) = [i \in 1 .. row |-> b[i]] /\ SubSeq(b, 1, row) \in Seq(Seq(Character))
          /\ Len(SubSeq(b, 1, row)) = row
      BY <2>2, <2>3
    <3> QED
      BY <3>1, <3>2
  <2>7. line \in Seq(Character)
    <3>1. row + 1 \in 1 .. Len(a)
      BY <2>1, <2>3
    <3> QED
      BY <2>1, <2>4, <3>1
  <2> DEFINE front == Front(b)
  <2>8. \A i \in 1 .. row : a[i] = front[i]
    BY <2>5, <2>6
  <2>9. front \in Seq(Seq(Character)) /\ Len(front) = row
    BY <2>6
  <2> HIDE DEF front
  <2>10. a = Append(front, line)
    <3> DEFINE L == Seq(Character)
    <3>1. /\ a \in Seq(L) /\ front \in Seq(L) /\ line \in L /\ row \in Nat
          /\ Len(a) = row + 1 /\ Len(front) = row /\ a[row + 1] = line
          /\ \A i \in 1 .. row : a[i] = front[i]
      BY <2>1, <2>3, <2>4, <2>7, <2>8, <2>9
    <3> HIDE DEF L
    <3> QED
      BY <3>1, SameAppend
  <2> QED
    BY <2>10 DEF a, b, line, front
<1>11. Sound(t, scr)
  BY <1>1, <1>4, <1>6, <1>7 DEF Sound
<1> QED
  BY <1>4, <1>10, <1>11 DEF t

-----------------------------------------------------------------------------
(* Writing *)

(* Where the cursor is, as far as writing does not look at the end of the  *)
(* buffer.                                                                 *)
Anywhere == [row : Nat, col : 0 .. Cols]
Wide     == [buffer : Cells(BufRows), cur : Anywhere, pre : Anywhere]

(* A character leaves the console with the types it had, wherever the      *)
(* cursor is.                                                              *)
LEMMA PutStays ==
  ASSUME NEW s \in Wide, NEW c \in Character
  PROVE  Put(s, c) \in Wide
<1> DEFINE row == s.cur.row
           col == s.cur.col
           B == Cells(BufRows)
           P == Anywhere
<1>1. row \in Nat /\ col \in 0 .. Cols /\ Cols \in Nat \ {0} /\ s \in [buffer : B, cur : P, pre : P]
  BY Sizes DEF Wide, Anywhere
<1>2. CASE c = NewLine \/ Full(s)
  <2>1. Put(s, c) = [s EXCEPT !.cur = [row |-> row + 1, col |-> 0], !.pre = Origin]
    BY <1>2 DEF Put, NewLined
  <2>2. [row |-> row + 1, col |-> 0] \in P /\ Origin \in P
    BY <1>1 DEF Anywhere, Origin
  <2> DEFINE x == [row |-> row + 1, col |-> 0]
  <2> HIDE DEF x, B, P
  <2>3. [s EXCEPT !.cur = x, !.pre = Origin] \in [buffer : B, cur : P, pre : P]
    BY ONLY <1>1, <2>2 DEF x
  <2> QED
    BY <2>1, <2>3 DEF x, B, P, Wide
<1>3. CASE c # NewLine /\ ~ Full(s)
  <2> DEFINE x == [s.buffer EXCEPT ![row] = [s.buffer[row] EXCEPT ![col] = c]]
             y == [s.cur EXCEPT !.col = col + 1]
             t == Put(s, c)
  <2>1. t = [s EXCEPT !.buffer[s.cur.row][s.cur.col] = c, !.cur.col = @ + 1]
    BY <1>3 DEF Put
  <2>2. t = [s EXCEPT !.buffer = x, !.cur = y]
    BY <1>1, <2>1
  <2>3. y \in P
    <3>1. col < Cols
      BY <1>1, <1>3 DEF Full
    <3>2. col + 1 \in 0 .. Cols
      BY <1>1, <3>1
    <3> QED
      BY <1>1, <3>2 DEF Anywhere
  <2>4. x \in B
    <3> DEFINE b == s.buffer
               z == [b[row] EXCEPT ![col] = c]
    <3>1. b \in [0 .. BufRows - 1 -> [0 .. Cols - 1 -> 0 .. 255]] /\ c \in 0 .. 255
      BY <1>1 DEF Cells, Character
    <3>2. CASE row \in 0 .. BufRows - 1
      <4>1. z \in [0 .. Cols - 1 -> 0 .. 255]
        BY <3>1, <3>2
      <4> HIDE DEF z
      <4>2. [b EXCEPT ![row] = z] \in [0 .. BufRows - 1 -> [0 .. Cols - 1 -> 0 .. 255]]
        BY <3>1, <4>1
      <4> QED
        BY <4>2 DEF Cells, z
    <3>3. CASE row \notin 0 .. BufRows - 1
      <4> HIDE DEF z
      <4>1. [b EXCEPT ![row] = z] = b
        BY <3>1, <3>3
      <4> QED
        BY <3>1, <4>1 DEF Cells, z
    <3> QED
      BY <3>2, <3>3
  <2> HIDE DEF B, P, x, y, t
  <2>5. t \in [buffer : B, cur : P, pre : P]
    BY ONLY <1>1, <2>2, <2>3, <2>4
  <2> QED
    BY <2>5 DEF B, P, t, Wide
<1> QED
  BY <1>2, <1>3

(* Writing a text, unfolded. *)
LEMMA WrittenSteps ==
  ASSUME State \in Wide, NEW text \in Seq(Character)
  PROVE  \E g : /\ g[0] = State
                /\ \A k \in 1 .. Len(text) : g[k] = Put(g[k - 1], text[k])
                /\ Written(text) = g[Len(text)]
<1> DEFINE n == Len(text)
           f == [x \in Wide \X (1 .. n) |-> Put(x[1], text[x[2]])]
           iter[s \in SUBSET (1 .. n)] == IF s = {} THEN State
                                          ELSE Put(iter[s \ {Max(s)}], text[Max(s)])
<1>1. n \in Nat /\ DOMAIN text = 1 .. n /\ \A k \in 1 .. n : text[k] \in Character
  OBVIOUS
<1> HIDE DEF n
<1>2. f \in [Wide \X (1 .. n) -> Wide]
  BY <1>1, PutStays
<1>3. \A x \in Wide, k \in 1 .. n : f[<<x, k>>] = Put(x, text[k])
  OBVIOUS
<1> HIDE DEF f
<1>4. PICK h \in [SUBSET (1 .. n) -> Wide] : Solves(h, n, State, f)
  <2> DEFINE X == Wide
             base == State
  <2>1. base \in X /\ f \in [X \X (1 .. n) -> X] /\ n \in Nat
    BY <1>1, <1>2
  <2> HIDE DEF X, base
  <2>2. \E h : h \in [SUBSET (1 .. n) -> X] /\ Solves(h, n, base, f)
    BY ONLY <2>1, FoldSolved
  <2> QED
    BY <2>2 DEF X, base
<1>5. ASSUME NEW s \in SUBSET (1 .. n)
      PROVE  h[s] = IF s = {} THEN State ELSE f[<<h[s \ {Max(s)}], Max(s)>>]
  BY <1>4 DEF Solves
<1>6. h = [s \in SUBSET (1 .. n) |-> IF s = {} THEN State ELSE Put(h[s \ {Max(s)}], text[Max(s)])]
  <2>1. ASSUME NEW s \in SUBSET (1 .. n), s # {}
        PROVE  f[<<h[s \ {Max(s)}], Max(s)>>] = Put(h[s \ {Max(s)}], text[Max(s)])
    <3>1. s \in SUBSET (0 .. n)
      BY <1>1
    <3>2. Max(s) \in s
      BY <1>1, <2>1, <3>1, MaxIs
    <3> DEFINE m == Max(s)
    <3>3. m \in 1 .. n /\ s \ {m} \in SUBSET (1 .. n)
      BY <3>2
    <3> HIDE DEF m
    <3>4. h[s \ {m}] \in Wide
      BY <3>3
    <3>5. f[<<h[s \ {m}], m>>] = Put(h[s \ {m}], text[m])
      BY <1>3, <3>3, <3>4
    <3> QED
      BY <3>5 DEF m
  <2> DEFINE b(s) == IF s = {} THEN State ELSE Put(h[s \ {Max(s)}], text[Max(s)])
  <2>2. \A s \in SUBSET (1 .. n) : h[s] = b(s)
    BY <1>5, <2>1
  <2> HIDE DEF b
  <2>4. h = [s \in SUBSET (1 .. n) |-> b(s)]
    BY <2>2
  <2> QED
    BY <2>4 DEF b
<1>7. iter = [s \in SUBSET (1 .. n) |-> IF s = {} THEN State
                                        ELSE Put(iter[s \ {Max(s)}], text[Max(s)])]
  BY <1>6
<1>8. Written(text) = iter[1 .. n]
  BY <1>1 DEF Written, FoldLeft, MapThenFoldSet
<1> HIDE DEF iter
<1> DEFINE g == [k \in 0 .. n |-> iter[1 .. k]]
<1>9. g[0] = State
  <2>1. 1 .. 0 = {} /\ {} \in SUBSET (1 .. n) /\ 0 \in 0 .. n
    BY <1>1, Beginnings
  <2> QED
    BY <1>7, <2>1
<1>10. ASSUME NEW k \in 1 .. n
       PROVE  g[k] = Put(g[k - 1], text[k])
  <2>1. /\ 1 .. k \in SUBSET (1 .. n) /\ 1 .. k # {}
        /\ Max(1 .. k) = k /\ (1 .. k) \ {k} = 1 .. k - 1
    BY <1>1, Beginnings
  <2>2. iter[1 .. k] = Put(iter[(1 .. k) \ {k}], text[k])
    BY <1>7, <2>1
  <2>3. k \in 0 .. n /\ k - 1 \in 0 .. n
    BY <1>1
  <2> QED
    BY <2>1, <2>2, <2>3
<1>11. Written(text) = g[n]
  BY <1>1, <1>8
<1> HIDE DEF g
<1> QED
  BY <1>9, <1>10, <1>11 DEF n

(* The lines of the buffer, as the refinement has them. *)
LEMMA LinesOfState ==
  ASSUME State \in [buffer : Cells(BufRows), cur : Place, pre : Place], Wellformed(State)
  PROVE  [i \in 1 .. cur.row + 1 |-> Line(i - 1)] = LinesOf(State)
BY DEF LinesOf, Line, LineOf, Used, UsedOf, Filled, State

(* The lines of a terminal: there is always a current one. *)
Pages == Seq(Seq(Character)) \ {<<>>}

(* A terminal always has a line. *)
LEMMA TerminalPutStays ==
  ASSUME NEW ls \in Pages, NEW c \in Character
  PROVE  TheTerminal!Put(ls, c) \in Pages
<1> DEFINE S == Seq(Character)
           line == Last(ls)
           front == Front(ls)
           n == Len(ls)
<1>1. n \in Nat \ {0} /\ ls \in Seq(S)
  BY EmptySeq DEF Pages
<1>2. line \in S /\ front \in Seq(S)
  <2>1. line = ls[n] /\ front = SubSeq(ls, 1, n - 1)
    BY DEF Last, Front
  <2> HIDE DEF S, line, front
  <2>2. n \in 1 .. n /\ n - 1 \in Nat
    BY <1>1
  <2>3. ls[n] \in S
    BY <1>1, <2>2
  <2>4. SubSeq(ls, 1, n - 1) \in Seq(S)
    BY <1>1, <2>2
  <2> QED
    BY <2>1, <2>3, <2>4
<1>3. Append(line, c) \in S /\ <<>> \in S
  BY <1>2, EmptySeq
<1>4. Append(ls, <<>>) \in Pages
  <2> HIDE DEF S
  <2>1. Append(ls, <<>>) \in Seq(S) /\ Append(ls, <<>>) # <<>>
    BY <1>1, <1>3
  <2> QED
    BY <2>1 DEF Pages, S
<1>5. Append(front, Append(line, c)) \in Pages
  <2> DEFINE next == Append(line, c)
  <2>1. next \in S
    BY <1>3
  <2>3. front \in Seq(S)
    BY <1>2
  <2> HIDE DEF S, front, next
  <2>2. Append(front, next) \in Seq(S) /\ Append(front, next) # <<>>
    <3>1. /\ Append(front, next) \in Seq(S) /\ Len(front) \in Nat
          /\ Len(Append(front, next)) = Len(front) + 1
      BY ONLY <2>1, <2>3
    <3>2. Len(Append(front, next)) # 0 /\ Len(<<>>) = 0
      BY ONLY <3>1
    <3> QED
      BY ONLY <3>1, <3>2
  <2> QED
    BY <2>2 DEF Pages, S, front, next
<1> QED
  BY <1>4, <1>5 DEF TheTerminal!Put, TheTerminal!Last, TheTerminal!Front, Last, Front

(* Printing a text, unfolded. *)
LEMMA PrintedSteps ==
  ASSUME [i \in 1 .. cur.row + 1 |-> Line(i - 1)] \in Pages, NEW text \in Seq(Character)
  PROVE  \E g : /\ g[0] = [i \in 1 .. cur.row + 1 |-> Line(i - 1)]
                /\ \A k \in 1 .. Len(text) : g[k] = TheTerminal!Put(g[k - 1], text[k])
                /\ TheTerminal!Printed(text) = g[Len(text)]
<1> DEFINE n == Len(text)
           lines == [i \in 1 .. cur.row + 1 |-> Line(i - 1)]
           f == [x \in Pages \X (1 .. n) |-> TheTerminal!Put(x[1], text[x[2]])]
           iter[s \in SUBSET (1 .. n)] == IF s = {} THEN lines
                                          ELSE TheTerminal!Put(iter[s \ {Max(s)}], text[Max(s)])
<1>1. n \in Nat /\ DOMAIN text = 1 .. n /\ \A k \in 1 .. n : text[k] \in Character
  OBVIOUS
<1>8. TheTerminal!Printed(text) = iter[1 .. n]
  BY <1>1 DEF TheTerminal!Printed, TheTerminal!FoldLeft, TheTerminal!MapThenFoldSet,
              TheTerminal!Max, Max
<1> HIDE DEF n, lines
<1>2. f \in [Pages \X (1 .. n) -> Pages]
  BY <1>1, TerminalPutStays
<1>3. \A x \in Pages, k \in 1 .. n : f[<<x, k>>] = TheTerminal!Put(x, text[k])
  OBVIOUS
<1> HIDE DEF f
<1>4. PICK h \in [SUBSET (1 .. n) -> Pages] : Solves(h, n, lines, f)
  <2> DEFINE X == Pages
  <2>1. lines \in X /\ f \in [X \X (1 .. n) -> X] /\ n \in Nat
    BY <1>1, <1>2 DEF lines
  <2> HIDE DEF X
  <2>2. \E h : h \in [SUBSET (1 .. n) -> X] /\ Solves(h, n, lines, f)
    BY ONLY <2>1, FoldSolved
  <2> QED
    BY <2>2 DEF X
<1>5. ASSUME NEW s \in SUBSET (1 .. n)
      PROVE  h[s] = IF s = {} THEN lines ELSE f[<<h[s \ {Max(s)}], Max(s)>>]
  BY <1>4 DEF Solves
<1>6. h = [s \in SUBSET (1 .. n) |-> IF s = {} THEN lines
                                     ELSE TheTerminal!Put(h[s \ {Max(s)}], text[Max(s)])]
  <2>1. ASSUME NEW s \in SUBSET (1 .. n), s # {}
        PROVE  f[<<h[s \ {Max(s)}], Max(s)>>] = TheTerminal!Put(h[s \ {Max(s)}], text[Max(s)])
    <3>1. s \in SUBSET (0 .. n)
      BY <1>1
    <3>2. Max(s) \in s
      BY <1>1, <2>1, <3>1, MaxIs
    <3> DEFINE m == Max(s)
    <3>3. m \in 1 .. n /\ s \ {m} \in SUBSET (1 .. n)
      BY <3>2
    <3> HIDE DEF m
    <3>4. h[s \ {m}] \in Pages
      BY <3>3
    <3>5. f[<<h[s \ {m}], m>>] = TheTerminal!Put(h[s \ {m}], text[m])
      BY <1>3, <3>3, <3>4
    <3> QED
      BY <3>5 DEF m
  <2> DEFINE b(s) == IF s = {} THEN lines
                     ELSE TheTerminal!Put(h[s \ {Max(s)}], text[Max(s)])
  <2>2. \A s \in SUBSET (1 .. n) : h[s] = b(s)
    BY <1>5, <2>1
  <2> HIDE DEF b
  <2>4. h = [s \in SUBSET (1 .. n) |-> b(s)]
    BY <2>2
  <2> QED
    BY <2>4 DEF b
<1>7. iter = [s \in SUBSET (1 .. n) |-> IF s = {} THEN lines
                                        ELSE TheTerminal!Put(iter[s \ {Max(s)}], text[Max(s)])]
  BY <1>6
<1> HIDE DEF iter
<1> DEFINE g == [k \in 0 .. n |-> iter[1 .. k]]
<1>9. g[0] = lines
  <2>1. 1 .. 0 = {} /\ {} \in SUBSET (1 .. n) /\ 0 \in 0 .. n
    BY <1>1, Beginnings
  <2> QED
    BY <1>7, <2>1
<1>10. ASSUME NEW k \in 1 .. n
       PROVE  g[k] = TheTerminal!Put(g[k - 1], text[k])
  <2>1. /\ 1 .. k \in SUBSET (1 .. n) /\ 1 .. k # {}
        /\ Max(1 .. k) = k /\ (1 .. k) \ {k} = 1 .. k - 1
    BY <1>1, Beginnings
  <2>2. iter[1 .. k] = TheTerminal!Put(iter[(1 .. k) \ {k}], text[k])
    BY <1>7, <2>1
  <2>3. k \in 0 .. n /\ k - 1 \in 0 .. n
    BY <1>1
  <2> QED
    BY <2>1, <2>2, <2>3
<1>11. TheTerminal!Printed(text) = g[n]
  BY <1>1, <1>8
<1> HIDE DEF g
<1> QED
  BY <1>9, <1>10, <1>11 DEF n, lines

(* A character goes to the lines of the buffer as it does to a terminal's. *)
LEMMA PutIs ==
  ASSUME NEW scr, NEW s, Sound(s, scr), s.cur.row + 1 < BufRows, NEW c \in Character
  PROVE  /\ Sound(Put(s, c), scr)
         /\ Put(s, c).cur.row \in {s.cur.row, s.cur.row + 1}
         /\ LinesOf(Put(s, c)) = TheTerminal!Put(LinesOf(s), c)
<1>1. /\ s \in [buffer : Cells(BufRows), cur : Place, pre : Place] /\ Wellformed(s)
      /\ s.cur.col \in 0 .. Cols /\ Cols \in Nat
  BY Sizes DEF Sound, Place
<1>2. Len(Last(LinesOf(s))) = s.cur.col
  BY <1>1, LinesAre
<1>3. Len(Last(LinesOf(s))) = Cols <=> Full(s)
  BY <1>1, <1>2 DEF Full
<1>4. TheTerminal!Put(LinesOf(s), c) =
        IF c = NewLine \/ Full(s) THEN Append(LinesOf(s), <<>>)
        ELSE Append(Front(LinesOf(s)), Append(Last(LinesOf(s)), c))
  BY <1>3 DEF TheTerminal!Put, TheTerminal!Last, TheTerminal!Front, Last, Front
<1>5. CASE c = NewLine \/ Full(s)
  <2>1. Put(s, c) = NewLined(s)
    BY <1>5 DEF Put
  <2>2. /\ Sound(NewLined(s), scr)
        /\ NewLined(s).cur = [row |-> s.cur.row + 1, col |-> 0]
        /\ LinesOf(NewLined(s)) = Append(LinesOf(s), <<>>)
    BY NewLineIs
  <2> QED
    BY <1>4, <1>5, <2>1, <2>2
<1>6. CASE ~ (c = NewLine \/ Full(s))
  <2>1. /\ Sound(Put(s, c), scr)
        /\ Put(s, c).cur.row = s.cur.row
        /\ LinesOf(Put(s, c)) = Append(Front(LinesOf(s)), Append(Last(LinesOf(s)), c))
    BY <1>6, PutFits
  <2> QED
    BY <1>4, <1>6, <2>1
<1> QED
  BY <1>5, <1>6

(* A text that does not come to the end of the buffer is printed as a      *)
(* terminal prints it, and moves the cursor a row per character at most.   *)
LEMMA WrittenIs ==
  ASSUME Sound(State, screen), NEW text \in Seq(Character), cur.row + Len(text) < BufRows
  PROVE  /\ Sound(Written(text), screen)
         /\ Written(text).cur.row <= cur.row + Len(text)
         /\ LinesOf(Written(text)) = TheTerminal!Printed(text)
<1> DEFINE n == Len(text)
           row == cur.row
<1>1. n \in Nat /\ \A k \in 1 .. n : text[k] \in Character
  OBVIOUS
<1>2. /\ State \in [buffer : Cells(BufRows), cur : Place, pre : Place] /\ Wellformed(State)
      /\ State.cur = cur /\ cur \in Place
      /\ row \in 0 .. BufRows - 1 /\ BufRows \in Nat
  <2>1. State \in [buffer : Cells(BufRows), cur : Place, pre : Place] /\ Wellformed(State)
    BY DEF Sound
  <2>2. State.cur = cur
    BY DEF State
  <2> QED
    BY <2>1, <2>2, Sizes DEF Place
<1>3. State \in Wide
  <2>1. Place \subseteq Anywhere
    BY Sizes DEF Place, Anywhere
  <2> DEFINE B == Cells(BufRows)
             P == Place
             Q == Anywhere
  <2>2. State \in [buffer : B, cur : P, pre : P] /\ P \subseteq Q
    BY <1>2, <2>1
  <2> HIDE DEF B, P, Q
  <2>3. State \in [buffer : B, cur : Q, pre : Q]
    BY <2>2
  <2> QED
    BY <2>3 DEF Wide, B, Q
<1>4. PICK g : /\ g[0] = State
               /\ \A k \in 1 .. n : g[k] = Put(g[k - 1], text[k])
               /\ Written(text) = g[n]
  BY <1>3, WrittenSteps
<1>5. [i \in 1 .. cur.row + 1 |-> Line(i - 1)] = LinesOf(State)
  BY <1>2, LinesOfState
<1>6. LinesOf(State) \in Pages
  BY <1>2, LinesAre DEF Pages
<1>7. PICK h : /\ h[0] = LinesOf(State)
               /\ \A k \in 1 .. n : h[k] = TheTerminal!Put(h[k - 1], text[k])
               /\ TheTerminal!Printed(text) = h[n]
  BY <1>5, <1>6, PrintedSteps
<1> DEFINE Fine(k) == /\ Sound(g[k], screen)
                      /\ g[k].cur.row <= row + k
                      /\ LinesOf(g[k]) = h[k]
           Good == {k \in Nat : k <= n => Fine(k)}
<1> HIDE DEF n, row
<1>8. Fine(0)
  BY <1>2, <1>4, <1>7 DEF row
<1>9. ASSUME NEW k \in Nat, k + 1 <= n, Fine(k)
      PROVE  Fine(k + 1)
  <2> DEFINE s == g[k]
             c == text[k + 1]
  <2>1. k + 1 \in 1 .. n /\ (k + 1) - 1 = k
    BY <1>1, <1>9
  <2>2. g[k + 1] = Put(s, c) /\ h[k + 1] = TheTerminal!Put(h[k], c) /\ c \in Character
    BY <1>1, <1>4, <1>7, <2>1
  <2>3. Sound(s, screen) /\ s.cur.row <= row + k /\ LinesOf(s) = h[k]
    BY <1>9
  <2> HIDE DEF s, c
  <2>4. s.cur.row \in Nat
    BY <2>3, Sizes DEF Sound, Place
  <2>5. s.cur.row + 1 < BufRows
    <3>1. row + n < BufRows
      BY DEF n, row
    <3> QED
      BY <1>1, <1>2, <1>9, <2>3, <2>4, <3>1
  <2>6. /\ Sound(Put(s, c), screen)
        /\ Put(s, c).cur.row \in {s.cur.row, s.cur.row + 1}
        /\ LinesOf(Put(s, c)) = TheTerminal!Put(LinesOf(s), c)
    BY <2>2, <2>3, <2>5, PutIs
  <2>7. Put(s, c).cur.row <= row + (k + 1)
    BY <1>2, <2>3, <2>4, <2>6
  <2> QED
    BY <2>2, <2>3, <2>6, <2>7
<1>10. Fine(n)
  <2> HIDE DEF Fine
  <2>1. Good \in SUBSET Nat /\ 0 \in Good
    BY <1>8
  <2>2. ASSUME NEW k \in Good
        PROVE  k + 1 \in Good
    BY <1>1, <1>9
  <2>3. n \in Good
    <3> HIDE DEF Good
    <3> QED
      BY <1>1, <2>1, <2>2, Inductive
  <2> QED
    BY <1>1, <2>3
<1> QED
  BY <1>4, <1>7, <1>10 DEF n, row

-----------------------------------------------------------------------------
(* Flushing *)

(* The first row of the buffer that a screen shows. *)
Top(s) == IF s.cur.row >= Rows THEN s.cur.row - (Rows - 1) ELSE 0

(* A row of the screen of a terminal is the row of the buffer. *)
LEMMA PictureIs ==
  ASSUME NEW s \in [buffer : Cells(BufRows), cur : Place, pre : Place], Wellformed(s)
  PROVE  TheTerminal!Picture(LinesOf(s)) =
           [i \in 0 .. Rows - 1 |-> [j \in 0 .. Cols - 1 |-> s.buffer[Top(s) + i][j]]]
<1> DEFINE row == s.cur.row
           ls == LinesOf(s)
           w == TheTerminal!Window(ls)
           top == Top(s)
<1>1. /\ row \in 0 .. BufRows - 1 /\ BufRows \in Nat /\ Rows \in Nat \ {0} /\ Cols \in Nat \ {0}
      /\ Rows <= BufRows
  BY Sizes DEF Place
<1>2. /\ ls \in Seq(Seq(Character)) /\ Len(ls) = row + 1
      /\ \A i \in 1 .. row + 1 : ls[i] = LineOf(s, i - 1)
  BY LinesAre
<1>3. top \in 0 .. row /\ (row >= Rows => top = row - (Rows - 1)) /\ (row < Rows => top = 0)
  <2>1. top = IF row >= Rows THEN row - (Rows - 1) ELSE 0
    BY DEF Top
  <2> HIDE DEF top, row
  <2> QED
    BY <1>1, <2>1
<1>4. /\ Len(w) = IF row >= Rows THEN Rows ELSE row + 1
      /\ \A i \in 0 .. Len(w) - 1 : w[i + 1] = LineOf(s, top + i)
  <2>1. CASE row >= Rows
    <3> DEFINE from == row + 1 - Rows + 1
    <3>1. w = SubSeq(ls, from, row + 1)
      <4>1. w = IF Len(ls) > Rows THEN SubSeq(ls, Len(ls) - Rows + 1, Len(ls)) ELSE ls
        BY DEF TheTerminal!Window
      <4> HIDE DEF w, ls, row
      <4>2. Len(ls) > Rows
        BY <1>1, <1>2, <2>1
      <4> QED
        <5>1. Len(ls) = row + 1
          BY <1>2
        <5>2. Len(ls) - Rows + 1 = from
          BY ONLY <1>1, <5>1 DEF from
        <5> HIDE DEF from
        <5>3. w = SubSeq(ls, from, Len(ls))
          BY ONLY <4>1, <4>2, <5>2
        <5> QED
          BY ONLY <5>1, <5>3
    <3> HIDE DEF w, ls, row, top
    <3>2. from \in 1 .. row + 1 /\ row + 1 \in Nat /\ row + 1 - from + 1 = Rows
          /\ from = top + 1
      BY <1>1, <1>3, <2>1
    <3> HIDE DEF from
    <3>3. Len(w) = Rows /\ \A i \in 1 .. Rows : w[i] = ls[from + i - 1]
      <4> DEFINE to == row + 1
      <4>1. /\ ls \in Seq(Seq(Character)) /\ to \in Nat /\ from \in Nat \ {0} /\ Len(ls) = to
            /\ from <= to /\ to - from + 1 = Rows /\ w = SubSeq(ls, from, to)
        <5>1. to \in Nat /\ from \in Nat \ {0} /\ from <= to /\ to - from + 1 = Rows
          BY ONLY <1>1, <3>2
        <5> QED
          BY ONLY <1>2, <3>1, <5>1
      <4> HIDE DEF to
      <4>2. SubSeq(ls, from, to) = [i \in 1 .. to - from + 1 |-> ls[from + i - 1]]
        BY ONLY <4>1
      <4>3. \A i \in 1 .. Rows : w[i] = ls[from + i - 1]
        BY ONLY <4>1, <4>2
      <4>4. Len(w) = Rows
        BY ONLY <4>1, <1>1
      <4> QED
        BY <4>3, <4>4
    <3>4. ASSUME NEW i \in 0 .. Rows - 1
          PROVE  w[i + 1] = LineOf(s, top + i)
      <4>1. /\ i + 1 \in 1 .. Rows /\ from + (i + 1) - 1 \in 1 .. row + 1
            /\ (from + (i + 1) - 1) - 1 = top + i
        BY <1>1, <1>3, <2>1, <3>2
      <4> QED
        BY <1>2, <3>3, <4>1
    <3> QED
      BY <2>1, <3>3, <3>4
  <2>2. CASE row < Rows
    <3>1. w = ls
      BY <1>1, <1>2, <2>2 DEF TheTerminal!Window
    <3> HIDE DEF w, ls, row, top
    <3>2. ASSUME NEW i \in 0 .. row
          PROVE  ls[i + 1] = LineOf(s, top + i)
      <4>1. i + 1 \in 1 .. row + 1 /\ (i + 1) - 1 = top + i
        BY <1>1, <1>3, <2>2
      <4> QED
        BY <1>2, <4>1
    <3>3. (row + 1) - 1 = row /\ ~ (row >= Rows)
      BY <1>1, <2>2
    <3> QED
      BY <1>2, <3>1, <3>2, <3>3
  <2> HIDE DEF w, row, top
  <2> QED
    BY <1>1, <2>1, <2>2
<1>5. ASSUME NEW i \in 0 .. Rows - 1, NEW j \in 0 .. Cols - 1
      PROVE  (IF i + 1 <= Len(w) /\ j + 1 <= Len(w[i + 1]) THEN w[i + 1][j + 1] ELSE Blank)
               = s.buffer[top + i][j]
  <2> HIDE DEF w, top
  <2>1. CASE top + i <= row
    <3>1. i + 1 <= Len(w) /\ i \in 0 .. Len(w) - 1 /\ top + i \in 0 .. row
      <4> HIDE DEF row
      <4> QED
        BY ONLY <1>1, <1>3, <1>4, <2>1, i \in 0 .. Rows - 1
    <3> DEFINE r == top + i
               u == UsedOf(s, r)
    <3>2. /\ u \in 0 .. Cols
          /\ \A k \in 0 .. Cols - 1 : s.buffer[r][k] # Blank <=> k < u
          /\ LineOf(s, r) = [k \in 1 .. u |-> s.buffer[r][k - 1]] /\ Len(LineOf(s, r)) = u
      BY <3>1, RowIs, LineIs
    <3>3. w[i + 1] = LineOf(s, r)
      BY <1>4, <3>1
    <3> HIDE DEF r, u
    <3>4. CASE j + 1 <= u
      <4>1. j + 1 \in 1 .. u /\ (j + 1) - 1 = j
        <5>1. u \in 0 .. Cols /\ Cols \in Nat \ {0}
          BY <1>1, <3>2
        <5> QED
          BY ONLY <3>4, <5>1, j \in 0 .. Cols - 1
      <4>2. LineOf(s, r)[j + 1] = s.buffer[r][j]
        BY <3>2, <4>1
      <4> QED
        BY <3>1, <3>2, <3>3, <3>4, <4>2 DEF r
    <3>5. CASE ~ (j + 1 <= u)
      <4>1. ~ (j < u)
        BY <1>1, <3>2, <3>5
      <4> QED
        BY <3>2, <3>3, <3>5, <4>1 DEF r
    <3> QED
      BY <3>4, <3>5
  <2>2. CASE ~ (top + i <= row)
    <3>1. top = 0 /\ ~ (i + 1 <= Len(w)) /\ i > row /\ i \in 0 .. BufRows - 1 /\ top + i = i
      <4> HIDE DEF row
      <4> QED
        BY ONLY <1>1, <1>3, <1>4, <2>2, i \in 0 .. Rows - 1
    <3>2. PICK u \in 0 .. Cols : /\ \A k \in 0 .. Cols - 1 : s.buffer[i][k] # Blank <=> k < u
                                 /\ i > row => u = 0
      BY <3>1 DEF Wellformed
    <3>3. ~ (j < u)
      BY <1>1, <3>1, <3>2
    <3> QED
      BY <3>1, <3>2, <3>3
  <2> QED
    BY <2>1, <2>2
<1> HIDE DEF w, top
<1> QED
  BY <1>5 DEF TheTerminal!Picture, w, top

(* What a flush draws. *)
LEMMA DrawnIs ==
  ASSUME NEW s, Sound(s, screen), s.cur.row < Rows, NEW i \in 0 .. Rows - 1, NEW j \in 0 .. Cols - 1
  PROVE  (IF i \in s.pre.row .. s.cur.row /\ j \in Drawn(s, i) THEN s.buffer[i][j] ELSE screen[i][j])
           = s.buffer[i][j]
<1>1. /\ s.cur \in Place /\ s.pre \in Place /\ Wellformed(s) /\ OnScreen(s, screen)
      /\ BufRows \in Nat /\ Rows \in Nat \ {0} /\ Cols \in Nat \ {0} /\ Rows <= BufRows
  BY Sizes DEF Sound
<1>2. i \in 0 .. BufRows - 1
  BY <1>1
<1>3. PICK u \in 0 .. Cols : /\ \A k \in 0 .. Cols - 1 : s.buffer[i][k] # Blank <=> k < u
                             /\ i > s.cur.row => u = 0
  BY <1>1, <1>2 DEF Wellformed
<1>4. screen[i][j] \in {Blank, s.buffer[i][j]}
  BY <1>1 DEF OnScreen
<1>5. CASE s.buffer[i][j] = Blank
  BY <1>4, <1>5
<1>6. CASE s.buffer[i][j] # Blank
  <2>1. j < u /\ i <= s.cur.row /\ s.cur.row \in 0 .. BufRows - 1
    <3>1. j < u
      BY <1>3, <1>6
    <3>2. s.cur.row \in 0 .. BufRows - 1
      BY <1>1 DEF Place
    <3>3. ~ (i > s.cur.row)
      BY <1>3, <3>1
    <3> QED
      BY <1>2, <3>1, <3>2, <3>3
  <2>2. \A k \in 0 .. j : s.buffer[i][k] # Blank
    <3>1. \A k \in 0 .. j : k \in 0 .. Cols - 1 /\ k < u
      BY <1>1, <2>1
    <3> QED
      BY <1>3, <3>1
  <2>3. CASE s.pre = Origin
    <3>1. s.pre.row = 0 /\ s.pre.col = 0
      BY <2>3 DEF Origin
    <3>2. j \in Drawn(s, i)
      BY <2>2, <3>1 DEF Drawn
    <3>3. i \in s.pre.row .. s.cur.row
      BY <1>2, <2>1, <3>1
    <3> QED
      BY <3>2, <3>3
  <2>4. CASE s.pre # Origin
    <3>1. /\ s.pre.row = s.cur.row /\ s.pre.col \in 0 .. Cols
          /\ i < s.pre.row \/ j < s.pre.col => screen[i][j] = s.buffer[i][j]
      <4>1. /\ s.pre.row = s.cur.row
            /\ \A a \in 0 .. s.pre.row, b \in 0 .. Cols - 1 :
                 a < s.pre.row \/ b < s.pre.col => screen[a][b] = s.buffer[a][b]
        BY <1>1, <2>4 DEF OnScreen
      <4>2. i \in 0 .. s.pre.row
        BY <1>2, <2>1, <4>1
      <4>3. s.pre.col \in 0 .. Cols
        BY <1>1 DEF Place
      <4> QED
        BY <4>1, <4>2, <4>3
    <3>2. CASE i < s.pre.row \/ j < s.pre.col
      BY <3>1, <3>2
    <3>3. CASE ~ (i < s.pre.row \/ j < s.pre.col)
      <4>1. i \in s.pre.row .. s.cur.row
        BY <1>2, <2>1, <3>1, <3>3
      <4>2. j \in s.pre.col .. Cols - 1 /\ \A k \in s.pre.col .. j : k \in 0 .. j
        BY <1>1, <3>1, <3>3
      <4>3. j \in Drawn(s, i)
        BY <2>2, <4>2 DEF Drawn
      <4> QED
        BY <4>1, <4>3
    <3> QED
      BY <3>2, <3>3
  <2> QED
    BY <2>3, <2>4
<1> QED
  BY <1>5, <1>6

(* A flush brings the screen up to date. *)
LEMMA FlushIs ==
  ASSUME NEW s, Sound(s, screen), Flush(s)
  PROVE  /\ screen' = TheTerminal!Picture(LinesOf(s))
         /\ LinesOf([s EXCEPT !.pre = s.cur]) = LinesOf(s)
         /\ Sound([s EXCEPT !.pre = s.cur], screen')
<1> DEFINE t == [s EXCEPT !.pre = s.cur]
<1>1. /\ s \in [buffer : Cells(BufRows), cur : Place, pre : Place] /\ Wellformed(s)
      /\ s.cur.row \in 0 .. BufRows - 1 /\ s.cur.col \in 0 .. Cols
      /\ BufRows \in Nat /\ Rows \in Nat \ {0} /\ Cols \in Nat \ {0} /\ Rows <= BufRows
  BY Sizes DEF Sound, Place
<1>2. screen' = [i \in 0 .. Rows - 1 |-> [j \in 0 .. Cols - 1 |-> s.buffer[Top(s) + i][j]]]
  <2>1. CASE s.cur.row >= Rows
    <3>1. screen' = [i \in 0 .. Rows - 1 |-> s.buffer[s.cur.row - (Rows - 1) + i]]
      BY <2>1 DEF Flush, Scrolled
    <3>2. Top(s) = s.cur.row - (Rows - 1)
      BY <2>1 DEF Top
    <3>3. ASSUME NEW i \in 0 .. Rows - 1
          PROVE  s.buffer[Top(s) + i] = [j \in 0 .. Cols - 1 |-> s.buffer[Top(s) + i][j]]
      <4> DEFINE r == Top(s) + i
                 b == s.buffer
      <4>1. r \in 0 .. BufRows - 1
        BY <1>1, <2>1, <3>2
      <4>2. b \in [0 .. BufRows - 1 -> [0 .. Cols - 1 -> 0 .. 255]]
        BY <1>1 DEF Cells
      <4> HIDE DEF r, b
      <4>3. b[r] \in [0 .. Cols - 1 -> 0 .. 255]
        BY <4>1, <4>2
      <4>4. b[r] = [j \in 0 .. Cols - 1 |-> b[r][j]]
        BY <4>3
      <4> QED
        BY <4>4 DEF r, b
    <3> DEFINE top == Top(s)
    <3>4. screen' = [i \in 0 .. Rows - 1 |-> s.buffer[top + i]]
      BY <3>1, <3>2
    <3>5. \A i \in 0 .. Rows - 1 : s.buffer[top + i] = [j \in 0 .. Cols - 1 |-> s.buffer[top + i][j]]
      BY <3>3
    <3> HIDE DEF top
    <3> QED
      BY <3>4, <3>5 DEF top
  <2>2. CASE ~ (s.cur.row >= Rows)
    <3>1. s.cur.row < Rows /\ Top(s) = 0
      BY <1>1, <2>2 DEF Top
    <3>2. screen' = Updated(s)
      BY <2>2 DEF Flush
    <3> DEFINE v(i, j) == IF i \in s.pre.row .. s.cur.row /\ j \in Drawn(s, i) THEN s.buffer[i][j]
                          ELSE screen[i][j]
    <3>3. \A i \in 0 .. Rows - 1, j \in 0 .. Cols - 1 : v(i, j) = s.buffer[Top(s) + i][j]
      <4>1. ASSUME NEW i \in 0 .. Rows - 1, NEW j \in 0 .. Cols - 1
            PROVE  v(i, j) = s.buffer[i][j]
        BY <3>1, DrawnIs
      <4>2. \A i \in 0 .. Rows - 1 : Top(s) + i = i
        BY <1>1, <3>1
      <4> HIDE DEF v
      <4> QED
        BY <4>1, <4>2
    <3>4. screen' = [i \in 0 .. Rows - 1 |-> [j \in 0 .. Cols - 1 |-> v(i, j)]]
      BY <3>2 DEF Updated
    <3> HIDE DEF v
    <3> QED
      BY <3>3, <3>4
  <2> QED
    BY <2>1, <2>2
<1>3. screen' = TheTerminal!Picture(LinesOf(s))
  BY <1>1, <1>2, PictureIs
<1>4. t.buffer = s.buffer /\ t.cur = s.cur /\ t.pre = s.cur
      /\ t \in [buffer : Cells(BufRows), cur : Place, pre : Place]
  <2> DEFINE B == Cells(BufRows)
             P == Place
             x == s.cur
  <2>1. s \in [buffer : B, cur : P, pre : P] /\ x \in P /\ t = [s EXCEPT !.pre = x]
    BY <1>1
  <2> HIDE DEF B, P, t, x
  <2>2. t.buffer = s.buffer /\ t.cur = s.cur /\ t.pre = x /\ t \in [buffer : B, cur : P, pre : P]
    BY ONLY <2>1
  <2> QED
    BY <2>2 DEF B, P, x
<1> HIDE DEF t
<1>5. LinesOf(t) = LinesOf(s)
  BY <1>4 DEF LinesOf, LineOf, UsedOf, Filled
<1>6. Wellformed(t)
  BY <1>1, <1>4 DEF Wellformed
<1>7. \A r \in 0 .. BufRows - 1, j \in 0 .. Cols - 1 : s.buffer[r][j] \in 0 .. 255
  <2> DEFINE b == s.buffer
  <2>1. b \in [0 .. BufRows - 1 -> [0 .. Cols - 1 -> 0 .. 255]]
    BY <1>1 DEF Cells
  <2> HIDE DEF b
  <2>2. \A r \in 0 .. BufRows - 1, j \in 0 .. Cols - 1 : b[r][j] \in 0 .. 255
    BY <2>1
  <2> QED
    BY <2>2 DEF b
<1>8. ASSUME NEW i \in 0 .. Rows - 1
      PROVE  Top(s) + i \in 0 .. BufRows - 1
  BY <1>1 DEF Top
<1>9. screen' \in Cells(Rows)
  <2> DEFINE r(i) == Top(s) + i
  <2>1. \A i \in 0 .. Rows - 1 : r(i) \in 0 .. BufRows - 1
    BY <1>8
  <2> HIDE DEF r
  <2>2. \A i \in 0 .. Rows - 1, j \in 0 .. Cols - 1 : s.buffer[r(i)][j] \in 0 .. 255
    BY <1>7, <2>1
  <2>3. [i \in 0 .. Rows - 1 |-> [j \in 0 .. Cols - 1 |-> s.buffer[r(i)][j]]]
          \in [0 .. Rows - 1 -> [0 .. Cols - 1 -> 0 .. 255]]
    BY <2>2
  <2> QED
    BY <1>2, <2>3 DEF r, Cells
<1>10. OnScreen(t, screen')
  <2> SUFFICES ASSUME s.cur.row < Rows
               PROVE  \A i \in 0 .. Rows - 1, j \in 0 .. Cols - 1 : screen'[i][j] = s.buffer[i][j]
    <3>1. \A i \in 0 .. s.cur.row : s.cur.row < Rows => i \in 0 .. Rows - 1
      BY <1>1
    <3>2. s.cur.col <= s.cur.col
      BY <1>1
    <3> QED
      BY <1>4, <3>1, <3>2 DEF OnScreen
  <2>1. Top(s) = 0
    BY <1>1 DEF Top
  <2>2. \A i \in 0 .. Rows - 1 : Top(s) + i = i
    BY <1>1, <2>1
  <2> QED
    BY <1>2, <2>2
<1> QED
  BY <1>3, <1>4, <1>5, <1>6, <1>9, <1>10 DEF Sound, t

(* What holds of the console between calls. *)
ConsoleSound == Sound(State, screen)

(* The lines after a step, and what it has set. *)
LEMMA SetIs ==
  ASSUME NEW s \in [buffer : Cells(BufRows), cur : Place, pre : Place], Set(s)
  PROVE  /\ State' = s /\ cur' = s.cur
         /\ [i \in 1 .. cur.row + 1 |-> Line(i - 1)]' = LinesOf(s)
<1>1. buffer' = s.buffer /\ cur' = s.cur /\ pre' = s.pre
  BY DEF Set
<1>2. State' = s
  <2> DEFINE B == Cells(BufRows)
             P == Place
  <2>1. s \in [buffer : B, cur : P, pre : P]
    OBVIOUS
  <2> HIDE DEF B, P
  <2>2. [buffer |-> s.buffer, cur |-> s.cur, pre |-> s.pre] = s
    BY ONLY <2>1
  <2> QED
    BY <1>1, <2>2 DEF State
<1>3. [i \in 1 .. cur.row + 1 |-> Line(i - 1)]' = LinesOf(s)
  BY <1>1 DEF LinesOf, Line, LineOf, Used, UsedOf, Filled
<1> QED
  BY <1>1, <1>2, <1>3

(* The types of a console. *)
LEMMA SoundIs ==
  ASSUME NEW s, NEW scr, Sound(s, scr)
  PROVE  /\ s \in [buffer : Cells(BufRows), cur : Place, pre : Place] /\ Wellformed(s)
         /\ scr \in Cells(Rows) /\ s.cur.row \in Nat
BY Sizes DEF Sound, Place

(* Printing, as a terminal prints. *)
LEMMA PrintIs ==
  ASSUME ConsoleSound, NEW text \in Text, cur.row + Len(text) < BufRows, VtFlushWithBuf(text)
  PROVE  ConsoleSound' /\ cur'.row <= cur.row + Len(text) /\ TheTerminal!PrintSeen(text)
<1> DEFINE s == Written(text)
           t == [s EXCEPT !.pre = s.cur]
<1>1. text \in Seq(Character)
  BY KprintfAssumption
<1>2. Flush(s) /\ Set(t)
  BY DEF VtFlushWithBuf
<1>3. /\ Sound(s, screen) /\ s.cur.row <= cur.row + Len(text)
      /\ LinesOf(s) = TheTerminal!Printed(text)
  BY <1>1, WrittenIs DEF ConsoleSound
<1> HIDE DEF s
<1>4. /\ screen' = TheTerminal!Picture(LinesOf(s)) /\ LinesOf(t) = LinesOf(s)
      /\ Sound(t, screen')
  BY <1>2, <1>3, FlushIs
<1>5. t.cur = s.cur
  <2>1. s \in [buffer : Cells(BufRows), cur : Place, pre : Place]
    BY <1>3, SoundIs
  <2> DEFINE B == Cells(BufRows)
             P == Place
  <2>2. s \in [buffer : B, cur : P, pre : P]
    BY <2>1
  <2> HIDE DEF B, P
  <2> QED
    BY ONLY <2>2
<1> HIDE DEF t
<1>6. t \in [buffer : Cells(BufRows), cur : Place, pre : Place]
  BY <1>4, SoundIs
<1>7. State' = t /\ cur' = t.cur /\ [i \in 1 .. cur.row + 1 |-> Line(i - 1)]' = LinesOf(t)
  BY <1>2, <1>6, SetIs
<1>8. ConsoleSound'
  <2>1. ConsoleSound' <=> Sound(State', screen')
    BY DEF ConsoleSound, Sound, Wellformed, OnScreen
  <2> QED
    BY <1>4, <1>7, <2>1
<1>9. TheTerminal!PrintSeen(text)
  BY <1>3, <1>4, <1>7 DEF TheTerminal!PrintSeen
<1> QED
  BY <1>3, <1>5, <1>7, <1>8, <1>9

(* Writing without a flush. *)
LEMMA UnseenIs ==
  ASSUME ConsoleSound, NEW text \in Plain, VgaTextWrite(text)
  PROVE  ConsoleSound' /\ TheTerminal!PrintUnseen(text)
<1> DEFINE s == Written(text)
<1>1. text \in Seq(Character) /\ LastRow + Len(text) + 1 < BufRows /\ Len(text) \in Nat
  BY KprintfAssumption
<1>2. Set(s) /\ screen' = screen /\ cur.row <= LastRow
  BY DEF VgaTextWrite, InReach
<1>3. cur.row + Len(text) < BufRows
  <2>1. cur.row \in Nat /\ LastRow \in Nat /\ BufRows \in Nat
    <3>1. State.cur = cur
      BY DEF State
    <3> QED
      BY <3>1, SoundIs, Sizes DEF ConsoleSound
  <2> QED
    BY <1>1, <1>2, <2>1
<1>4. Sound(s, screen) /\ LinesOf(s) = TheTerminal!Printed(text)
  BY <1>1, <1>3, WrittenIs DEF ConsoleSound
<1> HIDE DEF s
<1>5. State' = s /\ [i \in 1 .. cur.row + 1 |-> Line(i - 1)]' = LinesOf(s)
  BY <1>2, <1>4, SoundIs, SetIs
<1>6. ConsoleSound'
  <2>1. ConsoleSound' <=> Sound(State', screen')
    BY DEF ConsoleSound, Sound, Wellformed, OnScreen
  <2> QED
    BY <1>2, <1>4, <1>5, <2>1
<1> QED
  BY <1>2, <1>4, <1>5, <1>6 DEF TheTerminal!PrintUnseen

(* A new line without a flush. *)
LEMMA LineUnseenIs ==
  ASSUME ConsoleSound, NEW text \in Plain, VtNewLine(text)
  PROVE  ConsoleSound' /\ TheTerminal!PrintLineUnseen(text)
<1> DEFINE s == Written(text)
           t == NewLined(s)
<1>1. text \in Seq(Character) /\ LastRow + Len(text) + 1 < BufRows /\ Len(text) \in Nat
  BY KprintfAssumption
<1>2. Set(t) /\ screen' = screen /\ cur.row <= LastRow
  BY DEF VtNewLine, InReach
<1>3. cur.row \in Nat /\ LastRow \in Nat /\ BufRows \in Nat
  <2>1. State.cur = cur
    BY DEF State
  <2> QED
    BY <2>1, SoundIs, Sizes DEF ConsoleSound
<1>4. cur.row + Len(text) < BufRows
  BY <1>1, <1>2, <1>3
<1>5. /\ Sound(s, screen) /\ LinesOf(s) = TheTerminal!Printed(text)
      /\ s.cur.row <= cur.row + Len(text)
  BY <1>1, <1>4, WrittenIs DEF ConsoleSound
<1> HIDE DEF s
<1>6. s.cur.row + 1 < BufRows
  <2>1. s.cur.row \in Nat
    BY <1>5, SoundIs
  <2> QED
    BY <1>1, <1>2, <1>3, <1>5, <2>1
<1>7. Sound(t, screen) /\ LinesOf(t) = Append(LinesOf(s), <<>>)
  BY <1>5, <1>6, NewLineIs
<1> HIDE DEF t
<1>8. State' = t /\ [i \in 1 .. cur.row + 1 |-> Line(i - 1)]' = LinesOf(t)
  BY <1>2, <1>7, SoundIs, SetIs
<1>9. ConsoleSound'
  <2>1. ConsoleSound' <=> Sound(State', screen')
    BY DEF ConsoleSound, Sound, Wellformed, OnScreen
  <2> QED
    BY <1>2, <1>7, <1>8, <2>1
<1> QED
  BY <1>2, <1>5, <1>7, <1>8, <1>9 DEF TheTerminal!PrintLineUnseen

(* A flush of what has been written. *)
LEMMA ShowIs ==
  ASSUME ConsoleSound, VtFlush
  PROVE  ConsoleSound' /\ TheTerminal!Show
<1> DEFINE s == State
           t == [s EXCEPT !.pre = s.cur]
<1>1. Flush(s) /\ pre' = cur /\ buffer' = buffer /\ cur' = cur
  BY DEF VtFlush
<1>2. Sound(s, screen)
  BY DEF ConsoleSound
<1>3. /\ screen' = TheTerminal!Picture(LinesOf(s)) /\ LinesOf(t) = LinesOf(s)
      /\ Sound(t, screen')
  BY <1>1, <1>2, FlushIs
<1>4. State' = t
  BY <1>1 DEF State
<1>5. [i \in 1 .. cur.row + 1 |-> Line(i - 1)] = LinesOf(s)
  BY <1>2, SoundIs, LinesOfState
<1>6. [i \in 1 .. cur.row + 1 |-> Line(i - 1)]' = [i \in 1 .. cur.row + 1 |-> Line(i - 1)]
  BY <1>1 DEF Line, Used
<1>7. ConsoleSound'
  <2>1. ConsoleSound' <=> Sound(State', screen')
    BY DEF ConsoleSound, Sound, Wellformed, OnScreen
  <2> HIDE DEF t
  <2> QED
    BY <1>3, <1>4, <2>1
<1> QED
  BY <1>3, <1>5, <1>6, <1>7 DEF TheTerminal!Show

(* An empty buffer is one empty line, and an empty screen shows it. *)
LEMMA EmptyIs ==
  LET s == [buffer |-> Cleared(BufRows), cur |-> Origin, pre |-> Origin]
  IN  Sound(s, Cleared(Rows)) /\ LinesOf(s) = <<<<>>>>
<1> DEFINE s == [buffer |-> Cleared(BufRows), cur |-> Origin, pre |-> Origin]
           S == [buffer : Cells(BufRows), cur : Place, pre : Place]
<1>1. Rows \in Nat \ {0} /\ Cols \in Nat \ {0} /\ BufRows \in Nat /\ Rows <= BufRows
  BY Sizes
<1>2. Origin \in Place /\ Origin.row = 0 /\ Origin.col = 0
  BY <1>1 DEF Origin, Place
<1>3. \A n \in Nat : Cleared(n) \in Cells(n)
  BY DEF Cleared, Cells, Blank
<1>4. \A n \in Nat : \A i \in 0 .. n - 1, j \in 0 .. Cols - 1 : Cleared(n)[i][j] = Blank
  BY DEF Cleared
<1>5. s \in S /\ s.buffer = Cleared(BufRows) /\ s.cur = Origin /\ s.pre = Origin
  <2> DEFINE B == Cells(BufRows)
             P == Place
             b == Cleared(BufRows)
             o == Origin
  <2>1. b \in B /\ o \in P
    BY <1>1, <1>2, <1>3
  <2> HIDE DEF B, P, b, o
  <2>2. [buffer |-> b, cur |-> o, pre |-> o] \in [buffer : B, cur : P, pre : P]
    BY ONLY <2>1
  <2> QED
    BY <2>2 DEF B, P, b, o
<1> HIDE DEF s
<1>6. Wellformed(s)
  <2> SUFFICES ASSUME NEW row \in 0 .. BufRows - 1
               PROVE  \E u \in 0 .. Cols :
                        /\ \A j \in 0 .. Cols - 1 : s.buffer[row][j] # Blank <=> j < u
                        /\ row = s.cur.row => u = s.cur.col
                        /\ row > s.cur.row => u = 0
    BY DEF Wellformed
  <2>1. \A j \in 0 .. Cols - 1 : s.buffer[row][j] = Blank /\ ~ (j < 0)
    BY <1>1, <1>4, <1>5
  <2>2. 0 \in 0 .. Cols /\ s.cur.col = 0
    BY <1>1, <1>2, <1>5
  <2> QED
    BY <2>1, <2>2
<1>7. OnScreen(s, Cleared(Rows))
  BY <1>1, <1>4, <1>5 DEF OnScreen
<1>8. LinesOf(s) = <<<<>>>>
  <2>1. LinesOf(s) = [i \in 1 .. 1 |-> LineOf(s, i - 1)]
    BY <1>2, <1>5 DEF LinesOf
  <2>2. LineOf(s, 0) = <<>>
    <3>1. 0 \in 0 .. s.cur.row
      BY <1>2, <1>5
    <3>2. LineOf(s, 0) \in Seq(Character) /\ Len(LineOf(s, 0)) = 0
      BY <1>2, <1>5, <1>6, <3>1, LineIs, RowIs
    <3> QED
      BY <3>2, EmptySeq
  <2>3. \A i \in 1 .. 1 : LineOf(s, i - 1) = <<>>
    <3>1. \A i \in 1 .. 1 : i - 1 = 0
      OBVIOUS
    <3> QED
      BY <2>2, <3>1
  <2>4. [i \in 1 .. 1 |-> LineOf(s, i - 1)] = [i \in 1 .. 1 |-> <<>>]
    BY <2>3
  <2>5. [i \in 1 .. 1 |-> <<>>] = <<<<>>>>
    OBVIOUS
  <2> QED
    BY <2>1, <2>4, <2>5
<1> QED
  BY <1>1, <1>3, <1>5, <1>6, <1>7, <1>8 DEF Sound, s

(* Clearing the screen. *)
LEMMA ClearIs ==
  ASSUME VtCls
  PROVE  ConsoleSound' /\ TheTerminal!Clear
<1> DEFINE s == [buffer |-> Cleared(BufRows), cur |-> Origin, pre |-> Origin]
<1>1. buffer' = Cleared(BufRows) /\ screen' = Cleared(Rows) /\ cur' = Origin /\ pre' = Origin
  BY DEF VtCls
<1>2. Sound(s, Cleared(Rows)) /\ LinesOf(s) = <<<<>>>>
  BY EmptyIs
<1>3. Set(s)
  BY <1>1 DEF Set
<1> HIDE DEF s
<1>4. State' = s /\ [i \in 1 .. cur.row + 1 |-> Line(i - 1)]' = LinesOf(s)
  BY <1>2, <1>3, SoundIs, SetIs
<1>5. ConsoleSound'
  <2>1. ConsoleSound' <=> Sound(State', screen')
    BY DEF ConsoleSound, Sound, Wellformed, OnScreen
  <2> QED
    BY <1>1, <1>2, <1>4, <2>1
<1> QED
  BY <1>1, <1>2, <1>4, <1>5 DEF TheTerminal!Clear, TheTerminal!Empty, Cleared

(* At first the console is an empty terminal. *)
LEMMA ConsoleStarts ==
  ASSUME ConsoleInit
  PROVE  ConsoleSound /\ TheTerminal!Init
<1> DEFINE s == [buffer |-> Cleared(BufRows), cur |-> Origin, pre |-> Origin]
<1>1. State = s /\ screen = Cleared(Rows)
  BY DEF ConsoleInit, State
<1>2. Sound(s, Cleared(Rows)) /\ LinesOf(s) = <<<<>>>>
  BY EmptyIs
<1> HIDE DEF s
<1>3. [i \in 1 .. cur.row + 1 |-> Line(i - 1)] = <<<<>>>>
  BY <1>1, <1>2, SoundIs, LinesOfState
<1> QED
  BY <1>1, <1>2, <1>3 DEF ConsoleSound, TheTerminal!Init, TheTerminal!Empty, Cleared

-----------------------------------------------------------------------------
(* Room in the buffer *)

(* What the handler prints next is part of what it has still to print. *)
LEMMA OwedIs ==
  ASSUME CallTypes, RowInv
  PROVE  /\ Owed \in Nat /\ cur = State.cur
         /\ pending # <<>> => /\ Head(pending).text \in Text /\ Len(Head(pending).text) \in Nat
                              /\ Len(Head(pending).text) <= Owed
<1> DEFINE P == [conversion : Conversion, text : Seq(Character)]
           p == pending
<1>1. p \in Seq(P) /\ Len(p) \in 0 .. 2 /\ \A k \in 1 .. Len(p) : p[k].text \in Text
  <2>1. p \in Seq(P) /\ Len(p) <= 2 /\ \A k \in 1 .. Len(p) : p[k].text \in Text
    BY DEF CallTypes, RowInv
  <2> HIDE DEF P, p
  <2>2. Len(p) \in Nat
    BY ONLY <2>1
  <2> DEFINE n == Len(p)
  <2>3. n \in Nat /\ n <= 2
    BY <2>1, <2>2
  <2> HIDE DEF n
  <2>4. n \in 0 .. 2
    BY ONLY <2>3
  <2>5. Len(p) \in 0 .. 2
    BY <2>4 DEF n
  <2> QED
    BY ONLY <2>1, <2>5
<1>2. \A k \in 1 .. Len(p) : Len(p[k].text) \in Nat
  <2>1. \A k \in 1 .. Len(p) : p[k].text \in Seq(Character)
    BY <1>1, KprintfAssumption
  <2> QED
    BY <2>1, LenProperties
<1>3. Owed = IF p = <<>> THEN 0 ELSE IF Len(p) = 1 THEN Len(p[1].text)
             ELSE Len(p[1].text) + Len(p[2].text)
  BY DEF Owed
<1>4. p = <<>> \/ Len(p) \in {1, 2}
  <2> HIDE DEF P, p
  <2> QED
    BY <1>1, EmptySeq
<1>5. p # <<>> => 1 \in 1 .. Len(p) /\ Head(p) = p[1] /\ (Len(p) = 2 => 2 \in 1 .. Len(p))
  <2> HIDE DEF P, p
  <2> SUFFICES ASSUME p # <<>>
               PROVE  1 \in 1 .. Len(p) /\ Head(p) = p[1] /\ (Len(p) = 2 => 2 \in 1 .. Len(p))
    OBVIOUS
  <2>1. Len(p) \in {1, 2}
    BY <1>4
  <2>2. 1 \in 1 .. Len(p) /\ (Len(p) = 2 => 2 \in 1 .. Len(p))
    BY ONLY <2>1
  <2>3. Head(p) = p[1]
    BY ONLY <1>1, <2>1
  <2> QED
    BY <2>2, <2>3
<1> HIDE DEF P
<1>6. cur = State.cur
  BY DEF State
<1>7. CASE p = <<>>
  BY <1>3, <1>6, <1>7
<1>8. CASE p # <<>>
  <2> DEFINE a == Len(p[1].text)
             b == Len(p[2].text)
  <2>1. /\ a \in Nat /\ Head(p).text \in Text /\ Len(Head(p).text) = a
        /\ Owed = a \/ (b \in Nat /\ Owed = a + b)
    BY <1>1, <1>2, <1>3, <1>4, <1>5, <1>8
  <2> HIDE DEF a, b
  <2>2. Owed \in Nat /\ a <= Owed
    BY ONLY <2>1
  <2> QED
    BY <1>6, <2>1, <2>2
<1> QED
  BY <1>7, <1>8

(* What a key prints has a length. *)
LEMMA EchoedIs ==
  ASSUME NEW key \in Key
  PROVE  Echoed(key) \in Nat
<1>1. key.label \in Seq(Character) /\ Char(key.code) \in Seq(Character)
  BY KprintfAssumption
<1>2. Len(key.label) \in Nat /\ Len(Char(key.code)) \in Nat
  BY <1>1, LenProperties
<1>3. Announced(key) \in Nat
  BY <1>2 DEF Announced
<1> QED
  BY <1>2, <1>3 DEF Echoed

(* There is room for what is about to be printed. *)
LEMMA RoomIs ==
  ASSUME CallTypes, CallInv, RowInv, ConsoleSound
  PROVE  /\ pending # <<>> => cur.row + Len(Head(pending).text) < BufRows
         /\ pending = <<>> /\ pi.at = "read" /\ pi.i > Len(Fmt) =>
              pi.buf \in Text /\ cur.row + Len(pi.buf) < BufRows
<1>1. cur.row \in Nat /\ LastRow \in Nat /\ BufRows \in Nat
  BY OwedIs, SoundIs, Sizes DEF ConsoleSound
<1>2. ASSUME pending # <<>>
      PROVE  cur.row + Len(Head(pending).text) < BufRows
  <2>1. PICK key \in Key : cur.row + Owed <= LastRow + Echoed(key)
    BY <1>2 DEF RowInv
  <2>2. LastRow + Echoed(key) < BufRows
    BY KprintfAssumption
  <2>3. Owed \in Nat /\ Len(Head(pending).text) \in Nat /\ Len(Head(pending).text) <= Owed
    BY <1>2, OwedIs
  <2>4. Echoed(key) \in Nat
    BY EchoedIs
  <2> QED
    BY ONLY <1>1, <2>1, <2>2, <2>3, <2>4
<1>3. ASSUME pending = <<>>, pi.at = "read", pi.i > Len(Fmt)
      PROVE  pi.buf \in Text /\ cur.row + Len(pi.buf) < BufRows
  <2> DEFINE text == Expected(pi.call, pi.hits)
  <2>1. /\ pi.buf = text /\ pi.call \in Call
        /\ pi.hits \in SUBSET (1 .. Len(Conversions(pi.call)))
    BY <1>3, CallEnds
  <2>2. /\ text \in Text /\ LastRow + Len(text) < BufRows
        /\ \A key \in Key : LastRow + Echoed(key) + Len(text) < BufRows
    BY <2>1, KprintfAssumption
  <2>3. Len(text) \in Nat
    <3>1. text \in Seq(Character)
      BY <2>2, KprintfAssumption
    <3> HIDE DEF text
    <3> QED
      BY <3>1, LenProperties
  <2>4. Owed = 0
    BY <1>3 DEF Owed
  <2> HIDE DEF text
  <2>5. cur.row <= LastRow \/ \E key \in Key : cur.row <= LastRow + Echoed(key)
    <3>1. cur.row + Owed = cur.row
      BY <1>1, <2>4
    <3>2. \/ cur.row + Owed <= LastRow
          \/ \E key \in Key : cur.row + Owed <= LastRow + Echoed(key)
      BY <1>3 DEF RowInv
    <3> QED
      BY <3>1, <3>2
  <2>6. CASE cur.row <= LastRow
    <3>1. cur.row + Len(text) < BufRows
      BY ONLY <1>1, <2>2, <2>3, <2>6
    <3> QED
      BY <2>1, <2>2, <3>1
  <2>7. ASSUME NEW key \in Key, cur.row <= LastRow + Echoed(key)
        PROVE  cur.row + Len(text) < BufRows
    <3>1. Echoed(key) \in Nat
      BY EchoedIs
    <3>2. LastRow + Echoed(key) + Len(text) < BufRows
      BY <2>2
    <3> QED
      BY ONLY <1>1, <2>3, <2>7, <3>1, <3>2
  <2> QED
    BY <2>1, <2>2, <2>5, <2>6, <2>7
<1> QED
  BY <1>2, <1>3

-----------------------------------------------------------------------------
(* The invariant of kprintf *)

(* Inductive: the call is where its format, its arguments and its buffer   *)
(* say; there is room for what it and the handler have still to print; and *)
(* the buffer, the screen and the cursor agree.                            *)
KprintfInv == CallTypes /\ CallInv /\ RowInv /\ ConsoleSound

(* A step that leaves the console alone. *)
LEMMA ConsoleAlone ==
  ASSUME ConsoleSound, UNCHANGED console
  PROVE  ConsoleSound' /\ UNCHANGED TheTerminal!vars /\ cur' = cur
<1>1. buffer' = buffer /\ screen' = screen /\ cur' = cur /\ pre' = pre
  BY DEF console
<1>2. State' = State
  BY <1>1 DEF State
<1>3. ConsoleSound'
  <2>1. ConsoleSound' <=> Sound(State', screen')
    BY DEF ConsoleSound, Sound, Wellformed, OnScreen
  <2> QED
    BY <1>1, <1>2, <2>1 DEF ConsoleSound
<1>4. UNCHANGED TheTerminal!vars
  BY <1>1 DEF TheTerminal!vars, Line, Used
<1> QED
  BY <1>1, <1>3, <1>4

(* A step that prints nothing and begins no call needs no more room. *)
LEMMA RowAlone ==
  ASSUME CallTypes, RowInv, cur' = cur, pending' = pending, pi'.at # "idle" => pi.at # "idle"
  PROVE  RowInv'
<1>1. Owed' = Owed
  BY DEF Owed
<1> QED
  BY <1>1 DEF RowInv

(* A call begins in reach. *)
LEMMA RowBegin ==
  ASSUME CallTypes, RowInv, ConsoleSound, NEW call \in Call, Begin(call)
  PROVE  RowInv'
<1>1. cur' = cur /\ pending' = <<>> /\ cur.row <= LastRow /\ cur.row \in Nat
  <2>1. cur.row \in Nat
    BY OwedIs, SoundIs DEF ConsoleSound
  <2> QED
    BY <2>1 DEF Begin, Runs, InReach, console
<1>2. Owed' = 0
  BY <1>1 DEF Owed
<1>3. cur'.row + Owed' <= LastRow
  BY <1>1, <1>2
<1>4. Len(<<>>) = 0 /\ 1 .. 0 = {}
  OBVIOUS
<1> QED
  BY <1>1, <1>3, <1>4 DEF RowInv

(* A key is pressed in reach. *)
LEMMA RowKeyPressed ==
  ASSUME CallTypes, RowInv, ConsoleSound, NEW key \in Key, KeyPressed(key)
  PROVE  RowInv'
<1> DEFINE p == pending'
           e == Echoed(key)
<1>1. cur' = cur /\ cur.row <= LastRow /\ cur.row \in Nat /\ LastRow \in Nat /\ e \in Nat
  <2>1. cur.row \in Nat
    BY OwedIs, SoundIs DEF ConsoleSound
  <2> QED
    BY <2>1, EchoedIs, Sizes DEF KeyPressed, InReach, console
<1>2. /\ p # <<>> /\ Len(p) \in 1 .. 2
      /\ \A k \in 1 .. Len(p) : p[k].text \in Text
      /\ Len(p) = 1 => Len(p[1].text) = e
      /\ Len(p) = 2 => Len(p[1].text) + Len(p[2].text) = e
  BY AnnouncementIs DEF KeyPressed
<1>3. Owed' = IF p = <<>> THEN 0 ELSE IF Len(p) = 1 THEN Len(p[1].text)
              ELSE Len(p[1].text) + Len(p[2].text)
  BY DEF Owed
<1>4. Owed' = e
  <2> HIDE DEF p, e
  <2>1. Len(p) = 1 \/ Len(p) = 2
    BY ONLY <1>2
  <2>2. CASE Len(p) = 1
    BY <1>2, <1>3, <2>2
  <2>3. CASE Len(p) = 2
    BY <1>2, <1>3, <2>3
  <2> QED
    BY <2>1, <2>2, <2>3
<1> HIDE DEF e
<1>5. cur'.row + Owed' <= LastRow + e
  <2>1. cur'.row = cur.row
    BY <1>1
  <2> DEFINE a == cur.row
  <2>2. a + e <= LastRow + e
    <3>1. a \in Nat /\ LastRow \in Nat /\ e \in Nat /\ a <= LastRow
      BY <1>1
    <3> HIDE DEF a
    <3> QED
      BY ONLY <3>1
  <2> QED
    BY <1>4, <2>1, <2>2
<1>6. Len(p) <= 2
  BY <1>2
<1>7. \E k \in Key : cur'.row + Owed' <= LastRow + Echoed(k)
  BY <1>5 DEF e
<1> HIDE DEF p
<1> QED
  BY <1>2, <1>6, <1>7 DEF RowInv, p

(* What the handler prints, it has not to print any more. *)
LEMMA RowHandlerPrints ==
  ASSUME CallTypes, RowInv, ConsoleSound, HandlerPrints,
         cur'.row \in Nat, cur'.row <= cur.row + Len(Head(pending).text)
  PROVE  RowInv'
<1> DEFINE P == [conversion : Conversion, text : Seq(Character)]
           p == pending
           q == pending'
<1>1. p \in Seq(P) /\ p # <<>> /\ q = Tail(p) /\ pi' = pi /\ Len(p) <= 2
      /\ \A k \in 1 .. Len(p) : p[k].text \in Text
  BY DEF CallTypes, RowInv, HandlerPrints
<1>2. Len(p) \in {1, 2} /\ Head(p) = p[1]
  <2> HIDE DEF P, p
  <2>1. Len(p) \in Nat /\ Len(p) # 0 /\ Head(p) = p[1]
    BY ONLY <1>1, EmptySeq
  <2> DEFINE n == Len(p)
  <2>2. n \in Nat /\ n # 0 /\ n <= 2
    BY <1>1, <2>1
  <2> HIDE DEF n
  <2>3. n \in {1, 2}
    BY ONLY <2>2
  <2> QED
    BY <2>1, <2>3 DEF n
<1>3. /\ Len(q) = Len(p) - 1
      /\ Len(p) = 1 => q = <<>>
      /\ Len(p) = 2 => q # <<>> /\ Len(q) = 1 /\ q[1] = p[2]
  <2> HIDE DEF P, p, q
  <2>1. q \in Seq(P) /\ Len(q) = Len(p) - 1 /\ \A k \in 1 .. Len(q) : q[k] = p[k + 1]
    BY ONLY <1>1
  <2>2. Len(p) = 1 => q = <<>>
    BY <2>1, EmptySeq
  <2>3. Len(p) = 2 => Len(q) = 1
    BY <2>1
  <2>4. ASSUME Len(p) = 2
        PROVE  q # <<>> /\ q[1] = p[2]
    <3>1. Len(q) = 1 /\ Len(<<>>) = 0
      BY <2>3, <2>4
    <3>2. 1 \in 1 .. Len(q) /\ 1 + 1 = 2
      BY <3>1
    <3>3. q[1] = p[1 + 1]
      BY <2>1, <3>2
    <3> QED
      BY ONLY <3>1, <3>2, <3>3
  <2> QED
    BY <2>1, <2>2, <2>3, <2>4
<1>4. \A k \in 1 .. Len(p) : Len(p[k].text) \in Nat
  <2>1. \A k \in 1 .. Len(p) : p[k].text \in Seq(Character)
    BY <1>1, KprintfAssumption
  <2> QED
    BY <2>1, LenProperties
<1>5. /\ Owed = IF p = <<>> THEN 0 ELSE IF Len(p) = 1 THEN Len(p[1].text)
                ELSE Len(p[1].text) + Len(p[2].text)
      /\ Owed' = IF q = <<>> THEN 0 ELSE IF Len(q) = 1 THEN Len(q[1].text)
                 ELSE Len(q[1].text) + Len(q[2].text)
  BY DEF Owed
<1> DEFINE a == Len(p[1].text)
<1>6. a \in Nat /\ Owed' \in Nat /\ Owed = a + Owed' /\ a = Len(Head(pending).text)
  <2>1. CASE Len(p) = 1
    <3>1. a \in Nat /\ Owed = a /\ Owed' = 0
      <4>1. 1 \in 1 .. Len(p) /\ q = <<>>
        BY <1>3, <2>1
      <4>2. a \in Nat
        BY <1>4, <4>1
      <4> HIDE DEF P, p, q, a
      <4>3. Owed' = 0
        BY ONLY <1>5, <4>1
      <4>4. Owed = a
        BY ONLY <1>1, <1>5, <2>1 DEF a
      <4> QED
        BY <4>2, <4>3, <4>4
    <3> QED
      BY <1>2, <3>1
  <2>2. CASE Len(p) = 2
    <3> DEFINE b == Len(p[2].text)
    <3>1. a \in Nat /\ b \in Nat
      BY <1>4, <2>2
    <3>2. Owed = a + b /\ Owed' = b
      BY <1>1, <1>3, <1>5, <2>2
    <3> QED
      BY <1>2, <3>1, <3>2
  <2> QED
    BY <1>2, <2>1, <2>2
<1> DEFINE x == cur.row
           y == cur'.row
           m == Owed
           l == Owed'
<1>7. x \in Nat /\ y \in Nat /\ y <= x + a /\ m = a + l /\ l \in Nat /\ a \in Nat
  <2>1. cur.row \in Nat
    BY OwedIs, SoundIs DEF ConsoleSound
  <2> QED
    BY <1>6, <2>1
<1>8. ASSUME NEW b \in Nat, x + m <= b
      PROVE  y + l <= b
  <2> HIDE DEF x, y, m, l, a
  <2> QED
    BY ONLY <1>7, <1>8
<1>9. LastRow \in Nat /\ \A key \in Key : LastRow + Echoed(key) \in Nat
  BY Sizes, EchoedIs
<1>10. PICK key \in Key : x + m <= LastRow + Echoed(key)
  BY <1>1 DEF RowInv
<1>11. y + l <= LastRow + Echoed(key)
  BY <1>8, <1>9, <1>10
<1>12. Len(q) <= 2
  BY <1>2, <1>3
<1>13. \A k \in 1 .. Len(q) : q[k].text \in Text
  <2>1. CASE Len(p) = 1
    BY <1>3, <2>1
  <2>2. CASE Len(p) = 2
    <3>1. \A k \in 1 .. Len(q) : q[k] = p[2]
      BY <1>3, <2>2
    <3> QED
      BY <1>1, <2>2, <3>1
  <2> QED
    BY <1>2, <2>1, <2>2
<1>14. \E k \in Key : cur'.row + Owed' <= LastRow + Echoed(k)
  BY <1>11
<1> HIDE DEF a, x, y, m, l, p, q, P
<1> QED
  BY <1>12, <1>13, <1>14 DEF RowInv, q

(* A step keeps the console and the room there is on it, and is a step of  *)
(* the terminal or none.                                                   *)
LEMMA ConsoleStep ==
  ASSUME CallTypes, CallInv, RowInv, ConsoleSound, CallTypes', [KprintfNext]_kprintfVars
  PROVE  ConsoleSound' /\ RowInv' /\ [TheTerminal!Next]_(TheTerminal!vars)
<1>1. ASSUME UNCHANGED <<console, pending>>, pi'.at # "idle" => pi.at # "idle"
      PROVE  ConsoleSound' /\ RowInv' /\ UNCHANGED TheTerminal!vars
  BY <1>1, ConsoleAlone, RowAlone
<1>2. ASSUME NEW call \in Call, Begin(call)
      PROVE  ConsoleSound' /\ RowInv' /\ UNCHANGED TheTerminal!vars
  <2>1. UNCHANGED console
    BY <1>2 DEF Begin
  <2> QED
    BY <1>2, <2>1, ConsoleAlone, RowBegin
<1>3. CASE Skip \/ Copy \/ FormatMark \/ Choose \/ CallParse
  <2>1. pi.at # "idle" /\ UNCHANGED <<console, pending>>
    BY <1>3 DEF Skip, Copy, FormatMark, Choose, CallParse, Reads
  <2> QED
    BY <1>1, <2>1
<1>4. CASE FlushOut
  <2>1. VtFlushWithBuf(pi.buf) /\ pi' = NoCall /\ pending = <<>> /\ pending' = <<>>
    BY <1>4 DEF FlushOut, Runs
  <2>2. pi.buf \in Text /\ cur.row + Len(pi.buf) < BufRows
    BY <1>4, RoomIs DEF FlushOut, Runs
  <2>3. ConsoleSound' /\ TheTerminal!PrintSeen(pi.buf)
    BY <2>1, <2>2, PrintIs
  <2>4. RowInv'
    <3>1. pi'.at = "idle"
      BY <2>1 DEF NoCall
    <3>2. Len(<<>>) = 0 /\ 1 .. 0 = {}
      OBVIOUS
    <3> QED
      BY <2>1, <3>1, <3>2 DEF RowInv
  <2>5. TheTerminal!Next
    BY <2>2, <2>3 DEF TheTerminal!Next
  <2> QED
    BY <2>3, <2>4, <2>5
<1>5. ASSUME NEW key \in Key, KeyPressed(key)
      PROVE  ConsoleSound' /\ RowInv' /\ UNCHANGED TheTerminal!vars
  <2>1. UNCHANGED console
    BY <1>5 DEF KeyPressed
  <2> QED
    BY <1>5, <2>1, ConsoleAlone, RowKeyPressed
<1>6. CASE HandlerPrints
  <2> DEFINE text == Head(pending).text
  <2>1. pending # <<>> /\ VtFlushWithBuf(text)
    BY <1>6 DEF HandlerPrints
  <2>2. text \in Text /\ cur.row + Len(text) < BufRows
    BY <2>1, OwedIs, RoomIs
  <2>3. ConsoleSound' /\ cur'.row <= cur.row + Len(text) /\ TheTerminal!PrintSeen(text)
    BY <2>1, <2>2, PrintIs
  <2>4. cur'.row \in Nat
    <3>1. State'.cur = cur'
      BY DEF State
    <3>2. Sound(State', screen')
      <4>1. ConsoleSound' <=> Sound(State', screen')
        BY DEF ConsoleSound, Sound, Wellformed, OnScreen
      <4> QED
        BY <2>3, <4>1
    <3> QED
      BY <3>1, <3>2, SoundIs
  <2>5. RowInv'
    BY <1>6, <2>3, <2>4, RowHandlerPrints
  <2>6. TheTerminal!Next
    BY <2>2, <2>3 DEF TheTerminal!Next
  <2> QED
    BY <2>3, <2>5, <2>6
<1>7. CASE Direct
  <2>1. pi.at = "idle" /\ pi' = pi /\ pending = <<>> /\ pending' = <<>>
    BY <1>7 DEF Direct, Runs
  <2>2. RowInv'
    <3>1. Len(<<>>) = 0 /\ 1 .. 0 = {}
      OBVIOUS
    <3> QED
      BY <2>1, <3>1 DEF RowInv
  <2>3. \A text \in Plain : text \in Text
    BY KprintfAssumption
  <2>4. ASSUME NEW text \in Plain, VgaTextWrite(text)
        PROVE  ConsoleSound' /\ TheTerminal!Next
    BY <2>3, <2>4, UnseenIs DEF TheTerminal!Next
  <2>5. ASSUME NEW text \in Plain, VtNewLine(text)
        PROVE  ConsoleSound' /\ TheTerminal!Next
    BY <2>3, <2>5, LineUnseenIs DEF TheTerminal!Next
  <2>6. ASSUME VtFlush
        PROVE  ConsoleSound' /\ TheTerminal!Next
    BY <2>6, ShowIs DEF TheTerminal!Next
  <2>7. ASSUME VtCls
        PROVE  ConsoleSound' /\ TheTerminal!Next
    BY <2>7, ClearIs DEF TheTerminal!Next
  <2> QED
    BY <1>7, <2>2, <2>4, <2>5, <2>6, <2>7 DEF Direct
<1>8. CASE UNCHANGED kprintfVars
  <2>1. UNCHANGED <<console, pending>> /\ pi' = pi
    BY <1>8 DEF kprintfVars
  <2> QED
    BY <1>1, <2>1
<1> QED
  BY <1>2, <1>3, <1>4, <1>5, <1>6, <1>7, <1>8 DEF KprintfNext

(* The invariant of kprintf. *)
THEOREM KprintfInvHolds == TextsRight => (KprintfSpec => []KprintfInv)
<1> SUFFICES ASSUME TextsRight
             PROVE  KprintfSpec => []KprintfInv
  OBVIOUS
<1>1. KprintfInit => KprintfInv
  <2> SUFFICES ASSUME KprintfInit
               PROVE  KprintfInv
    OBVIOUS
  <2>1. RowInv
    <3>1. pi.at = "idle" /\ pending = <<>> /\ Len(<<>>) = 0 /\ 1 .. 0 = {}
      BY DEF KprintfInit, NoCall
    <3> QED
      BY <3>1 DEF RowInv
  <2> QED
    BY <2>1, CallStarts, ConsoleStarts DEF KprintfInv, KprintfInit
<1>2. KprintfInv /\ [KprintfNext]_kprintfVars => KprintfInv'
  BY CallStep, ConsoleStep DEF KprintfInv
<1> QED
  BY <1>1, <1>2, PTL DEF KprintfSpec

(* kprintf prints its format, every conversion of it as its argument       *)
(* demands, whatever keys are pressed meanwhile; only a conversion that    *)
(* was hit between Choose and CallParse comes out as a character.          *)
THEOREM PrintedHolds == TextsRight => (KprintfSpec => []Printed)
<1> SUFFICES ASSUME TextsRight
             PROVE  KprintfSpec => []Printed
  OBVIOUS
<1>1. KprintfSpec => []KprintfInv
  BY KprintfInvHolds
<1>2. KprintfInv => Printed
  <2> SUFFICES ASSUME KprintfInv
               PROVE  Printed
    OBVIOUS
  <2>1. KprintfTypes
    <3>1. State \in [buffer : Cells(BufRows), cur : Place, pre : Place] /\ screen \in Cells(Rows)
      BY SoundIs DEF KprintfInv, ConsoleSound
    <3>2. State.buffer = buffer /\ State.cur = cur /\ State.pre = pre
      BY DEF State
    <3>3. buffer \in Cells(BufRows) /\ cur \in Place /\ pre \in Place
      BY <3>1, <3>2
    <3>4. /\ parse \in {"none", "int", "char", "str", "hex"}
          /\ pi.at \in {"idle", "read", "call"} /\ pi.state \in {"normal", "format"}
      BY DEF KprintfInv, CallTypes, Conversion
    <3> QED
      BY <3>1, <3>3, <3>4 DEF KprintfTypes, Cells, Place
  <2>2. pi.at = "read" /\ pi.i > Len(Fmt) => pi.buf = Expected(pi.call, pi.hits)
    BY CallEnds DEF KprintfInv
  <2> QED
    BY <2>1, <2>2 DEF Printed
<1> QED
  BY <1>1, <1>2, PTL

(* The console implements a terminal: what it has in its buffer are the    *)
(* lines printed, and after a flush the screen shows the last of them.     *)
THEOREM RefinesTerminal == TextsRight => (KprintfSpec => ImplementsTerminal)
<1> SUFFICES ASSUME TextsRight
             PROVE  KprintfSpec => ImplementsTerminal
  OBVIOUS
<1>1. KprintfSpec => []KprintfInv
  BY KprintfInvHolds
<1>2. KprintfInit => TheTerminal!Init
  BY ConsoleStarts DEF KprintfInit
<1>3. KprintfInv /\ [KprintfNext]_kprintfVars => [TheTerminal!Next]_(TheTerminal!vars)
  BY CallStep, ConsoleStep DEF KprintfInv
<1> QED
  BY <1>1, <1>2, <1>3, PTL DEF KprintfSpec, ImplementsTerminal, TheTerminal!Spec
=============================================================================
