---------------------------- MODULE QueueProofs -----------------------------
(***************************************************************************)
(* Lemmas about the operators of Links, for lists of any length: what each *)
(* function of list.c does to a list, and that list_for_each visits its    *)
(* nodes.  Both the modules whose queues are such lists rest on them.      *)
(*                                                                         *)
(* Then the theorems about List for any finite set of nodes: after every   *)
(* sequence of calls the links form the list of the nodes that were added  *)
(* and not removed, and list.c implements a deque.                         *)
(*                                                                         *)
(* Last the theorems about Sched, for any number of slots in proc_table,   *)
(* any width of time_ticks and any times to sleep for.                     *)
(***************************************************************************)
EXTENDS List, Sched, TLAPS, SequenceTheorems, FiniteSetTheorems, WellFoundedInduction

(* The i-th cell on the way round the list of sequence q behind the head   *)
(* h: the head is the 0-th and the one after the last.                     *)
Ring(h, q, i) == IF i \in DOMAIN q THEN q[i] ELSE h

(* The links l lead round the nodes of q behind the head h, and back.      *)
Forms(l, h, q) ==
  /\ \A i \in 0 .. Len(q) :
       /\ l.next[Ring(h, q, i)] = Ring(h, q, i + 1)
       /\ l.prev[Ring(h, q, i + 1)] = Ring(h, q, i)
  /\ \A i \in DOMAIN q : q[i] # h
  /\ \A i, j \in DOMAIN q : q[i] = q[j] => i = j

(* The links of the cells C; the fields of a cell in no list may hold      *)
(* anything of D.                                                          *)
LinksOf(C, D) == [next : [C -> D], prev : [C -> D]]

(* q without its k-th element. *)
Removed(q, k) == SubSeq(q, 1, k - 1) \o SubSeq(q, k + 1, Len(q))

-----------------------------------------------------------------------------
(* Sequences and numbers *)

(* A nonempty set of naturals has a least element. *)
LEMMA LeastNat ==
  ASSUME NEW S \in SUBSET Nat, NEW x \in S
  PROVE  \E m \in S : \A n \in S : m <= n
<1>1. IsWellFoundedOn(OpToRel(<, Nat), Nat)
  BY NatLessThanWellFounded
<1>2. PICK m \in S : \A n \in S : <<n, m>> \notin OpToRel(<, Nat)
  BY <1>1, WFMin, S # {}
<1>3. \A n \in S : ~ (n < m)
  BY <1>2 DEF OpToRel
<1> QED
  BY <1>3

(* Counting round in a circle of c places. *)
LEMMA NextMod ==
  ASSUME NEW a \in Nat, NEW c \in Nat \ {0}
  PROVE  /\ a % c \in 0 .. c - 1
         /\ (a + 1) % c = IF a % c = c - 1 THEN 0 ELSE (a % c) + 1
<1> DEFINE d == a \div c
           r == a % c
           d1 == (a + 1) \div c
           r1 == (a + 1) % c
<1>1. d \in Nat /\ r \in 0 .. c - 1 /\ a = c * d + r
  OBVIOUS
<1>2. d1 \in Nat /\ r1 \in 0 .. c - 1 /\ a + 1 = c * d1 + r1
  OBVIOUS
<1> HIDE DEF d, r, d1, r1
<1>3. c * d + (r + 1) = c * d1 + r1
  BY <1>1, <1>2
<1>4. CASE d1 <= d - 1
  <2>1. c * (d1 + 1) <= c * d
    BY <1>1, <1>2, <1>4
  <2>2. c * (d1 + 1) = c * d1 + c
    BY <1>1, <1>2
  <2> QED
    BY <1>1, <1>2, <1>3, <2>1, <2>2
<1>5. CASE d1 = d
  BY <1>1, <1>2, <1>3, <1>5
<1>6. CASE d1 = d + 1
  <2>1. c * d1 = c * d + c
    BY <1>1, <1>6
  <2> QED
    BY <1>1, <1>2, <1>3, <2>1
<1>7. CASE d1 >= d + 2
  <2>1. c * (d + 2) <= c * d1
    BY <1>1, <1>2, <1>7
  <2>2. c * (d + 2) = c * d + 2 * c
    BY <1>1
  <2> QED
    BY <1>1, <1>2, <1>3, <2>1, <2>2
<1>8. r1 = IF r = c - 1 THEN 0 ELSE r + 1
  BY <1>1, <1>2, <1>4, <1>5, <1>6, <1>7
<1> QED
  BY <1>1, <1>8 DEF r, r1

(* A sequence with an element taken out. *)
LEMMA RemovedElements ==
  ASSUME NEW S, NEW q \in Seq(S), NEW k \in DOMAIN q
  PROVE  /\ Removed(q, k) \in Seq(S)
         /\ Len(Removed(q, k)) = Len(q) - 1
         /\ DOMAIN Removed(q, k) = 1 .. Len(q) - 1
         /\ \A i \in 1 .. Len(q) - 1 :
              Removed(q, k)[i] = IF i < k THEN q[i] ELSE q[i + 1]
<1> DEFINE a == SubSeq(q, 1, k - 1)
           b == SubSeq(q, k + 1, Len(q))
<1>1. Len(q) \in Nat /\ k \in 1 .. Len(q) /\ DOMAIN q = 1 .. Len(q)
  OBVIOUS
<1>2. /\ a \in Seq(S) /\ Len(a) = k - 1
      /\ \A i \in 1 .. k - 1 : a[i] = q[i]
  <2>1. \A i \in 1 .. k - 1 : q[i] \in S
    BY <1>1
  <2>2. 1 \in Int /\ k - 1 \in Int
    BY <1>1
  <2>3. /\ a \in Seq(S)
        /\ Len(a) = IF 1 <= k - 1 THEN (k - 1) - 1 + 1 ELSE 0
        /\ \A i \in 1 .. (k - 1) - 1 + 1 : a[i] = q[1 + i - 1]
    BY ONLY <2>1, <2>2, SubSeqProperties
  <2> QED
    BY <1>1, <2>3
<1>3. /\ b \in Seq(S) /\ Len(b) = Len(q) - k
      /\ \A i \in 1 .. Len(q) - k : b[i] = q[i + k]
  <2>1. \A i \in k + 1 .. Len(q) : q[i] \in S
    BY <1>1
  <2>2. k + 1 \in Int /\ Len(q) \in Int
    BY <1>1
  <2>3. /\ b \in Seq(S)
        /\ Len(b) = IF k + 1 <= Len(q) THEN Len(q) - (k + 1) + 1 ELSE 0
        /\ \A i \in 1 .. Len(q) - (k + 1) + 1 : b[i] = q[(k + 1) + i - 1]
    BY ONLY <2>1, <2>2, SubSeqProperties
  <2> QED
    BY <1>1, <2>3
<1> HIDE DEF a, b
<1>4. /\ a \o b \in Seq(S)
      /\ Len(a \o b) = Len(a) + Len(b)
      /\ \A i \in 1 .. Len(a) + Len(b) :
           (a \o b)[i] = IF i <= Len(a) THEN a[i] ELSE b[i - Len(a)]
  BY ONLY <1>2, <1>3, ConcatProperties
<1>5. Len(a \o b) = Len(q) - 1 /\ DOMAIN (a \o b) = 1 .. Len(q) - 1
  <2>1. Len(a \o b) = Len(q) - 1
    BY <1>1, <1>2, <1>3, <1>4
  <2> QED
    BY <1>4, <2>1, LenProperties
<1>6. ASSUME NEW i \in 1 .. Len(q) - 1
      PROVE  (a \o b)[i] = IF i < k THEN q[i] ELSE q[i + 1]
  <2>1. (a \o b)[i] = IF i <= Len(a) THEN a[i] ELSE b[i - Len(a)]
    BY <1>1, <1>2, <1>3, <1>4
  <2>2. CASE i < k
    BY <1>1, <1>2, <2>1, <2>2
  <2>3. CASE ~ (i < k)
    <3>1. i - Len(a) \in 1 .. Len(q) - k /\ (i - Len(a)) + k = i + 1
      BY <1>1, <1>2, <2>3
    <3> QED
      BY <1>1, <1>2, <1>3, <2>1, <2>3, <3>1
  <2> QED
    BY <2>2, <2>3
<1>7. Removed(q, k) = a \o b
  BY DEF Removed, a, b
<1> QED
  BY <1>4, <1>5, <1>6, <1>7

-----------------------------------------------------------------------------
(* Rings *)

(* The cells of a list are cells, and only the first and the last of the   *)
(* way round are the same.                                                 *)
LEMMA RingCells ==
  ASSUME NEW C, NEW D, NEW l \in LinksOf(C, D), NEW h \in C, NEW q \in Seq(C),
         Forms(l, h, q)
  PROVE  /\ Len(q) \in Nat /\ DOMAIN q = 1 .. Len(q)
         /\ \A i \in Int : Ring(h, q, i) \in C
         /\ \A i \in 1 .. Len(q) : Ring(h, q, i) = q[i] /\ q[i] # h
         /\ \A i \in Int : i \notin 1 .. Len(q) => Ring(h, q, i) = h
         /\ \A i, j \in 0 .. Len(q) : Ring(h, q, i) = Ring(h, q, j) => i = j
         /\ \A i, j \in 1 .. Len(q) + 1 : Ring(h, q, i) = Ring(h, q, j) => i = j
         /\ \A i \in 0 .. Len(q) :
              /\ l.next[Ring(h, q, i)] = Ring(h, q, i + 1)
              /\ l.prev[Ring(h, q, i + 1)] = Ring(h, q, i)
<1>1. Len(q) \in Nat /\ DOMAIN q = 1 .. Len(q) /\ \A i \in DOMAIN q : q[i] \in C
  OBVIOUS
<1>2. \A i \in Int : Ring(h, q, i) = IF i \in 1 .. Len(q) THEN q[i] ELSE h
  BY <1>1 DEF Ring
<1>3. \A i \in 1 .. Len(q) : q[i] # h
  BY <1>1 DEF Forms
<1>4. \A i, j \in 1 .. Len(q) : q[i] = q[j] => i = j
  BY <1>1 DEF Forms
<1>5. \A i, j \in 0 .. Len(q) : Ring(h, q, i) = Ring(h, q, j) => i = j
  BY <1>1, <1>2, <1>3, <1>4
<1>6. \A i, j \in 1 .. Len(q) + 1 : Ring(h, q, i) = Ring(h, q, j) => i = j
  BY <1>1, <1>2, <1>3, <1>4
<1>7. \A i \in 0 .. Len(q) :
         /\ l.next[Ring(h, q, i)] = Ring(h, q, i + 1)
         /\ l.prev[Ring(h, q, i + 1)] = Ring(h, q, i)
  BY DEF Forms
<1> QED
  BY <1>1, <1>2, <1>3, <1>5, <1>6, <1>7

(* To form a list, given the values on the way round it. *)
LEMMA FormsIf ==
  ASSUME NEW l, NEW h, NEW q, NEW n \in Nat, Len(q) = n, DOMAIN q = 1 .. n,
         \A i \in 0 .. n :
           /\ l.next[Ring(h, q, i)] = Ring(h, q, i + 1)
           /\ l.prev[Ring(h, q, i + 1)] = Ring(h, q, i),
         \A i \in 1 .. n : q[i] # h,
         \A i, j \in 1 .. n : q[i] = q[j] => i = j
  PROVE  Forms(l, h, q)
BY DEF Forms

(* list_init_head makes the empty list. *)
LEMMA InitHeadForms ==
  ASSUME NEW C, NEW D, C \subseteq D, NEW l \in LinksOf(C, D), NEW h \in C
  PROVE  /\ InitHead(l, h) \in LinksOf(C, D)
         /\ Forms(InitHead(l, h), h, <<>>)
BY DEF InitHead, LinksOf, Forms, Ring

(* A list is empty exactly when list_get finds it so. *)
LEMMA EmptyForms ==
  ASSUME NEW C, NEW D, NEW l \in LinksOf(C, D), NEW h \in C, NEW q \in Seq(C),
         Forms(l, h, q)
  PROVE  IsEmpty(l, h) <=> q = <<>>
<1>1. l.next[Ring(h, q, 0)] = Ring(h, q, 1)
  BY RingCells
<1>2. l.prev[Ring(h, q, Len(q) + 1)] = Ring(h, q, Len(q))
  BY RingCells
<1>3. Ring(h, q, 0) = h /\ Ring(h, q, Len(q) + 1) = h
  BY RingCells
<1>4. CASE Len(q) = 0
  <2>1. Ring(h, q, 1) = h /\ Ring(h, q, Len(q)) = h
    <3>1. 1 \notin 1 .. Len(q) /\ Len(q) \notin 1 .. Len(q) /\ 1 \in Int /\ Len(q) \in Int
      BY <1>4
    <3> QED
      BY <3>1, RingCells
  <2> QED
    BY <1>1, <1>2, <1>3, <1>4, <2>1, EmptySeq DEF IsEmpty
<1>5. CASE Len(q) # 0
  <2>1. 1 \in 1 .. Len(q)
    BY <1>5, RingCells
  <2>2. Ring(h, q, 1) # h
    BY <2>1, RingCells
  <2> QED
    BY <1>1, <1>3, <1>5, <2>2 DEF IsEmpty
<1> QED
  BY <1>4, <1>5

(* list_add puts a cell that is not in the list at its end. *)
LEMMA AddForms ==
  ASSUME NEW C, NEW D, C \subseteq D, NEW l \in LinksOf(C, D), NEW h \in C, NEW q \in Seq(C),
         Forms(l, h, q), NEW n \in C, n # h, \A i \in DOMAIN q : q[i] # n
  PROVE  /\ Add(l, h, n) \in LinksOf(C, D)
         /\ Forms(Add(l, h, n), h, Append(q, n))
<1> DEFINE m == Len(q)
           w == Append(q, n)
           last == Ring(h, q, m)
           new == Add(l, h, n)
<1>1. m \in Nat /\ DOMAIN q = 1 .. m
  BY RingCells
<1>2. /\ w \in Seq(C) /\ Len(w) = m + 1 /\ DOMAIN w = 1 .. m + 1
      /\ \A i \in 1 .. m : w[i] = q[i]
      /\ w[m + 1] = n
  BY AppendProperties, LenProperties
<1>3. /\ \A i \in 0 .. m : Ring(h, w, i) = Ring(h, q, i)
      /\ Ring(h, w, m + 1) = n
      /\ Ring(h, w, m + 2) = h
  <2> HIDE DEF w, m
  <2> QED
    BY <1>1, <1>2 DEF Ring
<1>4. l.prev[h] = last
  <2>1. m \in 0 .. m /\ m + 1 \in Int /\ m + 1 \notin 1 .. m
    BY <1>1
  <2>2. Ring(h, q, m + 1) = h
    BY <2>1, RingCells
  <2> QED
    BY <2>1, <2>2, RingCells
<1>5. \A i \in 0 .. m : Ring(h, q, i) \in C /\ Ring(h, q, i) # n
  <2>1. \A i \in 0 .. m : i \in 1 .. m \/ i \notin 1 .. m
    OBVIOUS
  <2> QED
    BY <1>1, RingCells
<1>6. /\ l.next \in [C -> D] /\ l.prev \in [C -> D]
      /\ last \in C /\ last # n
  BY <1>1, <1>5 DEF LinksOf
<1>7. /\ new = [next |-> [l.next EXCEPT ![n] = h, ![last] = n],
                prev |-> [l.prev EXCEPT ![n] = last, ![h] = n]]
  BY <1>4 DEF Add
<1>8. ASSUME NEW c \in C
      PROVE  /\ new.next[c] = IF c = last THEN n ELSE IF c = n THEN h ELSE l.next[c]
             /\ new.prev[c] = IF c = h THEN n ELSE IF c = n THEN last ELSE l.prev[c]
  <2> HIDE DEF last, new
  <2> QED
    BY <1>6, <1>7
<1>9. new \in LinksOf(C, D)
  <2> HIDE DEF last
  <2> QED
    BY <1>6, <1>7 DEF LinksOf
<1> HIDE DEF w, last, new, m
<1>10. ASSUME NEW i \in 0 .. m + 1
       PROVE  /\ new.next[Ring(h, w, i)] = Ring(h, w, i + 1)
              /\ new.prev[Ring(h, w, i + 1)] = Ring(h, w, i)
  <2>1. CASE i < m
    <3>1. i \in 0 .. m /\ i + 1 \in 0 .. m /\ m \in 0 .. m /\ i # m /\ i + 1 # 0 /\ 0 \in 0 .. m
      BY <1>1, <2>1
    <3>2. Ring(h, q, i) # Ring(h, q, m) /\ Ring(h, q, i + 1) # Ring(h, q, 0)
      BY <3>1, RingCells DEF m
    <3>3. Ring(h, q, 0) = h
      BY RingCells
    <3>4. /\ l.next[Ring(h, q, i)] = Ring(h, q, i + 1)
          /\ l.prev[Ring(h, q, i + 1)] = Ring(h, q, i)
      BY <3>1, RingCells DEF m
    <3> QED
      BY <1>3, <1>5, <1>8, <3>1, <3>2, <3>3, <3>4 DEF last
  <2>2. CASE i = m
    <3>1. i \in 0 .. m
      BY <1>1, <2>2
    <3> QED
      BY <1>3, <1>5, <1>6, <1>8, <2>2, <3>1 DEF last
  <2>3. CASE i = m + 1
    <3>1. i + 1 = m + 2
      BY <1>1, <2>3
    <3> QED
      BY <1>3, <1>6, <1>8, <2>3, <3>1
  <2> QED
    BY <1>1, <2>1, <2>2, <2>3
<1>11. \A i \in 1 .. m + 1 : w[i] # h
  <2>1. \A i \in 1 .. m : q[i] # h
    BY RingCells DEF m
  <2> QED
    BY <1>1, <1>2, <2>1
<1>12. \A i, j \in 1 .. m + 1 : w[i] = w[j] => i = j
  <2>1. \A i, j \in 1 .. m : q[i] = q[j] => i = j
    BY <1>1 DEF Forms
  <2> QED
    BY <1>1, <1>2, <2>1
<1>13. Forms(new, h, w)
  BY <1>1, <1>2, <1>10, <1>11, <1>12, FormsIf
<1> QED
  BY <1>9, <1>13 DEF new, w

(* list_add_head puts it at the front. *)
LEMMA AddHeadForms ==
  ASSUME NEW C, NEW D, C \subseteq D, NEW l \in LinksOf(C, D), NEW h \in C, NEW q \in Seq(C),
         Forms(l, h, q), NEW n \in C, n # h, \A i \in DOMAIN q : q[i] # n
  PROVE  /\ AddHead(l, h, n) \in LinksOf(C, D)
         /\ Forms(AddHead(l, h, n), h, <<n>> \o q)
<1> DEFINE m == Len(q)
           w == <<n>> \o q
           first == Ring(h, q, 1)
           new == AddHead(l, h, n)
<1>1. m \in Nat /\ DOMAIN q = 1 .. m
  BY RingCells
<1>2. /\ w \in Seq(C) /\ Len(w) = m + 1 /\ DOMAIN w = 1 .. m + 1
      /\ \A i \in 2 .. m + 1 : w[i] = q[i - 1]
      /\ w[1] = n
  <2>1. <<n>> \in Seq(C) /\ Len(<<n>>) = 1
    OBVIOUS
  <2>2. /\ w \in Seq(C) /\ Len(w) = 1 + m
        /\ \A i \in 1 .. 1 + m : w[i] = IF i <= 1 THEN <<n>>[i] ELSE q[i - 1]
    BY <2>1, ConcatProperties
  <2>3. DOMAIN w = 1 .. Len(w)
    BY <2>2, LenProperties
  <2> HIDE DEF w, m
  <2> QED
    BY <1>1, <2>2, <2>3
<1>3. /\ \A i \in 1 .. m + 1 : Ring(h, w, i + 1) = Ring(h, q, i)
      /\ Ring(h, w, 1) = n
      /\ Ring(h, w, 0) = h
  <2> HIDE DEF w, m
  <2> QED
    BY <1>1, <1>2 DEF Ring
<1>4. l.next[h] = first
  <2>1. Ring(h, q, 0) = h
    BY RingCells
  <2> QED
    BY <1>1, <2>1, RingCells
<1>5. \A i \in 1 .. m + 1 : Ring(h, q, i) \in C /\ Ring(h, q, i) # n
  <2>1. \A i \in 1 .. m + 1 : i \in 1 .. m \/ i \notin 1 .. m
    OBVIOUS
  <2> QED
    BY <1>1, RingCells
<1>6. /\ l.next \in [C -> D] /\ l.prev \in [C -> D]
      /\ first \in C /\ first # n
  BY <1>1, <1>5 DEF LinksOf
<1>7. /\ new = [next |-> [l.next EXCEPT ![n] = first, ![h] = n],
                prev |-> [l.prev EXCEPT ![n] = h, ![first] = n]]
  BY <1>4 DEF AddHead
<1>8. ASSUME NEW c \in C
      PROVE  /\ new.next[c] = IF c = h THEN n ELSE IF c = n THEN first ELSE l.next[c]
             /\ new.prev[c] = IF c = first THEN n ELSE IF c = n THEN h ELSE l.prev[c]
  <2> HIDE DEF first, new
  <2> QED
    BY <1>6, <1>7
<1>9. new \in LinksOf(C, D)
  <2> HIDE DEF first
  <2> QED
    BY <1>6, <1>7 DEF LinksOf
<1> HIDE DEF w, first, new, m
<1>10. ASSUME NEW i \in 0 .. m + 1
       PROVE  /\ new.next[Ring(h, w, i)] = Ring(h, w, i + 1)
              /\ new.prev[Ring(h, w, i + 1)] = Ring(h, w, i)
  <2>1. CASE i > 1
    <3> DEFINE j == i - 1
    <3>1. /\ j \in 1 .. m /\ j \in 0 .. m /\ j + 1 \in 1 .. m + 1 /\ 1 \in 1 .. m + 1
          /\ j \in 1 .. m + 1 /\ j + 1 # 1 /\ i = j + 1
      BY <1>1, <2>1
    <3> HIDE DEF j
    <3>2. Ring(h, q, j) # h /\ Ring(h, q, j + 1) # Ring(h, q, 1)
      BY <3>1, RingCells DEF m
    <3>3. /\ l.next[Ring(h, q, j)] = Ring(h, q, j + 1)
          /\ l.prev[Ring(h, q, j + 1)] = Ring(h, q, j)
      BY <3>1, RingCells DEF m
    <3>4. /\ Ring(h, w, i) = Ring(h, q, j)
          /\ Ring(h, w, i + 1) = Ring(h, q, j + 1)
      BY <1>3, <3>1
    <3> QED
      BY <1>5, <1>8, <3>1, <3>2, <3>3, <3>4 DEF first
  <2>2. CASE i = 1
    <3>1. Ring(h, w, i) = n /\ Ring(h, w, i + 1) = first
      BY <1>1, <1>3, <2>2 DEF first
    <3> QED
      BY <1>6, <1>8, <3>1
  <2>3. CASE i = 0
    <3>1. Ring(h, w, i) = h /\ Ring(h, w, i + 1) = n
      BY <1>3, <2>3
    <3> QED
      BY <1>6, <1>8, <3>1
  <2> QED
    BY <1>1, <2>1, <2>2, <2>3
<1>11. \A i \in 1 .. m : q[i] # h
  BY RingCells DEF m
<1>12. \A i \in 1 .. m + 1 : i = 1 \/ (i \in 2 .. m + 1 /\ i - 1 \in 1 .. m)
  BY <1>1
<1>13. \A i \in 1 .. m + 1 : w[i] # h
  BY <1>1, <1>2, <1>11, <1>12
<1>14. \A i, j \in 1 .. m + 1 : w[i] = w[j] => i = j
  <2>1. \A i, j \in 1 .. m : q[i] = q[j] => i = j
    BY <1>1 DEF Forms
  <2>2. \A i \in 2 .. m + 1 : w[i] # n
    <3>1. \A i \in 1 .. m : q[i] # n
      BY <1>1
    <3>2. \A i \in 2 .. m + 1 : i - 1 \in 1 .. m
      BY <1>1
    <3> QED
      BY <1>1, <1>2, <3>1, <3>2
  <2>3. SUFFICES ASSUME NEW i \in 1 .. m + 1, NEW j \in 1 .. m + 1, w[i] = w[j]
                 PROVE  i = j
    OBVIOUS
  <2>4. CASE i \in 2 .. m + 1 /\ j \in 2 .. m + 1
    <3>1. q[i - 1] = q[j - 1] /\ i - 1 \in 1 .. m /\ j - 1 \in 1 .. m
      BY <1>1, <1>2, <2>3, <2>4
    <3> QED
      BY <1>1, <2>1, <3>1
  <2> QED
    BY <1>2, <1>12, <2>2, <2>3, <2>4
<1>15. Forms(new, h, w)
  BY <1>1, <1>2, <1>10, <1>13, <1>14, FormsIf
<1> QED
  BY <1>9, <1>15 DEF new, w

(* list_del takes a node out of the list, wherever it is. *)
LEMMA DelForms ==
  ASSUME NEW C, NEW D, C \subseteq D, NEW l \in LinksOf(C, D), NEW h \in C, NEW q \in Seq(C),
         Forms(l, h, q), NEW k \in DOMAIN q
  PROVE  /\ Del(l, q[k]) \in LinksOf(C, D)
         /\ Forms(Del(l, q[k]), h, Removed(q, k))
<1> DEFINE m == Len(q)
           w == Removed(q, k)
           before == Ring(h, q, k - 1)
           after == Ring(h, q, k + 1)
           new == Del(l, q[k])
<1>1. m \in Nat /\ DOMAIN q = 1 .. m /\ k \in 1 .. m
  BY RingCells
<1>2. /\ w \in Seq(C) /\ Len(w) = m - 1 /\ DOMAIN w = 1 .. m - 1
      /\ \A i \in 1 .. m - 1 : w[i] = IF i < k THEN q[i] ELSE q[i + 1]
  BY RemovedElements
<1>3. /\ \A i \in 0 .. k - 1 : Ring(h, w, i) = Ring(h, q, i)
      /\ \A i \in k .. m : Ring(h, w, i) = Ring(h, q, i + 1)
  <2> HIDE DEF w, m
  <2> QED
    BY <1>1, <1>2 DEF Ring
<1>4. l.next[q[k]] = after /\ l.prev[q[k]] = before
  <2>1. Ring(h, q, k) = q[k]
    BY <1>1, RingCells
  <2>2. k \in 0 .. m /\ k - 1 \in 0 .. m /\ (k - 1) + 1 = k
    BY <1>1
  <2>3. l.next[Ring(h, q, k)] = Ring(h, q, k + 1)
    BY <2>2, RingCells
  <2>4. l.prev[Ring(h, q, (k - 1) + 1)] = Ring(h, q, k - 1)
    BY <2>2, RingCells
  <2> QED
    BY <2>1, <2>2, <2>3, <2>4
<1>5. \A i \in Int : Ring(h, q, i) \in C
  BY RingCells
<1>6. /\ l.next \in [C -> D] /\ l.prev \in [C -> D]
      /\ before \in C /\ after \in C
  BY <1>1, <1>5 DEF LinksOf
<1>7. new = [next |-> [l.next EXCEPT ![before] = after],
             prev |-> [l.prev EXCEPT ![after] = before]]
  BY <1>4 DEF Del
<1>8. ASSUME NEW c \in C
      PROVE  /\ new.next[c] = IF c = before THEN after ELSE l.next[c]
             /\ new.prev[c] = IF c = after THEN before ELSE l.prev[c]
  <2> HIDE DEF before, after, new
  <2> QED
    BY <1>6, <1>7
<1>9. new \in LinksOf(C, D)
  <2> HIDE DEF before, after
  <2> QED
    BY <1>6, <1>7 DEF LinksOf
<1> HIDE DEF w, before, after, new, m
<1>10. ASSUME NEW i \in 0 .. m, NEW j \in 0 .. m, i # j
       PROVE  Ring(h, q, i) # Ring(h, q, j)
  BY <1>10, RingCells DEF m
<1>11. ASSUME NEW i \in 1 .. m + 1, NEW j \in 1 .. m + 1, i # j
       PROVE  Ring(h, q, i) # Ring(h, q, j)
  BY <1>11, RingCells DEF m
<1>12. ASSUME NEW i \in 0 .. m
       PROVE  /\ l.next[Ring(h, q, i)] = Ring(h, q, i + 1)
              /\ l.prev[Ring(h, q, i + 1)] = Ring(h, q, i)
  BY RingCells DEF m
<1>13. ASSUME NEW i \in 0 .. m - 1
       PROVE  /\ new.next[Ring(h, w, i)] = Ring(h, w, i + 1)
              /\ new.prev[Ring(h, w, i + 1)] = Ring(h, w, i)
  <2>1. CASE i < k - 1
    <3>1. /\ i \in 0 .. k - 1 /\ i + 1 \in 0 .. k - 1 /\ i \in 0 .. m /\ k - 1 \in 0 .. m
          /\ i + 1 \in 1 .. m + 1 /\ k + 1 \in 1 .. m + 1 /\ i # k - 1 /\ i + 1 # k + 1
      BY <1>1, <2>1
    <3>2. Ring(h, q, i) # before /\ Ring(h, q, i + 1) # after
      BY <1>10, <1>11, <3>1 DEF before, after
    <3> QED
      BY <1>3, <1>5, <1>8, <1>12, <3>1, <3>2
  <2>2. CASE i = k - 1
    <3>1. i \in 0 .. k - 1 /\ i + 1 \in k .. m /\ (i + 1) + 1 = k + 1
      BY <1>1, <2>2
    <3>2. Ring(h, w, i) = before /\ Ring(h, w, i + 1) = after
      BY <1>3, <2>2, <3>1 DEF before, after
    <3> QED
      BY <1>6, <1>8, <3>2
  <2>3. CASE i > k - 1
    <3> DEFINE j == i + 1
    <3>1. /\ i \in k .. m /\ i + 1 \in k .. m /\ j \in 0 .. m /\ k - 1 \in 0 .. m
          /\ j + 1 \in 1 .. m + 1 /\ k + 1 \in 1 .. m + 1 /\ j # k - 1 /\ j + 1 # k + 1
      BY <1>1, <2>3
    <3>2. Ring(h, w, i) = Ring(h, q, j) /\ Ring(h, w, i + 1) = Ring(h, q, j + 1)
      BY <1>3, <3>1
    <3> HIDE DEF j
    <3>3. Ring(h, q, j) # before /\ Ring(h, q, j + 1) # after
      BY <1>10, <1>11, <3>1 DEF before, after
    <3>4. Ring(h, q, j) \in C /\ Ring(h, q, j + 1) \in C
      BY <1>5, <3>1
    <3> QED
      BY <1>8, <1>12, <3>1, <3>2, <3>3, <3>4
  <2> QED
    BY <1>1, <2>1, <2>2, <2>3
<1>14. \A i \in 1 .. m : q[i] # h
  BY RingCells DEF m
<1>15. \A i \in 1 .. m - 1 : w[i] # h
  BY <1>1, <1>2, <1>14
<1>16. \A i, j \in 1 .. m - 1 : w[i] = w[j] => i = j
  <2>1. \A i, j \in 1 .. m : q[i] = q[j] => i = j
    BY <1>1 DEF Forms
  <2> QED
    BY <1>1, <1>2, <2>1
<1>17. m - 1 \in Nat
  BY <1>1
<1>18. Forms(new, h, w)
  BY <1>2, <1>13, <1>15, <1>16, <1>17, FormsIf
<1> QED
  BY <1>9, <1>18 DEF new, w

(* list_get takes the first node out of a list that is not empty.          *)
LEMMA GetForms ==
  ASSUME NEW C, NEW D, C \subseteq D, NEW l \in LinksOf(C, D), NEW h \in C, NEW q \in Seq(C),
         Forms(l, h, q), q # <<>>
  PROVE  /\ l.next[h] = Head(q)
         /\ Get(l, h) \in LinksOf(C, D)
         /\ Forms(Get(l, h), h, Tail(q))
<1>1. 1 \in DOMAIN q /\ Head(q) = q[1]
  OBVIOUS
<1>2. Ring(h, q, 0) = h /\ Ring(h, q, 1) = q[1] /\ 0 \in 0 .. Len(q) /\ 0 + 1 = 1
  BY <1>1, RingCells
<1>3. l.next[h] = q[1] /\ l.prev[q[1]] = h
  <2>1. /\ l.next[Ring(h, q, 0)] = Ring(h, q, 0 + 1)
        /\ l.prev[Ring(h, q, 0 + 1)] = Ring(h, q, 0)
    BY <1>2, RingCells
  <2> QED
    BY <1>2, <2>1
<1>4. Get(l, h) = Del(l, q[1])
  BY <1>3 DEF Get, Del
<1>5. Tail(q) = Removed(q, 1)
  <2>1. SubSeq(q, 1, 1 - 1) = <<>>
    BY SubSeqEmpty
  <2>2. Removed(q, 1) = SubSeq(q, 1, 1 - 1) \o SubSeq(q, 1 + 1, Len(q))
    BY DEF Removed
  <2>3. Tail(q) \in Seq(C) /\ Tail(q) = SubSeq(q, 2, Len(q))
    BY HeadTailProperties, TailIsSubSeq
  <2> QED
    BY <2>1, <2>2, <2>3, ConcatEmptySeq
<1> QED
  BY <1>1, <1>3, <1>4, <1>5, DelForms

-----------------------------------------------------------------------------
(* list_for_each visits the nodes of the list, in their order. *)
LEMMA WalkForms ==
  ASSUME NEW C, NEW D, NEW l \in LinksOf(C, D), NEW h \in C, NEW q \in Seq(C),
         Forms(l, h, q), NEW most \in Nat, Len(q) < most
  PROVE  Walk(l, h, most) = q
<1> DEFINE m == Len(q)
           cell[i \in 0 .. most] == IF i = 0 THEN h ELSE l.next[cell[i - 1]]
           round == [i \in 0 .. most |-> Ring(h, q, i % (m + 1))]
           back == {i \in 1 .. most : cell[i] = h}
           n == IF back = {} THEN most + 1
                ELSE CHOOSE i \in back : \A j \in back : i <= j
<1>1. m \in Nat /\ DOMAIN q = 1 .. m
  BY RingCells
<1>2. round = [i \in 0 .. most |-> IF i = 0 THEN h ELSE l.next[round[i - 1]]]
  <2>1. round[0] = h
    <3>1. 0 % (m + 1) = 0
      BY <1>1
    <3>2. Ring(h, q, 0) = h
      BY RingCells
    <3> QED
      BY <3>1, <3>2
  <2>2. ASSUME NEW i \in 1 .. most
        PROVE  round[i] = l.next[round[i - 1]]
    <3> DEFINE r == (i - 1) % (m + 1)
    <3>1. /\ r \in 0 .. m
          /\ i % (m + 1) = IF r = m THEN 0 ELSE r + 1
      <4>1. i - 1 \in Nat /\ (i - 1) + 1 = i /\ m + 1 \in Nat \ {0} /\ (m + 1) - 1 = m
        BY <1>1
      <4> HIDE DEF m
      <4>2. /\ r \in 0 .. (m + 1) - 1
            /\ ((i - 1) + 1) % (m + 1) = IF r = (m + 1) - 1 THEN 0 ELSE r + 1
        BY <4>1, NextMod
      <4> QED
        BY <4>1, <4>2
    <3>2. round[i] = Ring(h, q, i % (m + 1)) /\ round[i - 1] = Ring(h, q, r)
      OBVIOUS
    <3> HIDE DEF r, round
    <3>3. l.next[Ring(h, q, r)] = Ring(h, q, r + 1)
      BY <3>1, RingCells
    <3>4. r = m => Ring(h, q, r + 1) = Ring(h, q, 0)
      <4>1. m + 1 \in Int /\ m + 1 \notin 1 .. m /\ 0 \in Int /\ 0 \notin 1 .. m
        BY <1>1
      <4> QED
        BY <4>1, RingCells
    <3> QED
      BY <3>1, <3>2, <3>3, <3>4
  <2>3. round = [i \in 0 .. most |-> round[i]]
    OBVIOUS
  <2> HIDE DEF round
  <2>4. \A i \in 0 .. most : round[i] = IF i = 0 THEN h ELSE l.next[round[i - 1]]
    BY <2>1, <2>2
  <2> QED
    BY <2>3, <2>4
<1>3. cell = [i \in 0 .. most |-> IF i = 0 THEN h ELSE l.next[cell[i - 1]]]
  <2> HIDE DEF round
  <2> QED
    BY <1>2
<1>4. Walk(l, h, most) = [i \in 1 .. n - 1 |-> cell[i]]
  BY DEF Walk
<1> HIDE DEF cell, round
<1>5. cell[0] = h /\ \A i \in 1 .. most : cell[i] = l.next[cell[i - 1]]
  BY <1>3
<1>6. \A i \in 0 .. m + 1 : cell[i] = Ring(h, q, i)
  <2> DEFINE Bad == {i \in 0 .. m + 1 : cell[i] # Ring(h, q, i)}
  <2>1. SUFFICES ASSUME NEW x \in Bad
                 PROVE  FALSE
    OBVIOUS
  <2>2. Bad \in SUBSET Nat
    BY <1>1
  <2>3. PICK i \in Bad : \A j \in Bad : i <= j
    BY <2>1, <2>2, LeastNat
  <2>4. i # 0
    BY <1>5, RingCells
  <2>5. i \in 1 .. m + 1 /\ i - 1 \in 0 .. m /\ i - 1 \notin Bad /\ (i - 1) + 1 = i
    BY <1>1, <2>3, <2>4
  <2>6. cell[i - 1] = Ring(h, q, i - 1)
    BY <2>5
  <2>7. l.next[Ring(h, q, i - 1)] = Ring(h, q, (i - 1) + 1)
    BY <2>5, RingCells
  <2>8. i \in 1 .. most
    BY <1>1, <2>5
  <2> QED
    BY <1>5, <2>3, <2>5, <2>6, <2>7, <2>8
<1>7. m + 1 \in back
  <2>1. m + 1 \in 1 .. most /\ m + 1 \in 0 .. m + 1
    BY <1>1
  <2>2. Ring(h, q, m + 1) = h
    <3>1. m + 1 \in Int /\ m + 1 \notin 1 .. m
      BY <1>1
    <3> QED
      BY <3>1, RingCells
  <2> QED
    BY <1>6, <2>1, <2>2
<1>8. \A j \in back : m + 1 <= j
  <2>1. \A j \in 1 .. m : cell[j] # h
    BY <1>1, <1>6, RingCells
  <2> QED
    BY <1>1, <2>1
<1>9. n = m + 1
  <2>1. back \subseteq Nat
    OBVIOUS
  <2> HIDE DEF back
  <2>2. \A i \in back : (\A j \in back : i <= j) => i = m + 1
    BY <1>1, <1>7, <1>8, <2>1
  <2> QED
    BY <1>7, <1>8, <2>2
<1>10. \A i \in 1 .. m : cell[i] = q[i]
  BY <1>1, <1>6, RingCells
<1>11. [i \in 1 .. n - 1 |-> cell[i]] = [i \in 1 .. m |-> q[i]]
  <2> HIDE DEF n
  <2>1. n - 1 = m
    BY <1>1, <1>9
  <2> QED
    BY <1>10, <2>1
<1>12. [i \in 1 .. m |-> q[i]] = q
  BY <1>1
<1> QED
  BY <1>4, <1>11, <1>12

-----------------------------------------------------------------------------
(* The invariant of the property, in the terms of the lemmas on links. *)
FormsQueue ==
  /\ fields \in LinksOf(ListCell, ListCell \cup {NULL})
  /\ queue \in Seq(Node)
  /\ got \in Node \cup {NULL}
  /\ Forms(fields, Head_, queue)

LEMMA LinkedIff == Linked <=> FormsQueue
<1>1. ListTypes <=> /\ fields \in LinksOf(ListCell, ListCell \cup {NULL})
                    /\ queue \in Seq(Node)
                    /\ got \in Node \cup {NULL}
  BY DEF ListTypes, LinksOf
<1>2. ASSUME queue \in Seq(Node)
      PROVE  \A i \in DOMAIN queue : queue[i] # Head_
  <2>1. \A i \in DOMAIN queue : queue[i] \in Node
    BY <1>2
  <2> QED
    BY <2>1, ListAssumption DEF ListCell
<1>3. \A i : Around(i) = Ring(Head_, queue, i)
  BY DEF Around, Ring
<1> QED
  BY <1>1, <1>2, <1>3 DEF Linked, Forms, FormsQueue

(* What the lemmas on links ask for. *)
LEMMA ListCells ==
  ASSUME Linked
  PROVE  /\ ListCell \subseteq ListCell \cup {NULL}
         /\ fields \in LinksOf(ListCell, ListCell \cup {NULL})
         /\ Head_ \in ListCell
         /\ queue \in Seq(ListCell)
         /\ Forms(fields, Head_, queue)
         /\ \A n \in Node : n \in ListCell /\ n # Head_
<1>1. queue \in Seq(Node) /\ Node \subseteq ListCell
  BY LinkedIff DEF ListCell, FormsQueue
<1>2. queue \in Seq(ListCell)
  BY <1>1
<1> QED
  BY ListAssumption, <1>2, LinkedIff DEF ListCell, FormsQueue

(* A node that is not in the list. *)
LEMMA Absent ==
  ASSUME NEW n, ~ InList(n)
  PROVE  \A i \in DOMAIN queue : queue[i] # n
BY DEF InList

(* What is left of the queue without a node of it. *)
LEMMA WithoutRemoved ==
  ASSUME NEW n, InList(n)
  PROVE  /\ Position(n) \in DOMAIN queue
         /\ queue[Position(n)] = n
         /\ Without(n) = Removed(queue, Position(n))
BY DEF InList, Position, Without, Removed

-----------------------------------------------------------------------------
LEMMA InitLinked == ListInit => Linked
<1> SUFFICES ASSUME ListInit
             PROVE  Linked
  OBVIOUS
<1> DEFINE l == [next |-> [c \in ListCell |-> NULL], prev |-> [c \in ListCell |-> NULL]]
<1>1. l \in LinksOf(ListCell, ListCell \cup {NULL}) /\ Head_ \in ListCell /\ ListCell \subseteq ListCell \cup {NULL}
  BY DEF LinksOf, ListCell
<1>2. fields = InitHead(l, Head_) /\ queue = <<>> /\ got = NULL
  BY DEF ListInit
<1> HIDE DEF l
<1> QED
  BY <1>1, <1>2, InitHeadForms, LinkedIff DEF FormsQueue

LEMMA NextLinked == Linked /\ [ListNext]_listVars => Linked'
<1> SUFFICES ASSUME Linked, [ListNext]_listVars
             PROVE  Linked'
  OBVIOUS
<1>1. /\ queue \in Seq(Node) /\ got \in Node \cup {NULL}
  BY LinkedIff DEF FormsQueue
<1>2. ASSUME fields' \in LinksOf(ListCell, ListCell \cup {NULL}), queue' \in Seq(Node),
             got' \in Node \cup {NULL}, Forms(fields', Head_, queue')
      PROVE  Linked'
  <2>1. Linked' <=> FormsQueue'
    BY LinkedIff, PTL
  <2> QED
    BY <1>2, <2>1 DEF FormsQueue
<1>3. ASSUME NEW n \in Node, ListAdd(n)
      PROVE  Linked'
  <2>1. fields' = Add(fields, Head_, n) /\ queue' = Append(queue, n) /\ got' = got
    BY <1>3 DEF ListAdd
  <2>2. \A i \in DOMAIN queue : queue[i] # n
    BY <1>3, Absent DEF ListAdd
  <2>3. queue' \in Seq(Node)
    BY <1>1, <2>1, AppendProperties
  <2>4. fields' \in LinksOf(ListCell, ListCell \cup {NULL}) /\ Forms(fields', Head_, queue')
    BY <2>1, <2>2, ListCells, AddForms
  <2> QED
    BY <1>1, <1>2, <2>1, <2>3, <2>4
<1>4. ASSUME NEW n \in Node, ListAddHead(n)
      PROVE  Linked'
  <2>1. fields' = AddHead(fields, Head_, n) /\ queue' = <<n>> \o queue /\ got' = got
    BY <1>4 DEF ListAddHead
  <2>2. \A i \in DOMAIN queue : queue[i] # n
    BY <1>4, Absent DEF ListAddHead
  <2>3. queue' \in Seq(Node)
    BY <1>1, <2>1, ConcatProperties
  <2>4. fields' \in LinksOf(ListCell, ListCell \cup {NULL}) /\ Forms(fields', Head_, queue')
    BY <2>1, <2>2, ListCells, AddHeadForms
  <2> QED
    BY <1>1, <1>2, <2>1, <2>3, <2>4
<1>5. ASSUME NEW n \in Node, ListDel(n)
      PROVE  Linked'
  <2> DEFINE k == Position(n)
  <2>1. k \in DOMAIN queue /\ queue[k] = n /\ Without(n) = Removed(queue, k)
    BY <1>5, WithoutRemoved DEF ListDel
  <2>2. ~ IsEmpty(fields, Head_)
    <3>1. queue # <<>>
      BY <2>1
    <3> QED
      BY <3>1, ListCells, EmptyForms
  <2>3. fields' = Del(fields, n) /\ queue' = Removed(queue, k) /\ got' = got
    BY <1>5, <2>1, <2>2 DEF ListDel
  <2>4. queue' \in Seq(Node)
    BY <1>1, <2>1, <2>3, RemovedElements
  <2>5. fields' \in LinksOf(ListCell, ListCell \cup {NULL}) /\ Forms(fields', Head_, queue')
    <3> HIDE DEF k
    <3> QED
      BY <2>1, <2>3, ListCells, DelForms
  <2> QED
    BY <1>1, <1>2, <2>3, <2>4, <2>5
<1>6. ASSUME ListGet
      PROVE  Linked'
  <2>1. CASE IsEmpty(fields, Head_)
    <3>1. got' = NULL /\ fields' = fields /\ queue' = queue
      BY <1>6, <2>1 DEF ListGet
    <3> QED
      BY <1>1, <1>2, <3>1, LinkedIff DEF FormsQueue
  <2>2. CASE ~ IsEmpty(fields, Head_)
    <3>1. got' = fields.next[Head_] /\ fields' = Get(fields, Head_) /\ queue' = Tail(queue)
      BY <1>6, <2>2 DEF ListGet
    <3>2. queue # <<>>
      BY <2>2, ListCells, EmptyForms
    <3>3. queue' \in Seq(Node) /\ Head(queue) \in Node
      BY <1>1, <3>1, <3>2, HeadTailProperties
    <3>4. /\ fields.next[Head_] = Head(queue)
          /\ fields' \in LinksOf(ListCell, ListCell \cup {NULL})
          /\ Forms(fields', Head_, queue')
      BY <3>1, <3>2, ListCells, GetForms
    <3> QED
      BY <1>2, <3>1, <3>3, <3>4
  <2> QED
    BY <2>1, <2>2
<1>7. ASSUME UNCHANGED listVars
      PROVE  Linked'
  BY <1>1, <1>2, <1>7, LinkedIff DEF listVars, FormsQueue
<1> QED
  BY <1>3, <1>4, <1>5, <1>6, <1>7 DEF ListNext

(* list_add, list_add_head, list_del and list_get, called in any order on  *)
(* nodes that are where their callers must have them, keep the fields those *)
(* of one list, in which each node is once.                                *)
THEOREM LinkedHolds == ListSpec => []Linked
BY InitLinked, NextLinked, PTL DEF ListSpec

-----------------------------------------------------------------------------
(* The refinement of Deque *)

(* A list holds no more nodes than there are. *)
LEMMA Room ==
  ASSUME NEW q \in Seq(Node), \A i, j \in DOMAIN q : q[i] = q[j] => i = j
  PROVE  Len(q) < Cardinality(Node) + 1
<1>1. Len(q) \in Nat /\ q \in [1 .. Len(q) -> Node] /\ DOMAIN q = 1 .. Len(q)
  BY LenProperties
<1>2. q \in Injection(1 .. Len(q), Node)
  BY <1>1 DEF Injection, IsInjective
<1>3. Cardinality(1 .. Len(q)) <= Cardinality(Node)
  BY <1>2, FS_Injection, ListAssumption
<1>4. Cardinality(1 .. Len(q)) = Len(q)
  BY <1>1, FS_Interval
<1>5. Cardinality(Node) \in Nat
  BY ListAssumption, FS_CardinalityType
<1> QED
  BY <1>1, <1>3, <1>4, <1>5

(* What list_for_each visits is the queue. *)
LEMMA VisitedQueue == Linked => Visited = queue
<1> SUFFICES ASSUME Linked
             PROVE  Visited = queue
  OBVIOUS
<1>1. Len(queue) < Cardinality(Node) + 1
  BY LinkedIff, Room DEF FormsQueue, Forms
<1>2. Cardinality(Node) + 1 \in Nat
  BY ListAssumption, FS_CardinalityType
<1> QED
  BY <1>1, <1>2, ListCells, WalkForms DEF Visited

LEMMA InitDeque == ListInit => TheDeque!Init
BY InitLinked, VisitedQueue DEF ListInit, TheDeque!Init

LEMMA NextDeque == Linked /\ Linked' /\ [ListNext]_listVars => [TheDeque!Next]_<<Visited, got>>
<1> SUFFICES ASSUME Linked, Linked', [ListNext]_listVars
             PROVE  [TheDeque!Next]_<<Visited, got>>
  OBVIOUS
<1>1. Visited = queue
  BY VisitedQueue
<1>2. Visited' = queue'
  <2>1. (Visited = queue)'
    BY VisitedQueue, PTL
  <2> QED
    BY <2>1
<1>3. ASSUME NEW n \in Node, ListAdd(n)
      PROVE  TheDeque!PutLast(n)
  BY <1>1, <1>2, <1>3 DEF ListAdd, InList, TheDeque!PutLast, TheDeque!In
<1>4. ASSUME NEW n \in Node, ListAddHead(n)
      PROVE  TheDeque!PutFirst(n)
  BY <1>1, <1>2, <1>4 DEF ListAddHead, InList, TheDeque!PutFirst, TheDeque!In
<1>5. ASSUME NEW n \in Node, ListDel(n)
      PROVE  TheDeque!Remove(n)
  <2>1. TheDeque!Position(n) = Position(n)
    BY <1>1 DEF Position, TheDeque!Position
  <2> QED
    BY <1>1, <1>2, <1>5, <2>1
      DEF ListDel, InList, Without, TheDeque!Remove, TheDeque!In
<1>6. ASSUME ListGet
      PROVE  TheDeque!Take
  <2>1. IsEmpty(fields, Head_) <=> queue = <<>>
    BY ListCells, EmptyForms
  <2>2. CASE queue = <<>>
    BY <1>1, <1>2, <1>6, <2>1, <2>2 DEF ListGet, TheDeque!Take
  <2>3. CASE queue # <<>>
    <3>1. fields.next[Head_] = Head(queue)
      BY <2>3, ListCells, GetForms
    <3> QED
      BY <1>1, <1>2, <1>6, <2>1, <2>3, <3>1 DEF ListGet, TheDeque!Take
  <2> QED
    BY <2>2, <2>3
<1>7. CASE UNCHANGED listVars
  BY <1>1, <1>2, <1>7 DEF listVars
<1> QED
  BY <1>3, <1>4, <1>5, <1>6, <1>7 DEF ListNext, TheDeque!Next

(* What list_for_each visits behaves as a deque: nodes are added at either *)
(* end, list_del takes out the node it is given, list_get the first one.   *)
THEOREM RefinesDeque == ListSpec => ImplementsDeque
BY LinkedHolds, InitDeque, NextDeque, PTL DEF ListSpec, ImplementsDeque, TheDeque!Spec

-----------------------------------------------------------------------------
(* The scheduler *)

USE SchedAssumption

(* The inductive invariant *)

(* Types, which leaves open what pc is defined for. *)
FullTypes ==
  /\ Types
  /\ pc \in [Proc \cup {Kernel} -> {"main", "sched", "hang", "loop", "asleep", "awake"}]

(* The list of ready processes is well formed, and says which are ready. *)
ReadyList ==
  /\ Queue \in Seq(Proc)
  /\ Forms(links, Ready, Queue)
  /\ readys = Len(Queue)
  /\ \A p \in Proc : state[p] = "PROC_READY" <=> \E i \in DOMAIN Queue : Queue[i] = p

(* One context is on the processor; the others wait where they gave it up. *)
OneRuns ==
  /\ \A p \in Proc : state[p] = "PROC_RUN" <=> cpu = p
  /\ \A p \in Proc : p # cpu => pc[p] = "loop"
  /\ cpu # Kernel => proc = cpu /\ pc[Kernel] = "sched"

(* While the process on the processor sleeps, the timer is as far past     *)
(* snap as the ticks that elapsed, until its time is up.                   *)
Clock ==
  pc[cpu] = "asleep" /\ elapsed <= nap.msec
    => time_ticks = IF nap.snap + elapsed < Ticks
                    THEN nap.snap + elapsed ELSE nap.snap + elapsed - Ticks

IInv == FullTypes /\ ReadyList /\ OneRuns /\ Clock

-----------------------------------------------------------------------------
(* Numbers *)

(* A difference or sum that is at most one round off (uint32_t). *)
LEMMA ModNear ==
  ASSUME NEW a \in Int, NEW n \in Nat \ {0}, -n <= a, a < 2 * n
  PROVE  a % n = IF a < 0 THEN a + n ELSE IF a < n THEN a ELSE a - n
<1> DEFINE d == a \div n
           r == a % n
<1>1. d \in Int /\ r \in 0 .. n - 1 /\ a = n * d + r
  OBVIOUS
<1> HIDE DEF d, r
<1>2. CASE d <= -2
  <2>1. n * d <= n * (-2)
    BY <1>1, <1>2
  <2> QED
    BY <1>1, <2>1
<1>3. CASE d >= 2
  <2>1. n * 2 <= n * d
    BY <1>1, <1>3
  <2> QED
    BY <1>1, <2>1
<1>4. CASE d = -1
  BY <1>1, <1>4
<1>5. CASE d = 0
  BY <1>1, <1>5
<1>6. CASE d = 1
  BY <1>1, <1>6
<1>7. r = IF a < 0 THEN a + n ELSE IF a < n THEN a ELSE a - n
  BY <1>1, <1>2, <1>3, <1>4, <1>5, <1>6
<1> QED
  BY <1>7 DEF r

-----------------------------------------------------------------------------
(* The list of ready processes *)

(* What the lemmas on links ask for. *)
LEMMA SchedCells ==
  /\ Cell \subseteq Cell
  /\ Ready \in Cell /\ Kernel \notin Proc
  /\ Seq(Proc) \subseteq Seq(Cell)
  /\ \A p \in Proc : p \in Cell /\ p # Ready
  /\ [next : [Cell -> Cell], prev : [Cell -> Cell]] = LinksOf(Cell, Cell)
<1>1. \A p \in Proc : p \in Cell /\ p # Ready
  BY DEF Proc, Cell, Ready
<1>2. Seq(Proc) \subseteq Seq(Cell)
  BY <1>1
<1> QED
  BY <1>1, <1>2 DEF Cell, Ready, Kernel, Proc, LinksOf

(* Processes that are not twice in a sequence are at most PROC_MAX. *)
LEMMA AtMostAll ==
  ASSUME NEW q \in Seq(Proc), \A i, j \in DOMAIN q : q[i] = q[j] => i = j
  PROVE  Len(q) \in 0 .. PROC_MAX
<1>1. Len(q) \in Nat /\ q \in [1 .. Len(q) -> Proc] /\ DOMAIN q = 1 .. Len(q)
  BY LenProperties
<1>2. q \in Injection(1 .. Len(q), Proc)
  BY <1>1 DEF Injection, IsInjective
<1>3. IsFiniteSet(Proc) /\ Cardinality(Proc) = PROC_MAX
  BY FS_Interval DEF Proc
<1>4. Cardinality(1 .. Len(q)) <= Cardinality(Proc)
  BY <1>2, <1>3, FS_Injection
<1>5. Cardinality(1 .. Len(q)) = Len(q)
  BY <1>1, FS_Interval
<1> QED
  BY <1>1, <1>3, <1>4, <1>5

(* The sequence that links form is what list_for_each visits. *)
LEMMA QueueOf ==
  ASSUME NEW l \in LinksOf(Cell, Cell), NEW q \in Seq(Proc), Forms(l, Ready, q)
  PROVE  Walk(l, Ready, PROC_MAX + 1) = q /\ Len(q) \in 0 .. PROC_MAX
<1>1. Len(q) \in 0 .. PROC_MAX
  BY AtMostAll DEF Forms
<1>2. PROC_MAX + 1 \in Nat /\ Len(q) < PROC_MAX + 1
  BY <1>1
<1>3. q \in Seq(Cell) /\ Ready \in Cell
  BY SchedCells
<1>4. Walk(l, Ready, PROC_MAX + 1) = q
  BY <1>2, <1>3, WalkForms
<1> QED
  BY <1>1, <1>4

(* _sched_add_ready, of a process that is not in the list. *)
LEMMA Enqueued ==
  ASSUME IInv, NEW p \in Proc, AddReady(p), \A i \in DOMAIN Queue : Queue[i] # p
  PROVE  /\ links' \in LinksOf(Cell, Cell) /\ readys' \in 0 .. PROC_MAX
         /\ Queue' = Append(Queue, p) /\ Queue' \in Seq(Proc)
         /\ Forms(links', Ready, Queue') /\ readys' = Len(Queue')
         /\ \A r \in Proc : (\E i \in DOMAIN Queue' : Queue'[i] = r)
                          <=> r = p \/ \E i \in DOMAIN Queue : Queue[i] = r
<1> DEFINE w == Append(Queue, p)
<1>1. /\ links \in LinksOf(Cell, Cell) /\ Queue \in Seq(Proc)
      /\ Forms(links, Ready, Queue) /\ readys = Len(Queue)
  BY SchedCells DEF IInv, FullTypes, Types, ReadyList
<1>2. links' = Add(links, Ready, p) /\ readys' = readys + 1
  BY DEF AddReady
<1>3. Queue \in Seq(Cell) /\ p \in Cell /\ p # Ready /\ Ready \in Cell
  BY <1>1, SchedCells
<1>4. links' \in LinksOf(Cell, Cell) /\ Forms(links', Ready, w)
  BY <1>1, <1>2, <1>3, AddForms
<1>5. /\ w \in Seq(Proc) /\ Len(w) = Len(Queue) + 1
      /\ \A i \in 1 .. Len(Queue) : w[i] = Queue[i]
      /\ w[Len(Queue) + 1] = p
  BY <1>1, AppendProperties
<1>6. Queue' = w /\ Len(w) \in 0 .. PROC_MAX
  <2> HIDE DEF w
  <2>1. Walk(links', Ready, PROC_MAX + 1) = w /\ Len(w) \in 0 .. PROC_MAX
    BY <1>4, <1>5, QueueOf
  <2> QED
    BY <2>1 DEF Queue
<1>7. DOMAIN Queue = 1 .. Len(Queue) /\ DOMAIN w = 1 .. Len(w) /\ Len(Queue) \in Nat
  BY <1>1, <1>5, LenProperties
<1> HIDE DEF w
<1>8. ASSUME NEW r \in Proc
      PROVE  (\E i \in DOMAIN w : w[i] = r)
             <=> r = p \/ \E i \in DOMAIN Queue : Queue[i] = r
  <2>1. DOMAIN w = DOMAIN Queue \cup {Len(Queue) + 1}
    BY <1>5, <1>7
  <2> QED
    BY <1>5, <1>7, <2>1
<1> QED
  BY <1>1, <1>2, <1>4, <1>5, <1>6, <1>8 DEF w

(* list_get in the loop of _sched. *)
LEMMA Dequeued ==
  ASSUME IInv, ~ IsEmpty(links, Ready), links' = Get(links, Ready), readys' = readys - 1
  PROVE  LET new == links.next[Ready] IN
         /\ links' \in LinksOf(Cell, Cell) /\ readys' \in 0 .. PROC_MAX
         /\ Queue # <<>> /\ new = Head(Queue) /\ new \in Proc
         /\ Queue' = Tail(Queue) /\ Queue' \in Seq(Proc)
         /\ Forms(links', Ready, Queue') /\ readys' = Len(Queue')
         /\ \E i \in DOMAIN Queue : Queue[i] = new
         /\ \A r \in Proc : (\E i \in DOMAIN Queue' : Queue'[i] = r)
                          <=> r # new /\ \E i \in DOMAIN Queue : Queue[i] = r
<1> DEFINE w == Tail(Queue)
           new == links.next[Ready]
<1>1. /\ links \in LinksOf(Cell, Cell) /\ Queue \in Seq(Proc)
      /\ Forms(links, Ready, Queue) /\ readys = Len(Queue)
  BY SchedCells DEF IInv, FullTypes, Types, ReadyList
<1>2. Queue \in Seq(Cell) /\ Ready \in Cell
  BY <1>1, SchedCells
<1>3. Queue # <<>>
  BY <1>1, <1>2, EmptyForms
<1>4. /\ new = Head(Queue) /\ links' \in LinksOf(Cell, Cell)
      /\ Forms(links', Ready, w)
  BY <1>1, <1>2, <1>3, GetForms
<1>5. /\ w \in Seq(Proc) /\ Len(w) = Len(Queue) - 1 /\ Head(Queue) \in Proc
      /\ \A i \in 1 .. Len(w) : w[i] = Queue[i + 1]
  BY <1>1, <1>3, HeadTailProperties
<1>6. Queue' = w /\ Len(w) \in 0 .. PROC_MAX
  <2> HIDE DEF w
  <2>1. Walk(links', Ready, PROC_MAX + 1) = w /\ Len(w) \in 0 .. PROC_MAX
    BY <1>4, <1>5, QueueOf
  <2> QED
    BY <2>1 DEF Queue
<1>7. /\ DOMAIN Queue = 1 .. Len(Queue) /\ DOMAIN w = 1 .. Len(w)
      /\ Len(Queue) \in Nat /\ Len(w) \in Nat /\ 1 \in DOMAIN Queue /\ Queue[1] = new
  BY <1>1, <1>3, <1>4, <1>5, LenProperties
<1>8. \A i, j \in DOMAIN Queue : Queue[i] = Queue[j] => i = j
  BY <1>1 DEF Forms
<1> HIDE DEF w, new
<1>9. ASSUME NEW r \in Proc
      PROVE  (\E i \in DOMAIN w : w[i] = r)
             <=> r # new /\ \E i \in DOMAIN Queue : Queue[i] = r
  <2>1. ASSUME NEW i \in DOMAIN w
        PROVE  i + 1 \in DOMAIN Queue /\ i + 1 # 1 /\ w[i] = Queue[i + 1]
    BY <1>5, <1>7
  <2>2. ASSUME NEW i \in DOMAIN Queue, i # 1
        PROVE  i - 1 \in DOMAIN w /\ w[i - 1] = Queue[i]
    BY <1>5, <1>7, <2>2
  <2>3. \A i \in DOMAIN Queue : Queue[i] = new <=> i = 1
    BY <1>7, <1>8
  <2> QED
    BY <2>1, <2>2, <2>3
<1> QED
  BY <1>1, <1>3, <1>4, <1>5, <1>6, <1>7, <1>9 DEF w, new

-----------------------------------------------------------------------------
(* The invariant is inductive *)

(* The times to sleep for are shorter than a round of time_ticks. *)
LEMMA SleepTimes == \A m \in Msec \cup {0} : m \in Nat /\ m < Ticks
<1>1. \A m \in Msec : m \in 0 .. Ticks - 2
  OBVIOUS
<1> QED
  BY <1>1

(* The sleep in the types. *)
LEMMA NapTypes ==
  ASSUME IInv
  PROVE  /\ time_ticks \in 0 .. Ticks - 1 /\ elapsed \in 0 .. Ticks
         /\ nap.snap \in 0 .. Ticks - 1
         /\ nap.msec \in Nat /\ nap.msec < Ticks
<1>1. nap \in [snap : 0 .. Ticks - 1, msec : Msec \cup {0}]
  BY DEF IInv, FullTypes, Types
<1>2. nap.snap \in 0 .. Ticks - 1 /\ nap.msec \in Msec \cup {0}
  BY <1>1
<1>3. time_ticks \in 0 .. Ticks - 1 /\ elapsed \in 0 .. Ticks
  BY DEF IInv, FullTypes, Types
<1> QED
  BY <1>2, <1>3, SleepTimes

LEMMA InitIInv == Init => IInv
<1> SUFFICES ASSUME Init
             PROVE  IInv
  OBVIOUS
<1> DEFINE unset == [c \in Cell |-> c]
           l == [next |-> unset, prev |-> unset]
           l1 == InitHead(l, Ready)
<1>1. l \in LinksOf(Cell, Cell) /\ Ready \in Cell /\ Block \in Cell /\ Block # Ready
  BY DEF LinksOf, Cell, Ready, Block
<1>2. links = InitHead(l1, Block)
  BY DEF Init, FreeSlots
<1> HIDE DEF l
<1>3. l1 \in LinksOf(Cell, Cell) /\ Forms(l1, Ready, <<>>)
  BY <1>1, InitHeadForms
<1> HIDE DEF l1
<1>4. links \in LinksOf(Cell, Cell)
  BY <1>1, <1>2, <1>3, InitHeadForms
<1>5. Forms(links, Ready, <<>>)
  <2>1. Ring(Ready, <<>>, 0) = Ready /\ Ring(Ready, <<>>, 0 + 1) = Ready
    BY DEF Ring
  <2>2. l1.next[Ready] = Ready /\ l1.prev[Ready] = Ready
    BY <1>3, <2>1 DEF Forms
  <2>3. links.next[Ready] = Ready /\ links.prev[Ready] = Ready
    BY <1>1, <1>2, <1>3, <2>2 DEF InitHead, LinksOf
  <2> QED
    BY <2>1, <2>3 DEF Forms
<1>6. Queue = <<>>
  <2>1. <<>> \in Seq(Proc)
    OBVIOUS
  <2> QED
    BY <1>4, <1>5, <2>1, QueueOf DEF Queue
<1>7. FullTypes
  <2>1. /\ pc = [c \in Proc \cup {Kernel} |-> IF c = Kernel THEN "main" ELSE "loop"]
        /\ pc[Kernel] = "main" /\ \A p \in Proc : pc[p] = "loop"
    BY SchedCells DEF Init, FreeSlots
  <2>2. pc \in [Proc \cup {Kernel} -> {"main", "sched", "hang", "loop", "asleep", "awake"}]
    BY <2>1
  <2>3. nap \in [snap : 0 .. Ticks - 1, msec : Msec \cup {0}]
    BY DEF Init, FreeSlots, NoNap
  <2>4. /\ state \in [Proc -> {"PROC_FREE", "PROC_READY", "PROC_RUN", "PROC_BLOCK"}]
        /\ readys \in 0 .. PROC_MAX /\ time_ticks \in 0 .. Ticks - 1 /\ elapsed \in 0 .. Ticks
        /\ {proc, cpu} \subseteq Proc \cup {Kernel}
    BY DEF Init, FreeSlots
  <2> QED
    BY <1>4, <2>1, <2>2, <2>3, <2>4, SchedCells DEF FullTypes, Types
<1>8. ReadyList
  BY <1>5, <1>6 DEF Init, FreeSlots, ReadyList
<1>9. OneRuns
  BY SchedCells DEF Init, FreeSlots, OneRuns
<1>10. Clock
  BY SchedCells DEF Init, FreeSlots, Clock
<1> QED
  BY <1>7, <1>8, <1>9, <1>10 DEF IInv

(* The list stays what it is while no step touches it. *)
LEMMA SameList ==
  ASSUME IInv, UNCHANGED <<state, lists>>
  PROVE  ReadyList'
<1>1. links' = links /\ readys' = readys /\ state' = state
  BY DEF lists
<1>2. Queue' = Queue
  BY <1>1 DEF Queue
<1> QED
  BY <1>1, <1>2 DEF IInv, ReadyList

(* proc_create *)
LEMMA CreateInv == ASSUME IInv, NEW p \in Proc, Create(p) PROVE IInv'
<1>1. state[p] = "PROC_FREE" /\ AddReady(p)
      /\ state' = [state EXCEPT ![p] = "PROC_READY"]
      /\ UNCHANGED <<proc, cpu, pc, time_ticks, nap, elapsed>>
  BY DEF Create, FirstFree
<1>2. \A i \in DOMAIN Queue : Queue[i] # p
  BY <1>1 DEF IInv, ReadyList
<1>3. /\ links' \in LinksOf(Cell, Cell) /\ readys' \in 0 .. PROC_MAX
      /\ Queue' \in Seq(Proc)
      /\ Forms(links', Ready, Queue') /\ readys' = Len(Queue')
      /\ \A r \in Proc : (\E i \in DOMAIN Queue' : Queue'[i] = r)
                       <=> r = p \/ \E i \in DOMAIN Queue : Queue[i] = r
  BY <1>1, <1>2, Enqueued
<1>4. state \in [Proc -> {"PROC_FREE", "PROC_READY", "PROC_RUN", "PROC_BLOCK"}]
  BY DEF IInv, FullTypes, Types
<1>5. FullTypes'
  BY <1>1, <1>3, <1>4, SchedCells DEF IInv, FullTypes, Types
<1>6. ReadyList'
  BY <1>1, <1>3, <1>4 DEF IInv, ReadyList
<1>7. OneRuns'
  BY <1>1, <1>4 DEF IInv, OneRuns
<1>8. Clock'
  BY <1>1 DEF IInv, Clock
<1> QED
  BY <1>5, <1>6, <1>7, <1>8 DEF IInv

(* The loop of _sched never returns: while readys is not 0, list_get gives *)
(* it a process.                                                           *)
LEMMA DispatchTakes == ASSUME IInv, Dispatch PROVE ~ IsEmpty(links, Ready)
<1>1. readys # 0 /\ readys = Len(Queue)
  BY DEF Dispatch, IInv, ReadyList
<1>2. Queue # <<>>
  BY <1>1
<1>3. /\ links \in LinksOf(Cell, Cell) /\ Queue \in Seq(Cell)
      /\ Forms(links, Ready, Queue) /\ Ready \in Cell
  BY SchedCells DEF IInv, FullTypes, Types, ReadyList
<1> QED
  BY <1>2, <1>3, EmptyForms

(* A context that waits for the processor is not the kernel's. *)
LEMMA OnlyKernel ==
  ASSUME IInv
  PROVE  /\ cpu \in Proc \cup {Kernel}
         /\ pc[cpu] \in {"main", "sched", "hang"} <=> cpu = Kernel
         /\ pc[cpu] \in {"loop", "asleep", "awake"} <=> cpu \in Proc
<1>1. cpu \in Proc \cup {Kernel} /\ pc[Kernel] \in {"main", "sched", "hang"}
      /\ \A p \in Proc : pc[p] \in {"loop", "asleep", "awake"}
  BY DEF IInv, FullTypes, Types
<1> QED
  BY <1>1, SchedCells

(* _sched *)
LEMMA DispatchInv == ASSUME IInv, Dispatch PROVE IInv'
<1> DEFINE new == links.next[Ready]
<1>1. ~ IsEmpty(links, Ready)
  BY DispatchTakes
<1>2. /\ pc[cpu] = "sched"
      /\ links' = Get(links, Ready) /\ readys' = readys - 1
      /\ state' = [state EXCEPT ![new] = "PROC_RUN"]
      /\ proc' = new /\ cpu' = new
      /\ UNCHANGED <<pc, time_ticks, nap, elapsed>>
  BY <1>1 DEF Dispatch
<1>3. /\ links' \in LinksOf(Cell, Cell) /\ readys' \in 0 .. PROC_MAX
      /\ new \in Proc
      /\ Queue' \in Seq(Proc)
      /\ Forms(links', Ready, Queue') /\ readys' = Len(Queue')
      /\ \E i \in DOMAIN Queue : Queue[i] = new
      /\ \A r \in Proc : (\E i \in DOMAIN Queue' : Queue'[i] = r)
                       <=> r # new /\ \E i \in DOMAIN Queue : Queue[i] = r
  BY <1>1, <1>2, Dequeued
<1> HIDE DEF new
<1>4. /\ state \in [Proc -> {"PROC_FREE", "PROC_READY", "PROC_RUN", "PROC_BLOCK"}]
      /\ cpu = Kernel /\ cpu \notin Proc
  BY <1>2, OnlyKernel, SchedCells DEF IInv, FullTypes, Types
<1>5. FullTypes'
  BY <1>2, <1>3, <1>4, SchedCells DEF IInv, FullTypes, Types
<1>6. ReadyList'
  BY <1>2, <1>3, <1>4 DEF IInv, ReadyList
<1>7. OneRuns'
  BY <1>2, <1>3, <1>4 DEF IInv, OneRuns
<1>8. Clock'
  <2>1. pc[new] = "loop"
    BY <1>3, <1>4 DEF IInv, OneRuns
  <2> QED
    BY <1>2, <2>1 DEF Clock
<1> QED
  BY <1>5, <1>6, <1>7, <1>8 DEF IInv

(* msleep is called. *)
LEMMA MsleepInv == ASSUME IInv, NEW m \in Msec, Msleep(m) PROVE IInv'
<1>1. /\ cpu \in Proc /\ cpu # Kernel /\ pc[cpu] = "loop"
      /\ elapsed' = 0
      /\ UNCHANGED <<state, lists, proc, cpu, time_ticks>>
  BY OnlyKernel DEF Msleep
<1>2. \/ pc' = [pc EXCEPT ![cpu] = "awake"] /\ nap' = nap
      \/ /\ pc' = [pc EXCEPT ![cpu] = "asleep"]
         /\ nap' = [snap |-> time_ticks, msec |-> m]
  BY DEF Msleep
<1>3. /\ time_ticks \in 0 .. Ticks - 1 /\ m \in 0 .. Ticks - 2
      /\ pc \in [Proc \cup {Kernel} -> {"main", "sched", "hang", "loop", "asleep", "awake"}]
  BY DEF IInv, FullTypes, Types
<1>4. FullTypes'
  <2>1. nap' \in [snap : 0 .. Ticks - 1, msec : Msec \cup {0}]
    BY <1>2, <1>3 DEF IInv, FullTypes, Types
  <2>2. /\ pc' \in [Proc \cup {Kernel} -> {"main", "sched", "hang", "loop", "asleep", "awake"}]
        /\ pc'[Kernel] = pc[Kernel]
        /\ \A p \in Proc : pc'[p] \in {pc[p], "asleep", "awake"}
    BY <1>1, <1>2, <1>3, SchedCells
  <2>3. elapsed' \in 0 .. Ticks
    BY <1>1
  <2> QED
    BY <1>1, <2>1, <2>2, <2>3 DEF IInv, FullTypes, Types, lists
<1>5. ReadyList'
  BY <1>1, SameList
<1>6. OneRuns'
  BY <1>1, <1>2, <1>3, SchedCells DEF IInv, OneRuns
<1>7. Clock'
  <2>1. CASE pc' = [pc EXCEPT ![cpu] = "awake"]
    BY <1>1, <1>3, <2>1 DEF Clock
  <2>2. CASE nap' = [snap |-> time_ticks, msec |-> m]
    BY <1>1, <1>3, <2>2 DEF Clock
  <2> QED
    BY <1>2, <2>1, <2>2
<1> QED
  BY <1>4, <1>5, <1>6, <1>7 DEF IInv

(* The difference that msleep looks at is the ticks that elapsed, as long  *)
(* as they are not more than it waits for.                                 *)
LEMMA DueLate == ASSUME IInv, pc[cpu] = "asleep", Due PROVE elapsed > nap.msec
<1>1. /\ time_ticks \in 0 .. Ticks - 1 /\ elapsed \in Nat
      /\ nap.snap \in 0 .. Ticks - 1 /\ nap.msec \in Nat /\ nap.msec < Ticks
  BY NapTypes
<1>2. SUFFICES ASSUME elapsed <= nap.msec
               PROVE  FALSE
  BY <1>1
<1>3. time_ticks = IF nap.snap + elapsed < Ticks
                   THEN nap.snap + elapsed ELSE nap.snap + elapsed - Ticks
  BY <1>2 DEF IInv, Clock
<1>4. elapsed < Ticks
  BY <1>1, <1>2
<1>5. (time_ticks - nap.snap) % Ticks = elapsed
  <2> DEFINE a == time_ticks - nap.snap
  <2>1. /\ a \in Int /\ -Ticks <= a /\ a < 2 * Ticks
        /\ a = IF nap.snap + elapsed < Ticks THEN elapsed ELSE elapsed - Ticks
    BY <1>1, <1>3, <1>4
  <2> HIDE DEF a
  <2>2. a % Ticks = IF a < 0 THEN a + Ticks ELSE IF a < Ticks THEN a ELSE a - Ticks
    BY <2>1, ModNear
  <2>3. a % Ticks = elapsed
    BY <1>1, <1>4, <2>1, <2>2
  <2> QED
    BY <2>3 DEF a
<1> QED
  BY <1>1, <1>2, <1>5 DEF Due

(* msleep returns. *)
LEMMA WakeInv == ASSUME IInv, Wake PROVE IInv'
<1>1. /\ cpu \in Proc /\ pc' = [pc EXCEPT ![cpu] = "awake"] /\ nap' = NoNap
      /\ UNCHANGED <<state, lists, proc, cpu, time_ticks, elapsed>>
  BY OnlyKernel DEF Wake
<1>2. pc \in [Proc \cup {Kernel} -> {"main", "sched", "hang", "loop", "asleep", "awake"}]
  BY DEF IInv, FullTypes, Types
<1>3. FullTypes'
  <2>1. nap' \in [snap : 0 .. Ticks - 1, msec : Msec \cup {0}]
    BY <1>1 DEF NoNap
  <2>2. /\ pc' \in [Proc \cup {Kernel} -> {"main", "sched", "hang", "loop", "asleep", "awake"}]
        /\ pc'[Kernel] = pc[Kernel]
        /\ \A p \in Proc : pc'[p] \in {pc[p], "awake"}
    BY <1>1, <1>2, SchedCells
  <2> QED
    BY <1>1, <2>1, <2>2 DEF IInv, FullTypes, Types, lists
<1>4. ReadyList'
  BY <1>1, SameList
<1>5. OneRuns'
  BY <1>1, <1>2, SchedCells DEF IInv, OneRuns
<1>6. Clock'
  BY <1>1, <1>2 DEF Clock
<1> QED
  BY <1>3, <1>4, <1>5, <1>6 DEF IInv

(* The process that yields is the one scheduler.proc names, and it is not  *)
(* in the list.                                                            *)
LEMMA YieldsOwn ==
  ASSUME IInv, Yield
  PROVE  cpu \in Proc /\ proc = cpu /\ \A i \in DOMAIN Queue : Queue[i] # cpu
<1>1. cpu \in Proc /\ proc = cpu
  BY OnlyKernel, SchedCells DEF Yield, IInv, OneRuns
<1>2. state[cpu] = "PROC_RUN"
  BY <1>1 DEF IInv, OneRuns
<1> QED
  BY <1>1, <1>2 DEF IInv, ReadyList

(* sched_yield *)
LEMMA YieldInv == ASSUME IInv, Yield PROVE IInv'
<1>1. cpu \in Proc /\ proc = cpu /\ \A i \in DOMAIN Queue : Queue[i] # cpu
  BY YieldsOwn
<1>2. /\ state' = [state EXCEPT ![cpu] = "PROC_READY"] /\ AddReady(cpu)
      /\ cpu' = Kernel /\ pc' = [pc EXCEPT ![cpu] = "loop"] /\ elapsed' = 0
      /\ UNCHANGED <<proc, time_ticks, nap>>
  BY <1>1 DEF Yield
<1>3. /\ links' \in LinksOf(Cell, Cell) /\ readys' \in 0 .. PROC_MAX
      /\ Queue' \in Seq(Proc)
      /\ Forms(links', Ready, Queue') /\ readys' = Len(Queue')
      /\ \A r \in Proc : (\E i \in DOMAIN Queue' : Queue'[i] = r)
                       <=> r = cpu \/ \E i \in DOMAIN Queue : Queue[i] = r
  BY <1>1, <1>2, Enqueued
<1>4. /\ state \in [Proc -> {"PROC_FREE", "PROC_READY", "PROC_RUN", "PROC_BLOCK"}]
      /\ pc \in [Proc \cup {Kernel} -> {"main", "sched", "hang", "loop", "asleep", "awake"}]
      /\ pc[Kernel] \in {"main", "sched", "hang"}
      /\ Kernel \notin Proc
  BY SchedCells DEF IInv, FullTypes, Types
<1>5. FullTypes'
  <2>1. /\ pc' \in [Proc \cup {Kernel} -> {"main", "sched", "hang", "loop", "asleep", "awake"}]
        /\ pc'[Kernel] \in {"main", "sched", "hang"}
        /\ \A p \in Proc : pc'[p] \in {"loop", "asleep", "awake"}
    <3>1. \A p \in Proc : pc[p] \in {"loop", "asleep", "awake"}
      BY DEF IInv, FullTypes, Types
    <3> QED
      BY <1>1, <1>2, <1>4, <3>1
  <2>2. elapsed' \in 0 .. Ticks
    BY <1>2
  <2>3. state' \in [Proc -> {"PROC_FREE", "PROC_READY", "PROC_RUN", "PROC_BLOCK"}]
    BY <1>2, <1>4
  <2>4. /\ time_ticks' \in 0 .. Ticks - 1
        /\ nap' \in [snap : 0 .. Ticks - 1, msec : Msec \cup {0}]
        /\ {proc', cpu'} \subseteq Proc \cup {Kernel}
    BY <1>1, <1>2 DEF IInv, FullTypes, Types
  <2>5. links' \in [next : [Cell -> Cell], prev : [Cell -> Cell]] /\ readys' \in 0 .. PROC_MAX
    BY <1>3, SchedCells
  <2> QED
    BY <2>1, <2>2, <2>3, <2>4, <2>5 DEF FullTypes, Types
<1>6. ReadyList'
  BY <1>1, <1>2, <1>3, <1>4 DEF IInv, ReadyList
<1>7. OneRuns'
  BY <1>1, <1>2, <1>4 DEF IInv, OneRuns
<1>8. Clock'
  BY <1>1, <1>2, <1>4 DEF Clock
<1> QED
  BY <1>5, <1>6, <1>7, <1>8 DEF IInv

(* isr_system_timer_handler *)
LEMMA TickInv == ASSUME IInv, Tick PROVE IInv'
<1>1. /\ time_ticks' = (time_ticks + 1) % Ticks
      /\ elapsed' = IF pc[cpu] = "asleep" /\ elapsed <= nap.msec
                    THEN elapsed + 1 ELSE elapsed
      /\ UNCHANGED <<state, lists, proc, cpu, pc, nap>>
  BY DEF Tick
<1>2. /\ time_ticks \in 0 .. Ticks - 1 /\ elapsed \in 0 .. Ticks
      /\ nap.snap \in 0 .. Ticks - 1
  BY NapTypes
<1>3. nap.msec \in Nat /\ nap.msec < Ticks
  BY NapTypes
<1>4. time_ticks' = IF time_ticks + 1 < Ticks THEN time_ticks + 1 ELSE 0
  <2> DEFINE a == time_ticks + 1
  <2>1. a \in Int /\ -Ticks <= a /\ a < 2 * Ticks /\ ~ (a < 0) /\ a <= Ticks
    BY <1>2
  <2>2. a % Ticks = IF a < 0 THEN a + Ticks ELSE IF a < Ticks THEN a ELSE a - Ticks
    <3> HIDE DEF a
    <3> QED
      BY <2>1, ModNear
  <2> QED
    BY <1>1, <2>1, <2>2
<1>5. time_ticks' \in 0 .. Ticks - 1 /\ elapsed' \in 0 .. Ticks
  BY <1>1, <1>2, <1>3, <1>4
<1>6. FullTypes'
  BY <1>1, <1>5 DEF IInv, FullTypes, Types, lists
<1>7. ReadyList'
  BY <1>1, SameList
<1>8. OneRuns'
  BY <1>1 DEF IInv, OneRuns
<1>9. Clock'
  <2> SUFFICES ASSUME pc[cpu] = "asleep", elapsed' <= nap.msec
               PROVE  time_ticks' = IF nap.snap + elapsed' < Ticks
                                    THEN nap.snap + elapsed'
                                    ELSE nap.snap + elapsed' - Ticks
    BY <1>1 DEF Clock
  <2>1. elapsed' = elapsed + 1 /\ elapsed <= nap.msec
    BY <1>1, <1>2, <1>3
  <2>2. time_ticks = IF nap.snap + elapsed < Ticks
                     THEN nap.snap + elapsed ELSE nap.snap + elapsed - Ticks
    BY <2>1 DEF IInv, Clock
  <2>3. elapsed + 1 < Ticks
    BY <1>2, <1>3, <2>1
  <2> QED
    BY <1>2, <1>3, <1>4, <2>1, <2>2, <2>3
<1> QED
  BY <1>6, <1>7, <1>8, <1>9 DEF IInv

LEMMA NextIInv == IInv /\ [Next]_vars => IInv'
<1> SUFFICES ASSUME IInv, [Next]_vars
             PROVE  IInv'
  OBVIOUS
<1>1. ASSUME StartSched
      PROVE  IInv'
  <2>1. /\ cpu = Kernel /\ pc' = [pc EXCEPT ![Kernel] = "sched"]
        /\ UNCHANGED <<state, lists, proc, cpu, time_ticks, nap, elapsed>>
    BY <1>1, OnlyKernel DEF StartSched
  <2>2. pc \in [Proc \cup {Kernel} -> {"main", "sched", "hang", "loop", "asleep", "awake"}]
    BY DEF IInv, FullTypes, Types
  <2>3. FullTypes'
    BY <2>1, <2>2, SchedCells DEF IInv, FullTypes, Types, lists
  <2>4. ReadyList'
    BY <2>1, SameList
  <2>5. OneRuns'
    BY <2>1, <2>2, SchedCells DEF IInv, OneRuns
  <2>6. Clock'
    BY <2>1, <2>2 DEF Clock
  <2> QED
    BY <2>3, <2>4, <2>5, <2>6 DEF IInv
<1>2. CASE UNCHANGED vars
  <2>1. UNCHANGED <<state, lists, proc, cpu, pc, time_ticks, nap, elapsed>>
    BY <1>2 DEF vars, lists
  <2>2. ReadyList'
    BY <2>1, SameList
  <2> QED
    BY <2>1, <2>2 DEF IInv, FullTypes, Types, OneRuns, Clock, lists
<1> QED
  BY <1>1, <1>2, CreateInv, DispatchInv, MsleepInv, WakeInv, YieldInv, TickInv DEF Next

(* The list of ready processes, the processes' states, who runs and the    *)
(* clock of msleep fit together at every moment (P/sched.c, P/proc.c).     *)
THEOREM SchedulerInv == Spec => []IInv
BY InitIInv, NextIInv, PTL DEF Spec

-----------------------------------------------------------------------------
(* The properties *)

(* The list, its counter and the processes' states agree, in every order   *)
(* in which processes are created and yield: the loop of _sched neither    *)
(* spins nor returns with a process ready, and no process is in the list   *)
(* twice or while it runs.                                                 *)
THEOREM ReadyExactHolds == Spec => []ReadyExact
<1>1. IInv => ReadyExact
  BY DEF IInv, FullTypes, ReadyList, OneRuns, Forms, ReadyExact
<1> QED
  BY <1>1, SchedulerInv, PTL

LEMMA SleepStep ==
  IInv /\ [Next]_vars =>
    \A p \in Proc : pc[p] = "asleep" /\ pc'[p] = "awake" => elapsed > nap.msec
<1> SUFFICES ASSUME IInv, [Next]_vars, NEW p \in Proc, pc[p] = "asleep", pc'[p] = "awake"
             PROVE  elapsed > nap.msec
  OBVIOUS
<1>1. p = cpu
  BY DEF IInv, OneRuns
<1>2. pc' # pc
  OBVIOUS
<1>3. Wake
  <2>1. \A q \in Proc : ~ Create(q)
    BY <1>2 DEF Create
  <2>2. ~ StartSched /\ ~ Dispatch /\ ~ Yield
    BY <1>1 DEF StartSched, Dispatch, Yield
  <2>3. \A m \in Msec : ~ Msleep(m)
    BY <1>1 DEF Msleep
  <2>4. ~ Tick /\ ~ UNCHANGED vars
    BY <1>2 DEF Tick, vars
  <2> QED
    BY <2>1, <2>2, <2>3, <2>4 DEF Next
<1> QED
  BY <1>1, <1>3, DueLate DEF Wake

(* msleep(msec) never returns before more than msec ticks have passed,     *)
(* also when time_ticks goes round while it waits (msleep).                *)
THEOREM SleepsLongEnoughHolds == Spec => SleepsLongEnough
BY SchedulerInv, SleepStep, PTL DEF Spec, SleepsLongEnough

LEMMA InitTurns == Init => Turns!Init
<1> SUFFICES ASSUME Init
             PROVE  Turns!Init
  OBVIOUS
<1>1. IInv /\ readys = 0 /\ cpu = Kernel
  BY InitIInv DEF Init, FreeSlots
<1>2. Queue = <<>>
  BY <1>1, EmptySeq DEF IInv, ReadyList
<1> QED
  BY <1>1, <1>2 DEF Turns!Init

LEMMA NextTurns == IInv /\ [Next]_vars => [Turns!Next]_<<Queue, cpu>>
<1> SUFFICES ASSUME IInv, [Next]_vars
             PROVE  [Turns!Next]_<<Queue, cpu>>
  OBVIOUS
<1>1. ASSUME NEW p \in Proc, Create(p)
      PROVE  Turns!Join(p)
  <2>1. state[p] = "PROC_FREE" /\ AddReady(p) /\ cpu' = cpu
    BY <1>1 DEF Create, FirstFree
  <2>2. (\A i \in DOMAIN Queue : Queue[i] # p) /\ p # cpu
    BY <2>1 DEF IInv, ReadyList, OneRuns
  <2>3. Queue' = Append(Queue, p)
    BY <2>1, <2>2, Enqueued
  <2> QED
    BY <2>1, <2>2, <2>3 DEF Turns!Join, Turns!Waiting
<1>2. ASSUME Dispatch
      PROVE  Turns!Take
  <2>1. ~ IsEmpty(links, Ready)
    BY <1>2, DispatchTakes
  <2>2. /\ cpu = Kernel
        /\ links' = Get(links, Ready) /\ readys' = readys - 1 /\ cpu' = links.next[Ready]
    BY <1>2, <2>1, OnlyKernel DEF Dispatch
  <2>3. Queue # <<>> /\ links.next[Ready] = Head(Queue) /\ Queue' = Tail(Queue)
    BY <2>1, <2>2, Dequeued
  <2> QED
    BY <2>2, <2>3 DEF Turns!Take
<1>3. ASSUME Yield
      PROVE  Turns!Yield
  <2>1. cpu \in Proc /\ proc = cpu /\ \A i \in DOMAIN Queue : Queue[i] # cpu
    BY <1>3, YieldsOwn
  <2>2. AddReady(cpu) /\ cpu' = Kernel /\ cpu # Kernel
    BY <1>3, <2>1, SchedCells DEF Yield
  <2>3. Queue' = Append(Queue, cpu)
    BY <2>1, <2>2, Enqueued
  <2> QED
    BY <2>2, <2>3 DEF Turns!Yield
<1>4. ASSUME UNCHANGED <<links, cpu>>
      PROVE  UNCHANGED <<Queue, cpu>>
  BY <1>4 DEF Queue
<1>5. ASSUME StartSched \/ (\E m \in Msec : Msleep(m)) \/ Wake \/ Tick \/ UNCHANGED vars
      PROVE  UNCHANGED <<links, cpu>>
  BY <1>5 DEF StartSched, Msleep, Wake, Tick, vars, lists
<1> QED
  BY <1>1, <1>2, <1>3, <1>4, <1>5 DEF Next, Turns!Next

(* Processes get the processor in the order in which they were created or  *)
(* gave it up, one at a time: _sched, with list.c's list of ready          *)
(* processes, implements round robin.                                      *)
THEOREM RefinesRoundRobin == Spec => ImplementsRoundRobin
BY SchedulerInv, InitTurns, NextTurns, PTL DEF Spec, ImplementsRoundRobin, Turns!Spec
=============================================================================
