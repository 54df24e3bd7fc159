----------------------------- MODULE BuddyProofs ----------------------------
(***************************************************************************)
(* Theorems about Buddy for every heap whose geometry is Regular: any      *)
(* number of leaves, orders and bits in a word, and any request sizes.     *)
(***************************************************************************)
EXTENDS Buddy, TLAPS, WellFoundedInduction, FiniteSetTheorems

-----------------------------------------------------------------------------
(* Arithmetic *)

(* A nonempty set of naturals has a least element. *)
LEMMA Least ==
  ASSUME NEW S \in SUBSET Nat, NEW x \in S
  PROVE  \E m \in S : \A n \in S : m <= n
<1>1. IsWellFoundedOn(OpToRel(<, Nat), Nat)
  BY NatLessThanWellFounded
<1>2. PICK m \in S : \A n \in S : <<n, m>> \notin OpToRel(<, Nat)
  BY <1>1, WFMin, S # {}
<1>3. \A n \in S : ~ (n < m)
  BY <1>2 DEF OpToRel
<1> QED
  BY <1>3

(* Quotient and remainder. *)
LEMMA DivMod ==
  ASSUME NEW a \in Nat, NEW c \in Nat \ {0}
  PROVE  /\ a \div c \in Nat
         /\ a % c \in 0 .. c - 1
         /\ a = c * (a \div c) + (a % c)
         /\ (a \div c) * c <= a
         /\ a < (a \div c) * c + c
  OBVIOUS

(* The quotient is the only number with these bounds. *)
LEMMA DivUnique ==
  ASSUME NEW a \in Nat, NEW c \in Nat \ {0}, NEW q \in Nat,
         q * c <= a, a < q * c + c
  PROVE  a \div c = q
<1> DEFINE d == a \div c
<1>1. d \in Nat /\ d * c <= a /\ a < d * c + c
  BY DivMod
<1> HIDE DEF d
<1>2. CASE d < q
  <2>1. (d + 1) * c <= q * c
    BY <1>1, <1>2
  <2> QED
    BY <2>1, <1>1
<1>3. CASE q < d
  <2>1. (q + 1) * c <= d * c
    BY <1>1, <1>3
  <2> QED
    BY <2>1, <1>1
<1>4. d = q
  BY <1>1, <1>2, <1>3
<1> QED
  BY <1>4 DEF d

(* Dividing twice is dividing by the product. *)
LEMMA DivDiv ==
  ASSUME NEW l \in Nat, NEW c \in Nat \ {0}, NEW q \in Nat \ {0}
  PROVE  l \div (q * c) = (l \div c) \div q
<1> DEFINE d == l \div c
           e == d \div q
<1>1. d \in Nat /\ d * c <= l /\ l < d * c + c
  BY DivMod
<1>2. e \in Nat /\ e * q <= d /\ d < e * q + q
  BY <1>1, DivMod
<1> HIDE DEF d, e
<1>3. e * (q * c) <= l
  <2>1. (e * q) * c <= d * c
    BY <1>1, <1>2
  <2>2. (e * q) * c = e * (q * c)
    BY <1>2
  <2> QED
    BY <2>1, <2>2, <1>1, <1>2
<1>4. l < e * (q * c) + q * c
  <2>1. (d + 1) * c <= (e * q + q) * c
    BY <1>1, <1>2
  <2>2. (e * q + q) * c = e * (q * c) + q * c
    BY <1>2
  <2>3. (d + 1) * c = d * c + c
    BY <1>1
  <2>4. q * c \in Nat /\ e * (q * c) \in Nat /\ d * c \in Nat
    BY <1>1, <1>2
  <2> QED
    BY <2>1, <2>2, <2>3, <2>4, <1>1
<1>5. q * c \in Nat \ {0}
  OBVIOUS
<1>6. l \div (q * c) = e
  BY <1>2, <1>3, <1>4, <1>5, DivUnique
<1> QED
  BY <1>6 DEF d, e

(* Rounding down is monotone. *)
LEMMA DivMonotone ==
  ASSUME NEW a \in Nat, NEW b \in Nat, NEW c \in Nat \ {0}, a <= b
  PROVE  a \div c <= b \div c
<1> DEFINE d == a \div c
           e == b \div c
<1>1. /\ d \in Nat /\ d * c <= a
      /\ e \in Nat /\ b < e * c + c
  BY DivMod
<1> HIDE DEF d, e
<1>2. CASE e < d
  <2>1. (e + 1) * c <= d * c
    BY <1>1, <1>2
  <2> QED
    BY <2>1, <1>1
<1>3. d <= e
  BY <1>1, <1>2
<1> QED
  BY <1>3 DEF d, e

-----------------------------------------------------------------------------
(* Chunks *)

(* A chunk is a positive number of leaves (bud_get_chunk). *)
LEMMA ChunkNat == \A i \in Order : Chunk[i] \in Nat \ {0}
  BY GeometryAssumption

(* A chunk is a whole number of chunks of any lower order. *)
LEMMA ChunkDivides ==
  ASSUME NEW i \in Order, NEW k \in Order, i <= k
  PROVE  \E q \in Nat \ {0} : Chunk[k] = q * Chunk[i]
<1> DEFINE Divides(j) == \E q \in Nat \ {0} : Chunk[j] = q * Chunk[i]
           Bad == {j \in Order : i <= j /\ ~ Divides(j)}
<1> SUFFICES ASSUME k \in Bad
             PROVE  FALSE
  OBVIOUS
<1>1. Bad \in SUBSET Nat
  BY GeometryAssumption DEF Order
<1>2. PICK m \in Bad : \A n \in Bad : m <= n
  BY <1>1, Least
<1>3. m # i
  <2>1. Chunk[i] = 1 * Chunk[i]
    BY ChunkNat
  <2> QED
    BY <2>1
<1>4. m - 1 \in Order /\ i <= m - 1 /\ m - 1 \notin Bad
  BY <1>2, <1>3, GeometryAssumption DEF Order
<1>5. PICK q \in Nat \ {0} : Chunk[m - 1] = q * Chunk[i]
  BY <1>4
<1>6. Chunk[m] = 2 * Chunk[m - 1]
  <2>1. (m - 1) + 1 = m
    BY <1>1
  <2> QED
    BY <2>1, <1>4, GeometryAssumption
<1>7. Chunk[m] = (2 * q) * Chunk[i]
  BY <1>5, <1>6, ChunkNat
<1>8. 2 * q \in Nat \ {0}
  OBVIOUS
<1> QED
  BY <1>7, <1>8

-----------------------------------------------------------------------------
(* Blocks and their leaves *)

(* A leaf is in exactly one block of each order. *)
LEMMA LeafAt ==
  ASSUME NEW i \in Order, NEW l \in Nat, NEW n \in Nat
  PROVE  l \in Leaves(<<i, n>>) <=> l \div Chunk[i] = n
<1> DEFINE c == Chunk[i]
<1>1. c \in Nat \ {0}
  BY ChunkNat
<1>2. Leaves(<<i, n>>) = n * c .. n * c + c - 1
  BY DEF Leaves, First
<1> HIDE DEF c
<1>3. n * c \in Nat
  BY <1>1
<1>4. ASSUME l \in Leaves(<<i, n>>)
      PROVE  l \div c = n
  BY <1>1, <1>2, <1>3, <1>4, DivUnique
<1>5. ASSUME l \div c = n
      PROVE  l \in Leaves(<<i, n>>)
  <2>1. n * c <= l /\ l < n * c + c
    BY <1>1, <1>5, DivMod
  <2> QED
    BY <1>1, <1>2, <1>3, <2>1
<1> QED
  BY <1>4, <1>5 DEF c

(* A block is a pair of an order and a number. *)
LEMMA BlockPair ==
  ASSUME NEW b \in Block
  PROVE  b[1] \in Order /\ b[2] \in Nat /\ b = <<b[1], b[2]>>
  BY DEF Block

(* The leaves of a block are naturals, the first one among them. *)
LEMMA LeavesNat ==
  ASSUME NEW b \in Block
  PROVE  Leaves(b) \subseteq Nat /\ First(b) \in Leaves(b)
<1>1. b[2] * Chunk[b[1]] \in Nat /\ Chunk[b[1]] \in Nat \ {0}
  BY BlockPair, ChunkNat
<1> QED
  BY <1>1 DEF Leaves, First

(* The block of an order that holds a leaf is a block and holds it. *)
LEMMA AtBlock ==
  ASSUME NEW i \in Order, NEW l \in Nat
  PROVE  At(i, l) \in Block /\ l \in Leaves(At(i, l))
<1>1. l \div Chunk[i] \in Nat
  BY ChunkNat, DivMod
<1> QED
  BY <1>1, LeafAt DEF At, Block

(* A leaf is in a block exactly if that block holds it in its order. *)
LEMMA InBlock ==
  ASSUME NEW b \in Block, NEW l \in Nat
  PROVE  l \in Leaves(b) <=> At(b[1], l) = b
<1>1. l \in Leaves(b) <=> l \div Chunk[b[1]] = b[2]
  BY BlockPair, LeafAt
<1> QED
  BY <1>1, BlockPair DEF At

(* Leaves that share a block share the blocks around it. *)
LEMMA SameAround ==
  ASSUME NEW i \in Order, NEW k \in Order, i <= k,
         NEW l \in Nat, NEW m \in Nat, At(i, l) = At(i, m)
  PROVE  At(k, l) = At(k, m)
<1>1. PICK q \in Nat \ {0} : Chunk[k] = q * Chunk[i]
  BY ChunkDivides
<1>2. l \div Chunk[i] = m \div Chunk[i]
  BY DEF At
<1>3. /\ l \div Chunk[k] = (l \div Chunk[i]) \div q
      /\ m \div Chunk[k] = (m \div Chunk[i]) \div q
  BY <1>1, ChunkNat, DivDiv
<1> QED
  BY <1>2, <1>3 DEF At

(* Two blocks that share a leaf are nested. *)
LEMMA Nested ==
  ASSUME NEW a \in Block, NEW b \in Block, a[1] <= b[1], Overlap(a, b)
  PROVE  /\ Leaves(a) \subseteq Leaves(b)
         /\ At(b[1], First(a)) = b
<1>1. PICK l \in Leaves(a) : l \in Leaves(b)
  BY DEF Overlap
<1>2. l \in Nat /\ At(a[1], l) = a /\ At(b[1], l) = b
  BY <1>1, LeavesNat, InBlock
<1>3. ASSUME NEW m \in Leaves(a)
      PROVE  At(b[1], m) = b /\ m \in Leaves(b)
  <2>1. m \in Nat /\ At(a[1], m) = a
    BY LeavesNat, InBlock
  <2>2. At(b[1], m) = b
    BY <1>2, <2>1, BlockPair, SameAround
  <2> QED
    BY <2>1, <2>2, InBlock
<1> QED
  BY <1>3, LeavesNat

(* What bud_chk_childs visits: the blocks of lower orders that overlap b. *)
LEMMA InsideIff ==
  ASSUME NEW a \in Block, NEW b \in Block
  PROVE  a \in Inside(b) <=> a[1] <= b[1] /\ Overlap(a, b)
<1>1. ASSUME a \in Inside(b)
      PROVE  a[1] <= b[1] /\ Overlap(a, b)
  <2>1. PICK i \in 0 .. b[1], l \in Leaves(b) : a = At(i, l)
    BY <1>1 DEF Inside
  <2>2. l \in Nat /\ i \in Order
    BY LeavesNat, BlockPair, GeometryAssumption DEF Order
  <2>3. a[1] = i /\ l \in Leaves(a)
    BY <2>1, <2>2, AtBlock DEF At
  <2> QED
    BY <2>1, <2>3, BlockPair, GeometryAssumption DEF Overlap, Order
<1>2. ASSUME a[1] <= b[1], Overlap(a, b)
      PROVE  a \in Inside(b)
  <2>1. a[1] \in 0 .. b[1] /\ First(a) \in Leaves(b) /\ First(a) \in Nat
    BY <1>2, Nested, LeavesNat, BlockPair, GeometryAssumption DEF Order
  <2>2. At(a[1], First(a)) = a
    BY LeavesNat, InBlock
  <2> QED
    BY <2>1, <2>2 DEF Inside
<1> QED
  BY <1>1, <1>2

(* What bud_chk_parent visits: the blocks of higher orders that overlap b. *)
LEMMA AroundIff ==
  ASSUME NEW a \in Block, NEW b \in Block
  PROVE  a \in Around(b) <=> b[1] < a[1] /\ Overlap(a, b)
<1>1. First(b) \in Nat /\ First(b) \in Leaves(b)
  BY LeavesNat
<1>2. ASSUME a \in Around(b)
      PROVE  b[1] < a[1] /\ Overlap(a, b)
  <2>1. PICK i \in b[1] + 1 .. Dep - 1 : a = At(i, First(b))
    BY <1>2 DEF Around
  <2>2. i \in Order /\ b[1] < i
    BY BlockPair, GeometryAssumption DEF Order
  <2>3. a[1] = i /\ First(b) \in Leaves(a)
    BY <1>1, <2>1, <2>2, AtBlock DEF At
  <2> QED
    BY <1>1, <2>2, <2>3 DEF Overlap
<1>3. ASSUME b[1] < a[1], Overlap(a, b)
      PROVE  a \in Around(b)
  <2>1. b[1] <= a[1] /\ a[1] \in b[1] + 1 .. Dep - 1
    BY <1>3, BlockPair, GeometryAssumption DEF Order
  <2>2. Overlap(b, a)
    BY <1>3 DEF Overlap
  <2>3. At(a[1], First(b)) = a
    BY <2>1, <2>2, Nested
  <2> QED
    BY <2>1, <2>3 DEF Around
<1> QED
  BY <1>2, <1>3

(* The whole blocks are those that lie in the heap. *)
LEMMA WholeIff ==
  ASSUME NEW b \in Block
  PROVE  b \in Whole <=> Leaves(b) \subseteq Leaf
<1> DEFINE c == Chunk[b[1]]
           n == b[2]
           m == N \div c
<1>1. c \in Nat \ {0} /\ n \in Nat
  BY ChunkNat, BlockPair
<1>2. m \in Nat /\ m * c <= N /\ N < m * c + c
  BY <1>1, DivMod, GeometryAssumption
<1>3. Leaves(b) = n * c .. n * c + c - 1
  BY DEF Leaves, First
<1>4. b \in Whole <=> n < m /\ n \in Leaf
  BY BlockPair DEF Whole, Num
<1> HIDE DEF c, n, m
<1>5. n * c \in Nat /\ n <= n * c
  BY <1>1
<1>6. ASSUME n < m
      PROVE  Leaves(b) \subseteq Leaf /\ n \in Leaf
  <2>1. (n + 1) * c <= m * c
    BY <1>1, <1>2, <1>6
  <2>2. n * c + c <= N
    <3>1. (n + 1) * c = n * c + c
      BY <1>1
    <3>2. m * c \in Nat
      BY <1>1, <1>2
    <3> QED
      BY <1>1, <1>2, <1>5, <2>1, <3>1, <3>2, GeometryAssumption
  <2> QED
    BY <1>1, <1>3, <1>5, <2>2, GeometryAssumption DEF Leaf
<1>7. ASSUME ~ (n < m)
      PROVE  ~ (Leaves(b) \subseteq Leaf)
  <2>1. (m + 1) * c <= (n + 1) * c
    BY <1>1, <1>2, <1>7
  <2>2. N <= n * c + c - 1
    BY <1>1, <1>2, <2>1, GeometryAssumption
  <2>3. n * c + c - 1 \in Leaves(b)
    BY <1>1, <1>3, <1>5
  <2> QED
    BY <1>1, <1>5, <2>2, <2>3, GeometryAssumption DEF Leaf
<1> QED
  BY <1>4, <1>6, <1>7

(* A sibling is another block of the same order. *)
LEMMA SiblingBlock ==
  ASSUME NEW b \in Block
  PROVE  /\ Sibling(b) \in Block
         /\ Sibling(b) # b
         /\ Sibling(b)[1] = b[1]
         /\ Sibling(b)[2] <= b[2] + 1
  BY BlockPair DEF Sibling, Block

(* Blocks of one order share no leaf. *)
LEMMA SameOrder ==
  ASSUME NEW a \in Block, NEW b \in Block, a[1] = b[1], Overlap(a, b)
  PROVE  a = b
<1>1. PICK l \in Leaves(a) : l \in Leaves(b)
  BY DEF Overlap
<1> QED
  BY <1>1, LeavesNat, InBlock

(* A block is made of two siblings of the order below. *)
LEMMA Halves ==
  ASSUME NEW k \in Order, k + 1 \in Order, NEW l \in Nat
  PROVE  /\ Leaves(At(k + 1, l)) =
              Leaves(At(k, l)) \cup Leaves(Sibling(At(k, l)))
<1> DEFINE d == l \div Chunk[k]
<1>1. Chunk[k + 1] = 2 * Chunk[k] /\ Chunk[k] \in Nat \ {0}
  BY ChunkNat, GeometryAssumption
<1>2. \A m \in Nat : m \div Chunk[k + 1] = (m \div Chunk[k]) \div 2
  BY <1>1, DivDiv
<1>3. At(k, l) \in Block /\ At(k + 1, l) \in Block /\ Sibling(At(k, l)) \in Block
  BY AtBlock, SiblingBlock
<1>4. d \in Nat
  BY <1>1, DivMod
<1>5. ASSUME NEW m \in Nat
      PROVE  m \in Leaves(At(k + 1, l)) <=>
               m \in Leaves(At(k, l)) \cup Leaves(Sibling(At(k, l)))
  <2> DEFINE e == m \div Chunk[k]
  <2>1. e \in Nat
    BY <1>1, DivMod
  <2>2. m \in Leaves(At(k + 1, l)) <=> e \div 2 = d \div 2
    <3>1. d \div 2 \in Nat /\ l \div Chunk[k + 1] = d \div 2
      BY <1>2, <1>4
    <3>2. m \in Leaves(<<k + 1, d \div 2>>) <=> m \div Chunk[k + 1] = d \div 2
      BY <3>1, LeafAt
    <3> QED
      BY <3>1, <3>2, <1>2 DEF At
  <2>3. m \in Leaves(At(k, l)) <=> e = d
    BY <1>4, LeafAt DEF At
  <2>4. m \in Leaves(Sibling(At(k, l))) <=>
          e = (IF d % 2 = 1 THEN d - 1 ELSE d + 1)
    <3> DEFINE s == IF d % 2 = 1 THEN d - 1 ELSE d + 1
    <3>1. Sibling(At(k, l)) = <<k, s>>
      BY DEF Sibling, At
    <3>2. s \in Nat
      BY <1>4
    <3> QED
      BY <3>1, <3>2, LeafAt
  <2> HIDE DEF d, e
  <2>5. e \div 2 = d \div 2 <=>
          e = d \/ e = (IF d % 2 = 1 THEN d - 1 ELSE d + 1)
    BY <1>4, <2>1
  <2> QED
    BY <2>2, <2>3, <2>4, <2>5
<1> QED
  BY <1>3, <1>5, LeavesNat

(* What surrounds b on the way up is b and the siblings passed. *)
LEMMA Path ==
  ASSUME NEW b \in Block, NEW i \in Order, b[1] < i,
         NEW l \in Leaves(At(i, First(b))), l \notin Leaves(b)
  PROVE  \E k \in b[1] .. i - 1 : l \in Leaves(Sibling(At(k, First(b))))
<1> DEFINE f == First(b)
           S == {m \in b[1] .. i : l \in Leaves(At(m, f))}
<1>1. f \in Nat /\ b[1] \in Order /\ b[1] \in Nat /\ i \in Nat
  BY LeavesNat, BlockPair, GeometryAssumption DEF Order
<1>2. b[1] .. i \subseteq Order
  BY <1>1, GeometryAssumption DEF Order
<1> HIDE DEF f
<1>3. PICK m \in S : \A n \in S : m <= n
  <2>1. i \in S /\ S \in SUBSET Nat
    BY <1>1 DEF f
  <2> QED
    BY <2>1, Least
<1>4. At(b[1], f) = b
  BY <1>1, LeavesNat, InBlock DEF f
<1>5. m # b[1]
  BY <1>3, <1>4
<1>6. m - 1 \in b[1] .. i - 1 /\ m - 1 \notin S /\ m - 1 \in Order
  BY <1>1, <1>2, <1>3, <1>5
<1>7. l \notin Leaves(At(m - 1, f))
  BY <1>1, <1>6
<1>8. Leaves(At(m, f)) = Leaves(At(m - 1, f)) \cup Leaves(Sibling(At(m - 1, f)))
  <2>1. (m - 1) + 1 = m
    BY <1>1
  <2> QED
    BY <1>1, <1>2, <1>3, <1>6, <2>1, Halves
<1> QED
  BY <1>3, <1>6, <1>7, <1>8 DEF f

-----------------------------------------------------------------------------
(* Where the bits are, in a regular geometry *)

(* An order's bitmap has a bit for each block, and one to spare.           *)
LEMMA Room ==
  ASSUME Regular, NEW i \in Order
  PROVE  /\ Num(i) \in Nat
         /\ Words(i) \in Nat
         /\ Num(i) < W * Words(i)
         /\ (Words(i) - 1) * W + (Num(i) % W) = Num(i)
         /\ W * Words(i) = Words(i) * W
<1> DEFINE n == Num(i)
           q == n \div W
           r == n % W
<1>1. n \in Nat
  BY ChunkNat, DivMod, GeometryAssumption DEF Num
<1> HIDE DEF n
<1>2. W \in Nat \ {0} /\ q \in Nat /\ r \in 1 .. W - 1 /\ n = W * q + r
  <2>1. r # 0
    BY DEF Regular, n
  <2>2. W \in Nat \ {0}
    BY GeometryAssumption
  <2>3. q \in Nat /\ r \in 0 .. W - 1 /\ n = W * q + r
    BY <1>1, <2>2, DivMod
  <2> HIDE DEF q, r
  <2> QED
    BY <2>1, <2>2, <2>3
<1> HIDE DEF q, r
<1>3. (n + W - 1) \div W = q + 1
  <2>1. (q + 1) * W = W * q + W /\ W * q \in Nat
    BY <1>2
  <2>2. n + W - 1 \in Nat /\ (q + 1) * W <= n + W - 1 /\ n + W - 1 < (q + 1) * W + W
    BY <1>2, <2>1
  <2> QED
    BY <1>2, <2>2, DivUnique
<1>4. Words(i) = q + 1
  BY <1>3 DEF Words, n
<1>5. W * (q + 1) = W * q + W /\ (q + 1) * W = W * q + W /\ ((q + 1) - 1) * W = W * q
  BY <1>2
<1> QED
  BY <1>1, <1>2, <1>4, <1>5 DEF n, r

(* _bud_init sets the bits from the number of blocks on, to the last one.  *)
LEMMA PaddingIff ==
  ASSUME Regular, NEW b \in Block
  PROVE  b \in Padding <=> Num(b[1]) <= b[2] /\ b[2] < W * Words(b[1])
<1>1. \A i \in Order : (Words(i) - 1) * W + (Num(i) % W) .. Words(i) * W - 1
                       = Num(i) .. W * Words(i) - 1
  BY Room
<1>2. b \in Padding <=>
        \E i \in Order : b \in {i} \X (Num(i) .. W * Words(i) - 1)
  BY <1>1 DEF Padding
<1>3. b \in Padding <=> b[2] \in Num(b[1]) .. W * Words(b[1]) - 1
  BY <1>2, BlockPair
<1> QED
  BY <1>3, BlockPair, Room, GeometryAssumption

(* Whole blocks, and the one behind the last, have bits in their own       *)
(* bitmap; the latter's is padding.                                        *)
LEMMA BitSelf ==
  ASSUME Regular, NEW b \in Block, b[2] <= Num(b[1])
  PROVE  /\ Bit(b) = b
         /\ b \notin Whole => b \in Padding
<1>1. b[2] < W * Words(b[1])
  BY BlockPair, Room, GeometryAssumption
<1>2. b \in Whole <=> b[2] < Num(b[1])
  <2>1. Chunk[b[1]] \in Nat \ {0} /\ N \in Nat
    BY BlockPair, ChunkNat, GeometryAssumption
  <2>2. Num(b[1]) <= N
    <3> DEFINE c == Chunk[b[1]]
               m == N \div c
    <3>1. m \in Nat /\ m * c <= N /\ c \in Nat \ {0}
      BY <2>1, DivMod
    <3> HIDE DEF m, c
    <3>2. m <= m * c
      BY <3>1
    <3>3. m <= N
      BY <2>1, <3>1, <3>2
    <3> QED
      BY <3>3 DEF Num, m, c
  <2> QED
    BY <2>1, <2>2, BlockPair, Room DEF Whole, Leaf
<1> QED
  BY <1>1, <1>2, PaddingIff, BlockPair, Room DEF Bit

(* The bit of a whole block is its own, and no padding. *)
LEMMA WholeBlock ==
  ASSUME Regular, NEW b \in Whole
  PROVE  /\ b \in Block
         /\ b[2] < Num(b[1])
         /\ Bit(b) = b
         /\ b \notin Padding
<1>1. b \in Block /\ b[2] < Num(b[1])
  BY GeometryAssumption DEF Whole, Block, Leaf
<1> QED
  BY <1>1, BlockPair, Room, BitSelf, PaddingIff

(* Overlap is symmetric. *)
LEMMA OverlapSym ==
  ASSUME NEW a, NEW b
  PROVE  Overlap(a, b) <=> Overlap(b, a)
  BY DEF Overlap

(* What lies inside a whole block is whole. *)
LEMMA InsideWhole ==
  ASSUME NEW b \in Block, b \in Whole, NEW a \in Inside(b)
  PROVE  a \in Block /\ a \in Whole /\ Leaves(a) \subseteq Leaves(b)
<1>1. PICK i \in 0 .. b[1], l \in Leaves(b) : a = At(i, l)
  BY DEF Inside
<1>2. a \in Block
  <2>1. i \in Order /\ l \in Nat
    BY <1>1, LeavesNat, BlockPair, GeometryAssumption DEF Order
  <2> QED
    BY <1>1, <2>1, AtBlock
<1>3. Leaves(a) \subseteq Leaves(b)
  BY <1>2, InsideIff, Nested
<1> QED
  BY <1>2, <1>3, WholeIff

(* A block around one in the heap begins in the heap. *)
LEMMA AroundNum ==
  ASSUME NEW b \in Block, b \in Whole, NEW p \in Around(b)
  PROVE  /\ p \in Block
         /\ b[1] < p[1]
         /\ p = At(p[1], First(b))
         /\ p[2] \in 0 .. Num(p[1])
         /\ Leaves(b) \subseteq Leaves(p)
<1>1. PICK i \in b[1] + 1 .. Dep - 1 : p = At(i, First(b))
  BY DEF Around
<1>2. i \in Order /\ b[1] < i
  BY <1>1, BlockPair, GeometryAssumption DEF Order
<1>3. First(b) \in Nat /\ First(b) <= N
  BY LeavesNat, WholeIff, GeometryAssumption DEF Leaf
<1>4. p[1] = i /\ p[2] = First(b) \div Chunk[i] /\ p \in Block
  BY <1>1, <1>2, <1>3, AtBlock DEF At
<1>5. p[2] <= Num(i) /\ Num(i) \in Nat /\ p[2] \in Nat
  <2>1. Chunk[i] \in Nat \ {0} /\ N \in Nat
    BY <1>2, ChunkNat, GeometryAssumption
  <2>2. First(b) \div Chunk[i] <= N \div Chunk[i]
    BY <1>3, <2>1, DivMonotone
  <2>3. First(b) \div Chunk[i] \in Nat /\ N \div Chunk[i] \in Nat
    BY <1>3, <2>1, DivMod
  <2> QED
    BY <1>4, <2>2, <2>3 DEF Num
<1>6. Overlap(b, p) /\ b[1] <= p[1]
  BY <1>2, <1>4, AroundIff, OverlapSym, BlockPair, GeometryAssumption DEF Order
<1> QED
  BY <1>1, <1>2, <1>4, <1>5, <1>6, Nested

(* The siblings on the way from b up to p lie in p and apart from b. *)
LEMMA SiblingOnPath ==
  ASSUME NEW b \in Block, NEW p \in Block, b[1] < p[1], Overlap(p, b),
         NEW k \in b[1] .. p[1] - 1
  PROVE  LET s == Sibling(At(k, First(b))) IN
         /\ s \in Block
         /\ Leaves(s) \subseteq Leaves(p)
         /\ Leaves(s) \cap Leaves(b) = {}
         /\ Leaves(At(k + 1, First(b))) =
              Leaves(At(k, First(b))) \cup Leaves(s)
<1> DEFINE f == First(b)
           a == At(k, f)
           s == Sibling(a)
           u == At(k + 1, f)
<1>1. /\ k \in Order /\ k + 1 \in Order /\ k + 1 <= p[1] /\ b[1] <= k
      /\ b[1] <= p[1]
  <2>1. b[1] \in 0 .. Dep - 1 /\ p[1] \in 0 .. Dep - 1 /\ Dep \in Nat
    BY BlockPair, GeometryAssumption DEF Order
  <2> QED
    BY <2>1 DEF Order
<1>2. f \in Nat /\ f \in Leaves(b)
  BY LeavesNat
<1>3. /\ a \in Block /\ f \in Leaves(a) /\ a[1] = k
      /\ u \in Block /\ f \in Leaves(u) /\ u[1] = k + 1
  BY <1>1, <1>2, AtBlock DEF At
<1>4. s \in Block /\ s # a /\ s[1] = k
  BY <1>3, SiblingBlock
<1>5. Leaves(u) = Leaves(a) \cup Leaves(s)
  BY <1>1, <1>2, Halves
<1>6. Leaves(b) \subseteq Leaves(p)
  BY <1>1, OverlapSym, Nested
<1>7. Overlap(u, p) /\ Overlap(b, a)
  BY <1>2, <1>3, <1>6 DEF Overlap
<1>8. Leaves(u) \subseteq Leaves(p)
  BY <1>1, <1>3, <1>7, Nested
<1>9. Leaves(b) \subseteq Leaves(a)
  BY <1>1, <1>3, <1>7, Nested
<1>10. ~ Overlap(s, a)
  BY <1>3, <1>4, SameOrder
<1> QED
  BY <1>4, <1>5, <1>8, <1>9, <1>10 DEF Overlap

-----------------------------------------------------------------------------
(* The inductive invariant: NoOverlap alone is not inductive, since what   *)
(* keeps _bud_alloc from handing out a block in use is the bitmap, and     *)
(* what keeps the bitmap right when a block is freed is its header.        *)

IInv ==
  /\ TypeOK
  /\ Padding \subseteq bmp
  /\ NoOverlap
  /\ BitmapExact
  /\ HeadersExact

(* A block that a caller holds is a whole block with a bit of its own. *)
LEMMA LiveBlock ==
  ASSUME Regular, TypeOK, NEW x \in live
  PROVE  x \in Block /\ x \in Whole /\ Bit(x) = x
  BY WholeBlock DEF TypeOK

(* A whole block is a block. *)
LEMMA WholeAgain ==
  ASSUME Regular, NEW b \in Whole
  PROVE  b \in Block
  BY WholeBlock

(* Whole blocks fit in the heap, so a block _bud_free merges is whole: its *)
(* halves are, because the bit of a half that is not is always 1.          *)
LEMMA MergedWhole ==
  ASSUME Regular, Padding \subseteq bmp,
         NEW b \in Block, b \in Whole, NEW p \in Merged(b)
  PROVE  p \in Block /\ p \in Whole /\ p \in Around(b)
<1>1. p \in Around(b)
  BY DEF Merged, BitmapGet
<1>2. /\ p \in Block /\ b[1] < p[1] /\ p = At(p[1], First(b))
      /\ Overlap(p, b)
  BY <1>1, AroundNum, AroundIff
<1> SUFFICES ASSUME p \notin Whole
             PROVE  FALSE
  BY <1>1, <1>2
<1> DEFINE f == First(b)
           S == {m \in b[1] .. p[1] : At(m, f) \notin Whole}
<1>3. /\ f \in Nat /\ b[1] \in Nat /\ p[1] \in Nat /\ b[1] .. p[1] \subseteq Order
      /\ f \in Leaf
  BY <1>2, LeavesNat, WholeIff, BlockPair, GeometryAssumption DEF Order
<1> HIDE DEF f
<1>4. PICK m \in S : \A n \in S : m <= n
  <2>1. p[1] \in S /\ S \in SUBSET Nat
    BY <1>2, <1>3 DEF f
  <2> QED
    BY <2>1, Least
<1>5. m # b[1]
  BY <1>4, LeavesNat, InBlock DEF f
<1>6. m - 1 \in b[1] .. p[1] - 1 /\ m - 1 \notin S /\ m - 1 \in b[1] .. p[1]
  BY <1>3, <1>4, <1>5
<1> DEFINE a == At(m - 1, f)
           s == Sibling(a)
<1>7. a \in Whole
  BY <1>6
<1>8. s \in Block /\ Leaves(At(m, f)) = Leaves(a) \cup Leaves(s)
  <2>1. (m - 1) + 1 = m
    BY <1>3, <1>4
  <2> QED
    BY <1>2, <1>6, <2>1, SiblingOnPath DEF f
<1>9. s \notin Whole
  <2>1. At(m, f) \in Block /\ a \in Block
    BY <1>3, <1>4, <1>6, AtBlock
  <2> QED
    BY <1>4, <1>7, <1>8, <2>1, WholeIff
<1>10. s[2] <= Num(s[1])
  <2>1. a \in Block /\ a[2] < Num(a[1])
    BY <1>7, WholeBlock
  <2>2. s[1] = a[1] /\ s[2] <= a[2] + 1 /\ s[2] \in Nat /\ a[2] \in Nat
    BY <1>8, <2>1, SiblingBlock, BlockPair
  <2> QED
    BY <2>1, <2>2, BlockPair, Room
<1>11. Bit(s) \in bmp
  BY <1>8, <1>9, <1>10, BitSelf
<1> QED
  BY <1>6, <1>11 DEF Merged, f, BitmapGet

(* The bits bud_find_free sets and _bud_free clears are those of the       *)
(* blocks themselves.                                                      *)
LEMMA BitsSelf ==
  ASSUME Regular, NEW b \in Block, b \in Whole,
         NEW S \in SUBSET (Inside(b) \cup Around(b))
  PROVE  /\ S \subseteq Block
         /\ \A t \in S : Bit(t) = t
         /\ {Bit(t) : t \in S} = S
<1>1. ASSUME NEW t \in S
      PROVE  t \in Block /\ Bit(t) = t
  <2>1. CASE t \in Inside(b)
    BY <2>1, InsideWhole, WholeBlock
  <2>2. CASE t \in Around(b)
    <3>1. t \in Block /\ t[2] <= Num(t[1])
      BY <2>2, AroundNum, BlockPair, Room
    <3> QED
      BY <3>1, BitSelf
  <2> QED
    BY <2>1, <2>2
<1> QED
  BY <1>1

(* The bits an allocation or a release changes are finitely many. *)
LEMMA BitsFinite ==
  ASSUME Regular, NEW b \in Block, b \in Whole,
         NEW S \in SUBSET (Inside(b) \cup Around(b))
  PROVE  Cardinality(S) \in Nat
<1>1. IsFiniteSet(Order \X (0 .. N))
  <2>1. IsFiniteSet(Order) /\ IsFiniteSet(0 .. N)
    BY FS_Interval, GeometryAssumption DEF Order
  <2> QED
    BY <2>1, FS_Product
<1>2. ASSUME NEW t \in S
      PROVE  t \in Order \X (0 .. N)
  <2>1. CASE t \in Inside(b)
    <3>1. t \in Block /\ t \in Whole
      BY <2>1, InsideWhole
    <3> QED
      BY <3>1, GeometryAssumption DEF Whole, Leaf
  <2>2. CASE t \in Around(b)
    <3>1. t \in Block /\ t[2] \in Nat /\ t = At(t[1], First(b)) /\ t[1] \in Order
      BY <2>2, AroundNum, BlockPair
    <3>2. First(b) \in Nat /\ First(b) <= N
      BY LeavesNat, WholeIff, GeometryAssumption DEF Leaf
    <3>3. t[2] <= N
      <4> DEFINE c == Chunk[t[1]]
                 d == First(b) \div c
      <4>1. c \in Nat \ {0} /\ d = t[2]
        BY <3>1, ChunkNat DEF At
      <4>2. d \in Nat /\ d * c <= First(b)
        BY <3>2, <4>1, DivMod
      <4> HIDE DEF c, d
      <4>3. d <= d * c
        BY <4>1, <4>2
      <4> QED
        BY <3>2, <4>1, <4>2, <4>3, GeometryAssumption
    <3> QED
      BY <3>1, <3>3, BlockPair, GeometryAssumption
  <2> QED
    BY <2>1, <2>2
<1>3. IsFiniteSet(S)
  BY <1>1, <1>2, FS_Subset
<1> QED
  BY <1>3, FS_CardinalityType

-----------------------------------------------------------------------------
(* Allocation *)

(* _bud_alloc preserves the invariant. *)
LEMMA AllocInv ==
  ASSUME Regular, IInv, NEW size \in Sizes, Alloc(size)
  PROVE  IInv'
<1>0. PICK i \in Order : \E n \in Zeros(i) :
        /\ Serves(size, i)
        /\ \A m \in Zeros(i) : n <= m
        /\ LET b == <<i, n>> IN
           /\ bmp' = bmp \cup {Bit(t) : t \in Taken(b)}
           /\ frees' = [j \in Order |-> frees[j] - Cardinality(TakenIn(b, j))]
           /\ hdr' = Encode(b)
           /\ live' = live \cup {b}
           /\ asked' = {size}
           /\ ret' = b
  BY DEF Alloc
<1>1. PICK n \in Zeros(i) :
        LET b == <<i, n>> IN
        /\ bmp' = bmp \cup {Bit(t) : t \in Taken(b)}
        /\ frees' = [j \in Order |-> frees[j] - Cardinality(TakenIn(b, j))]
        /\ hdr' = Encode(b)
        /\ live' = live \cup {b}
        /\ asked' = {size}
        /\ ret' = b
  BY <1>0
<1> DEFINE b == <<i, n>>
<1>2. n \in Nat /\ n < W * Words(i) /\ b \notin bmp
  BY Room, GeometryAssumption DEF Zeros
<1>3. b \in Block /\ b[1] = i /\ b[2] = n
  BY <1>2 DEF Block
<1>4. b \in Whole
  <2>1. b \notin Padding
    BY <1>2 DEF IInv
  <2>2. n < Num(i)
    BY <1>2, <1>3, <2>1, PaddingIff, Room
  <2> QED
    BY <1>2, <1>3, <2>1, <2>2, BitSelf, Room
<1>5. /\ bmp' = bmp \cup Taken(b)
      /\ frees' = [j \in Order |-> frees[j] - Cardinality(TakenIn(b, j))]
      /\ hdr' = [hdr EXCEPT ![First(b)] = i]
      /\ live' = live \cup {b}
      /\ asked' = {size}
      /\ ret' = b
      /\ Taken(b) \subseteq Block
  <2>1. Taken(b) \subseteq Inside(b) \cup Around(b)
    BY DEF Taken, Climbed, BitmapGet
  <2> QED
    BY <1>1, <1>3, <1>4, <2>1, BitsSelf DEF Encode
<1> HIDE DEF b
<1>6. \A x \in live : ~ Overlap(b, x)
  BY <1>2, <1>4 DEF IInv, BitmapExact, b
<1>7. First(b) \in Leaf
  BY <1>3, <1>4, LeavesNat, WholeIff
<1>8. TypeOK'
  <2>1. frees' \in [Order -> Int]
    <3>1. \A j \in Order : Cardinality(TakenIn(b, j)) \in Nat
      <4>1. \A j \in Order : TakenIn(b, j) \subseteq Inside(b) \cup Around(b)
        BY DEF TakenIn, Taken, Climbed, BitmapGet
      <4> QED
        BY <1>3, <1>4, <4>1, BitsFinite
    <3> QED
      BY <1>5, <3>1 DEF IInv, TypeOK
  <2>2. hdr' \in [Leaf -> Order \cup {NoHdr}]
    BY <1>5 DEF IInv, TypeOK
  <2> QED
    BY <1>3, <1>4, <1>5, <2>1, <2>2 DEF IInv, TypeOK
<1>9. (Padding \subseteq bmp)'
  BY <1>5 DEF IInv, Padding, Words, Num
<1>10. NoOverlap'
  BY <1>5, <1>6, OverlapSym DEF IInv, NoOverlap
<1>11. BitmapExact'
  <2> SUFFICES ASSUME NEW a \in Whole
               PROVE  a \in bmp' <=> \E x \in live' : Overlap(a, x)
    BY DEF BitmapExact
  <2>1. a \in Block
    BY WholeAgain
  <2>2. ASSUME a \in Taken(b)
        PROVE  Overlap(a, b)
    BY <1>3, <2>1, <2>2, InsideIff, AroundIff DEF Taken, Climbed, BitmapGet
  <2>3. ASSUME Overlap(a, b)
        PROVE  a \in bmp \/ a \in Taken(b)
    <3>1. CASE a \in Inside(b)
      BY <3>1 DEF Taken
    <3>2. CASE a \in Around(b) /\ a \notin Climbed(b)
      <4>1. PICK q \in Around(b) : q[1] <= a[1] /\ Bit(q) \in bmp
        BY <3>2 DEF Climbed, BitmapGet
      <4>2. q \in Block /\ Leaves(b) \subseteq Leaves(q)
        BY <1>3, <1>4, AroundNum
      <4>3. Leaves(b) \subseteq Leaves(a)
        BY <1>3, <1>4, <3>2, AroundNum
      <4>4. Overlap(q, a)
        BY <1>3, <4>2, <4>3, LeavesNat DEF Overlap
      <4>5. Leaves(q) \subseteq Leaves(a)
        BY <2>1, <4>1, <4>2, <4>4, Nested
      <4>6. q \in Whole
        BY <2>1, <4>2, <4>5, WholeIff
      <4>7. q \in bmp
        BY <4>1, <4>6, WholeBlock
      <4>8. PICK x \in live : Overlap(q, x)
        BY <4>6, <4>7 DEF IInv, BitmapExact
      <4>9. Overlap(a, x)
        BY <4>5, <4>8 DEF Overlap
      <4> QED
        BY <4>9 DEF IInv, BitmapExact
    <3> QED
      BY <1>3, <2>1, <2>3, <3>1, <3>2, InsideIff, AroundIff, BlockPair,
         GeometryAssumption DEF Taken, Order
  <2> QED
    BY <1>5, <2>2, <2>3 DEF IInv, BitmapExact
<1>12. HeadersExact'
  <2> SUFFICES ASSUME NEW x \in live'
               PROVE  At(hdr'[First(x)], First(x)) = x
    BY DEF HeadersExact, Decode, At, First
  <2>1. CASE x = b
    <3>1. hdr'[First(b)] = b[1]
      BY <1>3, <1>5, <1>7 DEF IInv, TypeOK
    <3> QED
      BY <1>3, <2>1, <3>1, LeavesNat, InBlock
  <2>2. CASE x \in live
    <3>1. x \in Block
      BY <2>2, LiveBlock DEF IInv
    <3>2. First(x) # First(b)
      BY <1>3, <1>6, <2>2, <3>1, LeavesNat DEF Overlap
    <3>3. hdr'[First(x)] = hdr[First(x)]
      BY <1>5, <1>7, <3>2 DEF IInv, TypeOK
    <3> QED
      BY <2>2, <3>3 DEF IInv, HeadersExact, Decode
  <2> QED
    BY <1>5, <2>1, <2>2
<1> QED
  BY <1>8, <1>9, <1>10, <1>11, <1>12 DEF IInv

-----------------------------------------------------------------------------
(* Release *)

(* _bud_free preserves the invariant. *)
LEMMA FreeInv ==
  ASSUME Regular, IInv, NEW x \in live, Free(x)
  PROVE  IInv'
<1>1. x \in Block /\ x \in Whole /\ Decode(First(x)) = x
  BY LiveBlock DEF IInv, HeadersExact
<1>2. ASSUME NEW p \in Released(x)
      PROVE  p \in Block /\ p \in Whole
  BY <1>1, <1>2, InsideWhole, MergedWhole DEF Released, IInv
<1>3. /\ bmp' = bmp \ Released(x)
      /\ frees' = [j \in Order |-> frees[j] + Cardinality(ReleasedIn(x, j))]
      /\ live' = live \ {x}
      /\ asked' = {}
      /\ ret' = NULL
      /\ hdr' = hdr
  <2>1. Released(x) \subseteq Inside(x) \cup Around(x)
    BY DEF Released, Merged, BitmapGet
  <2> QED
    BY <1>1, <2>1, BitsSelf DEF Free
<1>4. \A y \in live : y # x => ~ Overlap(y, x)
  BY DEF IInv, NoOverlap
<1>5. TypeOK'
  <2>1. \A j \in Order : Cardinality(ReleasedIn(x, j)) \in Nat
    <3>1. \A j \in Order : ReleasedIn(x, j) \subseteq Inside(x) \cup Around(x)
      BY DEF ReleasedIn, Released, Merged, BitmapGet
    <3> QED
      BY <1>1, <3>1, BitsFinite
  <2>2. frees' \in [Order -> Int]
    BY <1>3, <2>1 DEF IInv, TypeOK
  <2> QED
    BY <1>3, <2>2 DEF IInv, TypeOK
<1>6. (Padding \subseteq bmp)'
  <2>1. Padding \subseteq bmp'
    BY <1>2, <1>3, WholeBlock DEF IInv
  <2> QED
    BY <2>1 DEF Padding, Words, Num
<1>7. NoOverlap'
  BY <1>3 DEF IInv, NoOverlap
<1>8. BitmapExact'
  <2> SUFFICES ASSUME NEW a \in Whole
               PROVE  a \in bmp' <=> \E y \in live' : Overlap(a, y)
    BY DEF BitmapExact
  <2>1. a \in Block
    BY WholeAgain
  <2>2. ASSUME a \in bmp, a \notin Released(x)
        PROVE  \E y \in live : y # x /\ Overlap(a, y)
    <3>1. PICK y \in live : Overlap(a, y)
      BY <2>2 DEF IInv, BitmapExact
    <3>2. CASE y = x
      <4>1. a \in Around(x) /\ a \notin Merged(x)
        BY <1>1, <2>1, <2>2, <3>1, <3>2, InsideIff, AroundIff, BlockPair,
           GeometryAssumption DEF Released, Order
      <4>2. PICK k \in x[1] .. a[1] - 1 :
              Bit(Sibling(At(k, First(x)))) \in bmp
        BY <4>1 DEF Merged, BitmapGet
      <4> DEFINE s == Sibling(At(k, First(x)))
      <4>3. x[1] < a[1] /\ Overlap(a, x)
        BY <1>1, <2>1, <4>1, AroundIff
      <4>4. /\ s \in Block
            /\ Leaves(s) \subseteq Leaves(a)
            /\ Leaves(s) \cap Leaves(x) = {}
        BY <1>1, <2>1, <4>3, SiblingOnPath
      <4>5. s \in Whole
        BY <2>1, <4>4, WholeIff
      <4>6. s \in bmp
        BY <4>2, <4>5, WholeBlock
      <4>7. PICK z \in live : Overlap(s, z)
        BY <4>5, <4>6 DEF IInv, BitmapExact
      <4>8. z # x /\ Overlap(a, z)
        BY <4>4, <4>7 DEF Overlap
      <4> QED
        BY <4>8
    <3> QED
      BY <3>1, <3>2
  <2>3. ASSUME NEW y \in live, y # x, Overlap(a, y)
        PROVE  a \in bmp /\ a \notin Released(x)
    <3>1. a \in bmp
      BY <2>3 DEF IInv, BitmapExact
    <3>2. y \in Block /\ y \in Whole
      BY LiveBlock DEF IInv
    <3>3. PICK l \in Leaves(a) : l \in Leaves(y) /\ l \notin Leaves(x)
      BY <1>4, <2>3 DEF Overlap
    <3>4. a \notin Inside(x)
      BY <1>1, <3>3, InsideWhole
    <3>5. ASSUME a \in Merged(x)
          PROVE  FALSE
      <4>1. /\ a \in Around(x) /\ a = At(a[1], First(x)) /\ x[1] < a[1]
            /\ a[1] \in Order
        BY <1>1, <2>1, <3>5, AroundNum, BlockPair DEF Merged, BitmapGet
      <4>2. PICK k \in x[1] .. a[1] - 1 :
              l \in Leaves(Sibling(At(k, First(x))))
        BY <1>1, <3>3, <4>1, Path
      <4> DEFINE s == Sibling(At(k, First(x)))
      <4>3. s \in Block /\ Leaves(s) \subseteq Leaves(a)
        BY <1>1, <2>1, <4>1, AroundIff, SiblingOnPath
      <4>4. s \in Whole /\ Bit(s) = s
        BY <2>1, <4>3, WholeIff, WholeBlock
      <4>5. Overlap(s, y)
        BY <3>3, <4>2 DEF Overlap
      <4>6. s \in bmp
        BY <4>4, <4>5 DEF IInv, BitmapExact
      <4> QED
        BY <3>5, <4>4, <4>6 DEF Merged, BitmapGet
    <3> QED
      BY <3>1, <3>4, <3>5 DEF Released
  <2> QED
    BY <1>3, <2>2, <2>3
<1>9. HeadersExact'
  BY <1>3 DEF IInv, HeadersExact, Decode, At, First
<1> QED
  BY <1>5, <1>6, <1>7, <1>8, <1>9 DEF IInv

-----------------------------------------------------------------------------
(* The invariant *)

(* _bud_init establishes the invariant. *)
LEMMA InitInv ==
  ASSUME Regular, Init
  PROVE  IInv
<1>1. Padding \subseteq Block
  BY Room, GeometryAssumption DEF Padding, Block
<1>2. TypeOK
  <2>1. \A i \in Order : Num(i) \in Int
    BY Room
  <2> QED
    BY <1>1, <2>1, GeometryAssumption DEF Init, TypeOK
<1>3. BitmapExact
  BY WholeBlock DEF Init, BitmapExact
<1> QED
  BY <1>2, <1>3 DEF Init, IInv, NoOverlap, HeadersExact

(* Every step preserves the invariant. *)
LEMMA NextInv ==
  ASSUME Regular, IInv, [Next]_vars
  PROVE  IInv'
<1>1. CASE \E size \in Sizes : Alloc(size)
  BY <1>1, AllocInv
<1>2. CASE \E size \in Sizes : AllocFails(size)
  <2>1. PICK i \in Order : ret' = <<i, -4>> /\ UNCHANGED <<bmp, frees, hdr, live>>
    BY <1>2 DEF AllocFails
  <2>2. asked' \subseteq Sizes
    BY <1>2 DEF AllocFails
  <2> QED
    BY <2>1, <2>2 DEF IInv, TypeOK, NoOverlap, BitmapExact, HeadersExact, Decode,
                At, First, Overlap, Leaves, Padding, Words, Num
<1>3. CASE \/ \E size \in Sizes : AllocTooLarge(size)
           \/ UNCHANGED vars
  BY <1>3 DEF AllocTooLarge, vars, IInv, TypeOK, NoOverlap, BitmapExact,
              HeadersExact, Decode, At, First, Overlap, Leaves, Padding,
              Words, Num
<1>4. CASE \E x \in live : Free(x)
  BY <1>4, FreeInv
<1> QED
  BY <1>1, <1>2, <1>3, <1>4 DEF Next

(* In a regular geometry the bookkeeping of _bud_alloc and _bud_free stays *)
(* right for ever.                                                         *)
THEOREM BookkeepingInv ==
  ASSUME Regular
  PROVE  Spec => []IInv
<1>1. Init => IInv
  BY InitInv
<1>2. IInv /\ [Next]_vars => IInv'
  BY NextInv
<1> QED
  BY <1>1, <1>2, PTL DEF Spec

(* The variables of mm/buddy.c keep their types.                           *)
THEOREM TypeCorrect ==
  ASSUME Regular
  PROVE  Spec => []TypeOK
<1>1. IInv => TypeOK
  BY DEF IInv
<1> QED
  BY <1>1, BookkeepingInv, PTL

(* _bud_alloc never hands out memory that somebody still holds.            *)
THEOREM NoOverlapHolds ==
  ASSUME Regular
  PROVE  Spec => []NoOverlap
<1>1. IInv => NoOverlap
  BY DEF IInv
<1> QED
  BY <1>1, BookkeepingInv, PTL

(* The bitmaps of mm/buddy.c say exactly what is in use: nothing leaks and *)
(* every possible merge has been made.                                     *)
THEOREM BitmapExactHolds ==
  ASSUME Regular
  PROVE  Spec => []BitmapExact
<1>1. IInv => BitmapExact
  BY DEF IInv
<1> QED
  BY <1>1, BookkeepingInv, PTL

(* _bud_free always releases the block that was allocated at its address.  *)
THEOREM HeadersExactHold ==
  ASSUME Regular
  PROVE  Spec => []HeadersExact
<1>1. IInv => HeadersExact
  BY DEF IInv
<1> QED
  BY <1>1, BookkeepingInv, PTL

-----------------------------------------------------------------------------
(* Refinement *)

Owned     == {Leaves(x) : x \in live}
Result    == IF ret = NULL \/ ret[2] < 0 THEN {} ELSE Leaves(ret)
Candidate == [size \in Sizes |->
                {Leaves(b) : b \in {w \in Whole : Serves(size, w[1])}}]

(* A size is served by one order.                                          *)
LEMMA ServesOne ==
  ASSUME NEW size \in Sizes, NEW i \in Order, NEW j \in Order,
         Serves(size, i), Serves(size, j)
  PROVE  i = j
<1>1. /\ size \in Nat /\ i \in Nat /\ j \in Nat
      /\ LL * Chunk[i] \in Nat /\ LL * Chunk[j] \in Nat
  BY GeometryAssumption DEF Order
<1>2. ~ (i < j)
  BY <1>1 DEF Serves
<1>3. ~ (j < i)
  BY <1>1 DEF Serves
<1> QED
  BY <1>1, <1>2, <1>3

(* A zero bit that bitmap_get_free finds is the bit of a whole block.      *)
LEMMA ZeroWhole ==
  ASSUME Regular, Padding \subseteq bmp, NEW i \in Order, NEW n \in Zeros(i)
  PROVE  <<i, n>> \in Whole /\ <<i, n>> \in Block
<1> DEFINE b == <<i, n>>
<1>1. n \in Nat /\ n < W * Words(i) /\ b \notin bmp
  BY Room, GeometryAssumption DEF Zeros
<1>2. b \in Block /\ b[1] = i /\ b[2] = n
  BY <1>1 DEF Block
<1>3. n < Num(i)
  BY <1>1, <1>2, PaddingIff, Room
<1> QED
  BY <1>1, <1>2, <1>3, BitSelf, Room

(* And the bit of every whole block of the order is among them.            *)
LEMMA WholeZero ==
  ASSUME Regular, NEW b \in Whole, b \notin bmp
  PROVE  b[2] \in Zeros(b[1])
<1>1. b \in Block /\ b[2] < Num(b[1])
  BY WholeBlock
<1>2. b[2] \in 0 .. W * Words(b[1]) - 1
  BY <1>1, BlockPair, Room, GeometryAssumption
<1> QED
  BY <1>1, <1>2, BlockPair DEF Zeros

(* _bud_alloc that finds a block is a grant of the abstract heap. *)
LEMMA GrantStep ==
  ASSUME Regular, IInv, NEW size \in Sizes, Alloc(size)
  PROVE  PageHeap!Grant(size)
<1>1. PICK i \in Order : \E n \in Zeros(i) :
        /\ Serves(size, i)
        /\ live' = live \cup {<<i, n>>}
        /\ asked' = {size}
        /\ ret' = <<i, n>>
  BY DEF Alloc
<1>2. PICK n \in Zeros(i) :
        /\ Serves(size, i)
        /\ live' = live \cup {<<i, n>>}
        /\ asked' = {size}
        /\ ret' = <<i, n>>
  BY <1>1
<1> DEFINE b == <<i, n>>
<1>3. b \in Whole /\ b \in Block /\ b[1] = i /\ b[2] \in Nat /\ b \notin bmp
  BY ZeroWhole, BlockPair DEF IInv, Zeros
<1>4. ret' # NULL /\ ~ (ret'[2] < 0)
  BY <1>2, <1>3 DEF NULL
<1> HIDE DEF b
<1>5. Leaves(b) \in Candidate[size]
  BY <1>2, <1>3 DEF Candidate
<1>6. \A o \in Owned : o \cap Leaves(b) = {}
  BY <1>3, OverlapSym DEF IInv, BitmapExact, Owned, Overlap
<1>9. asked' = {size}
  BY <1>2
<1>7. Owned' = Owned \cup {Leaves(b)}
  BY <1>2 DEF Owned, b, Leaves, First
<1>8. Result' = Leaves(b)
  BY <1>2, <1>4 DEF Result, b, Leaves, First, NULL
<1> QED
  BY <1>5, <1>6, <1>7, <1>8, <1>9 DEF PageHeap!Grant, PageHeap!Free, Owned, Result,
                                Candidate

(* _bud_alloc that finds none is a refusal of the abstract heap. *)
LEMMA RefuseStep ==
  ASSUME Regular, IInv, NEW size \in Sizes, AllocFails(size) \/ AllocTooLarge(size)
  PROVE  PageHeap!Refuse(size)
<1>1. live' = live /\ bmp' = bmp /\ asked' = {size}
  BY DEF AllocFails, AllocTooLarge
<1>2. Result' = {}
  <2>1. CASE AllocTooLarge(size)
    BY <2>1 DEF AllocTooLarge, Result
  <2>2. CASE AllocFails(size)
    <3>1. PICK i \in Order : ret' = <<i, -4>>
      BY <2>2 DEF AllocFails
    <3> QED
      BY <3>1 DEF Result
  <2> QED
    BY <2>1, <2>2
<1>3. ASSUME NEW b \in Whole, Serves(size, b[1])
      PROVE  \E x \in live : Overlap(b, x)
  <2>1. AllocFails(size)
    BY <1>3, WholeBlock, BlockPair DEF AllocTooLarge
  <2>2. PICK i \in Order : Serves(size, i) /\ Zeros(i) = {}
    BY <2>1 DEF AllocFails
  <2>3. b[1] = i
    BY <1>3, <2>2, WholeBlock, BlockPair, ServesOne
  <2>4. b \in bmp
    BY <2>2, <2>3, WholeZero
  <2> QED
    BY <2>4 DEF IInv, BitmapExact
<1>4. \A c \in Candidate[size] : \E o \in Owned : o \cap c # {}
  BY <1>3 DEF Candidate, Owned, Overlap
<1>5. Owned' = Owned
  BY <1>1 DEF Owned, Leaves, First
<1> QED
  BY <1>1, <1>2, <1>4, <1>5 DEF PageHeap!Refuse, PageHeap!Free, Owned, Result,
                          Candidate

(* _bud_free is a release of the abstract heap. *)
LEMMA ReturnStep ==
  ASSUME Regular, IInv, NEW x \in live, Free(x)
  PROVE  PageHeap!Return(Leaves(x)) /\ Leaves(x) \in Owned
<1>1. live' = live \ {x} /\ asked' = {} /\ ret' = NULL
  BY DEF Free
<1>2. \A y \in live : y # x => Leaves(y) # Leaves(x)
  BY LiveBlock, LeavesNat DEF IInv, NoOverlap, Overlap
<1>3. Owned' = Owned \ {Leaves(x)}
  BY <1>1, <1>2 DEF Owned, Leaves, First
<1>4. Result' = {}
  BY <1>1 DEF Result
<1> QED
  BY <1>1, <1>3, <1>4 DEF PageHeap!Return, Owned, Result

(* In a regular geometry the buddy allocator implements the abstract heap. *)
THEOREM RefinesHeap ==
  ASSUME Regular
  PROVE  Spec => ImplementsHeap
<1>1. Init => PageHeap!Init
  BY DEF Init, PageHeap!Init
<1>2. IInv /\ [Next]_vars => [PageHeap!Next]_(PageHeap!vars)
  <2> SUFFICES ASSUME IInv, [Next]_vars
               PROVE  [PageHeap!Next]_(PageHeap!vars)
    OBVIOUS
  <2>1. ASSUME NEW size \in Sizes, Alloc(size)
        PROVE  PageHeap!Next
    BY <2>1, GrantStep DEF PageHeap!Next
  <2>2. ASSUME NEW size \in Sizes, AllocFails(size) \/ AllocTooLarge(size)
        PROVE  PageHeap!Next
    BY <2>2, RefuseStep DEF PageHeap!Next
  <2>3. ASSUME NEW x \in live, Free(x)
        PROVE  PageHeap!Next
    BY <2>3, ReturnStep DEF PageHeap!Next, Owned
  <2>4. CASE UNCHANGED vars
    BY <2>4 DEF vars, PageHeap!vars, Leaves, First, NULL
  <2> QED
    BY <2>1, <2>2, <2>3, <2>4 DEF Next
<1> QED
  BY <1>1, <1>2, BookkeepingInv, PTL DEF Spec, ImplementsHeap, PageHeap!Spec

-----------------------------------------------------------------------------
(* The counters *)

(* A set of bits of one order has as many members as numbers. *)
LEMMA Numbers ==
  ASSUME NEW j, NEW S, \A t \in S : t = <<j, t[2]>>, IsFiniteSet({t[2] : t \in S})
  PROVE  Cardinality(S) = Cardinality({t[2] : t \in S})
<1> DEFINE T == {t[2] : t \in S}
           f == [n \in T |-> <<j, n>>]
<1>1. \A n \in T : <<j, n>> \in S
  OBVIOUS
<1>2. f \in Injection(T, S)
  BY <1>1 DEF Injection, IsInjective
<1>3. \A t \in S : \E n \in T : f[n] = t
  <2> SUFFICES ASSUME NEW t \in S PROVE \E n \in T : f[n] = t
    OBVIOUS
  <2>1. t[2] \in T /\ f[t[2]] = t
    OBVIOUS
  <2> QED
    BY <2>1
<1>4. f \in Bijection(T, S)
  BY <1>2, <1>3 DEF Bijection, Injection, Surjection
<1> QED
  BY <1>4, FS_Bijection DEF ExistsBijection

LEMMA ZerosFinite ==
  ASSUME Regular, NEW i \in Order
  PROVE  IsFiniteSet(Zeros(i)) /\ Cardinality(Zeros(i)) \in Nat
<1>1. W * Words(i) - 1 \in Int
  BY Room, GeometryAssumption
<1>2. IsFiniteSet(0 .. W * Words(i) - 1)
  BY <1>1, FS_Interval
<1>3. Zeros(i) \in SUBSET (0 .. W * Words(i) - 1)
  BY DEF Zeros
<1> QED
  BY <1>2, <1>3, FS_Subset, FS_CardinalityType

(* The bits that belong to a block have their place in the bitmaps. *)
LEMMA BitsRoom ==
  ASSUME Regular, NEW b \in Block, b \in Whole,
         NEW t \in Inside(b) \cup Around(b)
  PROVE  /\ t \in Block /\ Bit(t) = t /\ t[1] \in Order
         /\ t = <<t[1], t[2]>>
         /\ t[2] \in 0 .. W * Words(t[1]) - 1
<1>1. t \in Block /\ Bit(t) = t
  BY BitsSelf
<1>2. t[2] <= Num(t[1])
  BY InsideWhole, WholeBlock, AroundNum, BlockPair, Room
<1> QED
  BY <1>1, <1>2, BlockPair, Room, GeometryAssumption

(* bud_set_bit counts what _bud_alloc changes. *)
LEMMA AllocCounts ==
  ASSUME Regular, IInv, FreesExact, NEW size \in Sizes, Alloc(size)
  PROVE  FreesExact'
<1>1. PICK i \in Order : \E n \in Zeros(i) :
        LET b == <<i, n>> IN
        /\ bmp' = bmp \cup {Bit(t) : t \in Taken(b)}
        /\ frees' = [j \in Order |-> frees[j] - Cardinality(TakenIn(b, j))]
  BY DEF Alloc
<1>2. PICK n \in Zeros(i) :
        LET b == <<i, n>> IN
        /\ bmp' = bmp \cup {Bit(t) : t \in Taken(b)}
        /\ frees' = [j \in Order |-> frees[j] - Cardinality(TakenIn(b, j))]
  BY <1>1
<1> DEFINE b == <<i, n>>
<1>3. b \in Block /\ b \in Whole
  BY ZeroWhole DEF IInv
<1>4. Taken(b) \subseteq Inside(b) \cup Around(b)
  BY DEF Taken, Climbed, BitmapGet
<1>5. bmp' = bmp \cup Taken(b)
  BY <1>2, <1>3, <1>4, BitsSelf
<1> SUFFICES ASSUME NEW j \in Order
             PROVE  frees'[j] = Cardinality(Zeros(j)')
  BY DEF FreesExact
<1> DEFINE S == TakenIn(b, j)
           T == {t[2] : t \in S}
<1>6. frees'[j] = frees[j] - Cardinality(S)
  BY <1>2
<1> HIDE DEF b
<1>7. ASSUME NEW t \in S
      PROVE  t = <<j, t[2]>> /\ t[2] \in Zeros(j) /\ t \in Taken(b)
  <2>1. t \in Taken(b) /\ t[1] = j /\ Bit(t) \notin bmp
    BY DEF TakenIn, BitmapGet
  <2> QED
    BY <2>1, <1>3, <1>4, BitsRoom DEF Zeros
<1>8. ASSUME NEW m \in Zeros(j), <<j, m>> \in Taken(b)
      PROVE  m \in T
  <2>1. Bit(<<j, m>>) = <<j, m>>
    BY <1>3, <1>4, <1>8, BitsRoom
  <2>2. <<j, m>> \in S
    BY <1>8, <2>1 DEF TakenIn, Zeros, BitmapGet
  <2> QED
    BY <2>2
<1> HIDE DEF S
<1>9. T \subseteq Zeros(j)
  BY <1>7
<1>10. Zeros(j)' = Zeros(j) \ T
  <2>1. \A m \in Zeros(j) : <<j, m>> \in Taken(b) <=> m \in T
    <3>1. ASSUME NEW m \in T
          PROVE  <<j, m>> \in Taken(b)
      BY <1>7
    <3> QED
      BY <1>8, <3>1
  <2>2. Zeros(j)' = {m \in 0 .. W * Words(j) - 1 : <<j, m>> \notin bmp'}
    BY DEF Zeros, Words, Num
  <2>3. Zeros(j)' = {m \in Zeros(j) : <<j, m>> \notin Taken(b)}
    BY <1>5, <2>2 DEF Zeros
  <2> QED
    BY <2>1, <2>3
<1>11. IsFiniteSet(T)
  BY <1>9, ZerosFinite, FS_Subset
<1>12. Cardinality(S) = Cardinality(T) /\ Cardinality(T) \in Nat
  BY <1>7, <1>11, Numbers, FS_CardinalityType
<1>13. Zeros(j) \cap T = T
  BY <1>9
<1>14. Cardinality(Zeros(j)') = Cardinality(Zeros(j)) - Cardinality(T)
  BY <1>10, <1>13, ZerosFinite, FS_Difference
<1> QED
  BY <1>6, <1>12, <1>14 DEF FreesExact

(* And what _bud_free changes. *)
LEMMA FreeCounts ==
  ASSUME Regular, IInv, FreesExact, NEW x \in live, Free(x)
  PROVE  FreesExact'
<1>1. x \in Block /\ x \in Whole /\ Decode(First(x)) = x
  BY LiveBlock DEF IInv, HeadersExact
<1>2. Released(x) \subseteq Inside(x) \cup Around(x)
  BY DEF Released, Merged, BitmapGet
<1>3. /\ bmp' = bmp \ Released(x)
      /\ frees' = [j \in Order |-> frees[j] + Cardinality(ReleasedIn(x, j))]
  BY <1>1, <1>2, BitsSelf DEF Free
<1> SUFFICES ASSUME NEW j \in Order
             PROVE  frees'[j] = Cardinality(Zeros(j)')
  BY DEF FreesExact
<1> DEFINE S == ReleasedIn(x, j)
           T == {t[2] : t \in S}
<1>4. frees'[j] = frees[j] + Cardinality(S)
  BY <1>3
<1>5. ASSUME NEW t \in S
      PROVE  /\ t = <<j, t[2]>> /\ t \in Released(x) /\ t \in bmp
             /\ t[2] \in 0 .. W * Words(j) - 1
  <2>1. t \in Released(x) /\ t[1] = j /\ Bit(t) \in bmp
    BY DEF ReleasedIn, BitmapGet
  <2> QED
    BY <2>1, <1>1, <1>2, BitsRoom
<1>6. ASSUME NEW m, <<j, m>> \in bmp, <<j, m>> \in Released(x)
      PROVE  m \in T
  <2>1. Bit(<<j, m>>) = <<j, m>>
    BY <1>1, <1>2, <1>6, BitsRoom
  <2>2. <<j, m>> \in S
    BY <1>6, <2>1 DEF ReleasedIn, BitmapGet
  <2> QED
    BY <2>2
<1> HIDE DEF S
<1>7. \A m \in T : /\ <<j, m>> \in Released(x) /\ <<j, m>> \in bmp
                   /\ m \in 0 .. W * Words(j) - 1
  BY <1>5
<1>8. Zeros(j)' = Zeros(j) \cup T
  <2>1. Zeros(j)' = {m \in 0 .. W * Words(j) - 1 : <<j, m>> \notin bmp'}
    BY DEF Zeros, Words, Num
  <2> QED
    BY <1>3, <1>6, <1>7, <2>1 DEF Zeros
<1>9. Zeros(j) \cap T = {}
  BY <1>7 DEF Zeros
<1>10. IsFiniteSet(T)
  <2>1. W * Words(j) - 1 \in Int
    BY Room, GeometryAssumption
  <2>2. IsFiniteSet(0 .. W * Words(j) - 1)
    BY <2>1, FS_Interval
  <2> QED
    BY <1>7, <2>2, FS_Subset
<1>11. Cardinality(S) = Cardinality(T) /\ Cardinality(T) \in Nat
  BY <1>5, <1>10, Numbers, FS_CardinalityType
<1>12. Cardinality(Zeros(j)') = Cardinality(Zeros(j)) + Cardinality(T)
  <2>1. Cardinality(Zeros(j) \cap T) = 0
    BY <1>9, FS_EmptySet
  <2>2. /\ IsFiniteSet(Zeros(j)) /\ Cardinality(Zeros(j)) \in Nat
        /\ IsFiniteSet(T) /\ Cardinality(T) \in Nat
    BY <1>10, <1>11, ZerosFinite
  <2>3. Cardinality(Zeros(j) \cup T)
          = Cardinality(Zeros(j)) + Cardinality(T) - Cardinality(Zeros(j) \cap T)
    BY <2>2, FS_Union
  <2> QED
    BY <2>1, <2>2, <2>3, <1>8
<1> QED
  BY <1>4, <1>11, <1>12 DEF FreesExact

(* bud_show_info's counters of free blocks are right for ever.             *)
THEOREM FreesExactHolds ==
  ASSUME Regular
  PROVE  Spec => []FreesExact
<1>1. Init => FreesExact
  <2> SUFFICES ASSUME Init, NEW i \in Order
               PROVE  Num(i) = Cardinality(Zeros(i))
    BY DEF Init, FreesExact
  <2>1. \A n \in Nat : <<i, n>> \in Block /\ <<i, n>>[1] = i /\ <<i, n>>[2] = n
    BY DEF Block
  <2>2. \A n \in Nat : <<i, n>> \in Padding <=> Num(i) <= n /\ n < W * Words(i)
    BY <2>1, PaddingIff
  <2>3. W * Words(i) \in Nat /\ Num(i) \in Nat /\ Num(i) < W * Words(i)
    BY Room, GeometryAssumption
  <2>4. Zeros(i) = {n \in 0 .. W * Words(i) - 1 : <<i, n>> \notin Padding}
    BY DEF Init, Zeros
  <2> DEFINE w == W * Words(i)
             k == Num(i)
  <2>5. \A n \in Nat : <<i, n>> \in Padding <=> k <= n /\ n < w
    BY <2>2
  <2>6. w \in Nat /\ k \in Nat /\ k < w /\ Zeros(i) = {n \in 0 .. w - 1 : <<i, n>> \notin Padding}
    BY <2>3, <2>4
  <2> HIDE DEF w, k
  <2>7. Zeros(i) = 0 .. k - 1
    BY <2>5, <2>6
  <2>8. Cardinality(0 .. k - 1) = k
    BY <2>6, FS_Interval
  <2> QED
    BY <2>7, <2>8 DEF k
<1>2. IInv /\ FreesExact /\ [Next]_vars => FreesExact'
  <2> SUFFICES ASSUME IInv, FreesExact, [Next]_vars
               PROVE  FreesExact'
    OBVIOUS
  <2>1. CASE \E size \in Sizes : Alloc(size)
    BY <2>1, AllocCounts
  <2>2. CASE \E x \in live : Free(x)
    BY <2>2, FreeCounts
  <2>3. CASE \/ \E size \in Sizes : AllocFails(size) \/ AllocTooLarge(size)
             \/ UNCHANGED vars
    <3>1. bmp' = bmp /\ frees' = frees
      BY <2>3 DEF AllocFails, AllocTooLarge, vars
    <3> QED
      BY <3>1 DEF FreesExact, Zeros, Words, Num
  <2> QED
    BY <2>1, <2>2, <2>3 DEF Next
<1> QED
  BY <1>1, <1>2, BookkeepingInv, PTL DEF Spec
=============================================================================
