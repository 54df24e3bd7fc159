----------------------------- MODULE PoolProofs -----------------------------
(***************************************************************************)
(* Theorems about Pool for any number of size classes, any blocks and any  *)
(* request sizes, up to and with the first request of a class that has no  *)
(* block left.                                                             *)
(***************************************************************************)
EXTENDS Pool, TLAPS, WellFoundedInduction, FunctionTheorems, FiniteSetTheorems,
        SequenceTheorems

USE LayoutAssumption

-----------------------------------------------------------------------------
(* Geometry *)

LEMMA StrideNat ==
  ASSUME NEW c \in Class
  PROVE  /\ Stride(c) \in Nat /\ Stride(c) = Chunk[c] + 1 /\ Chunk[c] \in Nat \ {0}
         /\ Cap[c] \in Nat \ {0}
         /\ Base[c] \in Nat \ {0}
         /\ Limit(c) \in Nat
         /\ Base[c] + Stride(c) <= Limit(c)
<1>1. Stride(c) \in Nat /\ Cap[c] \in Nat \ {0} /\ Base[c] \in Nat \ {0}
  BY DEF Stride
<1> DEFINE s == Stride(c)
           k == Cap[c]
<1>2. s \in Nat /\ k \in Nat \ {0}
  BY <1>1
<1> HIDE DEF s, k
<1>3. k * s \in Nat /\ s <= k * s
  BY <1>2
<1> QED
  BY <1>1, <1>3 DEF Limit, s, k, Stride

(* The blocks of a class follow each other up to its limit. *)
LEMMA BlockPlace ==
  ASSUME NEW c \in Class, NEW a \in Blocks(c)
  PROVE  /\ a \in Nat \ {0}
         /\ Base[c] <= a
         /\ a + Stride(c) <= Limit(c)
         /\ a + Stride(c) \in Blocks(c) \cup {Limit(c)}
<1> DEFINE s == Stride(c)
           k == Cap[c]
           b == Base[c]
<1>1. s \in Nat /\ k \in Nat \ {0} /\ b \in Nat \ {0} /\ Limit(c) = b + k * s
  BY StrideNat DEF Limit
<1>2. PICK n \in 0 .. k - 1 : a = b + n * s
  BY DEF Blocks
<1>3. Blocks(c) = {b + m * s : m \in 0 .. k - 1}
  BY DEF Blocks
<1> HIDE DEF s, k, b
<1>4. n * s \in Nat /\ (n + 1) * s = n * s + s
  BY <1>1, <1>2
<1>5. (n + 1) * s <= k * s
  BY <1>1, <1>2
<1>6. a + s = b + (n + 1) * s
  BY <1>1, <1>2, <1>4
<1>7. n + 1 \in 0 .. k - 1 \/ n + 1 = k
  BY <1>1, <1>2
<1>8. k * s \in Nat
  BY <1>1
<1>9. a \in Nat \ {0} /\ b <= a /\ a + s <= b + k * s
  BY <1>1, <1>2, <1>4, <1>5, <1>8
<1>10. a + s \in Blocks(c) \cup {Limit(c)}
  BY <1>1, <1>3, <1>6, <1>7
<1> QED
  BY <1>1, <1>9, <1>10 DEF s, b

(* The first block of a class is at its base. *)
LEMMA BaseBlock ==
  ASSUME NEW c \in Class
  PROVE  Base[c] \in Blocks(c)
<1>1. 0 \in 0 .. Cap[c] - 1 /\ Base[c] \in Nat /\ Stride(c) \in Nat
  BY StrideNat
<1>2. Base[c] = Base[c] + 0 * Stride(c)
  BY <1>1
<1> QED
  BY <1>1, <1>2 DEF Blocks

(* Two blocks of a class do not touch. *)
LEMMA BlocksApart ==
  ASSUME NEW c \in Class, NEW a \in Blocks(c), NEW b \in Blocks(c), a < b
  PROVE  a + Stride(c) <= b
<1> DEFINE s == Stride(c)
           o == Base[c]
<1>1. s \in Nat /\ o \in Nat
  BY StrideNat
<1>2. PICK n \in 0 .. Cap[c] - 1 : a = o + n * s
  BY DEF Blocks
<1>3. PICK m \in 0 .. Cap[c] - 1 : b = o + m * s
  BY DEF Blocks
<1> HIDE DEF s, o
<1>4. n \in Nat /\ m \in Nat
  BY <1>2, <1>3, StrideNat
<1>5. n * s < m * s
  BY <1>1, <1>2, <1>3, <1>4
<1>6. n < m
  <2> SUFFICES ASSUME m <= n PROVE FALSE
    BY <1>4
  <2>1. m * s <= n * s
    BY <1>1, <1>4
  <2> QED
    BY <2>1, <1>1, <1>4, <1>5
<1>7. (n + 1) * s <= m * s
  BY <1>1, <1>4, <1>6
<1>8. o + n * s + s <= o + m * s
  BY <1>1, <1>4, <1>7
<1> QED
  BY <1>2, <1>3, <1>8 DEF s

(* The regions of the classes follow each other. *)
LEMMA RegionsApart ==
  ASSUME NEW c \in Class, NEW d \in Class, c < d
  PROVE  Limit(c) <= Base[d]
<1> DEFINE Wrong == {e \in Class : c < e /\ ~ (Limit(c) <= Base[e])}
<1> SUFFICES ASSUME Wrong # {} PROVE FALSE
  OBVIOUS
<1>1. Wrong \subseteq Nat
  BY DEF Class
<1>2. IsWellFoundedOn(OpToRel(<, Nat), Nat)
  BY NatLessThanWellFounded
<1>3. PICK e \in Wrong : \A n \in Wrong : <<n, e>> \notin OpToRel(<, Nat)
  BY <1>1, <1>2, WFMin
<1>4. \A n \in Wrong : ~ (n < e)
  BY <1>1, <1>3 DEF OpToRel
<1>5. e - 1 \in Class /\ c <= e - 1 /\ (e - 1) + 1 = e /\ e \in Class
  BY DEF Class
<1>6. Base[e] = Limit(e - 1)
  BY <1>5 DEF Limit
<1>7. CASE e - 1 = c
  BY <1>6, <1>7, StrideNat
<1>8. CASE c < e - 1
  <2>1. Limit(c) <= Base[e - 1]
    BY <1>4, <1>5, <1>8 DEF Class
  <2>2. Base[e - 1] + Stride(e - 1) <= Limit(e - 1) /\ Stride(e - 1) \in Nat
        /\ Base[e - 1] \in Nat /\ Limit(e - 1) \in Nat /\ Limit(c) \in Nat
    BY <1>5, StrideNat
  <2> QED
    BY <2>1, <2>2, <1>6
<1> QED
  BY <1>5, <1>7, <1>8 DEF Class

(* A block lies in the modelled memory with all its data. *)
LEMMA BlockAddr ==
  ASSUME NEW c \in Class, NEW a \in Blocks(c)
  PROVE  a .. a + Chunk[c] \subseteq Addr
<1>1. a \in Nat /\ Base[c] <= a /\ a + Stride(c) <= Limit(c)
  BY BlockPlace
<1>2. 0 \in Class /\ K - 1 \in Class
  BY DEF Class
<1>3. Base[0] <= Base[c]
  <2>1. CASE c = 0
    BY <2>1, StrideNat
  <2>2. CASE 0 < c
    <3>1. Limit(0) <= Base[c]
      BY <1>2, <2>2, RegionsApart
    <3> QED
      BY <3>1, <1>2, StrideNat
  <2> QED
    BY <2>1, <2>2 DEF Class
<1>4. Limit(c) <= Limit(K - 1)
  <2>1. CASE c = K - 1
    BY <2>1, StrideNat DEF Limit
  <2>2. CASE c < K - 1
    <3>1. Limit(c) <= Base[K - 1]
      BY <1>2, <2>2, RegionsApart
    <3>2. Base[K - 1] <= Limit(K - 1)
      BY <1>2, StrideNat
    <3> QED
      BY <3>1, <3>2, <1>2, StrideNat DEF Limit
  <2> QED
    BY <2>1, <2>2 DEF Class
<1>5. Base[0] \in Nat /\ Base[c] \in Nat /\ Limit(c) \in Nat /\ Stride(c) = Chunk[c] + 1
      /\ Chunk[c] \in Nat
  BY <1>2, StrideNat
<1>6. Limit(K - 1) \in Int
  BY <1>2, StrideNat DEF Limit
<1> QED
  BY <1>1, <1>3, <1>4, <1>5, <1>6 DEF Addr

(* A block is in one class, which pool_get_id finds. *)
LEMMA OneClass ==
  ASSUME NEW c \in Class, NEW a \in Blocks(c)
  PROVE  /\ \A d \in Class : a \in Blocks(d) => d = c
         /\ Id(a) = c
<1>0. ASSUME NEW d \in Class
      PROVE  Region(d) = Base[d] .. Limit(d) - 1
  BY DEF Region
<1>3. ASSUME NEW d \in Class, a \in Blocks(d)
      PROVE  a \in Region(d)
  <2>1. a \in Nat /\ Base[d] <= a /\ a + Stride(d) <= Limit(d)
    BY <1>3, BlockPlace
  <2>2. a \in Base[d] .. Limit(d) - 1
    BY <2>1, StrideNat
  <2> QED
    BY <1>0, <2>2
<1>1. a \in Region(c)
  BY <1>3
<1>2. ASSUME NEW d \in Class, a \in Region(d)
      PROVE  d = c
  <2>1. Base[d] <= a /\ a < Limit(d) /\ Base[c] <= a /\ a < Limit(c) /\ a \in Nat
    <3>1. a \in Base[d] .. Limit(d) - 1 /\ a \in Base[c] .. Limit(c) - 1
      BY <1>0, <1>1, <1>2
    <3>2. a \in Nat
      BY BlockPlace
    <3> QED
      BY <3>1, <3>2, StrideNat
  <2>2. ~ (c < d)
    BY <2>1, RegionsApart, StrideNat
  <2>3. ~ (d < c)
    BY <2>1, RegionsApart, StrideNat
  <2> QED
    BY <2>2, <2>3 DEF Class
<1> QED
  BY <1>1, <1>2, <1>3 DEF Id

(* The data of a block holds no header and no data of another block. *)
LEMMA DataApart ==
  ASSUME NEW c \in Class, NEW a \in Blocks(c), NEW d \in Class, NEW b \in Blocks(d)
  PROVE  /\ b \notin Data(c, a)
         /\ <<c, a>> # <<d, b>> => Data(c, a) \cap Data(d, b) = {}
<1>1. /\ a \in Nat /\ Base[c] <= a /\ a + Chunk[c] + 1 <= Limit(c)
      /\ b \in Nat /\ Base[d] <= b /\ b + Chunk[d] + 1 <= Limit(d)
      /\ Chunk[c] \in Nat \ {0} /\ Chunk[d] \in Nat \ {0}
      /\ Limit(c) \in Nat /\ Limit(d) \in Nat /\ Base[c] \in Nat /\ Base[d] \in Nat
  <2>1. ASSUME NEW e \in Class, NEW z \in Blocks(e)
        PROVE  /\ z \in Nat /\ Base[e] <= z /\ z + Chunk[e] + 1 <= Limit(e)
               /\ Chunk[e] \in Nat \ {0} /\ Limit(e) \in Nat /\ Base[e] \in Nat
    <3>1. z \in Nat /\ Base[e] <= z /\ z + Stride(e) <= Limit(e)
      BY BlockPlace
    <3>2. Stride(e) = Chunk[e] + 1 /\ Chunk[e] \in Nat \ {0} /\ Limit(e) \in Nat
          /\ Base[e] \in Nat
      BY StrideNat
    <3> QED
      BY <3>1, <3>2
  <2> QED
    BY <2>1
<1>2. CASE c < d \/ d < c
  <2>1. Limit(c) <= Base[d] \/ Limit(d) <= Base[c]
    BY <1>2, RegionsApart
  <2> QED
    BY <1>1, <2>1 DEF Data
<1>3. CASE c = d
  <2>1. a < b => a + Chunk[c] + 1 <= b
    BY <1>3, BlocksApart, StrideNat, <1>1
  <2>2. b < a => b + Chunk[c] + 1 <= a
    BY <1>3, BlocksApart, StrideNat, <1>1
  <2> QED
    BY <1>1, <1>3, <2>1, <2>2 DEF Data
<1>4. c < d \/ d < c \/ c = d
  BY DEF Class
<1> QED
  BY <1>2, <1>3, <1>4

-----------------------------------------------------------------------------
(* The inductive invariant *)

(* ChainExact of one class, and that its freed blocks are blocks of it. *)
Chain(c) ==
  /\ \A i \in 1 .. Len(freed[c]) : freed[c][i] \in Blocks(c)
  /\ freed[c] # <<>> => head[c] = freed[c][1]
  /\ \A i \in 1 .. Len(freed[c]) - 1 : mem[freed[c][i]] = freed[c][i+1]
  /\ \A i, j \in 1 .. Len(freed[c]) : freed[c][i] = freed[c][j] => i = j
  /\ Top(c) \in Blocks(c) \cup {Limit(c)}
  /\ \A a \in Blocks(c) :
       /\ a >= Top(c) => mem[a] = 0
       /\ a < Top(c) <=> \/ <<c, a>> \in live
                         \/ \E i \in 1 .. Len(freed[c]) : freed[c][i] = a
       /\ ~ (<<c, a>> \in live /\ \E i \in 1 .. Len(freed[c]) : freed[c][i] = a)

InsidePool == \A x \in live : InRegion(x)

(* Nothing was handed out that is not in the regions. *)
Whole ==
  /\ Types
  /\ InsidePool
  /\ FreesExact
  /\ IsFiniteSet(live)
  /\ \A c \in Class : Chain(c)

IInv ==
  /\ Disjoint /\ ChainExact /\ FreesExact
  /\ ~ Overrun => Whole

LEMMA HeldFinite ==
  ASSUME Whole, NEW c \in Class
  PROVE  IsFiniteSet(Held(c)) /\ Cardinality(Held(c)) \in Nat
<1>1. Held(c) \in SUBSET live
  BY DEF Held
<1> QED
  BY <1>1, FS_Subset, FS_CardinalityType DEF Whole

(* Callers who hold every block of a class hold as many as it has. *)
LEMMA AllHeld ==
  ASSUME Whole, NEW c \in Class, \A a \in Blocks(c) : <<c, a>> \in live
  PROVE  Cap[c] <= Cardinality(Held(c))
<1> DEFINE s == Stride(c)
           b == Base[c]
           f == [n \in 0 .. Cap[c] - 1 |-> <<c, b + n * s>>]
<1>1. \A n \in 0 .. Cap[c] - 1 : <<c, b + n * s>> \in Held(c)
  BY DEF Blocks, Held
<1>2. s \in Nat \ {0} /\ b \in Nat /\ Cap[c] \in Nat \ {0}
  BY StrideNat
<1> HIDE DEF s, b
<1>3. \A n, m \in 0 .. Cap[c] - 1 : b + n * s = b + m * s => n = m
  <2> SUFFICES ASSUME NEW n \in 0 .. Cap[c] - 1, NEW m \in 0 .. Cap[c] - 1,
                      b + n * s = b + m * s
               PROVE  n = m
    OBVIOUS
  <2>1. n \in Nat /\ m \in Nat /\ n * s = m * s
    BY <1>2
  <2>2. CASE n < m
    <3>1. (n + 1) * s <= m * s
      BY <1>2, <2>1, <2>2
    <3> QED
      BY <1>2, <2>1, <3>1
  <2>3. CASE m < n
    <3>1. (m + 1) * s <= n * s
      BY <1>2, <2>1, <2>3
    <3> QED
      BY <1>2, <2>1, <3>1
  <2> QED
    BY <2>1, <2>2, <2>3
<1>4. f \in Injection(0 .. Cap[c] - 1, Held(c))
  BY <1>1, <1>3 DEF Injection, IsInjective
<1>5. Cardinality(0 .. Cap[c] - 1) <= Cardinality(Held(c))
  BY <1>4, HeldFinite, FS_Injection
<1>6. Cardinality(0 .. Cap[c] - 1) = Cap[c]
  BY <1>2, FS_Interval
<1> QED
  BY <1>5, <1>6

(* Callers hold no more blocks of a class than it has, and the counter is  *)
(* what is left.                                                           *)
LEMMA HeldBound ==
  ASSUME Whole, NEW c \in Class
  PROVE  /\ Cardinality(Held(c)) <= Cap[c]
         /\ Cardinality(Held(c)) = Cap[c] => \A a \in Blocks(c) : <<c, a>> \in live
         /\ frees[c] = Cap[c] - Cardinality(Held(c))
<1> DEFINE f == [n \in 0 .. Cap[c] - 1 |-> <<c, Base[c] + n * Stride(c)>>]
           all == {<<c, a>> : a \in Blocks(c)}
<1>1. Cap[c] \in Nat \ {0} /\ Cap[c] < Mod /\ Mod \in Nat
  BY StrideNat
<1>2. IsFiniteSet(0 .. Cap[c] - 1) /\ Cardinality(0 .. Cap[c] - 1) = Cap[c]
  <2> DEFINE k == Cap[c]
  <2>1. k \in Nat \ {0}
    BY <1>1
  <2> HIDE DEF k
  <2>2. 0 \in Int /\ k - 1 \in Int /\ ~ (0 > k - 1) /\ (k - 1) - 0 + 1 = k
    BY <2>1
  <2>3. IsFiniteSet(0 .. k - 1) /\ Cardinality(0 .. k - 1) = k
    BY <2>2, FS_Interval
  <2> QED
    BY <2>3 DEF k
<1>3. f \in Surjection(0 .. Cap[c] - 1, all)
  <2>1. \A n \in 0 .. Cap[c] - 1 : f[n] \in all
    BY DEF Blocks
  <2>2. \A x \in all : \E n \in 0 .. Cap[c] - 1 : f[n] = x
    BY DEF Blocks
  <2> QED
    BY <2>1, <2>2 DEF Surjection
<1>4. IsFiniteSet(all) /\ Cardinality(all) <= Cap[c]
  BY <1>2, <1>3, FS_Surjection
<1>5. Held(c) \subseteq all
  <2> SUFFICES ASSUME NEW x \in live, x[1] = c
               PROVE  x \in all
    BY DEF Held
  <2>1. x \in Class \X Nat /\ x[2] \in Blocks(x[1])
    BY DEF Whole, Types, InsidePool, InRegion
  <2> QED
    BY <2>1
<1> HIDE DEF all, f
<1>6. Cardinality(Held(c)) <= Cardinality(all)
      /\ (Cardinality(all) = Cardinality(Held(c)) => all = Held(c))
  BY <1>4, <1>5, FS_Subset
<1>7. Cardinality(Held(c)) \in Nat /\ Cardinality(all) \in Nat
  BY <1>4, HeldFinite, FS_CardinalityType
<1>8. Cardinality(Held(c)) <= Cap[c]
  BY <1>1, <1>4, <1>6, <1>7
<1>9. Cardinality(Held(c)) = Cap[c] => \A a \in Blocks(c) : <<c, a>> \in live
  <2>1. Cardinality(Held(c)) = Cap[c] => all = Held(c)
    BY <1>1, <1>4, <1>6, <1>7
  <2> QED
    BY <2>1 DEF all, Held
<1>10. (Cap[c] - Cardinality(Held(c))) % Mod = Cap[c] - Cardinality(Held(c))
  BY <1>1, <1>7, <1>8
<1> QED
  BY <1>8, <1>9, <1>10 DEF Whole, FreesExact

(* The head of a class whose blocks are all held is behind its region. *)
LEMMA HeadBehind ==
  ASSUME Whole, NEW c \in Class, Cardinality(Held(c)) = Cap[c]
  PROVE  head[c] = Limit(c) /\ freed[c] = <<>>
<1>1. Chain(c) /\ freed[c] \in Seq(Nat)
  BY DEF Whole, Types
<1>2. \A a \in Blocks(c) : <<c, a>> \in live
  BY HeldBound
<1>3. freed[c] = <<>>
  <2> SUFFICES ASSUME freed[c] # <<>> PROVE FALSE
    OBVIOUS
  <2>1. 1 \in 1 .. Len(freed[c])
    BY <1>1, EmptySeq, LenProperties
  <2>2. freed[c][1] \in Blocks(c)
    BY <2>1, <1>1 DEF Chain
  <2>3. ~ (<<c, freed[c][1]>> \in live /\ \E i \in 1 .. Len(freed[c]) : freed[c][i] = freed[c][1])
    BY <2>2, <1>1 DEF Chain
  <2> QED
    BY <2>1, <2>2, <2>3, <1>2
<1>4. Top(c) = head[c]
  BY <1>3 DEF Top
<1>5. head[c] \notin Blocks(c)
  <2> SUFFICES ASSUME head[c] \in Blocks(c) PROVE FALSE
    OBVIOUS
  <2>1. \A a \in Blocks(c) : a < Top(c) <=> \/ <<c, a>> \in live
                                           \/ \E i \in 1 .. Len(freed[c]) : freed[c][i] = a
    BY <1>1 DEF Chain
  <2>2. head[c] < head[c]
    BY <2>1, <1>2, <1>4
  <2> QED
    BY <2>2, BlockPlace
<1> QED
  BY <1>1, <1>3, <1>4, <1>5 DEF Chain

(* While a class has a block left, its head is a block nobody holds. *)
LEMMA HeadFree ==
  ASSUME Whole, NEW c \in Class, Cardinality(Held(c)) < Cap[c]
  PROVE  /\ head[c] \in Blocks(c)
         /\ <<c, head[c]>> \notin live
<1>1. Cardinality(Held(c)) < Cap[c]
  OBVIOUS
<1>2. Chain(c) /\ freed[c] \in Seq(Nat)
  BY DEF Whole, Types
<1>3. CASE freed[c] = <<>>
  <2>1. Len(freed[c]) = 0 /\ Top(c) = head[c]
    BY <1>3 DEF Top
  <2>2. head[c] # Limit(c)
    <3> SUFFICES ASSUME head[c] = Limit(c) PROVE FALSE
      OBVIOUS
    <3>1. ASSUME NEW a \in Blocks(c)
          PROVE  a < Limit(c)
      <4>1. a \in Nat /\ a + Stride(c) <= Limit(c)
        BY BlockPlace
      <4>2. Stride(c) \in Nat \ {0} /\ Limit(c) \in Nat
        BY StrideNat
      <4> QED
        BY <4>1, <4>2
    <3>2. \A a \in Blocks(c) : <<c, a>> \in live
      BY <3>1, <2>1, <1>2 DEF Chain
    <3> QED
      BY <3>2, <1>1, AllHeld, HeldFinite
  <2>3. head[c] \in Blocks(c) /\ head[c] \in Nat
    BY <2>1, <2>2, <1>2, BlockPlace DEF Chain
  <2> QED
    BY <2>1, <2>3, <1>1, <1>2 DEF Chain
<1>4. CASE freed[c] # <<>>
  <2>1. 1 \in 1 .. Len(freed[c])
    BY <1>2, <1>4, EmptySeq, LenProperties
  <2>2. head[c] = freed[c][1] /\ freed[c][1] \in Blocks(c)
    BY <1>2, <1>4, <2>1 DEF Chain
  <2> QED
    BY <1>1, <1>2, <2>1, <2>2 DEF Chain
<1> QED
  BY <1>3, <1>4

(* A step that leaves a class alone leaves its chain alone. *)
LEMMA ChainSame ==
  ASSUME NEW c \in Class, Chain(c), freed[c] \in Seq(Nat),
         freed'[c] = freed[c], head'[c] = head[c],
         \A a \in Blocks(c) : mem'[a] = mem[a],
         \A a \in Blocks(c) : <<c, a>> \in live' <=> <<c, a>> \in live
  PROVE  Chain(c)'
<1>1. Len(freed[c]) \in Nat
  BY LenProperties
<1>2. Top(c)' = Top(c)
  <2>1. CASE freed[c] = <<>>
    BY <2>1 DEF Top
  <2>2. CASE freed[c] # <<>>
    <3>1. Len(freed[c]) \in 1 .. Len(freed[c])
      BY <1>1, <2>2, EmptySeq, LenProperties
    <3>2. freed[c][Len(freed[c])] \in Blocks(c)
      BY <3>1 DEF Chain
    <3> QED
      BY <3>2 DEF Top
  <2> QED
    BY <2>1, <2>2
<1>3. \A i \in 1 .. Len(freed[c]) - 1 : i \in 1 .. Len(freed[c])
  BY <1>1
<1>4. (Blocks(c))' = Blocks(c) /\ (Limit(c))' = Limit(c)
  BY DEF Blocks, Limit, Stride
<1>5. \A i \in 1 .. Len(freed[c]) - 1 : mem'[freed[c][i]] = freed[c][i+1]
  BY <1>3 DEF Chain
<1>6. \A i \in 1 .. Len(freed[c]) : freed[c][i] \in Blocks(c)
  BY DEF Chain
<1>7. freed'[c] # <<>> => head'[c] = freed'[c][1]
  BY DEF Chain
<1>8. \A i, j \in 1 .. Len(freed[c]) : freed[c][i] = freed[c][j] => i = j
  BY DEF Chain
<1>9. Top(c) \in Blocks(c) \cup {Limit(c)}
  BY DEF Chain
<1>10. ASSUME NEW a \in Blocks(c)
       PROVE  /\ a >= Top(c) => mem'[a] = 0
              /\ a < Top(c) <=> \/ <<c, a>> \in live'
                                \/ \E i \in 1 .. Len(freed[c]) : freed[c][i] = a
              /\ ~ (<<c, a>> \in live' /\ \E i \in 1 .. Len(freed[c]) : freed[c][i] = a)
  BY <1>10 DEF Chain
<1> QED
  BY <1>2, <1>4, <1>5, <1>6, <1>7, <1>8, <1>9, <1>10 DEF Chain

-----------------------------------------------------------------------------
(* The chain of the class that is served *)

Freed(c, a) == \E i \in 1 .. Len(freed[c]) : freed[c][i] = a

(* Chain as facts about freed'[c]: what a step has to establish. *)
LEMMA ChainNext ==
  ASSUME NEW c \in Class,
         \A i \in 1 .. Len(freed'[c]) : freed'[c][i] \in Blocks(c),
         freed'[c] # <<>> => head'[c] = freed'[c][1],
         \A i \in 1 .. Len(freed'[c]) - 1 : mem'[freed'[c][i]] = freed'[c][i+1],
         \A i, j \in 1 .. Len(freed'[c]) : freed'[c][i] = freed'[c][j] => i = j,
         Top(c)' \in Blocks(c) \cup {Limit(c)},
         \A a \in Blocks(c) :
           /\ a >= Top(c)' => mem'[a] = 0
           /\ a < Top(c)' <=> <<c, a>> \in live' \/ Freed(c, a)'
           /\ ~ (<<c, a>> \in live' /\ Freed(c, a)')
  PROVE  Chain(c)'
<1>1. (Blocks(c))' = Blocks(c) /\ (Limit(c))' = Limit(c)
  BY DEF Blocks, Limit, Stride
<1> QED
  BY <1>1 DEF Chain, Freed

LEMMA AllocChain ==
  ASSUME Whole, NEW c \in Class, Cardinality(Held(c)) < Cap[c],
         head'[c] = After(c, mem[head[c]]),
         freed'[c] = IF freed[c] = <<>> THEN freed[c] ELSE Tail(freed[c]),
         mem' = mem,
         live' = live \cup {<<c, head[c]>>}
  PROVE  Chain(c)'
<1> DEFINE h == head[c]
           f == freed[c]
           n == Len(f)
           g == freed'[c]
           k == Len(g)
<1>1. h \in Blocks(c) /\ <<c, h>> \notin live /\ h \in Nat
  BY HeadFree, BlockPlace
<1>2. Chain(c) /\ f \in Seq(Nat) /\ n \in Nat
  BY LenProperties DEF Whole, Types
<1>3. \A a \in Blocks(c) : a \in Nat \ {0}
  BY BlockPlace
<1>4. Limit(c) \in Nat \ {0}
  BY StrideNat
<1>5. \A a \in Blocks(c) : <<c, a>> \in live' <=> <<c, a>> \in live \/ a = h
  OBVIOUS
<1>6. \A b \in Blocks(c) :
        /\ b >= Top(c) => mem[b] = 0
        /\ b < Top(c) <=> <<c, b>> \in live \/ Freed(c, b)
        /\ ~ (<<c, b>> \in live /\ Freed(c, b))
  BY <1>2 DEF Chain, Freed
<1>7. /\ \A i \in 1 .. n : f[i] \in Blocks(c)
      /\ f # <<>> => h = f[1]
      /\ \A i \in 1 .. n - 1 : mem[f[i]] = f[i+1]
      /\ \A i, j \in 1 .. n : f[i] = f[j] => i = j
      /\ Top(c) \in Blocks(c) \cup {Limit(c)}
  BY <1>2 DEF Chain
<1>8. f = <<>> <=> n = 0
  BY <1>2, EmptySeq, LenProperties
<1>9. /\ \A a : Freed(c, a) <=> \E i \in 1 .. n : f[i] = a
      /\ \A a : Freed(c, a)' <=> \E i \in 1 .. k : g[i] = a
  BY DEF Freed
<1>10. /\ Top(c) = IF f = <<>> THEN h ELSE mem[f[n]]
       /\ Top(c)' = IF g = <<>> THEN head'[c] ELSE mem[g[k]]
  BY DEF Top
<1>11. head'[c] = IF mem[h] = 0 THEN h + Stride(c) ELSE mem[h]
  BY DEF After
<1> SUFFICES /\ \A i \in 1 .. k : g[i] \in Blocks(c)
             /\ g # <<>> => head'[c] = g[1]
             /\ \A i \in 1 .. k - 1 : mem[g[i]] = g[i+1]
             /\ \A i, j \in 1 .. k : g[i] = g[j] => i = j
             /\ Top(c)' \in Blocks(c) \cup {Limit(c)}
             /\ \A a \in Blocks(c) :
                  /\ a >= Top(c)' => mem[a] = 0
                  /\ a < Top(c)' <=> <<c, a>> \in live' \/ Freed(c, a)'
                  /\ ~ (<<c, a>> \in live' /\ Freed(c, a)')
  BY ChainNext
<1>12. CASE f = <<>>
  <2>1. g = <<>> /\ k = 0
    BY <1>12, EmptySeq
  <2> HIDE DEF f, g, n, k
  <2>2. mem[h] = 0
    BY <1>1, <1>6, <1>10, <1>12
  <2>3. Top(c)' = h + Stride(c) /\ Top(c) = h
    BY <2>1, <2>2, <1>10, <1>11, <1>12
  <2>4. Top(c)' \in Blocks(c) \cup {Limit(c)}
    BY <2>3, <1>1, BlockPlace
  <2>5. ASSUME NEW a \in Blocks(c)
        PROVE  /\ a >= Top(c)' => mem[a] = 0
               /\ a < Top(c)' <=> <<c, a>> \in live' \/ Freed(c, a)'
               /\ ~ (<<c, a>> \in live' /\ Freed(c, a)')
    <3>1. ~ Freed(c, a)' /\ ~ Freed(c, a)
      BY <2>1, <1>8, <1>9, <1>12
    <3>2. a \in Nat /\ Stride(c) \in Nat \ {0}
      BY <1>3, StrideNat
    <3>3. a < h + Stride(c) <=> a <= h
      BY <3>2, <1>1, BlocksApart
    <3>4. a < h <=> <<c, a>> \in live
      BY <3>1, <2>3, <1>6
    <3>5. a >= h + Stride(c) => mem[a] = 0
      <4>1. a >= h + Stride(c) => a >= Top(c)
        BY <3>2, <2>3, <1>1
      <4> QED
        BY <4>1, <1>6
    <3>6. a <= h <=> <<c, a>> \in live'
      BY <3>2, <3>4, <1>1, <1>5
    <3> QED
      BY <3>1, <3>3, <3>5, <3>6, <2>3
  <2> QED
    BY <2>1, <2>4, <2>5
<1>13. CASE f # <<>>
  <2>1. n \in Nat \ {0} /\ 1 \in 1 .. n /\ n \in 1 .. n
    BY <1>2, <1>8, <1>13
  <2>2. /\ k = n - 1
        /\ \A i \in 1 .. n - 1 : g[i] = f[i+1]
        /\ g \in Seq(Nat)
    <3>1. g = Tail(f)
      BY <1>13
    <3> HIDE DEF g, f
    <3> QED
      BY <3>1, <1>2, <1>13, HeadTailProperties
  <2>3. g = <<>> <=> k = 0
    BY <2>2, EmptySeq, LenProperties
  <2> HIDE DEF f, g, n, k
  <2>4. mem[h] # 0
    <3>1. CASE n = 1
      BY <3>1, <1>3, <1>4, <1>7, <1>10, <1>13
    <3>2. CASE n # 1
      <4>1. 1 \in 1 .. n - 1 /\ 1 + 1 \in 1 .. n
        BY <3>2, <2>1
      <4>2. mem[f[1]] = f[1 + 1] /\ f[1 + 1] \in Blocks(c)
        BY <4>1, <1>7
      <4> QED
        BY <4>2, <1>3, <1>7, <1>13
    <3> QED
      BY <3>1, <3>2
  <2>5. head'[c] = mem[h] /\ h = f[1]
    BY <2>4, <1>7, <1>11, <1>13
  <2>6. Top(c)' = Top(c)
    <3>1. CASE n = 1
      BY <3>1, <2>2, <2>3, <2>5, <1>10, <1>13
    <3>2. CASE n # 1
      <4>1. n - 1 \in 1 .. n - 1 /\ (n - 1) + 1 = n /\ k # 0
        BY <3>2, <2>1, <2>2
      <4> QED
        BY <4>1, <2>2, <2>3, <1>10, <1>13
    <3> QED
      BY <3>1, <3>2
  <2>7. \A i \in 1 .. k : i + 1 \in 1 .. n /\ g[i] = f[i+1]
    BY <2>1, <2>2
  <2>8. g # <<>> => head'[c] = g[1]
    <3> SUFFICES ASSUME k # 0
                 PROVE  head'[c] = g[1]
      BY <2>3
    <3>1. 1 \in 1 .. k /\ 1 \in 1 .. n - 1
      BY <2>1, <2>2
    <3> QED
      BY <3>1, <2>5, <2>7, <1>7
  <2>9. ASSUME NEW i \in 1 .. k - 1
        PROVE  mem[g[i]] = g[i+1]
    <3>1. i \in 1 .. k /\ i + 1 \in 1 .. k /\ i + 1 \in 1 .. n - 1
      BY <2>1, <2>2
    <3>2. g[i] = f[i+1] /\ g[i+1] = f[(i+1)+1]
      BY <3>1, <2>7
    <3> QED
      BY <3>1, <3>2, <1>7
  <2>10. ASSUME NEW i \in 1 .. k, NEW j \in 1 .. k, g[i] = g[j]
         PROVE  i = j
    <3>1. f[i+1] = f[j+1] /\ i + 1 \in 1 .. n /\ j + 1 \in 1 .. n
      BY <2>7, <2>10
    <3>2. i + 1 = j + 1
      BY <3>1, <1>7
    <3> QED
      BY <3>2
  <2>11. ASSUME NEW a \in Blocks(c)
         PROVE  /\ a >= Top(c)' => mem[a] = 0
                /\ a < Top(c)' <=> <<c, a>> \in live' \/ Freed(c, a)'
                /\ ~ (<<c, a>> \in live' /\ Freed(c, a)')
    <3>1. ASSUME NEW i \in 1 .. k, g[i] = a
          PROVE  (\E j \in 1 .. n : f[j] = a) /\ a # h
      <4>1. i + 1 \in 1 .. n /\ i + 1 # 1 /\ f[i+1] = a
        BY <3>1, <2>7
      <4> QED
        BY <4>1, <2>1, <2>5, <1>7
    <3>2. ASSUME NEW i \in 1 .. n, f[i] = a, a # h
          PROVE  \E j \in 1 .. k : g[j] = a
      <4>1. i # 1
        BY <3>2, <2>5
      <4>2. i - 1 \in 1 .. k /\ (i - 1) + 1 = i
        BY <4>1, <2>1, <2>2
      <4>3. g[i - 1] = f[i]
        BY <4>2, <2>7
      <4> QED
        BY <4>2, <4>3, <3>2
    <3>3. Freed(c, a)' <=> Freed(c, a) /\ a # h
      BY <3>1, <3>2, <1>9
    <3>4. Freed(c, h)
      BY <2>1, <2>5, <1>9
    <3> QED
      BY <3>3, <3>4, <2>6, <1>1, <1>5, <1>6
  <2>12. \A i \in 1 .. k : g[i] \in Blocks(c)
    BY <2>7, <1>7
  <2> QED
    BY <2>6, <2>8, <2>9, <2>10, <2>11, <2>12, <1>7
<1> QED
  BY <1>12, <1>13

LEMMA FreeChain ==
  ASSUME Whole, NEW c \in Class, NEW a \in Blocks(c), <<c, a>> \in live,
         mem' = [mem EXCEPT ![a] = head[c]],
         head'[c] = a,
         freed'[c] = <<a>> \o freed[c],
         live' = live \ {<<c, a>>}
  PROVE  Chain(c)'
<1> DEFINE f == freed[c]
           n == Len(f)
           g == freed'[c]
           k == Len(g)
<1>1. Chain(c) /\ f \in Seq(Nat) /\ a \in Nat /\ n \in Nat
  BY BlockPlace, LenProperties DEF Whole, Types
<1>2. <<a>> \in Seq(Nat) /\ Len(<<a>>) = 1 /\ <<a>>[1] = a
  BY <1>1
<1>3. /\ k = n + 1
      /\ g[1] = a
      /\ \A i \in 1 .. n : g[i+1] = f[i]
      /\ g # <<>>
  <2>1. Len(<<a>> \o f) = 1 + n
        /\ \A i \in 1 .. 1 + n :
             (<<a>> \o f)[i] = IF i <= 1 THEN <<a>>[i] ELSE f[i - 1]
    BY <1>1, <1>2, ConcatProperties
  <2>2. g = <<a>> \o f
    OBVIOUS
  <2>3. g \in Seq(Nat)
    BY <2>2, <1>1, <1>2, ConcatProperties
  <2>4. g = <<>> => k = 0
    BY EmptySeq
  <2> HIDE DEF f, n, g
  <2>5. \A i \in 1 .. n : i + 1 \in 1 .. 1 + n /\ ~ (i + 1 <= 1) /\ (i + 1) - 1 = i
    BY <1>1
  <2>6. 1 \in 1 .. 1 + n
    BY <1>1
  <2>7. k = n + 1 /\ g[1] = a
    BY <1>1, <1>2, <2>1, <2>2, <2>6
  <2>8. \A i \in 1 .. n : g[i+1] = f[i]
    BY <2>1, <2>2, <2>5
  <2>9. g # <<>>
    BY <2>4, <2>7, <1>1
  <2> QED
    BY <2>7, <2>8, <2>9
<1>4. /\ \A i \in 1 .. n : f[i] \in Blocks(c)
      /\ f # <<>> => head[c] = f[1]
      /\ \A i \in 1 .. n - 1 : mem[f[i]] = f[i+1]
      /\ \A i, j \in 1 .. n : f[i] = f[j] => i = j
      /\ Top(c) \in Blocks(c) \cup {Limit(c)}
  BY <1>1 DEF Chain
<1>5. \A i \in 1 .. n : f[i] # a
  BY <1>1 DEF Chain
<1>6. f = <<>> <=> n = 0
  BY <1>1, EmptySeq, LenProperties
<1>7. ASSUME NEW b \in Blocks(c)
      PROVE  b \in Addr
  <2>1. b \in Nat /\ Chunk[c] \in Nat
    BY BlockPlace, StrideNat
  <2>2. b \in b .. b + Chunk[c]
    BY <2>1
  <2> QED
    BY <2>2, BlockAddr
<1>8. mem \in [Addr -> Nat \cup {Junk}]
  BY DEF Whole, Types
<1>9. /\ mem'[a] = head[c]
      /\ \A b \in Blocks(c) : b # a => mem'[b] = mem[b]
  BY <1>7, <1>8
<1>10. Top(c) = IF n = 0 THEN head[c] ELSE mem[f[n]]
  BY <1>6 DEF Top
<1>11. Top(c)' = mem'[g[k]]
  BY <1>3 DEF Top
<1>12. /\ \A b : Freed(c, b) <=> \E i \in 1 .. n : f[i] = b
       /\ \A b : Freed(c, b)' <=> \E i \in 1 .. k : g[i] = b
  BY DEF Freed
<1>13. \A b \in Blocks(c) :
         /\ b >= Top(c) => mem[b] = 0
         /\ b < Top(c) <=> <<c, b>> \in live \/ Freed(c, b)
         /\ ~ (<<c, b>> \in live /\ Freed(c, b))
  BY <1>1 DEF Chain, Freed
<1> SUFFICES /\ \A i \in 1 .. k : g[i] \in Blocks(c)
             /\ g # <<>> => head'[c] = g[1]
             /\ \A i \in 1 .. k - 1 : mem'[g[i]] = g[i+1]
             /\ \A i, j \in 1 .. k : g[i] = g[j] => i = j
             /\ Top(c)' \in Blocks(c) \cup {Limit(c)}
             /\ \A b \in Blocks(c) :
                  /\ b >= Top(c)' => mem'[b] = 0
                  /\ b < Top(c)' <=> <<c, b>> \in live' \/ Freed(c, b)'
                  /\ ~ (<<c, b>> \in live' /\ Freed(c, b)')
  BY ChainNext
<1> HIDE DEF f, n, g, k
<1>14. Top(c)' = Top(c)
  <2>1. CASE n = 0
    BY <2>1, <1>3, <1>9, <1>10, <1>11
  <2>2. CASE n # 0
    <3>1. n \in 1 .. n
      BY <2>2, <1>1
    <3> QED
      BY <3>1, <2>2, <1>3, <1>4, <1>5, <1>9, <1>10, <1>11
  <2> QED
    BY <2>1, <2>2
<1>15. ASSUME NEW i \in 1 .. k, i # 1
       PROVE  i - 1 \in 1 .. n /\ (i - 1) + 1 = i /\ g[i] = f[i - 1]
  <2>1. i - 1 \in 1 .. n /\ (i - 1) + 1 = i
    BY <1>1, <1>3, <1>15
  <2> QED
    BY <2>1, <1>3
<1>16. \A i \in 1 .. k : g[i] \in Blocks(c)
  BY <1>3, <1>4, <1>15
<1>17. ASSUME NEW i \in 1 .. k - 1
       PROVE  mem'[g[i]] = g[i+1]
  <2>1. i \in 1 .. n /\ i \in 1 .. k
    BY <1>1, <1>3
  <2>2. g[i+1] = f[i]
    BY <2>1, <1>3
  <2>3. CASE i = 1
    <3>1. g[i] = a /\ n # 0
      BY <2>1, <2>3, <1>3
    <3> QED
      BY <3>1, <2>2, <2>3, <1>4, <1>6, <1>9
  <2>4. CASE i # 1
    <3>1. g[i] = f[i - 1] /\ i - 1 \in 1 .. n /\ (i - 1) + 1 = i
      BY <2>1, <2>4, <1>15
    <3>2. i - 1 \in 1 .. n - 1
      BY <3>1, <2>1, <1>1
    <3>3. mem[f[i - 1]] = f[i]
      BY <3>1, <3>2, <1>4
    <3> QED
      BY <3>1, <3>3, <2>2, <1>4, <1>5, <1>9
  <2> QED
    BY <2>3, <2>4
<1>18. ASSUME NEW i \in 1 .. k, NEW j \in 1 .. k, g[i] = g[j]
       PROVE  i = j
  <2>1. ASSUME NEW m \in 1 .. k, m # 1
        PROVE  g[m] # g[1]
    <3>1. m - 1 \in 1 .. n /\ g[m] = f[m - 1]
      BY <2>1, <1>15
    <3> QED
      BY <3>1, <1>3, <1>5
  <2>2. CASE i # 1 /\ j # 1
    <3>1. i - 1 \in 1 .. n /\ j - 1 \in 1 .. n /\ f[i - 1] = f[j - 1]
      BY <2>2, <1>15, <1>18
    <3>2. i - 1 = j - 1
      BY <3>1, <1>4
    <3> QED
      BY <3>2
  <2>3. CASE i = 1 \/ j = 1
    BY <2>1, <2>3, <1>18
  <2> QED
    BY <2>2, <2>3
<1>19. ASSUME NEW b \in Blocks(c)
       PROVE  /\ b >= Top(c)' => mem'[b] = 0
              /\ b < Top(c)' <=> <<c, b>> \in live' \/ Freed(c, b)'
              /\ ~ (<<c, b>> \in live' /\ Freed(c, b)')
  <2>1. Freed(c, b)' <=> b = a \/ Freed(c, b)
    <3>1. 1 \in 1 .. k /\ \A i \in 1 .. n : i + 1 \in 1 .. k
      BY <1>1, <1>3
    <3>2. b = a => Freed(c, b)'
      BY <3>1, <1>3, <1>12
    <3>3. Freed(c, b) => Freed(c, b)'
      BY <3>1, <1>3, <1>12
    <3>4. ASSUME NEW i \in 1 .. k, g[i] = b
          PROVE  b = a \/ Freed(c, b)
      BY <3>4, <1>3, <1>12, <1>15
    <3> QED
      BY <3>2, <3>3, <3>4, <1>12
  <2>2. <<c, b>> \in live' <=> <<c, b>> \in live /\ b # a
    OBVIOUS
  <2>3. a < Top(c)
    BY <1>13
  <2>4. Top(c) \in Nat
    BY <1>4, BlockPlace, StrideNat
  <2>5. b >= Top(c) => b # a
    BY <2>3, <2>4, <1>1
  <2> QED
    BY <2>1, <2>2, <2>3, <2>5, <1>9, <1>13, <1>14
<1> QED
  BY <1>3, <1>4, <1>14, <1>16, <1>17, <1>18, <1>19

-----------------------------------------------------------------------------
(* The steps *)

(* A held block is a block of its class, and of no other. *)
LEMMA HeldBlock ==
  ASSUME Whole, NEW x \in live
  PROVE  /\ x[1] \in Class /\ x[2] \in Blocks(x[1])
         /\ x = <<x[1], x[2]>>
         /\ Id(x[2]) = x[1]
<1>1. x \in Class \X Nat /\ x[2] \in Blocks(x[1])
  BY DEF Whole, Types, InsidePool, InRegion
<1> QED
  BY <1>1, OneClass

HeadsNat == \A c \in Class : Chain(c) /\ freed[c] \in Seq(Nat) => head[c] \in Nat

LEMMA HeadNat == HeadsNat
<1> SUFFICES ASSUME NEW c \in Class, Chain(c), freed[c] \in Seq(Nat)
             PROVE  head[c] \in Nat
  BY DEF HeadsNat
<1>1. Blocks(c) \subseteq Nat /\ Limit(c) \in Nat
  BY BlockPlace, StrideNat
<1>2. CASE freed[c] = <<>>
  BY <1>1, <1>2 DEF Chain, Top
<1>3. CASE freed[c] # <<>>
  <2>1. 1 \in 1 .. Len(freed[c])
    BY <1>3, EmptySeq, LenProperties
  <2> QED
    BY <2>1, <1>1, <1>3 DEF Chain
<1> QED
  BY <1>2, <1>3

LEMMA InitInv ==
  ASSUME Init
  PROVE  Whole
<1>1. Types
  <2>1. mem \in [Addr -> Nat \cup {Junk}] /\ head \in [Class -> Nat \cup {Junk}]
    BY DEF Init
  <2>2. frees \in [Class -> 0 .. Mod - 1]
    BY DEF Init
  <2>3. freed \in [Class -> Seq(Nat)]
    BY EmptySeq DEF Init
  <2> QED
    BY <2>1, <2>2, <2>3 DEF Init, Types
<1>2. InsidePool
  BY DEF Init, InsidePool
<1>3. IsFiniteSet(live) /\ \A c \in Class : Cardinality(Held(c)) = 0
  BY FS_EmptySet DEF Init, Held
<1>4. FreesExact
  <2>1. \A c \in Class : (Cap[c] - 0) % Mod = Cap[c]
    OBVIOUS
  <2> QED
    BY <1>3, <2>1 DEF Init, FreesExact
<1>5. ASSUME NEW c \in Class
      PROVE  Chain(c)
  <2>1. freed[c] = <<>> /\ Len(freed[c]) = 0 /\ Top(c) = Base[c] /\ live = {}
    BY DEF Init, Top
  <2>2. Base[c] \in Blocks(c) /\ Base[c] \in Nat
    BY BaseBlock, StrideNat
  <2>3. ASSUME NEW a \in Blocks(c)
        PROVE  ~ (a < Base[c]) /\ mem[a] = 0
    <3>1. a \in Nat /\ Base[c] <= a /\ Chunk[c] \in Nat
      BY BlockPlace, StrideNat
    <3>2. a \in a .. a + Chunk[c]
      BY <3>1
    <3>3. a \in Addr
      BY <3>2, BlockAddr
    <3> QED
      BY <3>1, <3>3, <2>2 DEF Init
  <2>4. \A i \in 1 .. Len(freed[c]) : FALSE
    BY <2>1
  <2>5. 1 .. Len(freed[c]) - 1 = {}
    BY <2>1
  <2> QED
    BY <2>1, <2>2, <2>3, <2>4, <2>5 DEF Chain
<1> QED
  BY <1>1, <1>2, <1>3, <1>4, <1>5 DEF Whole

(* What pl_alloc does with class c. *)
Served(size, c, next) ==
  /\ head' = [head EXCEPT ![c] = After(c, next)]
  /\ frees' = [frees EXCEPT ![c] = (@ - 1) % Mod]
  /\ live' = live \cup {<<c, head[c]>>}
  /\ freed' = [freed EXCEPT ![c] = IF @ = <<>> THEN @ ELSE Tail(@)]
  /\ asked' = {size}
  /\ ret' = Data(c, head[c])
  /\ mem' = mem

LEMMA AllocServed ==
  ASSUME NEW size \in Sizes, Alloc(size)
  PROVE  \E c \in Class : \E next \in Header(c) : Serves(size, c) /\ Served(size, c, next)
BY DEF Alloc, Served

(* A class that has a block left serves one of its blocks. *)
LEMMA AllocInv ==
  ASSUME Whole, NEW size \in Sizes, NEW c \in Class, NEW next \in Header(c),
         Cardinality(Held(c)) < Cap[c], Served(size, c, next)
  PROVE  Whole'
<1>0. next = mem[head[c]]
  <2>1. head[c] \in Blocks(c)
    BY HeadFree
  <2>2. head[c] \in Nat /\ Chunk[c] \in Nat
    BY <2>1, BlockPlace, StrideNat
  <2>3. head[c] \in head[c] .. head[c] + Chunk[c]
    BY <2>2
  <2>4. head[c] \in Addr
    BY <2>1, <2>3, BlockAddr
  <2> QED
    BY <2>4 DEF Header
<1>1. /\ Cardinality(Held(c)) < Cap[c]
      /\ head' = [head EXCEPT ![c] = After(c, mem[head[c]])]
      /\ frees' = [frees EXCEPT ![c] = (@ - 1) % Mod]
      /\ live' = live \cup {<<c, head[c]>>}
      /\ freed' = [freed EXCEPT ![c] = IF @ = <<>> THEN @ ELSE Tail(@)]
      /\ asked' = {size}
      /\ ret' = Data(c, head[c])
      /\ mem' = mem
  BY <1>0 DEF Served
<1> DEFINE h == head[c]
<1>2. /\ h \in Blocks(c) /\ <<c, h>> \notin live /\ h \in Nat
      /\ Cardinality(Held(c)) < Cap[c]
  BY <1>1, HeadFree, BlockPlace
<1>3. /\ mem \in [Addr -> Nat \cup {Junk}]
      /\ head \in [Class -> Nat \cup {Junk}]
      /\ frees \in [Class -> 0 .. Mod - 1]
      /\ live \subseteq Class \X Nat
      /\ freed \in [Class -> Seq(Nat)]
  BY DEF Whole, Types
<1>4. \A d \in Class : Chain(d)
  BY DEF Whole
<1>5. freed'[c] \in Seq(Nat)
  <2>1. freed[c] # <<>> => Tail(freed[c]) \in Seq(Nat)
    BY <1>3, HeadTailProperties
  <2> QED
    BY <2>1, <1>1, <1>3
<1>6. ASSUME NEW d \in Class
      PROVE  Chain(d)'
  <2>1. CASE d = c
    <3>1. Chain(c)'
      <4>1. head'[c] = After(c, mem[head[c]])
            /\ freed'[c] = IF freed[c] = <<>> THEN freed[c] ELSE Tail(freed[c])
        BY <1>1, <1>3
      <4> QED
        BY <4>1, <1>1, AllocChain
    <3> QED
      BY <3>1, <2>1
  <2>2. CASE d # c
    <3>1. freed'[d] = freed[d] /\ head'[d] = head[d]
      BY <2>2, <1>1, <1>3
    <3>2. \A a : <<d, a>> \in live' <=> <<d, a>> \in live
      BY <2>2, <1>1
    <3> QED
      BY <3>1, <3>2, <1>1, <1>3, <1>4, ChainSame
  <2> QED
    BY <2>1, <2>2
<1>7. head'[c] \in Nat
  <2>1. HeadsNat'
    BY HeadNat, PTL
  <2> QED
    BY <2>1, <1>5, <1>6 DEF HeadsNat
<1>8. frees[c] \in 1 .. Cap[c] /\ Cap[c] \in Nat /\ Cap[c] < Mod
      /\ frees[c] = Cap[c] - Cardinality(Held(c))
  BY <1>2, HeldFinite, HeldBound
<1>9. (frees[c] - 1) % Mod = frees[c] - 1 /\ frees[c] - 1 \in 0 .. Mod - 1
  BY <1>8
<1>10. Types'
  <2>1. mem' \in [Addr -> Nat \cup {Junk}]
    BY <1>1, <1>3
  <2>2. head' \in [Class -> Nat \cup {Junk}]
    BY <1>1, <1>3, <1>7
  <2>3. frees' \in [Class -> 0 .. Mod - 1]
    BY <1>1, <1>3, <1>9
  <2>4. live' \subseteq Class \X Nat
    <3>1. <<c, h>> \in Class \X Nat
      BY <1>2
    <3> QED
      BY <3>1, <1>1, <1>3
  <2>5. freed' \in [Class -> Seq(Nat)]
    BY <1>1, <1>3, <1>5
  <2>6. ret' \subseteq Nat /\ asked' \subseteq Sizes
    BY <1>1, <1>2, StrideNat DEF Data
  <2> QED
    BY <2>1, <2>2, <2>3, <2>4, <2>5, <2>6 DEF Types, Addr, Limit, Stride
<1>11. InsidePool'
  <2>1. ASSUME NEW x \in live'
        PROVE  x[2] \in Blocks(x[1])
    <3>1. x \in live \/ x = <<c, h>>
      BY <1>1
    <3>2. <<c, h>>[1] = c /\ <<c, h>>[2] = h
      OBVIOUS
    <3> QED
      BY <3>1, <3>2, <1>2 DEF Whole, InsidePool, InRegion
  <2> QED
    BY <2>1 DEF InsidePool, InRegion, Blocks, Stride
<1>12. IsFiniteSet(live')
  BY <1>1, FS_AddElement DEF Whole
<1>13. ASSUME NEW d \in Class
       PROVE  /\ frees'[d] = Cap[d] - Cardinality(Held(d)')
              /\ frees'[d] \in 0 .. Mod - 1
  <2>1. CASE d = c
    <3>1. Held(c)' = Held(c) \cup {<<c, h>>} /\ <<c, h>> \notin Held(c)
      BY <1>1, <1>2 DEF Held
    <3>2. Cardinality(Held(c)') = Cardinality(Held(c)) + 1
      BY <3>1, HeldFinite, FS_AddElement
    <3>3. frees'[c] = frees[c] - 1
      BY <1>1, <1>3, <1>9
    <3> QED
      BY <3>2, <3>3, <2>1, <1>8, HeldFinite
  <2>2. CASE d # c
    <3>1. \A y \in live \cup live' : y[1] = d => (y \in live' <=> y \in live)
      BY <2>2, <1>1
    <3>2. Held(d)' = Held(d)
      BY <3>1 DEF Held
    <3>3. frees'[d] = frees[d]
      BY <2>2, <1>1, <1>3
    <3> QED
      BY <3>2, <3>3, HeldBound, HeldFinite
  <2> QED
    BY <2>1, <2>2
<1>14. FreesExact'
  <2>1. \A k \in 0 .. Mod - 1 : k % Mod = k
    OBVIOUS
  <2> QED
    BY <1>13, <2>1 DEF FreesExact
<1> QED
  BY <1>6, <1>10, <1>11, <1>12, <1>14 DEF Whole

LEMMA FreeInv ==
  ASSUME Whole, NEW x \in live, Free(x)
  PROVE  Whole'
<1> DEFINE c == x[1]
           a == x[2]
<1>1. c \in Class /\ a \in Blocks(c) /\ x = <<c, a>> /\ Id(a) = c /\ a \in Nat
  BY HeldBlock, BlockPlace
<1>2. /\ mem' = [mem EXCEPT ![a] = head[c]]
      /\ head' = [head EXCEPT ![c] = a]
      /\ frees' = [frees EXCEPT ![c] = (@ + 1) % Mod]
      /\ live' = live \ {x}
      /\ freed' = [freed EXCEPT ![c] = <<a>> \o @]
      /\ asked' = {} /\ ret' = {}
  BY <1>1 DEF Free, Pushed
<1> HIDE DEF c, a
<1>3. /\ mem \in [Addr -> Nat \cup {Junk}]
      /\ head \in [Class -> Nat \cup {Junk}]
      /\ frees \in [Class -> 0 .. Mod - 1]
      /\ live \subseteq Class \X Nat
      /\ freed \in [Class -> Seq(Nat)]
      /\ asked \subseteq Sizes
  BY DEF Whole, Types
<1>4. \A d \in Class : Chain(d)
  BY DEF Whole
<1>5. ASSUME NEW d \in Class
      PROVE  Chain(d)'
  <2>1. CASE d = c
    <3>1. head'[c] = a /\ freed'[c] = <<a>> \o freed[c] /\ live' = live \ {<<c, a>>}
      BY <1>1, <1>2, <1>3
    <3>2. Chain(c)'
      BY <3>1, <1>1, <1>2, FreeChain
    <3> QED
      BY <3>2, <2>1
  <2>2. CASE d # c
    <3>1. freed'[d] = freed[d] /\ head'[d] = head[d]
      BY <2>2, <1>2, <1>3
    <3>2. \A b : <<d, b>> \in live' <=> <<d, b>> \in live
      BY <2>2, <1>1, <1>2
    <3>3. ASSUME NEW b \in Blocks(d)
          PROVE  mem'[b] = mem[b]
      <4>1. b # a
        BY <2>2, <1>1, OneClass
      <4>2. b \in Nat /\ Chunk[d] \in Nat
        BY BlockPlace, StrideNat
      <4>3. b \in b .. b + Chunk[d]
        BY <4>2
      <4>4. b \in Addr
        BY <4>3, BlockAddr
      <4> QED
        BY <4>1, <4>4, <1>2, <1>3
    <3> QED
      BY <3>1, <3>2, <3>3, <1>3, <1>4, ChainSame
  <2> QED
    BY <2>1, <2>2
<1>6. Held(c)' = Held(c) \ {x} /\ x \in Held(c)
  BY <1>1, <1>2 DEF Held, c
<1>7. Cardinality(Held(c)') = Cardinality(Held(c)) - 1 /\ Cardinality(Held(c)) \in Nat \ {0}
  <2>1. IsFiniteSet(Held(c)) /\ Cardinality(Held(c)) \in Nat
    BY <1>1, HeldFinite
  <2>2. Cardinality(Held(c)) # 0
    BY <2>1, <1>6, FS_EmptySet
  <2>3. Cardinality(Held(c) \ {x}) = Cardinality(Held(c)) - 1
    BY <2>1, <1>6, FS_RemoveElement
  <2> QED
    BY <2>1, <2>2, <2>3, <1>6
<1>8. frees[c] = Cap[c] - Cardinality(Held(c)) /\ Cap[c] \in Nat /\ Cap[c] < Mod
      /\ frees[c] \in Nat
  BY <1>1, <1>3, HeldBound
<1>9. frees[c] + 1 \in 0 .. Mod - 1 /\ (frees[c] + 1) % Mod = frees[c] + 1
  BY <1>7, <1>8
<1>10. Types'
  <2>1. mem' \in [Addr -> Nat \cup {Junk}]
    BY <1>1, <1>2, <1>3
  <2>2. head' \in [Class -> Nat \cup {Junk}]
    BY <1>1, <1>2, <1>3
  <2>3. frees' \in [Class -> 0 .. Mod - 1]
    BY <1>2, <1>3, <1>9
  <2>4. live' \subseteq Class \X Nat
    BY <1>2, <1>3
  <2>5. freed' \in [Class -> Seq(Nat)]
    <3>1. <<a>> \o freed[c] \in Seq(Nat)
      <4>1. <<a>> \in Seq(Nat) /\ freed[c] \in Seq(Nat)
        BY <1>1, <1>3
      <4> QED
        BY <4>1, ConcatProperties
    <3> QED
      BY <3>1, <1>2, <1>3
  <2> QED
    BY <2>1, <2>2, <2>3, <2>4, <2>5, <1>2 DEF Types, Addr, Limit, Stride
<1>11. InsidePool'
  BY <1>2 DEF Whole, InsidePool, InRegion, Blocks, Stride
<1>12. IsFiniteSet(live')
  BY <1>2, FS_RemoveElement DEF Whole
<1>13. ASSUME NEW d \in Class
       PROVE  /\ frees'[d] = Cap[d] - Cardinality(Held(d)')
              /\ frees'[d] \in 0 .. Mod - 1
  <2>1. CASE d = c
    <3>1. frees'[c] = frees[c] + 1
      BY <1>1, <1>2, <1>3, <1>9
    <3> QED
      BY <3>1, <2>1, <1>7, <1>8
  <2>2. CASE d # c
    <3>1. \A y \in live \cup live' : y[1] = d => (y \in live' <=> y \in live)
      BY <2>2, <1>1, <1>2
    <3>2. Held(d)' = Held(d)
      BY <3>1 DEF Held
    <3>3. frees'[d] = frees[d]
      BY <2>2, <1>1, <1>2, <1>3
    <3> QED
      BY <3>2, <3>3, HeldBound, HeldFinite
  <2> QED
    BY <2>1, <2>2
<1>14. FreesExact'
  <2>1. \A k \in 0 .. Mod - 1 : k % Mod = k
    OBVIOUS
  <2> QED
    BY <1>13, <2>1 DEF FreesExact
<1> QED
  BY <1>5, <1>10, <1>11, <1>12, <1>14 DEF Whole

(* A caller that writes its block writes no header. *)
LEMMA WriteInv ==
  ASSUME Whole, NEW x \in live, Write(x)
  PROVE  Whole'
<1>1. /\ mem' = [a \in Addr |-> IF a \in Data(x[1], x[2]) THEN Junk ELSE mem[a]]
      /\ head' = head /\ frees' = frees /\ live' = live /\ freed' = freed
      /\ asked' = asked /\ ret' = ret
  BY DEF Write
<1>2. mem \in [Addr -> Nat \cup {Junk}] /\ freed \in [Class -> Seq(Nat)]
  BY DEF Whole, Types
<1>3. ASSUME NEW d \in Class
      PROVE  Chain(d)'
  <2>1. ASSUME NEW b \in Blocks(d)
        PROVE  mem'[b] = mem[b]
    <3>1. b \notin Data(x[1], x[2])
      BY HeldBlock, DataApart
    <3>2. b \in Nat /\ Chunk[d] \in Nat
      BY BlockPlace, StrideNat
    <3>3. b \in b .. b + Chunk[d]
      BY <3>2
    <3>4. b \in Addr
      BY <3>3, BlockAddr
    <3> QED
      BY <3>1, <3>4, <1>1, <1>2
  <2>2. Chain(d)
    BY DEF Whole
  <2> QED
    BY <2>1, <2>2, <1>1, <1>2, ChainSame
<1>4. Types'
  BY <1>1, <1>2 DEF Whole, Types, Addr, Limit, Stride
<1> QED
  BY <1>1, <1>3, <1>4 DEF Whole, InsidePool, InRegion, FreesExact, Held, Blocks, Stride

(* A class that has none left hands out what is behind its region. *)
LEMMA OverrunInv ==
  ASSUME Whole, NEW size \in Sizes, NEW c \in Class, NEW next \in Header(c),
         Cardinality(Held(c)) = Cap[c], Served(size, c, next)
  PROVE  IInv' /\ Overrun'
<1> DEFINE h == <<c, Limit(c)>>
<1>1. head[c] = Limit(c) /\ freed[c] = <<>> /\ Limit(c) \in Nat
  BY HeadBehind, StrideNat
<1>2. /\ live' = live \cup {h}
      /\ head' = [head EXCEPT ![c] = After(c, next)]
      /\ frees' = [frees EXCEPT ![c] = (@ - 1) % Mod]
      /\ freed' = freed
      /\ asked' = {size}
      /\ ret' = Data(c, Limit(c))
      /\ mem' = mem
  <2>1. freed \in [Class -> Seq(Nat)]
    BY DEF Whole, Types
  <2> QED
    BY <1>1, <2>1 DEF Served
<1>3. /\ mem \in [Addr -> Nat \cup {Junk}]
      /\ head \in [Class -> Nat \cup {Junk}]
      /\ frees \in [Class -> 0 .. Mod - 1]
      /\ live \subseteq Class \X Nat
      /\ freed \in [Class -> Seq(Nat)]
  BY DEF Whole, Types
<1>4. Limit(c) \notin Blocks(c)
  <2> SUFFICES ASSUME Limit(c) \in Blocks(c) PROVE FALSE
    OBVIOUS
  <2>1. Limit(c) + Stride(c) <= Limit(c)
    BY BlockPlace
  <2> QED
    BY <2>1, StrideNat
<1>5. h \notin live
  <2>1. h[1] = c /\ h[2] = Limit(c)
    OBVIOUS
  <2> QED
    BY <2>1, <1>4 DEF Whole, InsidePool, InRegion
<1>6. Held(c)' = Held(c) \cup {h} /\ h \notin Held(c)
  BY <1>2, <1>5 DEF Held
<1>7. Cardinality(Held(c)') = Cap[c] + 1 /\ Cap[c] \in Nat
  <2>1. IsFiniteSet(Held(c)) /\ Cardinality(Held(c)) = Cap[c] /\ Cap[c] \in Nat
    BY HeldFinite, StrideNat
  <2> HIDE DEF h
  <2>2. Cardinality(Held(c) \cup {h}) = Cardinality(Held(c)) + 1
    BY <2>1, <1>6, FS_AddElement
  <2> QED
    BY <2>1, <2>2, <1>6
<1>8. Overrun'
  BY <1>7 DEF Overrun
<1>9. ASSUME NEW d \in Class, d # c
      PROVE  Held(d)' = Held(d)
  <2>1. \A y \in live \cup live' : y[1] = d => (y \in live' <=> y \in live)
    BY <1>2, <1>9
  <2> QED
    BY <2>1 DEF Held
<1>10. Types'
  <2>1. After(c, next) \in Nat \cup {Junk}
    <3>1. next \in Nat \cup {Junk, 0}
      BY <1>3 DEF Header
    <3>2. Limit(c) + Stride(c) \in Nat
      BY <1>1, StrideNat
    <3> QED
      BY <3>1, <3>2, <1>1 DEF After
  <2>2. head' \in [Class -> Nat \cup {Junk}]
    BY <2>1, <1>2, <1>3
  <2>3. frees' \in [Class -> 0 .. Mod - 1]
    <3>1. (frees[c] - 1) % Mod \in 0 .. Mod - 1
      BY <1>3
    <3> QED
      BY <3>1, <1>2, <1>3
  <2>4. live' \subseteq Class \X Nat
    <3>1. h \in Class \X Nat
      BY <1>1
    <3> QED
      BY <3>1, <1>2, <1>3
  <2>5. ret' \subseteq Nat /\ asked' \subseteq Sizes
    BY <1>1, <1>2, StrideNat DEF Data
  <2> QED
    BY <2>2, <2>3, <2>4, <2>5, <1>2, <1>3 DEF Types, Addr, Limit, Stride
<1>11. FreesExact'
  <2>1. frees[c] = 0
    BY <1>7, HeldBound
  <2>2. (0 - 1) % Mod = (Cap[c] - (Cap[c] + 1)) % Mod
    BY <1>7
  <2>3. frees'[c] = (Cap[c] - Cardinality(Held(c)')) % Mod
    BY <2>1, <2>2, <1>2, <1>3, <1>7
  <2>4. ASSUME NEW d \in Class, d # c
        PROVE  frees'[d] = (Cap[d] - Cardinality(Held(d)')) % Mod
    BY <2>4, <1>2, <1>3, <1>9 DEF Whole, FreesExact
  <2> QED
    BY <2>3, <2>4 DEF FreesExact
<1>12. ASSUME NEW d \in Class, d # c
       PROVE  Chain(d)'
  <2>1. Chain(d) /\ freed[d] \in Seq(Nat)
    BY <1>3 DEF Whole
  <2>2. freed'[d] = freed[d] /\ head'[d] = head[d]
    BY <1>2, <1>3, <1>12
  <2>3. \A a : <<d, a>> \in live' <=> <<d, a>> \in live
    BY <1>2, <1>12
  <2> QED
    BY <2>1, <2>2, <2>3, <1>2, ChainSame
<1>13. ChainExact'
  <2>1. ~ (Cardinality(Held(c)') <= Cap[c])
    BY <1>7
  <2>2. \A d \in Class : Cardinality(Held(d)') <= Cap[d] => Chain(d)'
    BY <2>1, <1>12
  <2> QED
    BY <2>2 DEF Chain, ChainExact
<1>14. Disjoint'
  <2>1. ASSUME NEW x \in live'
        PROVE  \/ InRegion(x)
               \/ x[2] = Limit(x[1]) /\ Cardinality(Held(x[1])') = Cap[x[1]] + 1
    <3>1. CASE x \in live
      BY <3>1 DEF Whole, InsidePool
    <3>2. CASE x = h
      <4>1. x[1] = c /\ x[2] = Limit(c)
        BY <3>2
      <4> QED
        BY <4>1, <1>7
    <3> QED
      BY <3>1, <3>2, <1>2
  <2>2. ASSUME NEW x \in live', NEW y \in live', InRegion(x), InRegion(y)
        PROVE  /\ x # y => Data(x[1], x[2]) \cap Data(y[1], y[2]) = {}
               /\ y[2] \notin Data(x[1], x[2])
    <3>1. h[1] = c /\ h[2] = Limit(c)
      OBVIOUS
    <3>2. x \in live /\ y \in live
      BY <3>1, <2>2, <1>2, <1>4 DEF InRegion
    <3> QED
      BY <3>2, HeldBlock, DataApart
  <2>3. \A z : InRegion(z)' <=> InRegion(z)
    BY DEF InRegion, Blocks, Stride
  <2> QED
    BY <2>1, <2>2, <2>3, <1>10 DEF Disjoint, Data, Limit, Stride
<1> QED
  BY <1>8, <1>11, <1>13, <1>14 DEF IInv

(* While nothing is overrun, the properties are the invariant. *)
LEMMA WholeInv == Whole => IInv /\ ~ Overrun
<1> SUFFICES ASSUME Whole
             PROVE  IInv /\ ~ Overrun
  OBVIOUS
<1>1. ~ Overrun
  BY HeldBound, HeldFinite DEF Overrun
<1>2. ASSUME NEW x \in live, NEW y \in live
      PROVE  /\ x # y => Data(x[1], x[2]) \cap Data(y[1], y[2]) = {}
             /\ y[2] \notin Data(x[1], x[2])
  BY HeldBlock, DataApart
<1>3. Disjoint
  BY <1>2 DEF Whole, InsidePool, Disjoint
<1>4. ChainExact
  BY DEF Whole, Chain, ChainExact
<1> QED
  BY <1>1, <1>3, <1>4 DEF IInv, Whole

LEMMA StepInv ==
  ASSUME Whole, Calls
  PROVE  Whole' \/ (IInv' /\ Overrun')
<1>1. ASSUME NEW size \in Sizes, Alloc(size)
      PROVE  Whole' \/ (IInv' /\ Overrun')
  <2>1. PICK c \in Class : \E next \in Header(c) : Served(size, c, next)
    BY <1>1, AllocServed
  <2>2. PICK next \in Header(c) : Served(size, c, next)
    BY <2>1
  <2>3. Cardinality(Held(c)) < Cap[c] \/ Cardinality(Held(c)) = Cap[c]
    BY HeldBound, HeldFinite
  <2> QED
    BY <2>2, <2>3, AllocInv, OverrunInv
<1>2. CASE \E size \in Sizes : AllocTooLarge(size)
  <2>1. /\ mem' = mem /\ head' = head /\ frees' = frees /\ live' = live
        /\ freed' = freed /\ asked' \subseteq Sizes /\ ret' \subseteq Nat
    BY <1>2 DEF AllocTooLarge
  <2>2. \A c \in Class : Chain(c)'
    <3> SUFFICES ASSUME NEW c \in Class PROVE Chain(c)'
      OBVIOUS
    <3>1. Chain(c) /\ freed[c] \in Seq(Nat)
      BY DEF Whole, Types
    <3> QED
      BY <3>1, <2>1, ChainSame
  <2> QED
    BY <2>1, <2>2 DEF Whole, Types, InsidePool, InRegion, FreesExact, Held, Blocks, Stride, Addr, Limit
<1>3. CASE \E x \in live : Free(x)
  BY <1>3, FreeInv
<1>4. CASE \E x \in live : Write(x)
  BY <1>4, WriteInv
<1> QED
  BY <1>1, <1>2, <1>3, <1>4 DEF Calls

LEMMA NextInv ==
  ASSUME IInv, [Next]_vars
  PROVE  IInv'
<1>1. CASE ~ Overrun /\ Calls
  <2>1. Whole
    BY <1>1 DEF IInv
  <2>2. Whole' => IInv'
    BY WholeInv, PTL
  <2> QED
    BY <2>1, <2>2, <1>1, StepInv
<1>2. CASE UNCHANGED vars
  <2>1. /\ mem' = mem /\ head' = head /\ frees' = frees /\ live' = live
        /\ freed' = freed /\ asked' = asked /\ ret' = ret
    BY <1>2 DEF vars
  <2>2. \A c : Held(c)' = Held(c) /\ Blocks(c)' = Blocks(c) /\ Limit(c)' = Limit(c)
               /\ Top(c)' = Top(c)
    BY <2>1 DEF Held, Blocks, Limit, Stride, Top
  <2>3. Types' <=> Types
    BY <2>1 DEF Types, Addr, Limit, Stride
  <2>4. \A x : InRegion(x)' <=> InRegion(x)
    BY <2>2 DEF InRegion
  <2>5. Disjoint' <=> Disjoint
    BY <2>1, <2>2, <2>3, <2>4 DEF Disjoint, Data
  <2>6. ChainExact' <=> ChainExact
    BY <2>1, <2>2 DEF ChainExact
  <2>7. FreesExact' <=> FreesExact
    BY <2>1, <2>2 DEF FreesExact
  <2>8. Overrun' <=> Overrun
    BY <2>2 DEF Overrun
  <2>9. \A c : Chain(c)' <=> Chain(c)
    BY <2>1, <2>2 DEF Chain
  <2>10. Whole' <=> Whole
    BY <2>1, <2>3, <2>4, <2>7, <2>9 DEF Whole, InsidePool
  <2> QED
    BY <2>5, <2>6, <2>7, <2>8, <2>10 DEF IInv
<1> QED
  BY <1>1, <1>2 DEF Next

-----------------------------------------------------------------------------
(* Theorems *)

(* The chains of freed blocks, the heads and the counters of mm/pool.c are *)
(* right until a class is asked for a block more than it has, and the      *)
(* request that asks breaks no more than that class.                       *)
THEOREM PoolInv == Spec => []IInv
<1>1. Init => IInv
  BY InitInv, WholeInv
<1>2. IInv /\ [Next]_vars => IInv'
  BY NextInv
<1> QED
  BY <1>1, <1>2, PTL DEF Spec

(* pl_alloc never hands out memory that somebody holds, nor a header, nor  *)
(* anything outside the region of the class, but for the first block       *)
(* behind the region when a class has none left.                           *)
THEOREM DisjointHolds == Spec => []Disjoint
<1>1. IInv => Disjoint
  BY DEF IInv
<1> QED
  BY <1>1, PoolInv, PTL

(* Every block is held, or in the chain of its class once, or was never    *)
(* handed out: pl_alloc and pl_free lose none and give none out twice.     *)
THEOREM ChainExactHolds == Spec => []ChainExact
<1>1. IInv => ChainExact
  BY DEF IInv
<1> QED
  BY <1>1, PoolInv, PTL

(* pools[c].frees is the number of blocks nobody holds; the block more     *)
(* than there are takes it around to the largest number.                   *)
THEOREM FreesExactHolds == Spec => []FreesExact
<1>1. IInv => FreesExact
  BY DEF IInv
<1> QED
  BY <1>1, PoolInv, PTL

Owned     == {Data(x[1], x[2]) : x \in live}
Candidate == [size \in Sizes |->
                UNION {{Data(c, a) : a \in Blocks(c)} :
                       c \in {d \in Class : Serves(size, d)}}]

(* pl_alloc of a block is a grant of the abstract heap. *)
LEMMA GrantStep ==
  ASSUME Whole, NEW size \in Sizes, NEW c \in Class, NEW next, Serves(size, c),
         Cardinality(Held(c)) < Cap[c], Served(size, c, next)
  PROVE  SmallHeap!Grant(size)
<1>1. /\ Serves(size, c)
      /\ Cardinality(Held(c)) < Cap[c]
      /\ live' = live \cup {<<c, head[c]>>}
      /\ asked' = {size}
      /\ ret' = Data(c, head[c])
  BY DEF Served
<1> DEFINE h == head[c]
<1>2. h \in Blocks(c) /\ <<c, h>> \notin live
  BY <1>1, HeadFree
<1> HIDE DEF h
<1>3. Data(c, h) \in Candidate[size]
  BY <1>1, <1>2 DEF Candidate
<1>4. \A o \in Owned : o \cap Data(c, h) = {}
  <2> SUFFICES ASSUME NEW x \in live
               PROVE  Data(x[1], x[2]) \cap Data(c, h) = {}
    BY DEF Owned
  <2>1. x[1] \in Class /\ x[2] \in Blocks(x[1]) /\ <<x[1], x[2]>> # <<c, h>>
    BY <1>2, HeldBlock
  <2> QED
    BY <2>1, <1>2, DataApart
<1>5. Owned' = Owned \cup {Data(c, h)}
  <2>1. Owned' = {Data(x[1], x[2]) : x \in live \cup {<<c, h>>}}
    BY <1>1 DEF Owned, Data, h
  <2>2. ASSUME NEW o \in Owned'
        PROVE  o \in Owned \cup {Data(c, h)}
    <3>1. PICK x \in live \cup {<<c, h>>} : o = Data(x[1], x[2])
      BY <2>1
    <3>2. CASE x \in live
      BY <3>1, <3>2 DEF Owned
    <3>3. CASE x = <<c, h>>
      BY <3>1, <3>3
    <3> QED
      BY <3>2, <3>3
  <2>3. ASSUME NEW o \in Owned
        PROVE  o \in Owned'
    BY <2>1 DEF Owned
  <2>4. Data(c, h) \in Owned'
    <3>1. Data(<<c, h>>[1], <<c, h>>[2]) = Data(c, h)
      OBVIOUS
    <3> QED
      BY <2>1, <3>1
  <2> QED
    BY <2>2, <2>3, <2>4
<1>6. asked' = {size} /\ ret' = Data(c, h)
  BY <1>1 DEF h
<1> QED
  BY <1>3, <1>4, <1>5, <1>6 DEF SmallHeap!Grant, SmallHeap!Free, Owned, Candidate

(* The refusal of a size that is too large is one of the abstract heap. *)
LEMMA RefuseStep ==
  ASSUME NEW size \in Sizes, AllocTooLarge(size)
  PROVE  SmallHeap!Refuse(size)
<1>1. Candidate[size] = {}
  BY DEF AllocTooLarge, Candidate
<1>2. Owned' = Owned /\ asked' = {size} /\ ret' = {}
  BY DEF AllocTooLarge, Owned, Data
<1> QED
  BY <1>1, <1>2 DEF SmallHeap!Refuse, SmallHeap!Free, Owned, Candidate

(* pl_free is a release of the abstract heap. *)
LEMMA ReturnStep ==
  ASSUME Whole, NEW x \in live, Free(x)
  PROVE  SmallHeap!Return(Data(x[1], x[2])) /\ Data(x[1], x[2]) \in Owned
<1>1. live' = live \ {x} /\ asked' = {} /\ ret' = {}
  BY DEF Free
<1>2. ASSUME NEW y \in live, y # x
      PROVE  Data(y[1], y[2]) # Data(x[1], x[2])
  <2>1. /\ x[1] \in Class /\ x[2] \in Blocks(x[1]) /\ x = <<x[1], x[2]>>
        /\ y[1] \in Class /\ y[2] \in Blocks(y[1]) /\ y = <<y[1], y[2]>>
    BY HeldBlock
  <2>2. Data(y[1], y[2]) \cap Data(x[1], x[2]) = {}
    BY <2>1, <1>2, DataApart
  <2>3. x[2] \in Nat /\ Chunk[x[1]] \in Nat \ {0}
    BY <2>1, BlockPlace, StrideNat
  <2>4. x[2] + 1 \in Data(x[1], x[2])
    BY <2>3 DEF Data
  <2> QED
    BY <2>2, <2>4
<1>3. Owned' = {Data(y[1], y[2]) : y \in live \ {x}}
  BY <1>1 DEF Owned, Data
<1>4. Owned' = Owned \ {Data(x[1], x[2])}
  BY <1>2, <1>3 DEF Owned
<1>5. Data(x[1], x[2]) \in Owned
  BY DEF Owned
<1> QED
  BY <1>1, <1>4, <1>5 DEF SmallHeap!Return, Owned

(* mm/pool.c implements the same abstract heap as mm/buddy.c: pl_alloc     *)
(* hands out a free block of the class that serves the request and refuses *)
(* only what no class serves, and what callers write into their blocks     *)
(* changes nothing; until a class that has no block left is asked for one, *)
(* which pl_alloc does not refuse.                                         *)
THEOREM RefinesHeap == Spec => ImplementsHeap
<1>1. Init => SmallHeap!Init
  BY DEF Init, SmallHeap!Init
<1>2. IInv /\ [Next]_vars => [SmallHeap!Next \/ Overrun']_(SmallHeap!vars)
  <2> SUFFICES ASSUME IInv, [Next]_vars
               PROVE  [SmallHeap!Next \/ Overrun']_(SmallHeap!vars)
    OBVIOUS
  <2>1. CASE UNCHANGED vars
    BY <2>1 DEF vars, SmallHeap!vars, Data
  <2>2. CASE ~ Overrun /\ Calls
    <3>1. Whole
      BY <2>2 DEF IInv
    <3>2. ASSUME NEW size \in Sizes, Alloc(size)
          PROVE  SmallHeap!Next \/ Overrun'
      <4>1. PICK c \in Class : \E next \in Header(c) :
              Serves(size, c) /\ Served(size, c, next)
        BY <3>2, AllocServed
      <4>2. PICK next \in Header(c) : Serves(size, c) /\ Served(size, c, next)
        BY <4>1
      <4>3. CASE Cardinality(Held(c)) < Cap[c]
        BY <3>1, <4>2, <4>3, GrantStep DEF SmallHeap!Next
      <4>4. CASE Cardinality(Held(c)) = Cap[c]
        BY <3>1, <4>2, <4>4, OverrunInv
      <4> QED
        BY <3>1, <4>3, <4>4, HeldBound, HeldFinite
    <3>3. ASSUME NEW size \in Sizes, AllocTooLarge(size)
          PROVE  SmallHeap!Next
      BY <3>3, RefuseStep DEF SmallHeap!Next
    <3>4. ASSUME NEW x \in live, Free(x)
          PROVE  SmallHeap!Next
      BY <3>1, <3>4, ReturnStep DEF SmallHeap!Next, Owned
    <3>5. CASE \E x \in live : Write(x)
      BY <3>5 DEF Write, SmallHeap!vars, Data
    <3> QED
      BY <2>2, <3>2, <3>3, <3>4, <3>5 DEF Calls
  <2> QED
    BY <2>1, <2>2 DEF Next
<1> QED
  BY <1>1, <1>2, PoolInv, PTL DEF Spec, ImplementsHeap
=============================================================================
