------------------------------- MODULE Buddy --------------------------------
(***************************************************************************)
(* The buddy page allocator of mm/buddy.c: _bud_init, _bud_alloc and       *)
(* _bud_free with the bitmaps of bitmap.c they keep.                       *)
(*                                                                         *)
(* The heap is a row of N leaves of LL bytes.  A block <<i, n>> is the     *)
(* n-th run of Chunk[i] leaves; order i has Num(i) whole blocks and a      *)
(* bitmap of Words(i) words of W bits.  The code keeps one bitmap per      *)
(* order, the bitmaps back to back in memory, and one header byte per      *)
(* leaf, which says at a block's first leaf of which order the block is.   *)
(* Addresses are counted in leaves from heap_base.                         *)
(*                                                                         *)
(* A definition whose name says a fault (TakenWithoutParents, NoPadding    *)
(* ...) is the faulty variant of the one that follows it.  No              *)
(* specification uses it: the properties are checked to tell the two       *)
(* apart.                                                                  *)
(***************************************************************************)
EXTENDS Integers, FiniteSets

CONSTANTS
  N,       \* leaves in the heap: bm.heap_size / bm.ll
  Dep,     \* number of orders: bm.dep
  Chunk,   \* leaves in a block of each order
  W,       \* bits in a bitmap word: bm.bitmap_size
  LL,      \* bytes in a leaf: bm.ll
  Sizes    \* the request sizes, in bytes, callers use

Order == 0 .. Dep - 1
Leaf  == 0 .. N - 1

(* bud_get_chunk doubles ll once per order, and bud_get_dep stops while    *)
(* the heap still holds a block of the last order.                         *)
ASSUME GeometryAssumption ==
  /\ N \in Nat \ {0}
  /\ Dep \in Nat \ {0}
  /\ W \in Nat \ {0}
  /\ LL \in Nat \ {0}
  /\ Sizes \subseteq Nat \ {0}
  /\ Chunk \in [Order -> Nat \ {0}]
  /\ Chunk[0] = 1
  /\ \A i \in Order : i + 1 \in Order => Chunk[i+1] = 2 * Chunk[i]
  /\ Chunk[Dep-1] <= N

Num(i)   == N \div Chunk[i]
Words(i) == (Num(i) + W - 1) \div W

(* The bitmaps of the last order end at the first header, so a last order  *)
(* that fills its last word would share bits with a header.  The other     *)
(* orders may fill theirs.                                                 *)
ASSUME LastOrderAssumption == Num(Dep-1) % W # 0

(* No order fills the last word of its bitmap: the geometries in which     *)
(* _bud_init's padding loop does what it is meant to do.                   *)
Regular == \A i \in Order : Num(i) % W # 0

-----------------------------------------------------------------------------
(* Geometry of blocks *)

Block == Order \X Nat
Whole == {b \in Order \X Leaf : b[2] < Num(b[1])}

First(b)  == b[2] * Chunk[b[1]]
Leaves(b) == First(b) .. First(b) + Chunk[b[1]] - 1

(* The block of order i that holds leaf l. *)
At(i, l) == <<i, l \div Chunk[i]>>

(* The block that merges with b: ost + ((ost % 2) ? -1 : 1). *)
Sibling(b) == <<b[1], IF b[2] % 2 = 1 THEN b[2] - 1 ELSE b[2] + 1>>

(* b itself and the blocks of lower orders inside it: bud_chk_childs. *)
Inside(b) == {At(i, l) : i \in 0 .. b[1], l \in Leaves(b)}

(* The blocks of higher orders around b: the path of bud_chk_parent. *)
Around(b) == {At(i, First(b)) : i \in b[1] + 1 .. Dep - 1}

(* Where the bit of block b is.  A number past the end of an order's       *)
(* bitmap falls into the next one: the bitmaps are contiguous and          *)
(* bitmap_get and bitmap_set do not check it.                              *)
Bit(b) == IF b[2] < W * Words(b[1])
          THEN b
          ELSE <<b[1] + 1, b[2] - W * Words(b[1])>>

-----------------------------------------------------------------------------
VARIABLES
  bmp,     \* the bits that are 1, over all orders
  frees,   \* bud[i].frees of each order i
  hdr,     \* bm.hdr_base: the order of the block that starts at each leaf
  live,    \* the blocks callers hold
  asked,   \* the size the last _bud_alloc was asked for, {} after a free
  ret      \* the block the last _bud_alloc returned, NULL if none

vars == <<bmp, frees, hdr, live, asked, ret>>

NULL  == <<>>
NoHdr == Dep     \* a header nobody has written

(* The zero bits that bitmap_get_free can find in the bitmap of order i. *)
ZerosButLastWord(i) == {n \in 0 .. W * (Words(i) - 1) - 1 : <<i, n>> \notin bmp}
Zeros(i) == {n \in 0 .. W * Words(i) - 1 : <<i, n>> \notin bmp}

(* The bits _bud_init sets: in the last word of each bitmap, those from    *)
(* num % W on, which is the whole word when num is a multiple of W.        *)
NoPadding == {}
Padding ==
  UNION {{i} \X ((Words(i) - 1) * W + (Num(i) % W) .. Words(i) * W - 1) :
         i \in Order}

Init ==
  /\ bmp = Padding
  /\ frees = [i \in Order |-> Num(i)]
  /\ hdr = [l \in Leaf |-> NoHdr]
  /\ live = {}
  /\ asked = {}
  /\ ret = NULL

-----------------------------------------------------------------------------
(* Allocation *)

(* bud_rndup and bud_get_ord: the lowest order whose blocks hold the size. *)
Serves(size, i) ==
  /\ i \in Order
  /\ size <= LL * Chunk[i]
  /\ \A j \in 0 .. i - 1 : size > LL * Chunk[j]

(* bitmap_get *)
BitmapGet(b) == Bit(b) \in bmp

(* bud_chk_parent with bud_search: around b, up to the first block whose   *)
(* bit is already 1.                                                       *)
Climbed(b) ==
  {p \in Around(b) : \A q \in Around(b) : q[1] <= p[1] => ~ BitmapGet(q)}

(* bud_find_free: the bits a new block b takes. *)
TakenWithoutParents(b) == Inside(b)
Taken(b) == Inside(b) \cup Climbed(b)

(* bud_set_bit counts a bit only when it changes. *)
TakenIn(b, i) == {t \in Taken(b) : t[1] = i /\ ~ BitmapGet(t)}

(* bud_encode: the header at the first leaf of b says its order. *)
EncodeOnce(b) == [hdr EXCEPT ![First(b)] = IF @ = NoHdr THEN b[1] ELSE @]
Encode(b) == [hdr EXCEPT ![First(b)] = b[1]]

(* _bud_alloc, with the lowest free block of the order that serves size. *)
Alloc(size) ==
  \E i \in Order : \E n \in Zeros(i) :
    /\ Serves(size, i)
    /\ \A m \in Zeros(i) : n <= m
    /\ LET b == <<i, n>> IN
       /\ bmp' = bmp \cup {Bit(t) : t \in Taken(b)}
       /\ frees' = [j \in Order |-> frees[j] - Cardinality(TakenIn(b, j))]
       /\ hdr' = Encode(b)
       /\ live' = live \cup {b}
       /\ asked' = {size}
       /\ ret' = b

(* _bud_alloc when the order has no free block: bud_find_free answers -4,  *)
(* _bud_alloc reports "Memory allocation failed" and goes on, and          *)
(* bud_encode makes an address of block -4.  The header it writes is at    *)
(* (chunk * ost) / ll taken modulo 2^32, past the headers, in the heap's   *)
(* data, which the model leaves out.                                       *)
AllocFails(size) ==
  \E i \in Order :
    /\ Serves(size, i)
    /\ Zeros(i) = {}
    /\ asked' = {size}
    /\ ret' = <<i, -4>>
    /\ UNCHANGED <<bmp, frees, hdr, live>>

(* bud_rndup finds no order for the size: _bud_alloc returns NULL. *)
AllocTooLarge(size) ==
  /\ \A i \in Order : ~ Serves(size, i)
  /\ asked' = {size}
  /\ ret' = NULL
  /\ UNCHANGED <<bmp, frees, hdr, live>>

-----------------------------------------------------------------------------
(* Release *)

(* The block that _bud_free takes the one at leaf l to be: bud_decode and  *)
(* the division by the chunk size.                                         *)
Decode(l) == At(hdr[l], l)

(* bud_chk_parent with bud_merge, without the test of the siblings. *)
MergedAlways(b) == Around(b)

(* bud_chk_parent with bud_merge: around b, up to the first block below    *)
(* which a sibling on the path is in use.                                  *)
Merged(b) ==
  {p \in Around(b) :
     \A k \in b[1] .. p[1] - 1 : ~ BitmapGet(Sibling(At(k, First(b))))}

(* _bud_free: the bits it clears. *)
Released(b) == Inside(b) \cup Merged(b)

ReleasedIn(b, i) == {r \in Released(b) : r[1] = i /\ BitmapGet(r)}

(* _bud_free of a block its caller holds.  That callers free only what     *)
(* they hold, and once, is their contract: the code does not check it.     *)
Free(x) ==
  LET b == Decode(First(x)) IN
  /\ bmp' = bmp \ {Bit(r) : r \in Released(b)}
  /\ frees' = [j \in Order |-> frees[j] + Cardinality(ReleasedIn(b, j))]
  /\ live' = live \ {x}
  /\ asked' = {}
  /\ ret' = NULL
  /\ UNCHANGED hdr

Next ==
  \/ \E size \in Sizes : Alloc(size) \/ AllocFails(size) \/ AllocTooLarge(size)
  \/ \E x \in live : Free(x)

Spec == Init /\ [][Next]_vars

-----------------------------------------------------------------------------
(* Properties *)

TypeOK ==
  /\ bmp \subseteq Block
  /\ frees \in [Order -> Int]
  /\ hdr \in [Leaf -> Order \cup {NoHdr}]
  /\ live \subseteq Whole
  /\ asked \subseteq Sizes
  /\ ret \in Block \cup {<<i, -4>> : i \in Order} \cup {NULL}

Overlap(a, b) == Leaves(a) \cap Leaves(b) # {}

(* Two callers never hold the same memory (_bud_alloc, _bud_free). *)
NoOverlap == \A x, y \in live : x # y => ~ Overlap(x, y)

(* The bitmaps say exactly which blocks are in use: the bit of a block is  *)
(* 1 if and only if a live block shares memory with it, so nothing that    *)
(* was freed stays lost and every merge that can happen has happened       *)
(* (bud_chk_childs, bud_chk_parent).                                       *)
BitmapExact ==
  \A b \in Whole : b \in bmp <=> \E x \in live : Overlap(b, x)

(* The header of a live block still says its order when it is freed, so    *)
(* _bud_free releases the block that was allocated (bud_encode).           *)
HeadersExact == \A x \in live : Decode(First(x)) = x

(* bud_show_info's count of free blocks of each order is the number of     *)
(* its zero bits (bud_set_bit).                                            *)
FreesExact == \A i \in Order : frees[i] = Cardinality(Zeros(i))

(* The blocks bud_alloc's callers see: sets of leaves, and no block for an *)
(* address outside the heap.                                               *)
PageHeap == INSTANCE Heap WITH
  Unit <- Leaf,
  Request <- Sizes,
  Candidate <- [size \in Sizes |->
                  {Leaves(b) : b \in {w \in Whole : Serves(size, w[1])}}],
  owned <- {Leaves(x) : x \in live},
  res <- IF ret = NULL \/ ret[2] < 0 THEN {} ELSE Leaves(ret)

(* The allocator implements the abstract heap: what it hands out is free   *)
(* and of the order that serves the request, and it fails only when every  *)
(* block of that order is in use.                                          *)
ImplementsHeap == PageHeap!Spec

(* "Memory allocation failed" is reported to the caller: what _bud_alloc   *)
(* returns is NULL or a block of the heap (bud_encode's Out of memory).    *)
ReturnsHeapBlock == ret # NULL => ret[2] >= 0
=============================================================================
