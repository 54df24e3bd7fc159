--------------------------------- MODULE Mmi ---------------------------------
(***************************************************************************)
(* The kernel's allocator, mm/mmi.c with mm_where_is_addr of mm/mm.c:      *)
(* yalloc sends a request of a page or more to the page allocator (Lazy)   *)
(* and a smaller one to the pool (Pool), which mmi_init lays into a block  *)
(* it takes from the page allocator; yfree tells from the address which    *)
(* of the two a block came from.                                           *)
(*                                                                         *)
(* The pool is the abstract heap that Pool is shown to implement as long   *)
(* as its callers stay within its capacity.  Addresses are units, PageSize *)
(* of them in a leaf.                                                      *)
(*                                                                         *)
(* SecUpToEnd is a faulty variant of Sec, which nothing uses.              *)
(***************************************************************************)
EXTENDS Lazy

CONSTANTS
  PageSize,    \* units in a page: MM_PRI_CHUNK_LLC
  Chunk,       \* the chunks of the pool's classes, lowest first
  Blocks,      \* the pool's blocks of each class, as sets of units
  InitSize,    \* pl_get_init_size, in units
  Sizes        \* the requests, in units, that callers make

VARIABLES
  small,       \* the blocks of the pool that callers hold
  req,         \* the size the last call of yalloc asked for, {} after others
  got          \* the block it returned; {} when it returned the error -1

all == <<vars, small, req, got>>
own == <<small, req, got>>

(* bud_rndup: leaves in the block that serves a request of the size.       *)
Lengths == {1} \cup {Cardinality(b) : b \in Large}
RoundUp(size) == Min({n \in Lengths : n * PageSize >= size})

(* pl_base, the block _bud_alloc gives mmi_init first: mmm.sec.            *)
PoolBlock == 0 .. RoundUp(InitSize) - 1

Units(leaves) == UNION {l * PageSize .. l * PageSize + PageSize - 1 : l \in leaves}

(* The pool's blocks are disjoint, as module Pool shows. *)
ASSUME MmiAssumption ==
  /\ PageSize \in Nat \ {0}
  /\ InitSize \in Nat /\ InitSize > PageSize
  /\ \E n \in Lengths : n * PageSize >= InitSize
  /\ PoolBlock \in Large
  /\ Sizes \subseteq Nat \ {0}
  /\ \A c \in DOMAIN Chunk :
       /\ Chunk[c] \in Nat \ {0}
       /\ \A b \in Blocks[c] : b \subseteq Units(PoolBlock) /\ Cardinality(b) = Chunk[c]
  /\ \A c, d \in DOMAIN Chunk : \A a \in Blocks[c], b \in Blocks[d] :
       a # b => a \cap b = {}

MmiInit ==
  /\ owned = {PoolBlock}
  /\ frees = <<>> /\ inuses = {} /\ fnum = 0 /\ unum = 0
  /\ records = {} /\ lost = {} /\ asked = {} /\ res = {}
  /\ small = {} /\ req = {} /\ got = {}

-----------------------------------------------------------------------------
(* yalloc *)

(* A request of the size goes to the page allocator.                       *)
Primary(size) == size >= PageSize

AllocPage ==
  /\ AllocCached \/ AllocRefilled
  /\ PageSize \in Sizes
  /\ req' = {PageSize}
  /\ got' = Units(res')
  /\ UNCHANGED small

(* bud_lazy_alloc returns the error of its refill, which is not NULL: the  *)
(* caller's business, whatever it does with it.                            *)
AllocPageFails == RefillFails /\ UNCHANGED own

AllocLarger(size) ==
  /\ size > PageSize
  /\ \E b \in Large :
       /\ Cardinality(b) = RoundUp(size)
       /\ AllocLarge(b)
       /\ got' = Units(b)
  /\ req' = {size}
  /\ UNCHANGED small

(* pl_alloc of the lowest class that holds the size.                       *)
Serves(size, c) ==
  /\ c \in DOMAIN Chunk
  /\ ~ Primary(size)
  /\ Chunk[c] >= size
  /\ \A d \in DOMAIN Chunk : d < c => Chunk[d] < size

AllocSmall(size) ==
  \E c \in DOMAIN Chunk : \E b \in Blocks[c] \ small :
    /\ Serves(size, c)
    /\ small' = small \cup {b}
    /\ req' = {size} /\ got' = b
    /\ UNCHANGED vars

(* The largest block of the pool is half a page: pl_alloc has no class for *)
(* a size between the two and returns -1, which yalloc, testing for NULL,  *)
(* hands on: no block between half a page and a page can be had.           *)
AllocNoClass(size) ==
  /\ ~ Primary(size)
  /\ \A c \in DOMAIN Chunk : ~ Serves(size, c)
  /\ req' = {size} /\ got' = {}
  /\ UNCHANGED <<vars, small>>

-----------------------------------------------------------------------------
(* yfree of a block its caller holds *)

LargeHeld == LargeOwned \ {PoolBlock}

(* mm_where_is_addr: the address lies in the block of the pool.            *)
SecBase == Min(Units(PoolBlock))
SecSize == Cardinality(Units(PoolBlock))
SecUpToEnd(a) == a >= SecBase /\ a <= SecBase + SecSize
Sec(a) == a >= SecBase /\ a < SecBase + SecSize

(* pl_free: an address in none of its regions is an error, and no more.    *)
FreeSmall(a) ==
  /\ small' = {b \in small : Min(b) # a}
  /\ UNCHANGED vars

(* bud_free, which finds in the block's header how large it is.            *)
FreePrimary(a) ==
  /\ \/ \E p \in inuses : p * PageSize = a /\ (Free(p) \/ FreeAndDrain(p))
     \/ \E b \in LargeHeld : Min(b) * PageSize = a /\ FreeLarge(b)
  /\ UNCHANGED small

Held == small \cup {Units({p}) : p \in inuses} \cup {Units(b) : b \in LargeHeld}

Yfree ==
  /\ \E block \in Held :
       LET a == Min(block)
       IN  IF Sec(a) THEN FreeSmall(a) ELSE FreePrimary(a)
  /\ req' = {} /\ got' = {}

MmiNext ==
  \/ AllocPage \/ AllocPageFails
  \/ \E size \in Sizes : AllocLarger(size) \/ AllocSmall(size) \/ AllocNoClass(size)
  \/ Yfree

MmiSpec == MmiInit /\ [][MmiNext]_all

-----------------------------------------------------------------------------
(* Properties *)

(* The blocks that serve a request; none does between the pool's largest   *)
(* block and a page.                                                       *)
Candidates(size) ==
  IF Primary(size)
  THEN {Units(b) : b \in {c \in Single(Leaf) \cup Large : Cardinality(c) = RoundUp(size)}}
  ELSE UNION {Blocks[c] : c \in {d \in DOMAIN Chunk : Serves(size, d)}}

KernelHeap == INSTANCE Heap WITH
  Unit <- Units(Leaf),
  Request <- Sizes,
  Candidate <- [size \in Sizes |-> Candidates(size)],
  owned <- Held,
  asked <- req,
  res <- got

(* To yalloc's callers the two allocators, the cache in the first and the  *)
(* second inside a block of the first are one heap: a unit is with one     *)
(* caller at a time, and every block goes back to the allocator it came    *)
(* from (yalloc, yfree, mm_where_is_addr).  A request that the refill      *)
(* refuses is not a step of the heap: pages may be free.                   *)
ImplementsHeap == KernelHeap!Spec
=============================================================================
