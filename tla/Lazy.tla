-------------------------------- MODULE Lazy --------------------------------
(***************************************************************************)
(* bud_alloc and bud_free of mm/buddy.c: requests of at most a page are    *)
(* served by the lazy cache (bud_lazy_alloc, bud_lazy_free), which takes   *)
(* pages from the buddy allocator in batches and gives them back in        *)
(* batches; larger ones go to the buddy allocator itself.                  *)
(*                                                                         *)
(* The buddy allocator is the abstract heap that module Buddy is shown to  *)
(* implement, choosing the lowest block as Buddy does.  A page is the      *)
(* number of its leaf.  A call that meets a full buddy allocator is left   *)
(* out: what is then handed out lies in the buddy allocator's metadata     *)
(* (ReturnsHeapBlock of Buddy).  lazy.frees is a queue, which list_add and *)
(* list_get of P/list.c implement (module List); the order of lazy.inuses  *)
(* is never used.                                                          *)
(*                                                                         *)
(* DrainedButLast is a faulty variant of Drained, which nothing uses.      *)
(*                                                                         *)
(* Module Mmi puts the pool allocator next to it and is the specification  *)
(* that is checked.                                                        *)
(***************************************************************************)
EXTENDS Integers, FiniteSets, SequencesExt

CONSTANTS
  N,        \* leaves in the heap
  Batch,    \* lazy.batch
  Wmk,      \* lazy.wmk: 6 * batch
  Reach,    \* IS_MEM_ERR accepts leaves below: it takes MM_BASE for heap_base
  Large     \* the blocks of more than a leaf, of each order that callers
            \* ask for

Leaf == 0 .. N - 1

ASSUME LazyAssumption ==
  /\ N \in Nat \ {0}
  /\ Batch \in Nat \ {0}
  /\ Wmk \in Nat /\ Wmk >= Batch
  /\ Reach \in Nat
  /\ Large \subseteq SUBSET Leaf
  /\ \A b \in Large : Cardinality(b) > 1

VARIABLES
  owned,       \* the blocks of the buddy allocator that are in use
  frees,       \* lazy.frees: the cached pages in their order
  inuses,      \* lazy.inuses
  fnum, unum,  \* their sizes as the code counts them
  records,     \* auxiliary: leaves that hold an array of struct lazy_page
  lost,        \* auxiliary: leaves the cache took and refused to use
  asked, res   \* auxiliary: the last request that was served, in leaves,
               \* and the block it got; {} after a free

vars == <<owned, frees, inuses, fnum, unum, records, lost, asked, res>>

Init ==
  /\ owned = {}
  /\ frees = <<>> /\ inuses = {}
  /\ fnum = 0 /\ unum = 0
  /\ records = {} /\ lost = {}
  /\ asked = {} /\ res = {}

Single(leaves) == {{l} : l \in leaves}

Ascending(leaves) ==
  [i \in 1 .. Cardinality(leaves) |->
     CHOOSE l \in leaves : Cardinality({m \in leaves : m < l}) = i - 1]

(* The free leaves in the order in which _bud_alloc hands them out. *)
Available == Leaf \ UNION owned
Leaves == Ascending(Available)

(* What is left of them when the refill asks for the records and Batch     *)
(* pages: those before the first that IS_MEM_ERR rejects.                  *)
Accepted == Ascending({l \in Available : l < Reach})

-----------------------------------------------------------------------------
(* bud_lazy_alloc *)

(* The page that goes out moves from the front of frees to inuses. *)
Served(pages) == Head(pages)

Serve(pages, num) ==
  /\ inuses' = inuses \cup {Served(pages)}
  /\ frees' = Tail(pages)
  /\ fnum' = num - 1
  /\ unum' = unum + 1
  /\ asked' = {1}
  /\ res' = {Served(pages)}

AllocCached ==
  /\ fnum # 0
  /\ Serve(frees, fnum)
  /\ UNCHANGED <<owned, records, lost>>

(* A leaf for the records, then Batch pages behind those of the cache. *)
AllocRefilled ==
  /\ fnum = 0
  /\ Len(Accepted) > Batch
  /\ LET pages == SubSeq(Accepted, 2, Batch + 1) IN
     /\ records' = records \cup {Accepted[1]}
     /\ owned' = owned \cup Single({Accepted[1]} \cup ToSet(pages))
     /\ Serve(frees \o pages, fnum + Batch)
  /\ UNCHANGED lost

(* The refill meets a leaf it does not accept and returns NULL: that leaf  *)
(* stays in use, the pages before it stay in the cache.                    *)
RefillFails ==
  /\ fnum = 0
  /\ Len(Accepted) <= Batch
  /\ Len(Leaves) > Len(Accepted)
  /\ LET refused == Leaves[Len(Accepted) + 1]
         pages   == IF Accepted = <<>> THEN <<>> ELSE Tail(Accepted)
     IN  /\ owned' = owned \cup Single({refused} \cup ToSet(Accepted))
         /\ lost' = lost \cup {refused}
         /\ records' = records \cup (ToSet(Accepted) \ ToSet(pages))
         /\ frees' = frees \o pages
         /\ fnum' = fnum + Len(pages)
  /\ UNCHANGED <<inuses, unum, asked, res>>

-----------------------------------------------------------------------------
(* bud_lazy_free of a page its caller holds *)

Returned(p) == Append(frees, p)

(* The test against the watermark, which counts the page just returned. *)
TooMany == fnum + 1 > Wmk

Freed(p) ==
  /\ inuses' = inuses \ {p}
  /\ unum' = unum - 1
  /\ asked' = {} /\ res' = {}
  /\ UNCHANGED <<records, lost>>

Free(p) ==
  /\ ~ TooMany
  /\ Freed(p)
  /\ frees' = Returned(p)
  /\ fnum' = fnum + 1
  /\ UNCHANGED owned

(* The pages that go back to the buddy allocator: the longest in the cache. *)
DrainedButLast(pages) == SubSeq(pages, 1, Batch - 1)
Drained(pages) == SubSeq(pages, 1, Batch)

FreeAndDrain(p) ==
  /\ TooMany
  /\ Freed(p)
  /\ owned' = owned \ Single(ToSet(Drained(Returned(p))))
  /\ frees' = SubSeq(Returned(p), Batch + 1, Len(Returned(p)))
  /\ fnum' = fnum + 1 - Batch

-----------------------------------------------------------------------------
(* Requests of more than a page: _bud_alloc and _bud_free *)

Fits(b) == b \subseteq Available

SameSize(b) == {c \in Large : Cardinality(c) = Cardinality(b)}

AllocLarge(b) ==
  /\ Fits(b)
  /\ \A c \in SameSize(b) : Fits(c) => Min(b) <= Min(c)
  /\ owned' = owned \cup {b}
  /\ asked' = {Cardinality(b)} /\ res' = b
  /\ UNCHANGED <<frees, inuses, fnum, unum, records, lost>>

(* The header of the block says that it is larger than a page. *)
FreeLarge(b) ==
  /\ b \in owned
  /\ owned' = owned \ {b}
  /\ asked' = {} /\ res' = {}
  /\ UNCHANGED <<frees, inuses, fnum, unum, records, lost>>

Next ==
  \/ AllocCached \/ AllocRefilled \/ RefillFails
  \/ \E p \in inuses : Free(p) \/ FreeAndDrain(p)
  \/ \E b \in Large : AllocLarge(b) \/ FreeLarge(b)

Spec == Init /\ [][Next]_vars

-----------------------------------------------------------------------------
(* Properties *)

LargeOwned == owned \cap Large

Types ==
  /\ owned \subseteq SUBSET Leaf
  /\ frees \in Seq(Leaf) /\ inuses \subseteq Leaf
  /\ fnum \in 0 .. Wmk /\ unum \in Nat
  /\ records \subseteq Leaf /\ lost \subseteq Leaf
  /\ asked \subseteq Nat /\ res \subseteq Leaf

(* The counters that decide about refill and drain are the sizes of the    *)
(* lists, over any sequence of refills, failed refills and drains, and no  *)
(* page is in the cache twice (bud_lazy_alloc, bud_lazy_free).             *)
Counted ==
  /\ fnum = Len(frees)
  /\ unum = Cardinality(inuses)
  /\ IsInjective(frees)

(* Each leaf the buddy allocator counts as in use is cached, or with a     *)
(* caller, or holds records, or was refused, or lies in a larger block,    *)
(* one of these only; and each of them is in use in the buddy allocator,   *)
(* which would otherwise hand it out again.  Records are never given back: *)
(* this is how a leaf can be lost, and there is no other way.              *)
Kinds == <<ToSet(frees), inuses, records, lost, UNION LargeOwned>>
Accounted ==
  /\ Types
  /\ Counted
  /\ UNION owned = UNION ToSet(Kinds)
  /\ \A i, j \in DOMAIN Kinds : i # j => Kinds[i] \cap Kinds[j] = {}
=============================================================================
