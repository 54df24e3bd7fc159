-------------------------------- MODULE Pool --------------------------------
(***************************************************************************)
(* The small-block allocator of mm/pool.c.                                 *)
(*                                                                         *)
(* Each size class has a region of Cap[c] blocks; the regions follow each  *)
(* other.  In front of every block is a word, struct pool_header, that is  *)
(* 0 until the block is freed for the first time, and then the block that  *)
(* was the head when it was freed.  The head of a class is the last block  *)
(* freed or, when there is none, the first block never handed out.         *)
(*                                                                         *)
(* Addresses are words; a block is named by the address of its header.     *)
(*                                                                         *)
(* AfterByBump, IdUpToEnd, PushedWithoutLink and DataFromHeader are        *)
(* faulty variants of the definitions that follow them.  No specification  *)
(* uses them: the properties are checked to tell them apart.               *)
(***************************************************************************)
EXTENDS Integers, FiniteSets, Sequences

CONSTANTS
  K,        \* number of size classes: pmm.num
  Chunk,    \* words in a block of each class
  Cap,      \* blocks in the region of each class
  Base,     \* first address of the region of each class: pools[c].base
  Mod,      \* what a free counter counts modulo, 2^32 in the code
  Sizes     \* the request sizes, in words, callers use

Class == 0 .. K - 1

Stride(c) == Chunk[c] + 1
Limit(c)  == Base[c] + Cap[c] * Stride(c)
Region(c) == Base[c] .. Limit(c) - 1
Addr      == Base[0] .. Limit(K-1) - 1

(* pl_init doubles the chunk from class to class and lays the regions one  *)
(* behind the other; no address is 0.                                      *)
ASSUME LayoutAssumption ==
  /\ K \in Nat \ {0}
  /\ Chunk \in [Class -> Nat \ {0}]
  /\ Cap \in [Class -> Nat \ {0}]
  /\ Base \in [Class -> Nat \ {0}]
  /\ Sizes \subseteq Nat \ {0}
  /\ \A c \in Class : c + 1 \in Class =>
       /\ Chunk[c+1] = 2 * Chunk[c]
       /\ Base[c+1] = Base[c] + Cap[c] * Stride(c)
  /\ Mod \in Nat \ {0}
  /\ \A c \in Class : Cap[c] < Mod

-----------------------------------------------------------------------------
VARIABLES
  mem,     \* the words of the regions
  head,    \* pools[c].head
  frees,   \* pools[c].frees
  live,    \* the blocks callers hold, each with the class it was taken from
  freed,   \* auxiliary: the freed blocks of each class, the last one first
  asked,   \* the size the last pl_alloc was asked for, {} after a free
  ret      \* the block the last pl_alloc handed out, {} if it had an error

vars == <<mem, head, frees, live, freed, asked, ret>>

Junk == -1     \* whatever callers write

(* The memory the caller of pl_alloc gets with the block at a.             *)
DataFromHeader(c, a) == a .. a + Chunk[c] - 1
Data(c, a) == a + 1 .. a + Chunk[c]

Held(c) == {x \in live : x[1] = c}

(* A class was asked for one block more than it has.  What pl_alloc then   *)
(* handed out is the next region's or nobody's: what becomes of the pool   *)
(* once its caller writes there is not defined, so behaviours end here.    *)
Overrun == \E c \in Class : Cardinality(Held(c)) > Cap[c]

Init ==
  /\ mem = [a \in Addr |-> 0]
  /\ head = Base
  /\ frees = Cap
  /\ live = {}
  /\ freed = [c \in Class |-> <<>>]
  /\ asked = {}
  /\ ret = {}

-----------------------------------------------------------------------------
(* pl_get_chunk and pool_get_ord: the first class whose blocks hold the    *)
(* size.                                                                   *)
Serves(size, c) ==
  /\ c \in Class
  /\ size <= Chunk[c]
  /\ \A d \in 0 .. c - 1 : size > Chunk[d]

(* What pl_alloc may read in the word at the head: behind the last region  *)
(* is memory of others.                                                    *)
Header(c) == IF head[c] \in Addr THEN {mem[head[c]]} ELSE {0, Junk}

(* The head after the block at the head was taken.                         *)
AfterByBump(c, next) == head[c] + Stride(c)
After(c, next) == IF next = 0 THEN head[c] + Stride(c) ELSE next

(* pl_alloc.  Nothing compares the head with the end of the region: a      *)
(* class whose blocks are all held serves the request like any other.      *)
Alloc(size) ==
  \E c \in Class : \E next \in Header(c) :
    /\ Serves(size, c)
    /\ head' = [head EXCEPT ![c] = After(c, next)]
    /\ frees' = [frees EXCEPT ![c] = (@ - 1) % Mod]
    /\ live' = live \cup {<<c, head[c]>>}
    /\ freed' = [freed EXCEPT ![c] = IF @ = <<>> THEN @ ELSE Tail(@)]
    /\ asked' = {size}
    /\ ret' = Data(c, head[c])
    /\ UNCHANGED mem

(* pl_get_chunk knows no class for the size: pl_alloc returns its -1.      *)
AllocTooLarge(size) ==
  /\ \A c \in Class : ~ Serves(size, c)
  /\ asked' = {size}
  /\ ret' = {}
  /\ UNCHANGED <<mem, head, frees, live, freed>>

(* pool_get_id: the class in whose region the address lies.                *)
IdUpToEnd(a) ==
  CHOOSE c \in Class :
    /\ a \in Base[c] .. Limit(c)
    /\ \A d \in 0 .. c - 1 : a > Limit(d)
Id(a) == CHOOSE c \in Class : a \in Region(c)

(* pl_free of a block the caller holds.                                    *)
PushedWithoutLink(a) == mem
Pushed(a) == [mem EXCEPT ![a] = head[Id(a)]]
Free(x) ==
  LET a == x[2]
      c == Id(a)
  IN  /\ mem' = Pushed(a)
      /\ head' = [head EXCEPT ![c] = a]
      /\ frees' = [frees EXCEPT ![c] = (@ + 1) % Mod]
      /\ live' = live \ {x}
      /\ freed' = [freed EXCEPT ![c] = <<a>> \o @]
      /\ asked' = {}
      /\ ret' = {}

(* A caller writes the memory it was given.                                *)
Write(x) ==
  /\ mem' = [a \in Addr |-> IF a \in Data(x[1], x[2]) THEN Junk ELSE mem[a]]
  /\ UNCHANGED <<head, frees, live, freed, asked, ret>>

Calls ==
  \/ \E size \in Sizes : Alloc(size) \/ AllocTooLarge(size)
  \/ \E x \in live : Free(x) \/ Write(x)

Next ==
  \/ ~ Overrun /\ Calls
  \/ Overrun /\ UNCHANGED vars

Spec == Init /\ [][Next]_vars

-----------------------------------------------------------------------------
(* Properties *)

Types ==
  /\ mem \in [Addr -> Nat \cup {Junk}]
  /\ head \in [Class -> Nat \cup {Junk}]
  /\ frees \in [Class -> 0 .. Mod - 1]
  /\ live \subseteq Class \X Nat
  /\ freed \in [Class -> Seq(Nat)]
  /\ asked \subseteq Sizes
  /\ ret \subseteq Nat

(* The blocks of class c, by address.                                      *)
Blocks(c) == {Base[c] + n * Stride(c) : n \in 0 .. Cap[c] - 1}

InRegion(x) == x[2] \in Blocks(x[1])

(* Two callers never hold the same memory, and no caller holds a header,   *)
(* in what pl_alloc hands out of the regions; and it hands out nothing     *)
(* else but this: the caller of a class that has none left gets the block  *)
(* behind the region, the next one's first.  There pool.h's "don`t allow   *)
(* for cp to cross beyond the permited size" is not what pl_alloc does.    *)
Disjoint ==
  /\ Types
  /\ \A x \in live :
       \/ InRegion(x)
       \/ x[2] = Limit(x[1]) /\ Cardinality(Held(x[1])) = Cap[x[1]] + 1
  /\ \A x, y \in live : InRegion(x) /\ InRegion(y) =>
       /\ x # y => Data(x[1], x[2]) \cap Data(y[1], y[2]) = {}
       /\ y[2] \notin Data(x[1], x[2])

(* The first block of class c that was never handed out.                   *)
Top(c) == IF freed[c] = <<>> THEN head[c] ELSE mem[freed[c][Len(freed[c])]]

(* The headers chain the freed blocks of a class, the last one first, and  *)
(* end at the first block never handed out, whose header and the ones      *)
(* behind it are still 0; a block before it is either held or in the       *)
(* chain, once.  So no block is lost, and none is handed out twice         *)
(* (pl_alloc, pl_free), in all classes but the one that was overrun.       *)
ChainExact ==
  \A c \in {d \in Class : Cardinality(Held(d)) <= Cap[d]} :
    LET f == freed[c] IN
    /\ f # <<>> => head[c] = f[1]
    /\ \A i \in 1 .. Len(f) - 1 : mem[f[i]] = f[i+1]
    /\ \A i, j \in 1 .. Len(f) : f[i] = f[j] => i = j
    /\ Top(c) \in Blocks(c) \cup {Limit(c)}
    /\ \A a \in Blocks(c) :
         /\ a >= Top(c) => mem[a] = 0
         /\ a < Top(c) <=> \/ <<c, a>> \in live
                           \/ \E i \in 1 .. Len(f) : f[i] = a
         /\ ~ (<<c, a>> \in live /\ \E i \in 1 .. Len(f) : f[i] = a)

(* pl_show_info's count of free blocks is the blocks nobody holds; when    *)
(* one more is handed out than there are, it is the counter's largest.     *)
FreesExact == \A c \in Class : frees[c] = (Cap[c] - Cardinality(Held(c))) % Mod

(* The blocks pl_alloc's callers see.                                      *)
SmallHeap == INSTANCE Heap WITH
  Unit <- Addr,
  Request <- Sizes,
  Candidate <- [size \in Sizes |->
                  UNION {{Data(c, a) : a \in Blocks(c)} :
                         c \in {d \in Class : Serves(size, d)}}],
  owned <- {Data(x[1], x[2]) : x \in live},
  res <- ret

(* The pool allocator implements the same abstract heap as the buddy       *)
(* allocator, up to the first request of a class that has no block left,   *)
(* which the heap refuses and pl_alloc serves.                             *)
ImplementsHeap ==
  SmallHeap!Init /\ [][SmallHeap!Next \/ Overrun']_(SmallHeap!vars)
=============================================================================
