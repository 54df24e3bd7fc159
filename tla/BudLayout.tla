----------------------------- MODULE BudLayout ------------------------------
(* How _bud_init of mm/buddy.c divides the memory it is given, in bytes:   *)
(* one struct bitmaps per order, the bitmaps, one header per leaf, and the *)
(* heap.  The orders and the heap's size are found before the metadata is  *)
(* laid out, bud_get_real_size taking off what the whole memory as a heap  *)
(* would need.                                                             *)
EXTENDS Integers, FiniteSetsExt

CONSTANTS MinChunk, MaxOrd    \* BUD_MIN_CHUNK and BUD_MAX_ORD

BitmapBits  == 32    \* BITMAP_DEF_BIT
BitmapBytes == 4     \* BITMAP_DEF_BYTE
BitmapsSize == 24    \* sizeof(struct bitmaps)
BlkHdrSize  == 1     \* sizeof(struct bud_blk_hdr)

(* bud_get_dep: the first order of which the memory holds fewer than       *)
(* BUD_MIN_CHUNK blocks, or BUD_MAX_ORD.                                   *)
GetDep(size, ll) ==
  Min({i \in 0 .. MaxOrd : size \div (ll * 2^i) < MinChunk \/ i = MaxOrd})

BitmapWords(size, chunk) == (size \div chunk + BitmapBits - 1) \div BitmapBits

BitmapsBytes(size, ll, dep) ==
  MapThenSumSet(LAMBDA i : BitmapWords(size, ll * 2^i) * BitmapBytes, 0 .. dep - 1)

(* bud_get_real_size; negative when the memory is too small.               *)
RealSize(size, ll) ==
  LET dep == GetDep(size, ll)
  IN  size - BitmapsSize * dep - BitmapsBytes(size, ll, dep) - (size \div ll) * BlkHdrSize

(* bm.hdr_base and bm.heap_base, from the start of the memory.             *)
HdrBase(size, ll) ==
  LET data == RealSize(size, ll)
      dep  == GetDep(data, ll)
  IN  BitmapsSize * dep + BitmapsBytes(data, ll, dep)

HeapBase(size, ll) ==
  HdrBase(size, ll) + (RealSize(size, ll) \div ll) * BlkHdrSize

(* bm.rmd_size, what is left behind the heap. *)
Remainder(size, ll) == size - RealSize(size, ll) - HeapBase(size, ll)
=============================================================================
