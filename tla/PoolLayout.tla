----------------------------- MODULE PoolLayout -----------------------------
(* How pl_init of mm/pool.c divides the block it is given: an array of     *)
(* struct pool, one for each size class, then the regions of the classes.  *)
(* Sizes are words; the header of a block is one word.                     *)
EXTENDS Arith

CONSTANTS
  Llc, Ulc,    \* mm_get_sec_llc, mm_get_sec_ulc: the smallest and the
               \* largest block
  Meta,        \* sizeof(struct pool)
  LLNum        \* POOL_CHUNK_LL_NUM

Num == Log(2, Ulc) - Log(2, Llc) + 1

ChunkOf(c) == Llc * Power(2, c)

(* pools[c].ll                                                             *)
Portion(c) == (ChunkOf(c) + 1) * LLNum

(* pl_get_init_size: what mmi_init asks the primary allocator for.         *)
InitSizeOf ==
  LET upTo[n \in Nat] == IF n = 0 THEN Meta * Num
                         ELSE upTo[n - 1] + Portion(n - 1)
  IN  upTo[Num]

(* pool_calc_size: class after class gets room for LLNum more blocks while *)
(* it fits, round and round until not even the lowest class's fits.        *)
RECURSIVE CalcSize(_, _, _)
CalcSize(i, rmd, caps) ==
  LET c == i % Num
  IN  IF rmd < Portion(0) THEN caps
      ELSE IF rmd >= Portion(c)
           THEN CalcSize(i + 1, rmd - Portion(c), [caps EXCEPT ![c] = @ + LLNum])
           ELSE CalcSize(i + 1, rmd, caps)

(* The blocks of each class in a pool of the size, pl_get_data_size of     *)
(* which the regions take.                                                 *)
CapsOf(size) == CalcSize(0, size - Meta * Num, [c \in 0 .. Num - 1 |-> 0])

(* pools[c].base of a pool of the size at the address.                     *)
BasesOf(address, size) ==
  LET caps == CapsOf(size)
      base[c \in 0 .. Num - 1] ==
        IF c = 0 THEN address + Meta * Num
        ELSE base[c - 1] + caps[c - 1] * (ChunkOf(c - 1) + 1)
  IN  base
=============================================================================
