------------------------------- MODULE MCPool -------------------------------
(* Values for the constants of Pool, as pl_init computes them.             *)
EXTENDS Pool, PoolLayout

CONSTANT Size    \* words pl_init is given

MCNum == Num
MCChunk == [c \in Class |-> ChunkOf(c)]
MCCap == CapsOf(Size)
MCBase == BasesOf(1, Size)

(* The kernel's own pool, in bytes: MM_PRI_CHUNK_LLC, MM_SEC_CHUNK_ULC and *)
(* MM_SEC_CHUNK_LLC.  A word, and with it a header, has four.              *)
PriLlc == 2048
SecUlc == PriLlc \div 2
SecLlc == 16
Kernel == INSTANCE PoolLayout WITH
            Llc <- SecLlc \div 4, Ulc <- SecUlc \div 4, Meta <- 24 \div 4, LLNum <- 128

(* mmi_init asks for what pl_get_init_size says and gives pl_init the      *)
(* block that bud_rndup makes of it.  Every class gets the blocks that     *)
(* were asked for, and the regions end inside the block.                   *)
ASSUME KernelPoolFits ==
  LET given == {(PriLlc \div 4) * 2^n : n \in 0 .. 10}
      size  == CHOOSE s \in given :
                 /\ s >= Kernel!InitSizeOf
                 /\ \A t \in given : t >= Kernel!InitSizeOf => s <= t
      caps  == Kernel!CapsOf(size)
      last  == Kernel!Num - 1
  IN  /\ \A c \in 0 .. last : caps[c] >= 128
      /\ Kernel!BasesOf(0, size)[last] + caps[last] * (Kernel!ChunkOf(last) + 1) <= size
=============================================================================
