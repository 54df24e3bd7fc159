-------------------------------- MODULE MCMmi --------------------------------
(* Values for the constants of Mmi: the blocks of the pool that pl_init    *)
(* lays out in the leaves it is given.                                     *)
EXTENDS Mmi, PoolLayout

Layout == BasesOf(SecBase, SecSize)

MCInitSize == InitSizeOf
MCChunk == [c \in 0 .. Num - 1 |-> ChunkOf(c)]
MCBlocks ==
  [c \in 0 .. Num - 1 |->
     {LET data == Layout[c] + n * (ChunkOf(c) + 1) + 1 IN data .. data + ChunkOf(c) - 1 :
        n \in 0 .. CapsOf(SecSize)[c] - 1}]
=============================================================================
