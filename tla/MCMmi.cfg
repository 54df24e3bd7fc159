SPECIFICATION MmiSpec
CONSTANTS
  N = 9
  Batch = 2
  Wmk = 3
  Reach = 8
  Large = {{0, 1}, {2, 3}, {4, 5}, {6, 7}, {0, 1, 2, 3}, {4, 5, 6, 7}}
  PageSize = 4
  Llc = 1
  Ulc = 2
  Meta = 1
  LLNum = 1
  Sizes = {1, 2, 3, 4, 7, 16}
  Chunk <- MCChunk
  Blocks <- MCBlocks
  InitSize <- MCInitSize
INVARIANT Accounted
PROPERTY ImplementsHeap
CHECK_DEADLOCK FALSE
