SPECIFICATION Spec
CONSTANTS
  K <- MCNum
  LLNum = 2
  Llc = 1
  Ulc = 2
  Meta = 1
  Size = 13
  Mod = 16
  Sizes = {1, 2, 3}
  Chunk <- MCChunk
  Cap <- MCCap
  Base <- MCBase
INVARIANTS
  Disjoint
  ChainExact
  FreesExact
PROPERTY ImplementsHeap
