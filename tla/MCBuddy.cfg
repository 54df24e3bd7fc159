SPECIFICATION Spec
CONSTANTS
  N = 7
  W = 4
  Dep = 3
  LL = 2
  Sizes = {1, 3, 8, 9}
  MinChunk = 1
  MaxOrd = 11
  Chunk <- MCChunk
INVARIANTS
  TypeOK
  NoOverlap
  BitmapExact
  HeadersExact
  FreesExact
PROPERTY ImplementsHeap
