SPECIFICATION Spec
CONSTANTS
  Key = {a, b}
  MaxKeys = 2
  MaxDepth = 3
  TickMod = 3
INVARIANTS
  EoiOwn
  NoStray
  TicksExact
  KeysInOrder
PROPERTY EveryKeyPrinted
