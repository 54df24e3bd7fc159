SPECIFICATION ListSpec
CONSTANTS
  Node = {n1, n2, n3, n4}
  Head_ = head
  NULL = null
INVARIANT Linked
PROPERTY ImplementsDeque
