CONSTANTS
  Node = {n1, n2, n3}
  Item = {1, 2}
  head = head
  Junk = Junk
  Any = Any
SPECIFICATION Spec
INVARIANTS Linked MemorySafe
PROPERTIES ImplementsDeque ImplementsFifo
CHECK_DEADLOCK FALSE
