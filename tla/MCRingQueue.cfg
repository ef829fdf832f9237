CONSTANTS
  MAXSIZE = 5
  Item = {1, 2}
  ArrayItem = {1, 2}
  DATASIZE = 3
  Seconds <- MCSeconds
  SingleItem = {1, 2}
  Cell = {c1, c2, c3}
  Header = Header
  NULL = NULL
  Polynomials <- MCPolynomials
  CircleSizes = {1, 2, 3, 5, 8}
  Steps = {2, 3, 8}
SPECIFICATION StructSpec
INVARIANTS UnionHoldsBoth PuzzlesSolved
PROPERTIES ImplementsFifo ListsImplementItems
CHECK_DEADLOCK FALSE
