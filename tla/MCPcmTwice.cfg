CONSTANTS
  Programs = {"async"}
  Lengths = {3}
  Period = 2
  Periods = 2
  Header = 0
  MaxShort = 1
  MaxPauses = 0
SPECIFICATION Spec
INVARIANTS NothingTwice
CHECK_DEADLOCK FALSE
