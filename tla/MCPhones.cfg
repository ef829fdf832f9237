CONSTANTS
  TIME_NEXT = 2
  Ids = {0, 1, 2}
  None = None
  QueueLimit = 2
  MaxKeys = 3
  MaxCrashes = 1
  SIG_TIME_NEXT = 2
  MaxStarts = 4
  Pairs = {"outdoor", "out_task", "indoor", "work"}
  Pieces = 3
  MaxTyped = 2
  MaxCalls = 2
SPECIFICATION AllSpec
INVARIANTS  OnlyTheOther 
PROPERTIES  UiSendReturns CallReturns
CHECK_DEADLOCK FALSE
