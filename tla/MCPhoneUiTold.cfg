CONSTANTS
  TIME_NEXT = 2
  Ids = {0, 1, 2}
  None = None
  QueueLimit = 2
  MaxKeys = 3
  MaxCrashes = 1
SPECIFICATION Spec
PROPERTIES UiIsTold
CHECK_DEADLOCK FALSE
