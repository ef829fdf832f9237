CONSTANTS
  Thread = {t1, t2, t3}
  Null = Null
SPECIFICATION FairSpec
INVARIANTS SocketHasOwner FlagHasThread
PROPERTIES  CleanStartReceives
CHECK_DEADLOCK FALSE
