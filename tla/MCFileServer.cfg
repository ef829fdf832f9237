CONSTANTS
  Client = {c1, c2, c3}
  Fds = {4, 5}
  Chunks = 1
  MaxKills = 1
SPECIFICATION FairSpec
INVARIANTS OwnDescriptor FileUnderItsName
 
CHECK_DEADLOCK FALSE
