CONSTANTS
  Programs = {"queued", "http"}
  MaxRuns = 4
  QueueMax = 2
  Bodies = {0, 3}
  Garbage <- MCGarbage
  BufLen = 2
  Leftovers = {0, 4}
  MaxShort = 1
  Urls <- MCUrls
  Versions = {"udp", "serve", "fina"}
  Whole <- MCWhole
  NameLength = 1
  MaxWords = 7
  MaxLost = 1
  Readers = {"r1", "r2"}
  Writers = {"w1", "w2"}
  Turns = 3
  MaxAvail = 3
  FRAMEBUFFER_COUNT = 3
  MaxFrames = 9
  ReadSizes <- MCReadSizes
  Bursts = {1, 2, 4}
  SignalLimit = 3
  MaxInput = 9
SPECIFICATION Spec
INVARIANTS NamedAfterUrl SuccessIsWhole QueuesInStep NoMutualWait 
INVARIANTS NoLostWakeup  InputIsSignalled
PROPERTIES RunEnds FileArrives ThreadsEnd
CHECK_DEADLOCK FALSE
