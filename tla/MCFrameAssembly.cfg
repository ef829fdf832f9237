CONSTANTS
  FrameKinds <- MCKinds
  Frames = 3
  Capacity = 5
  Flight = 2
  MaxFaults = 2
SPECIFICATION FrameFairSpec
PROPERTIES IntactRoundPosted PostedFromOneRound EveryPicturePosted
CHECK_DEADLOCK FALSE
