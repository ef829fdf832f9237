CONSTANTS
  Programs = {"plain", "poll", "async", "ctrl", "mixer", "capture", "capture_poll", "capture_async"}
  Lengths = {0, 3, 6, 7}
  Period = 2
  Periods = 2
  Header = 0
  MaxShort = 2
  MaxPauses = 1
SPECIFICATION FairSpec
INVARIANTS ReleasesWhatItHolds OnceInOrder WholeFileHeard NothingHeldAtExit
PROPERTIES Ends
CHECK_DEADLOCK FALSE
