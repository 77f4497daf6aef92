SPECIFICATION FairSpec
CONSTANTS
  Channels = {c1, c2}
  c1 = c1
  c2 = c2
  Nothing = Nothing
  Recordings <- MCRecordings
  Speeds <- MCSpeeds
  Threshold = 1
  MaxReaders = 2
  MaxClock = 8
INVARIANTS
  InKeyOrder
  NothingSkipped
  OnPace
PROPERTY Finishes
CHECK_DEADLOCK FALSE
