SPECIFICATION SHFairSpec
CONSTANTS
  ProcessThreads = {t1, t2}
  Collected = {t1}
  Signals = {SIGINT, SIGTERM}
  SIGINT = SIGINT
  NoThread = NoThread
  MaxOperations = 1
  MaxSent = 2
INVARIANTS
  OneDumper
  FrameIsThere
PROPERTY CaughtIsDeadly
CHECK_DEADLOCK FALSE
