SPECIFICATION FairSpec
CONSTANTS
  Jobs = {j1, j2, j3}
  NoCall = NoCall
  NoJob = NoJob
INVARIANTS
  AtMostOneInRunner
  NoOvertaking
  NoLostJob
  FlagMeansOutstanding
PROPERTIES
  ImplementsSerialQueue
  PendingIsRun
  ExpiredRunnerDrains
CHECK_DEADLOCK FALSE
