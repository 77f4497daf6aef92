\* The destructor of a recorder whose snapshot thread has just asked for a
\* snapshot.
SPECIFICATION FairSpec
CONSTANTS
  Channels = {ch1}
  short = short
  long = long
  Intervals <- MCIntervals
  PeriodOf <- MCPeriodOf
  CopiesOf <- MCCopiesOf
  SnapshotMaxNum = 1
  UserSnapshots = 0
  MaxMessages = 1
  MaxTime = 2
  Workers = 2
  NoJob = NoJob
  Nobody = Nobody
PROPERTY DestructionEnds
CHECK_DEADLOCK FALSE
