\* More snapshots are kept than max_num_of_copies_ of the interval allows.
SPECIFICATION Spec
CONSTANTS
  Channels = {ch1}
  short = short
  long = long
  Intervals <- MCIntervals
  PeriodOf <- MCPeriodOf
  CopiesOf <- MCCopiesOf
  SnapshotMaxNum = 2
  UserSnapshots = 0
  MaxMessages = 1
  MaxTime = 2
  Workers = 2
  NoJob = NoJob
  Nobody = Nobody
INVARIANT CopiesWithinConfig
CHECK_DEADLOCK FALSE
