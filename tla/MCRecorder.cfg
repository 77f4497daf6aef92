\* One channel with one message, intervals of two and of four ticks, one
\* snapshot of the user.  The recorder stops for good: its destructor ends,
\* or it waits for a snapshot job that the stopped runner does not run.
SPECIFICATION FairSpec
CONSTANTS
  Channels = {ch1}
  short = short
  long = long
  Intervals <- MCIntervals
  PeriodOf <- MCPeriodOf
  CopiesOf <- MCCopiesOf
  SnapshotMaxNum = 1
  UserSnapshots = 1
  MaxMessages = 1
  MaxTime = 2
  Workers = 2
  NoJob = NoJob
  Nobody = Nobody
INVARIANTS WriteFindsOpenFile SnapshotIsWhole SnapshotCovers PathsMatchDisk
PROPERTY SnapshotAnswered
CHECK_DEADLOCK FALSE
