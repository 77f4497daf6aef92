\* A snapshot job outlives the call that waits for it, and the recorder its files.
SPECIFICATION Spec
CONSTANTS
  Channels = {ch1}
  short = short
  long = long
  Intervals <- MCIntervals
  PeriodOf <- MCPeriodOf
  CopiesOf <- MCCopiesOf
  SnapshotMaxNum = 2
  UserSnapshots = 1
  MaxMessages = 1
  MaxTime = 2
  Workers = 2
  NoJob = NoJob
  Nobody = Nobody
INVARIANTS CallerOutlivesJob FilesOutliveJobs
CHECK_DEADLOCK FALSE
