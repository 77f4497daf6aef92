SPECIFICATION FairSpec
CONSTANTS
  hang = hang
  j1 = j1
  j2 = j2
  single = single
  batch = batch
  ThreadNum = 2
  AlwaysActiveNum = 1
  CounterSize = 4
  Jobs = {hang, j1, j2}
  Hanging = {hang}
  NoJob = NoJob
  Adders = {single, batch}
  Batch <- MCBatch
INVARIANTS
  EachJobOnce
  ActiveCountsAwake
  StopIsFinal
PROPERTIES
  QueuedIsRun
  DestructionEnds
CHECK_DEADLOCK FALSE
