SPECIFICATION LQSpec
CONSTANTS
  InitCapacity = 1
  MaxCapacity = 8
  MaxBatch = 3
  Callables = {j1, j2}
  Hollow = Hollow
PROPERTY ImplementsFifo
CHECK_DEADLOCK FALSE
