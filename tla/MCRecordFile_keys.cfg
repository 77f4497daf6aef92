\* A writer that rolls by size, whose roll falls into the second its database
\* was made in.
SPECIFICATION Spec
CONSTANTS
  MaxTime = 5
  MaxRecords = 3
  MaxFaults = 0
  Helpers = {"size"}
  Period = 2
  Offset = 1
  SizeLimit = 2
  Sizes <- MCSizes
  Absent = Absent
  NoName = NoName
INVARIANT KeysReadBack
