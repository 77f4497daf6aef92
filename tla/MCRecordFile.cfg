\* Three records over five seconds, rolling every two seconds (one second
\* late) or at a size of two; two faults, crashes or failures of the disk.
SPECIFICATION Spec
CONSTANTS
  MaxTime = 5
  MaxRecords = 3
  MaxFaults = 2
  Helpers = {"none", "period", "size"}
  Period = 2
  Offset = 1
  SizeLimit = 2
  Sizes <- MCSizes
  Absent = Absent
  NoName = NoName
INVARIANTS OneDirectory NothingLost InOrder
PROPERTY CommittedIsFrozen
