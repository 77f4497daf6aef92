SPECIFICATION FairSpec
CONSTANTS
  Jobs = {j1, j2, j3}
  Publishers = {p1, p2}
  NumWorkers = 2
  Owner = Owner
  Capturing = {j2}
  Closing = {j1}
  NoJob = NoJob
  Nobody = Nobody
INVARIANTS
  DestroyedLast
  JoinedIsSafe
  TokensAllEnd
PROPERTY FreedInTheEnd
CHECK_DEADLOCK FALSE
