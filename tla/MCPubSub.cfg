SPECIFICATION FairSpec
CONSTANTS
  Nodes = {n1, n2}
  Channels = {c1, c2}
  Publishers = {p1, p2}
  Nobody = Nobody
  NoChannel = NoChannel
  p1 = p1
  p2 = p2
  c1 = c1
  c2 = c2
  MaxMessages <- MCMaxMessages
INVARIANTS
  TargetsCallable
  GoneIsForgotten
  NoGapNoDuplicate
PROPERTY DestructionEnds
CHECK_DEADLOCK FALSE
