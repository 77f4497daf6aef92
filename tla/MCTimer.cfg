SPECIFICATION Spec
CONSTANTS
  Threads = {t1, t2}
  Callers = {c1, c2}
  Names = {n1, n2}
  Nobody = Nobody
  kMaxCapacity = 4
  MaxHits = 1
  MaxIndex = 3
SYMMETRY Symmetry
INVARIANTS
  EachHitOnce
  ReportCovers
  OneSectionPerName
