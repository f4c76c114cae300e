SPECIFICATION Spec
CONSTANTS
  None = None
  Sources = {s1, s2}
  Tasks = {a1, a2}
  Limit = 2
  Window = 3
  MaxSources = 1
  MaxConcurrent = 1
  MaxStall = 1
  MaxTime = 7
SYMMETRY Symmetry
INVARIANTS
  TypeOK
  RateHolds
  TableBounded
PROPERTIES
  RefusalJustified
