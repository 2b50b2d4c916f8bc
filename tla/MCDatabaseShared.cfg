SPECIFICATION Spec
CONSTANTS
  Databases = {d1, d2}
  Names = {n1, n2}
  LagAllowed = FALSE
  NoDatabase = NoDatabase
  NoName = NoName
  MaxUid = 1
  MaxEdits = 1
  MaxFaults = 0
  MaxCrashes = 1
  MaxOutages = 0
  MaxRestores = 0
  d1 = d1
  d2 = d2
  n1 = n1
  n2 = n2
SYMMETRY MCSymmetry
INVARIANTS TypeOK ReadyOwnsDatabase DeletedOwnsNothing
\* the system rests when every Database is settled
CHECK_DEADLOCK FALSE
