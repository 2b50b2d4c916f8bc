SPECIFICATION FairSpec
CONSTANTS
  Databases = {d1}
  Names = {n1}
  LagAllowed = TRUE
  NoDatabase = NoDatabase
  NoName = NoName
  MaxUid = 2
  MaxEdits = 0
  MaxFaults = 1
  MaxCrashes = 0
  MaxOutages = 1
  MaxRestores = 1
  d1 = d1
  n1 = n1
INVARIANTS FinalizerFirst ReadyOwnsDatabase
PROPERTIES EventuallyReady DeletionCompletes
\* the system rests when every Database is settled
CHECK_DEADLOCK FALSE
