SPECIFICATION FairSpec
CONSTANTS
  Workers = {health, db}
  Health = health
  Clusters = {c1}
  NoPool = NoPool
  Free = Free
  MaxSpec = 2
  MaxRounds = 4
  MaxOutages = 1
  health = health
  db = db
  c1 = c1
INVARIANTS TypeOK CachedIsOpen RemoveDrains
PROPERTIES RoundEnds
\* the system rests when the bound on reconciliations is reached
CHECK_DEADLOCK FALSE
