SPECIFICATION FairSpec
CONSTANTS
  often = often
  rarely = rarely
  Crons <- MCCrons
  SlotsOf <- MCSlotsOf
  BadCron = BadCron
  Specs <- MCSpecs
  Dbs = {d}
  Db = d
  d = d
  Extends <- MCExtends
  MaxOthers = 1
  Cleaners = {g1, g2}
  Day = 2
  Week = 4
  Month = 8
  Debounce = 1
  NoPolicy = NoPolicy
  MaxTime = 3
  MaxFiles = 3
  MaxUid = 2
  MaxEdits = 1
  MaxFaults = 1
  MaxCrashes = 1
  MaxStale = 1
  MaxLosses = 1
  MaxOverlaps = 1
  MaxTroubles = 1
INVARIANTS TypeOK
PROPERTIES KeepsPromise KeepsGoing ProtectedFilesStay NewestBackupsStay
\* the system rests when the clock stops
CHECK_DEADLOCK FALSE
