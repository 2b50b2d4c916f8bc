SPECIFICATION Spec
CONSTANTS
  often = often
  rarely = rarely
  Crons <- MCCrons
  SlotsOf <- MCSlotsOf
  BadCron = BadCron
  Specs <- MCSpecs
  Dbs = {app, app2}
  Db = app
  app = app
  app2 = app2
  Extends <- MCExtends
  MaxOthers = 1
  Cleaners = {g1}
  Day = 2
  Week = 4
  Month = 8
  Debounce = 1
  NoPolicy = NoPolicy
  MaxTime = 3
  MaxFiles = 3
  MaxUid = 1
  MaxEdits = 0
  MaxFaults = 0
  MaxCrashes = 0
  MaxStale = 0
  MaxLosses = 0
  MaxOverlaps = 0
  MaxTroubles = 1
PROPERTIES OwnFilesOnly
\* the system rests when the clock stops
CHECK_DEADLOCK FALSE
