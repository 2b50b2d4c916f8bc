SPECIFICATION FairSpec
CONSTANTS
  Restores = {x}
  MaxRunID = 2
  Backups = {b1}
  Files = {f1}
  Dbs = {d}
  SourceDb <- MCSourceDb
  Specs <- MCSpecs
  Contents <- MCContents
  NoRestore = NoRestore
  NoSpec = NoSpec
  NoJob = NoJob
  NoFile = NoFile
  MaxUid = 2
  MaxEdits = 1
  MaxFaults = 1
  MaxCrashes = 1
  MaxStale = 1
  MaxLosses = 1
  MaxTroubles = 1
INVARIANTS TypeOK CompletedByOwnJob RunsOnce FailedHasStopped NoOrphanJob
PROPERTIES  EventuallySettled
\* the system rests when every Restore is settled
CHECK_DEADLOCK FALSE
