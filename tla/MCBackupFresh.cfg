SPECIFICATION Spec
CONSTANTS
  Backups = {b1}
  RunIDs = {r1, r2}
  Clusters = {c}
  ClusterOf <- MCClusterOf
  MaxConcurrentBackups = 1
  BackoffLimit = 1
  LagAllowed = FALSE
  NoBackup = NoBackup
  NoJob = NoJob
  MaxUid = 2
  MaxSpec = 2
  MaxFaults = 1
  MaxCrashes = 1
  b1 = b1
  r1 = r1
  r2 = r2
SYMMETRY MCSymmetry
INVARIANTS AtMostOneLiveJob CompletedByOwnDump NoOrphanJob
PROPERTIES TerminalSticky
\* the system rests when every Backup is settled
CHECK_DEADLOCK FALSE
