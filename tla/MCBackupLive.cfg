SPECIFICATION FairSpec
CONSTANTS
  Backups = {b1}
  RunIDs = {r1}
  Clusters = {c}
  ClusterOf <- MCClusterOf
  MaxConcurrentBackups = 1
  BackoffLimit = 1
  LagAllowed = TRUE
  NoBackup = NoBackup
  NoJob = NoJob
  MaxUid = 1
  MaxSpec = 1
  MaxFaults = 1
  MaxCrashes = 1
  b1 = b1
  r1 = r1
INVARIANTS TypeOK StatusBackedByDump JobImpliesFinalizer
PROPERTIES EventuallySettled DeletionCompletes
\* the system rests when every Backup is settled
CHECK_DEADLOCK FALSE
