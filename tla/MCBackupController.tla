---------------------------- MODULE MCBackupController ----------------------------
(***************************************************************************)
(* Instances of BackupController for TLC.                                  *)
(***************************************************************************)
EXTENDS BackupController, TLC

\* All Backups dump databases of one DBCluster.
MCClusterOf == [b \in Backups |-> CHOOSE c \in Clusters : TRUE]

\* Run identifiers are random and interchangeable.
MCSymmetry == Permutations(RunIDs)

=============================================================================
