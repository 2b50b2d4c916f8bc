------------------------- MODULE MCRestoreController -------------------------
(***************************************************************************)
(* Instances of RestoreController for TLC.                                 *)
(***************************************************************************)
EXTENDS RestoreController, TLC

MCSourceDb == [b \in Backups |-> CHOOSE d \in Dbs : TRUE]

\* Without tables in schema public; a second job finds those the first one restored.
MCContents == {{"elsewhere"}}

\* One of each source and of each way to handle what is in the database.
MCSpecs ==
  LET d == CHOOSE d \in Dbs : TRUE
      b == CHOOSE b \in Backups : TRUE
      f == CHOOSE f \in Files : TRUE IN
  {[source |-> [by |-> "backupRef", name |-> b], target |-> d, onConflict |-> "drop"],
   [source |-> [by |-> "latestFrom", name |-> d], target |-> d, onConflict |-> "fail"],
   [source |-> [by |-> "path", name |-> f], target |-> d, onConflict |-> "overwrite"]}

=============================================================================
