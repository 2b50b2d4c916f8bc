--------------------------- MODULE MCBackupSchedule ---------------------------
(***************************************************************************)
(* Instances of BackupSchedule for TLC.                                    *)
(***************************************************************************)
EXTENDS BackupSchedule

CONSTANTS often, rarely

MCCrons == {often, rarely}
MCSlotsOf == [c \in MCCrons |-> IF c = often THEN {2, 3, 5} ELSE {2, 4, 6}]

\* The names of the other databases begin with the name of the schedule's.
MCExtends == {<<Db, d>> : d \in Dbs \ {Db}}

Keep(l, d, w, m) == [last |-> l, daily |-> d, weekly |-> w, monthly |-> m]
Schedule(c, s, k) == [cron |-> c, suspend |-> s, keep |-> k]

MCSpecs ==
  {Schedule(often, FALSE, Keep(1, 1, 0, 0)), Schedule(often, FALSE, Keep(0, 0, 1, 1)),
   Schedule(rarely, TRUE, NoPolicy), Schedule(BadCron, FALSE, NoPolicy)}

=============================================================================
