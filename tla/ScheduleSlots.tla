----------------------------- MODULE ScheduleSlots -----------------------------
(***************************************************************************)
(* What a BackupSchedule promises, whatever its controller does to keep    *)
(* it: a Backup for a slot of the schedule is made when the slot has come, *)
(* only for slots after the schedule was created, and in the order of the  *)
(* slots, so never twice for one.  Slots that passed while nothing could   *)
(* be made may be left out.                                                *)
(***************************************************************************)
EXTENDS Naturals, Sequences

CONSTANT Slots   \* the times at which a schedule can be due

VARIABLES
  clock,
  born,        \* when the schedule was created
  made,        \* the slots it made Backups for, in the order it made them
  disturbed    \* so much went wrong that the order is not promised any more

vars == <<clock, born, made, disturbed>>

Init == clock \in Nat /\ born = 0 /\ made = <<>> /\ disturbed = FALSE

Tick == clock' = clock + 1 /\ UNCHANGED <<born, made, disturbed>>

\* The schedule is created, or created anew under its name.
Renew ==
  /\ born' = clock /\ made' = <<>>
  /\ disturbed' \in {disturbed, TRUE} /\ UNCHANGED clock

InOrder(t) == \A i \in DOMAIN made : made[i] < t

Make(t) ==
  /\ t \in Slots /\ t <= clock
  /\ (born < t /\ InOrder(t)) \/ disturbed'
  /\ made' = Append(made, t)
  /\ disturbed' \in {disturbed, TRUE} /\ UNCHANGED <<clock, born>>

Disturb == disturbed' = TRUE /\ UNCHANGED <<clock, born, made>>

Next == Tick \/ Renew \/ (\E t \in Slots : Make(t)) \/ Disturb

Spec == Init /\ [][Next]_vars

=============================================================================
