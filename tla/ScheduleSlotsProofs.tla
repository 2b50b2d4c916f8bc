-------------------------- MODULE ScheduleSlotsProofs --------------------------
(***************************************************************************)
(* What follows from the promise of ScheduleSlots, for every set of slots  *)
(* and however long the schedule lives.                                    *)
(***************************************************************************)
EXTENDS ScheduleSlots, TLAPS

\* handleScheduledBackup and createBackup: the slots are used in their order, so that no slot
\* has two Backups, as long as the schedule is not disturbed.
Increasing == ~disturbed => \A i, j \in DOMAIN made : i < j => made[i] < made[j]
OncePerSlot == ~disturbed => \A i, j \in DOMAIN made : made[i] = made[j] => i = j

\* calculateNextRun: no Backup is made before its slot has come, nor for a slot that lies
\* before the creation of the schedule.
OnTime ==
  \A i \in DOMAIN made : made[i] <= clock /\ (~disturbed => born < made[i])

SlotsInv ==
  /\ clock \in Nat /\ made \in Seq(Slots) /\ disturbed \in BOOLEAN
  /\ Increasing /\ OnTime

-----------------------------------------------------------------------------
LEMMA InitSlots == Init => SlotsInv
<1> SUFFICES ASSUME Init PROVE SlotsInv
  OBVIOUS
<1>1. clock \in Nat /\ made = <<>> /\ disturbed \in BOOLEAN
  BY DEF Init
<1>2. made \in Seq(Slots) /\ DOMAIN made = {}
  BY <1>1
<1> QED BY <1>1, <1>2 DEF SlotsInv, Increasing, OnTime

\* The elements of a sequence.
LEMMA Elements ==
  ASSUME NEW S, NEW q \in Seq(S), NEW i \in DOMAIN q PROVE q[i] \in S /\ i \in Nat
<1>1. DOMAIN q = 1..Len(q) /\ Len(q) \in Nat
  OBVIOUS
<1> QED BY <1>1

\* Where the elements of a sequence are once one more was appended.
LEMMA Appended ==
  ASSUME NEW S, NEW q \in Seq(S), NEW t \in S
  PROVE  /\ Append(q, t) \in Seq(S)
         /\ DOMAIN Append(q, t) = 1..(Len(q) + 1) /\ DOMAIN q = 1..Len(q) /\ Len(q) \in Nat
         /\ Append(q, t)[Len(q) + 1] = t
         /\ \A i \in 1..Len(q) : Append(q, t)[i] = q[i]
OBVIOUS

LEMMA MakeStep ==
  ASSUME Slots \subseteq Nat, SlotsInv, NEW t \in Slots, Make(t)
  PROVE  SlotsInv'
<1>1. /\ made' = Append(made, t) /\ t <= clock /\ UNCHANGED <<clock, born>>
      /\ disturbed' \in {disturbed, TRUE}
      /\ (born < t /\ \A i \in DOMAIN made : made[i] < t) \/ disturbed'
  BY DEF Make, InOrder
<1>2. /\ clock \in Nat /\ made \in Seq(Slots) /\ disturbed \in BOOLEAN /\ Increasing /\ OnTime
  BY DEF SlotsInv
<1>3. /\ made' \in Seq(Slots)
      /\ DOMAIN made' = 1..(Len(made) + 1) /\ DOMAIN made = 1..Len(made) /\ Len(made) \in Nat
      /\ made'[Len(made) + 1] = t
      /\ \A i \in 1..Len(made) : made'[i] = made[i]
  BY <1>1, <1>2, Appended
<1>4. Increasing'
  <2> SUFFICES ASSUME ~disturbed', NEW i \in DOMAIN made', NEW j \in DOMAIN made', i < j
               PROVE  made'[i] < made'[j]
    BY DEF Increasing
  <2>1. i \in 1..Len(made)
    BY <1>3
  <2>0. ~disturbed
    BY <1>1, Zenon
  <2>2. CASE j \in 1..Len(made)
    BY <2>1, <2>2, <2>0, <1>2, <1>3 DEF Increasing
  <2>3. CASE j = Len(made) + 1
    BY <2>1, <2>3, <1>1, <1>3
  <2> QED BY <2>2, <2>3, <1>3
<1>5. OnTime'
  <2> SUFFICES ASSUME NEW i \in DOMAIN made'
               PROVE  made'[i] <= clock' /\ (~disturbed' => born' < made'[i])
    BY DEF OnTime
  <2>1. CASE i \in 1..Len(made)
    BY <2>1, <1>1, <1>2, <1>3 DEF OnTime
  <2>2. CASE i = Len(made) + 1
    BY <2>2, <1>1, <1>3
  <2> QED BY <2>1, <2>2, <1>3
<1>6. clock' \in Nat /\ disturbed' \in BOOLEAN
  BY <1>1, <1>2
<1> QED BY <1>3, <1>4, <1>5, <1>6 DEF SlotsInv

LEMMA TickStep == ASSUME Slots \subseteq Nat, SlotsInv, Tick PROVE SlotsInv'
<1>1. clock' = clock + 1 /\ UNCHANGED <<born, made, disturbed>> /\ clock \in Nat /\ made \in Seq(Slots)
  BY DEF Tick, SlotsInv
<1>2. \A i \in DOMAIN made : made[i] \in Nat
  BY <1>1, Elements
<1>3. Increasing'
  BY <1>1 DEF SlotsInv, Increasing
<1>4. OnTime'
  BY <1>1, <1>2 DEF SlotsInv, OnTime
<1> QED BY <1>1, <1>3, <1>4 DEF SlotsInv

LEMMA SlotsStep == ASSUME Slots \subseteq Nat, SlotsInv, [Next]_vars PROVE SlotsInv'
<1>1. CASE Tick
  BY <1>1, TickStep
<1>2. CASE Renew
  <2>1. clock' \in Nat /\ made' \in Seq(Slots) /\ DOMAIN made' = {}
    BY <1>2 DEF Renew, SlotsInv
  <2>2. disturbed' \in BOOLEAN
    BY <1>2, Zenon DEF Renew, SlotsInv
  <2> QED BY <2>1, <2>2 DEF SlotsInv, Increasing, OnTime
<1>3. ASSUME NEW t \in Slots, Make(t) PROVE SlotsInv'
  BY <1>3, MakeStep
<1>4. CASE Disturb
  BY <1>4 DEF Disturb, SlotsInv, Increasing, OnTime
<1>5. CASE UNCHANGED vars
  BY <1>5 DEF vars, SlotsInv, Increasing, OnTime
<1> QED BY <1>1, <1>2, <1>3, <1>4, <1>5 DEF Next

LEMMA NoSlotTwice == ASSUME Slots \subseteq Nat, SlotsInv PROVE OncePerSlot
<1> SUFFICES ASSUME ~disturbed, NEW i \in DOMAIN made, NEW j \in DOMAIN made, made[i] = made[j]
             PROVE  i = j
  BY DEF OncePerSlot
<1>1. made[i] \in Nat /\ made[j] \in Nat /\ i \in Nat /\ j \in Nat
  BY Elements DEF SlotsInv
<1>2. (i < j => made[i] < made[j]) /\ (j < i => made[j] < made[i])
  BY Zenon DEF SlotsInv, Increasing
<1> QED BY <1>1, <1>2

-----------------------------------------------------------------------------
\* The promise means that no slot gets two Backups and none gets one before it has come, or
\* for a time before the schedule was created: what generateBackupName and
\* calculateNextRun are for.
THEOREM PromiseMeans ==
  ASSUME Slots \subseteq Nat
  PROVE  Spec => [](OncePerSlot /\ OnTime)
<1>1. SlotsInv /\ [Next]_vars => SlotsInv'
  BY SlotsStep
<1>2. SlotsInv => OncePerSlot /\ OnTime
  BY NoSlotTwice DEF SlotsInv
<1> QED BY <1>1, <1>2, InitSlots, PTL DEF Spec

=============================================================================
