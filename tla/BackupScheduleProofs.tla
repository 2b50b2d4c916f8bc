-------------------------- MODULE BackupScheduleProofs --------------------------
(***************************************************************************)
(* BackupSchedule keeps its variables in their types and implements        *)
(* ScheduleSlots, for every set of schedules and slots, every retention    *)
(* policy, every number of goroutines and whatever the bounds.             *)
(*                                                                         *)
(* The order of the slots holds for two reasons.  While no call fails and  *)
(* no cache trails, the last run in the status is that of the copy the     *)
(* worker has and lies behind all slots that were used (OrderInv).  While  *)
(* no user interferes it may lag behind, but then the Backup of the one    *)
(* slot that is used again is there and is not deleted: a cleanup only     *)
(* deletes Backups that have a newer one (CalmInv).  One trouble leaves    *)
(* one of the two.                                                         *)
(***************************************************************************)
EXTENDS BackupSchedule, FiniteSetTheorems, TLAPS

-----------------------------------------------------------------------------
(* The slots of a cron expression                                          *)

LEMMA SlotFacts ==
  /\ Slots \subseteq Nat \ {0} /\ \A c \in Crons : SlotsOf[c] \subseteq Slots
  /\ BadCron \notin Crons /\ NoPolicy \notin RetentionPolicy
<1>1. \A c \in Crons : SlotsOf[c] \subseteq Nat \ {0} /\ SlotsOf[c] \subseteq Slots
  BY TimeAssumption DEF Slots
<1> QED BY <1>1, NamesAssumption DEF Slots

\* A set of numbers has a least one: what Schedule.Next relies on.
LEMMA Least ==
  ASSUME NEW T, T \subseteq Nat, T # {} PROVE \E x \in T : \A y \in T : x <= y
<1>1. IsWellFoundedOn(OpToRel(<, Nat), Nat)
  BY NatLessThanWellFounded
<1>2. \E x \in T : \A y \in T : <<y, x>> \notin OpToRel(<, Nat)
  BY <1>1, WFMin
<1>3. \A x, y \in T : <<y, x>> \notin OpToRel(<, Nat) => x <= y
  BY DEF OpToRel
<1> QED BY <1>2, <1>3

\* NextSlot is the first slot after a time, and there is one within reach of the clock.
LEMMA NextSlotIs ==
  ASSUME NEW c \in Crons, NEW t \in Times
  PROVE  /\ NextSlot(c, t) \in SlotsOf[c] /\ NextSlot(c, t) > t
         /\ \A y \in SlotsOf[c] : y > t => NextSlot(c, t) <= y
<1> DEFINE T == {x \in SlotsOf[c] : x > t}
           First(x) == x > t /\ \A y \in SlotsOf[c] : y > t => x <= y
<1>1. T \subseteq Nat /\ t \in Nat /\ MaxTime \in Nat /\ t <= MaxTime
  BY TimeAssumption, BoundAssumption DEF Times
<1>2. PICK s \in SlotsOf[c] : s > MaxTime
  BY TimeAssumption
<1>3. s \in T
  BY <1>1, <1>2, TimeAssumption
<1>4. PICK x \in T : \A y \in T : x <= y
  BY <1>1, <1>3, Least
<1>5. x \in SlotsOf[c] /\ First(x)
  BY <1>4
<1>6. NextSlot(c, t) = CHOOSE z \in SlotsOf[c] : First(z)
  BY DEF NextSlot
<1> HIDE DEF First
<1>7. NextSlot(c, t) \in SlotsOf[c] /\ First(NextSlot(c, t))
  BY <1>5, <1>6
<1> QED BY <1>7 DEF First

-----------------------------------------------------------------------------
(* Type correctness                                                        *)

\* What the worker knows once it goes for a slot.
WorkInv ==
  /\ pc \in {"lookup", "create"} =>
       obj.spec.cron # BadCron /\ slot = CalculateNextRun(obj) /\ slot <= now
  /\ pc = "patch" => to.last <= now

\* TypeOK with the goroutines as one function: what makes it inductive.
Goroutine ==
  [at : {"idle", "refetch", "mark", "files", "unlink", "list", "delete"},
   keep : {s.keep : s \in Specs} \cup {NoPolicy}, files : SUBSET FileRecord,
   backups : SUBSET Slots]

ClockOK == now \in Times
ObjectsOK == sched \in ScheduleRecord /\ backup \in [Slots -> BackupRecord]
CachesOK == seenS \in ScheduleRecord /\ seenB \in [Slots -> BackupRecord] /\ lagging \in BOOLEAN
StorageOK == files \subseteq FileRecord /\ dumps \in 0..MaxFiles /\ others \in 0..MaxOthers
WakeupsOK == queued \in BOOLEAN /\ alarm \in {0} \cup Slots
LocalOK ==
  /\ pc \in Steps /\ obj \in ScheduleRecord /\ slot \in {0} \cup Slots /\ to \in Status
  /\ todo \subseteq Slots
CleanOK == clean \in [Cleaners -> Goroutine]
MadeOK == made \in Seq(Slots)
BoundsOK ==
  /\ edits \in 0..MaxEdits /\ faults \in 0..MaxFaults /\ crashes \in 0..MaxCrashes
  /\ stale \in 0..MaxStale /\ losses \in 0..MaxLosses /\ overlaps \in 0..MaxOverlaps
TypeInv ==
  /\ ClockOK /\ ObjectsOK /\ CachesOK /\ StorageOK /\ WakeupsOK /\ LocalOK /\ CleanOK
  /\ MadeOK /\ BoundsOK /\ WorkInv

LEMMA Defaults ==
  /\ \A u \in 0..MaxUid, b \in Times : Absent(u, b) \in ScheduleRecord
  /\ NoRecord \in BackupRecord /\ NoStatus \in Status /\ NoClean \in Goroutine
  /\ 0 \in Times /\ 0 \in 0..MaxUid
<1>1. 0 \in Times /\ 0 \in 0..MaxUid
  BY BoundAssumption DEF Times
<1>2. AnySpec \in Specs
  BY NamesAssumption DEF AnySpec
<1>3. \A u \in 0..MaxUid, b \in Times : Absent(u, b) \in ScheduleRecord
  BY <1>1, <1>2 DEF Absent, ScheduleRecord, Phases
<1>4. NoRecord \in BackupRecord
  BY <1>1 DEF NoRecord, BackupRecord
<1>5. NoStatus \in Status
  BY <1>1 DEF NoStatus, Status, Phases
<1>6. NoClean \in Goroutine
  BY DEF NoClean, Goroutine
<1> QED BY <1>1, <1>3, <1>4, <1>5, <1>6

LEMMA SpecFacts ==
  \A s \in Specs :
    /\ s.cron \in Crons \cup {BadCron} /\ s.suspend \in BOOLEAN
    /\ s.keep \in RetentionPolicy \cup {NoPolicy}
    /\ s.keep \in {x.keep : x \in Specs}
BY NamesAssumption DEF BackupScheduleSpec

LEMMA RecordFacts ==
  ASSUME NEW o \in ScheduleRecord
  PROVE  /\ o.uid \in 0..MaxUid /\ o.uid \in Nat /\ o.born \in Times /\ o.last \in Times
         /\ o.born \in Nat /\ o.last \in Nat /\ o.spec \in Specs /\ o.exists \in BOOLEAN
         /\ o.spec.cron \in Crons \cup {BadCron} /\ o.phase \in Phases
         /\ o.next \in {0} \cup Slots /\ o.cleaned \in Times
         /\ o.fin \in BOOLEAN /\ o.del \in BOOLEAN
BY SpecFacts, BoundAssumption DEF ScheduleRecord, Times

\* calculateNextRun: after the last run, or after the creation.
Base(o) == IF o.last # 0 THEN o.last ELSE o.born
LEMMA NextRunIs ==
  ASSUME NEW o \in ScheduleRecord, o.spec.cron # BadCron
  PROVE  /\ CalculateNextRun(o) = NextSlot(o.spec.cron, Base(o))
         /\ Base(o) \in Times /\ o.spec.cron \in Crons
         /\ CalculateNextRun(o) \in Slots /\ CalculateNextRun(o) > Base(o)
         /\ CalculateNextRun(o) \in Nat
<1>1. Base(o) \in Times /\ o.spec.cron \in Crons
  BY RecordFacts DEF Base
<1>2. CalculateNextRun(o) = NextSlot(o.spec.cron, Base(o))
  BY DEF CalculateNextRun, Base
<1>3. NextSlot(o.spec.cron, Base(o)) \in Slots /\ NextSlot(o.spec.cron, Base(o)) > Base(o)
  BY <1>1, NextSlotIs, SlotFacts
<1> QED BY <1>1, <1>2, <1>3, SlotFacts

\* What is left alone keeps its type.
LEMMA SameType ==
  ASSUME TypeInv
  PROVE  /\ now' = now => ClockOK'
         /\ UNCHANGED objects => ObjectsOK'
         /\ UNCHANGED caches => CachesOK'
         /\ UNCHANGED storage => StorageOK'
         /\ UNCHANGED wakeups => WakeupsOK'
         /\ UNCHANGED clean => CleanOK'
         /\ UNCHANGED made => MadeOK'
         /\ UNCHANGED bounds => BoundsOK'
BY DEF TypeInv, ClockOK, ObjectsOK, CachesOK, StorageOK, WakeupsOK, CleanOK, MadeOK, BoundsOK,
       objects, caches, storage, wakeups, bounds

LEMMA SameLocal ==
  ASSUME TypeInv, UNCHANGED local, now' \in {now, now + 1} PROVE LocalOK' /\ WorkInv'
<1>1. /\ pc' = pc /\ obj' = obj /\ slot' = slot /\ to' = to /\ todo' = todo /\ now \in Nat
      /\ slot \in Nat /\ to.last \in Nat /\ now <= now'
  BY SlotFacts DEF local, TypeInv, ClockOK, LocalOK, Status, Times
<1>2. LocalOK'
  BY <1>1 DEF TypeInv, LocalOK
<1>3. CalculateNextRun(obj)' = CalculateNextRun(obj)
  BY <1>1
<1>4. WorkInv'
  BY <1>1, <1>3 DEF TypeInv, WorkInv, ClockOK
<1> QED BY <1>2, <1>4

LEMMA WriteType ==
  ASSUME TypeInv, NEW s \in ScheduleRecord, NEW b \in [Slots -> BackupRecord], NEW r \in BOOLEAN,
         Write(s, b, r), alarm' \in {0} \cup Slots
  PROVE  ObjectsOK' /\ CachesOK' /\ WakeupsOK'
<1>1. ObjectsOK'
  BY DEF Write, ObjectsOK
<1>2. CachesOK'
  BY DEF Write, TypeInv, CachesOK, caches
<1>3. queued' \in BOOLEAN
  BY Zenon DEF Write
<1> QED BY <1>1, <1>2, <1>3 DEF WakeupsOK

\* The schedule and the Backups that are written as they are.
LEMMA WriteSameType ==
  ASSUME TypeInv, NEW r \in BOOLEAN, Write(sched, backup, r), alarm' = alarm
  PROVE  ObjectsOK' /\ CachesOK' /\ WakeupsOK'
BY WriteType DEF TypeInv, ObjectsOK, WakeupsOK

LEMMA ResetType == ASSUME Reset PROVE LocalOK' /\ WorkInv'
<1>1. Absent(0, 0) \in ScheduleRecord /\ NoStatus \in Status
  BY Defaults
<1> QED BY <1>1 DEF Reset, LocalOK, WorkInv, Steps

LEMMA PatchType ==
  ASSUME NEW o \in ScheduleRecord, NEW status \in Status, status.last <= now, now' = now,
         Patch(o, status)
  PROVE  LocalOK' /\ WorkInv'
BY DEF Patch, LocalOK, WorkInv, Steps

LEMMA SpawnType ==
  ASSUME TypeInv, NEW o \in ScheduleRecord, Spawn(o)
  PROVE  CleanOK' /\ overlaps' \in 0..MaxOverlaps
<1>1. [NoClean EXCEPT !.at = "refetch", !.keep = o.spec.keep] \in Goroutine
  <2>1. o.spec.keep \in {x.keep : x \in Specs}
    BY RecordFacts, SpecFacts
  <2> QED BY <2>1 DEF NoClean, Goroutine
<1>2. CleanOK'
  BY <1>1 DEF Spawn, TypeInv, CleanOK
<1>3. overlaps' \in 0..MaxOverlaps
  BY BoundAssumption DEF Spawn, TypeInv, BoundsOK
<1> QED BY <1>2, <1>3

\* Where a reconciliation goes from its copy of the schedule.
Decided(o) ==
  /\ obj' = o /\ pc' \in {"patch", "lookup"}
  /\ pc' = "patch" => to'.last = 0
  /\ pc' = "lookup" => o.spec.cron # BadCron /\ slot' = CalculateNextRun(o) /\ slot' <= now
LEMMA DecideCases ==
  ASSUME TypeInv, NEW o \in ScheduleRecord, Decide(o)
  PROVE  \/ \E status \in Status : Patch(o, status) /\ status.last = 0
         \/ /\ pc' = "lookup" /\ obj' = o /\ slot' = CalculateNextRun(o) /\ UNCHANGED <<to, todo>>
            /\ o.spec.cron # BadCron /\ slot' <= now
<1> DEFINE run == CalculateNextRun(o)
           active == [phase |-> "Active", last |-> 0, next |-> run, wake |-> run]
           suspended == [NoStatus EXCEPT !.phase = "Suspended"]
           bad == [NoStatus EXCEPT !.phase = "Failed: cron"]
<1>1. suspended \in Status /\ suspended.last = 0 /\ bad \in Status /\ bad.last = 0
  BY Defaults DEF NoStatus, Status, Phases, Times
<1>2. ASSUME o.spec.cron # BadCron PROVE active \in Status /\ active.last = 0
  <2>1. run \in Slots
    BY <1>2, NextRunIs
  <2> HIDE DEF run
  <2> QED BY <2>1, Defaults DEF Status, Phases
<1>3. CASE o.spec.suspend
  BY <1>1, <1>3 DEF Decide
<1>4. CASE ~o.spec.suspend /\ o.spec.cron = BadCron
  BY <1>1, <1>4 DEF Decide
<1>5. CASE ~o.spec.suspend /\ o.spec.cron # BadCron /\ now >= run
  BY <1>5 DEF Decide
<1>6. CASE ~o.spec.suspend /\ o.spec.cron # BadCron /\ ~(now >= run)
  BY <1>2, <1>6 DEF Decide
<1> QED BY <1>3, <1>4, <1>5, <1>6

LEMMA DecideIs ==
  ASSUME TypeInv, NEW o \in ScheduleRecord, Decide(o) PROVE Decided(o)
BY DecideCases DEF Decided, Patch

LEMMA DecideType ==
  ASSUME TypeInv, NEW o \in ScheduleRecord, Decide(o), now' = now
  PROVE  LocalOK' /\ WorkInv' /\ CleanOK' /\ overlaps' \in 0..MaxOverlaps
<1>1. CleanOK' /\ overlaps' \in 0..MaxOverlaps
  <2>1. UNCHANGED <<clean, overlaps>> \/ Spawn(o)
    BY DEF Decide
  <2> QED BY <2>1, SpawnType DEF TypeInv, CleanOK, BoundsOK
<1>2. CASE \E status \in Status : Patch(o, status) /\ status.last = 0
  BY <1>1, <1>2, PatchType DEF TypeInv, ClockOK, Times
<1>3. CASE /\ pc' = "lookup" /\ obj' = o /\ slot' = CalculateNextRun(o) /\ UNCHANGED <<to, todo>>
           /\ o.spec.cron # BadCron /\ slot' <= now
  <2>1. slot' \in Slots
    BY <1>3, NextRunIs
  <2>2. LocalOK'
    BY <1>3, <2>1 DEF TypeInv, LocalOK, Steps
  <2>3. CalculateNextRun(obj') = CalculateNextRun(o)
    BY <1>3
  <2>4. WorkInv'
    BY <1>3, <2>3 DEF WorkInv
  <2> QED BY <1>1, <2>2, <2>4
<1> QED BY <1>2, <1>3, DecideCases

LEMMA BackupType ==
  ASSUME NEW bs \in [Slots -> BackupRecord], NEW t \in Slots, NEW r \in BackupRecord
  PROVE  [bs EXCEPT ![t] = r] \in [Slots -> BackupRecord]
OBVIOUS

LEMMA DeletedType ==
  ASSUME TypeInv, NEW t \in Slots PROVE Deleted(t) \in [Slots -> BackupRecord]
<1> DEFINE r == [backup[t] EXCEPT !.del = Present(backup, t)]
<1>1. backup \in [Slots -> BackupRecord] /\ Present(backup, t) \in BOOLEAN
  BY DEF TypeInv, ObjectsOK, Present
<1>2. r \in BackupRecord
  BY <1>1 DEF BackupRecord
<1>3. Deleted(t) = [backup EXCEPT ![t] = r]
  BY DEF Deleted
<1> HIDE DEF r
<1> QED BY <1>1, <1>2, <1>3, BackupType

LEMMA StartType == ASSUME TypeInv, Start PROVE TypeInv'
<1>1. seenS \in ScheduleRecord /\ now' = now
  BY DEF Start, TypeInv, CachesOK
<1>2. ClockOK' /\ ObjectsOK' /\ CachesOK' /\ StorageOK' /\ MadeOK'
  BY SameType DEF Start, Unwritten
<1>3. WakeupsOK'
  BY DEF Start, TypeInv, WakeupsOK
<1>4. /\ edits' = edits /\ faults' = faults /\ crashes' = crashes /\ stale' = stale
      /\ losses' = losses
  BY DEF Start
<1>5. ASSUME LocalOK', WorkInv', CleanOK', overlaps' \in 0..MaxOverlaps PROVE TypeInv'
  BY <1>2, <1>3, <1>4, <1>5 DEF TypeInv, BoundsOK
<1>6. CASE ~seenS.exists \/ (seenS.del /\ ~seenS.fin)
  <2>1. UNCHANGED local /\ UNCHANGED clean /\ UNCHANGED overlaps
    BY <1>6 DEF Start
  <2> QED BY <2>1, <1>1, <1>5, SameLocal, SameType DEF TypeInv, BoundsOK
<1>7. CASE seenS.exists /\ ~seenS.del /\ seenS.fin
  <2>1. Decide(seenS)
    BY <1>7 DEF Start
  <2> QED BY <2>1, <1>1, <1>5, DecideType
<1>8. CASE seenS.exists /\ (seenS.del <=> seenS.fin)
  <2>0. seenS.del \in BOOLEAN /\ seenS.fin \in BOOLEAN
    BY <1>1, RecordFacts
  <2>1. pc' \in {"list", "finalizer"} /\ obj' = seenS /\ UNCHANGED <<slot, to, todo, clean, overlaps>>
    <3>1. CASE seenS.del
      BY <3>1, <1>8, <2>0 DEF Start
    <3>2. CASE ~seenS.del
      BY <3>2, <1>8, <2>0 DEF Start
    <3> QED BY <3>1, <3>2
  <2>2. LocalOK'
    BY <2>1, <1>1 DEF TypeInv, LocalOK, Steps
  <2>3. WorkInv'
    BY <2>1 DEF WorkInv
  <2>4. CleanOK' /\ overlaps' \in 0..MaxOverlaps
    BY <2>1, SameType DEF TypeInv, BoundsOK
  <2> QED BY <1>5, <2>2, <2>3, <2>4
<1>9. seenS.exists \in BOOLEAN /\ seenS.del \in BOOLEAN /\ seenS.fin \in BOOLEAN
  BY <1>1, RecordFacts
<1> QED BY <1>6, <1>7, <1>8, <1>9

LEMMA AddFinalizerType == ASSUME TypeInv, AddFinalizer PROVE TypeInv'
<1> DEFINE added == [obj EXCEPT !.fin = TRUE]
<1>1. added \in ScheduleRecord
  BY DEF TypeInv, LocalOK, ScheduleRecord
<1>2. ClockOK' /\ StorageOK' /\ MadeOK' /\ alarm' = alarm /\ now' = now
  BY SameType DEF AddFinalizer
<1>3. /\ edits' = edits /\ crashes' = crashes /\ stale' = stale /\ losses' = losses
      /\ faults' \in 0..MaxFaults
  <2>1. faults' = faults \/ Fault
    BY Zenon DEF AddFinalizer
  <2> QED BY <2>1, BoundAssumption DEF AddFinalizer, Fault, TypeInv, BoundsOK
<1>4. \/ Write(added, backup, TRUE) /\ Reset /\ UNCHANGED <<clean, overlaps>>
      \/ Writes(sched, backup) /\ Decide(added)
  BY DEF AddFinalizer
<1> HIDE DEF added
<1>5. ObjectsOK' /\ CachesOK' /\ WakeupsOK'
  BY <1>1, <1>2, <1>4, WriteType DEF Writes, TypeInv, ObjectsOK, WakeupsOK
<1>6. LocalOK' /\ WorkInv' /\ CleanOK' /\ overlaps' \in 0..MaxOverlaps
  BY <1>1, <1>2, <1>4, ResetType, DecideType, SameType DEF TypeInv, BoundsOK
<1> QED BY <1>2, <1>3, <1>5, <1>6 DEF TypeInv, BoundsOK

LEMMA GotoType ==
  ASSUME TypeInv, pc \in {"lookup", "create"}, Goto("create"), now' = now
  PROVE  LocalOK' /\ WorkInv'
<1>1. pc' = "create" /\ obj' = obj /\ slot' = slot /\ to' = to /\ todo' = todo
  BY DEF Goto
<1>2. CalculateNextRun(obj)' = CalculateNextRun(obj)
  BY <1>1
<1>3. LocalOK'
  BY <1>1 DEF TypeInv, LocalOK, Steps
<1>4. WorkInv'
  BY <1>1, <1>2 DEF TypeInv, WorkInv
<1> QED BY <1>3, <1>4

\* handleScheduledBackup goes for a slot beyond the last one.
LEMMA AtWork ==
  ASSUME TypeInv, pc \in {"lookup", "create"}
  PROVE  /\ obj \in ScheduleRecord /\ obj.spec.cron \in Crons
         /\ slot = CalculateNextRun(obj) /\ slot \in Slots /\ slot \in Times /\ slot \in Nat
         /\ slot <= now /\ slot > Base(obj)
<1>1. /\ obj \in ScheduleRecord /\ obj.spec.cron # BadCron /\ slot = CalculateNextRun(obj)
      /\ slot <= now
  BY DEF TypeInv, LocalOK, WorkInv
<1>2. slot \in Slots /\ slot > Base(obj) /\ obj.spec.cron \in Crons /\ slot \in Nat
  BY <1>1, NextRunIs
<1>3. slot \in Times
  BY <1>1, <1>2, BoundAssumption DEF TypeInv, ClockOK, Times
<1> QED BY <1>1, <1>2, <1>3

LEMMA AfterBackupType ==
  ASSUME TypeInv, pc \in {"lookup", "create"}
  PROVE  AfterBackup \in Status /\ AfterBackup.last = now
<1>1. NextSlot(obj.spec.cron, slot) \in Slots
  BY AtWork, NextSlotIs, SlotFacts
<1> QED BY <1>1 DEF AfterBackup, Status, Phases, TypeInv, ClockOK

LEMMA FailedType ==
  ASSUME NEW s \in {0} \cup Slots
  PROVE  [phase |-> "Failed: create", last |-> 0, next |-> s, wake |-> 0] \in Status
BY Defaults DEF Status, Phases

LEMMA FaultType ==
  ASSUME TypeInv, faults' = faults \/ Fault, UNCHANGED notFaults PROVE BoundsOK'
<1>1. faults' \in 0..MaxFaults
  BY BoundAssumption DEF Fault, TypeInv, BoundsOK
<1> QED BY <1>1 DEF TypeInv, BoundsOK, notFaults

LEMMA LookupType == ASSUME TypeInv, Lookup PROVE TypeInv'
<1>1. /\ ClockOK' /\ ObjectsOK' /\ CachesOK' /\ StorageOK' /\ WakeupsOK' /\ CleanOK' /\ MadeOK'
      /\ now' = now
  BY SameType DEF Lookup, Unwritten
<1>2. BoundsOK'
  BY FaultType DEF Lookup
<1>3. LocalOK' /\ WorkInv'
  <2>1. Patch(obj, AfterBackup) \/ Goto("create")
    BY DEF Lookup
  <2>2. pc = "lookup" /\ obj \in ScheduleRecord /\ now <= now
    BY DEF Lookup, TypeInv, LocalOK, ClockOK, Times
  <2> QED BY <2>1, <2>2, <1>1, PatchType, GotoType, AfterBackupType
<1> QED BY <1>1, <1>2, <1>3 DEF TypeInv

LEMMA CreateBackupType == ASSUME TypeInv, CreateBackup PROVE TypeInv'
<1> DEFINE new == [st |-> "running", uid |-> obj.uid, at |-> now, del |-> FALSE]
           failed == [phase |-> "Failed: create", last |-> 0, next |-> slot, wake |-> 0]
           bs == [backup EXCEPT ![slot] = new]
<1>1. pc = "create" /\ now' = now /\ alarm' = alarm
  BY DEF CreateBackup
<1>2. ClockOK' /\ StorageOK' /\ CleanOK'
  BY SameType DEF CreateBackup
<1>3. BoundsOK'
  BY FaultType DEF CreateBackup
<1>4. new \in BackupRecord
  BY RecordFacts DEF BackupRecord, TypeInv, LocalOK, ClockOK
<1>5. failed \in Status /\ failed.last = 0
  BY <1>1, AtWork, FailedType
<1>6. /\ Patch(obj, AfterBackup) \/ Patch(obj, failed)
      /\ Writes(sched, bs) \/ Writes(sched, backup)
      /\ made' \in {made, Append(made, slot)}
  BY DEF CreateBackup
<1> HIDE DEF new, failed
<1>7. bs \in [Slots -> BackupRecord]
  BY <1>4, BackupType DEF TypeInv, ObjectsOK
<1>8. ObjectsOK' /\ CachesOK' /\ WakeupsOK'
  <2>1. Write(sched, bs, FALSE) \/ Write(sched, backup, FALSE)
    BY <1>6 DEF Writes
  <2> HIDE DEF bs
  <2> QED BY <2>1, <1>1, <1>7, WriteType DEF TypeInv, ObjectsOK, WakeupsOK
<1>9. MadeOK'
  <2>1. slot \in Slots /\ made \in Seq(Slots)
    BY <1>1, AtWork DEF TypeInv, MadeOK
  <2> QED BY <2>1, <1>6 DEF MadeOK
<1>10. LocalOK' /\ WorkInv'
  <2>1. obj \in ScheduleRecord /\ 0 <= now /\ now <= now
    BY DEF TypeInv, LocalOK, ClockOK, Times
  <2> QED BY <2>1, <1>1, <1>5, <1>6, PatchType, AfterBackupType
<1> QED BY <1>2, <1>3, <1>8, <1>9, <1>10 DEF TypeInv

LEMMA MergedType == ASSUME TypeInv, sched.exists PROVE Merged \in ScheduleRecord
<1>1. sched \in ScheduleRecord /\ to \in Status
  BY DEF TypeInv, ObjectsOK, LocalOK
<1> QED BY <1>1 DEF Merged, ScheduleRecord, Status

LEMMA PatchStatusType == ASSUME TypeInv, PatchStatus PROVE TypeInv'
<1>1. ClockOK' /\ StorageOK' /\ CleanOK' /\ MadeOK' /\ now' = now
  BY SameType DEF PatchStatus
<1>2. BoundsOK'
  BY FaultType DEF PatchStatus
<1>3. alarm' \in {0} \cup Slots
  BY DEF PatchStatus, Earliest, TypeInv, WakeupsOK, LocalOK, Status
<1>4. PICK s \in ScheduleRecord, r \in BOOLEAN : Write(s, backup, r)
  <2>1. sched \in ScheduleRecord
    BY DEF TypeInv, ObjectsOK
  <2> QED BY <2>1, MergedType DEF PatchStatus, Writes
<1>5. ObjectsOK' /\ CachesOK' /\ WakeupsOK'
  BY <1>3, <1>4, WriteType DEF TypeInv, ObjectsOK
<1>6. LocalOK' /\ WorkInv'
  BY ResetType DEF PatchStatus
<1> QED BY <1>1, <1>2, <1>5, <1>6 DEF TypeInv

LEMMA DeletionType ==
  ASSUME TypeInv, ListForDeletion \/ DeleteBackup \/ RemoveFinalizer PROVE TypeInv'
<1>1. CASE ListForDeletion
  <2>1. /\ ClockOK' /\ ObjectsOK' /\ CachesOK' /\ StorageOK' /\ WakeupsOK' /\ CleanOK' /\ MadeOK'
        /\ BoundsOK'
    BY <1>1, SameType DEF ListForDeletion, Unwritten
  <2>2. LocalOK'
    BY <1>1 DEF ListForDeletion, TypeInv, LocalOK, Steps
  <2>3. WorkInv'
    BY <1>1 DEF ListForDeletion, WorkInv
  <2> QED BY <2>1, <2>2, <2>3 DEF TypeInv
<1>2. CASE DeleteBackup
  <2>1. ClockOK' /\ StorageOK' /\ CleanOK' /\ MadeOK' /\ alarm' \in {0} \cup Slots
    BY <1>2, SameType DEF DeleteBackup, TypeInv, WakeupsOK
  <2>2. BoundsOK'
    BY <1>2, FaultType DEF DeleteBackup
  <2>3. PICK t \in todo : /\ todo' = todo \ {t}
                          /\ Writes(sched, Deleted(t)) \/ Writes(sched, backup)
    BY <1>2 DEF DeleteBackup
  <2>4. PICK bs \in [Slots -> BackupRecord] : Writes(sched, bs)
    BY <2>3, DeletedType DEF TypeInv, LocalOK, ObjectsOK
  <2>5. ObjectsOK' /\ CachesOK' /\ WakeupsOK'
    BY <2>1, <2>4, WriteType DEF Writes, TypeInv, ObjectsOK
  <2>6. LocalOK'
    BY <1>2 DEF DeleteBackup, TypeInv, LocalOK, Steps
  <2>7. WorkInv'
    BY <1>2 DEF DeleteBackup, WorkInv
  <2> QED BY <2>1, <2>2, <2>5, <2>6, <2>7 DEF TypeInv
<1>3. CASE RemoveFinalizer
  <2>1. ClockOK' /\ StorageOK' /\ CleanOK' /\ MadeOK' /\ alarm' \in {0} \cup Slots
    BY <1>3, SameType DEF RemoveFinalizer, TypeInv, WakeupsOK
  <2>2. BoundsOK'
    BY <1>3, FaultType DEF RemoveFinalizer
  <2>3. Absent(obj.uid, obj.born) \in ScheduleRecord /\ sched \in ScheduleRecord
    BY Defaults, RecordFacts DEF TypeInv, LocalOK, ObjectsOK
  <2>4. PICK s \in ScheduleRecord, r \in BOOLEAN : Write(s, backup, r)
    BY <1>3, <2>3 DEF RemoveFinalizer, Writes
  <2>5. ObjectsOK' /\ CachesOK' /\ WakeupsOK'
    BY <2>1, <2>4, WriteType DEF TypeInv, ObjectsOK
  <2>6. LocalOK' /\ WorkInv'
    BY <1>3, ResetType DEF RemoveFinalizer
  <2> QED BY <2>1, <2>2, <2>5, <2>6 DEF TypeInv
<1> QED BY <1>1, <1>2, <1>3

LEMMA RetentionType ==
  ASSUME TypeInv, NEW g \in Cleaners, RunRetentionCleanup(g) PROVE TypeInv'
<1>1. ClockOK' /\ MadeOK' /\ LocalOK' /\ WorkInv' /\ UNCHANGED alarm
  <2>1. UNCHANGED <<now, local, made, alarm>>
    BY DEF RunRetentionCleanup, Refetch, Mark, ListFiles, DeleteFile, ListBackups,
           CleanupBackupCRDs, wakeups
  <2> QED BY <2>1, SameType, SameLocal
<1>2. BoundsOK'
  <2>1. UNCHANGED bounds \/ ((faults' = faults \/ Fault) /\ UNCHANGED notFaults)
    BY DEF RunRetentionCleanup, Refetch, Mark, ListFiles, DeleteFile, ListBackups,
           CleanupBackupCRDs
  <2> QED BY <2>1, SameType, FaultType
<1>3. clean[g] \in Goroutine
  BY DEF TypeInv, CleanOK
<1>4. ASSUME NEW c \in Goroutine, clean' = [clean EXCEPT ![g] = c] PROVE CleanOK'
  BY <1>4 DEF TypeInv, CleanOK
<1>5. ASSUME NEW step \in {"list", "mark", "files"}, Continue(g, step) PROVE CleanOK'
  <2> DEFINE c == [clean[g] EXCEPT !.at = step]
  <2>1. c \in Goroutine
    BY <1>3 DEF Goroutine
  <2>2. clean' = [clean EXCEPT ![g] = c]
    BY <1>5 DEF Continue
  <2> HIDE DEF c
  <2> QED BY <2>1, <2>2, <1>4
<1>6. Finish(g) => CleanOK'
  BY <1>4, Defaults DEF Finish
<1>7. CASE Refetch(g)
  <2>1. Continue(g, "mark") \/ Finish(g)
    BY <1>7 DEF Refetch
  <2>2. CleanOK'
    BY <2>1, <1>5, <1>6
  <2>3. ObjectsOK' /\ CachesOK' /\ StorageOK' /\ WakeupsOK'
    BY <1>7, SameType DEF Refetch, Unwritten
  <2> QED BY <1>1, <1>2, <2>2, <2>3 DEF TypeInv
<1>8. CASE Mark(g)
  <2> DEFINE marked == [sched EXCEPT !.cleaned = now]
  <2>1. marked \in ScheduleRecord /\ sched \in ScheduleRecord /\ backup \in [Slots -> BackupRecord]
    BY DEF TypeInv, ObjectsOK, ClockOK, ScheduleRecord
  <2>2. /\ Continue(g, "files") \/ Finish(g)
        /\ Writes(sched, backup) \/ Writes(marked, backup)
    BY <1>8 DEF Mark
  <2> HIDE DEF marked
  <2>3. CleanOK'
    BY <2>2, <1>5, <1>6
  <2>4. alarm' \in {0} \cup Slots /\ StorageOK'
    BY <1>1, <1>8, SameType DEF TypeInv, WakeupsOK, Mark
  <2>5. ObjectsOK' /\ CachesOK' /\ WakeupsOK'
    BY <2>1, <2>2, <2>4, WriteType DEF Writes
  <2> QED BY <1>1, <1>2, <2>3, <2>4, <2>5 DEF TypeInv
<1>9. CASE ListFiles(g)
  <2> DEFINE remove == ApplyRetention(clean[g].keep)
             c == [clean[g] EXCEPT !.at = IF remove = {} THEN "list" ELSE "unlink",
                                   !.files = remove]
  <2>1. ObjectsOK' /\ CachesOK' /\ StorageOK' /\ WakeupsOK'
    BY <1>9, SameType DEF ListFiles, Unwritten
  <2>2. remove \subseteq FileRecord
    BY DEF ApplyRetention, Listed, TypeInv, StorageOK
  <2>3. \/ Continue(g, "list") \/ Finish(g)
        \/ clean' = [clean EXCEPT ![g].at = IF remove = {} THEN "list" ELSE "unlink",
                                  ![g].files = remove]
    BY <1>9 DEF ListFiles
  <2> HIDE DEF remove
  <2>4. c \in Goroutine
    BY <1>3, <2>2 DEF Goroutine
  <2>5. \/ Continue(g, "list") \/ Finish(g)
        \/ clean' = [clean EXCEPT ![g] = c]
    BY <2>3, <1>3 DEF TypeInv, CleanOK
  <2> HIDE DEF c
  <2>6. CleanOK'
    BY <2>4, <2>5, <1>4, <1>5, <1>6
  <2> QED BY <1>1, <1>2, <2>1, <2>6 DEF TypeInv
<1>10. CASE DeleteFile(g)
  <2> DEFINE f == CHOOSE f \in clean[g].files : \A h \in clean[g].files : h.id <= f.id
             rest == clean[g].files \ {f}
             c == [clean[g] EXCEPT !.files = rest, !.at = IF rest = {} THEN "list" ELSE @]
  <2>1. clean' = [clean EXCEPT ![g].files = rest, ![g].at = IF rest = {} THEN "list" ELSE @]
    BY <1>10 DEF DeleteFile
  <2>2. files' \subseteq files /\ UNCHANGED <<dumps, others>>
    BY <1>10 DEF DeleteFile
  <2>3. StorageOK'
    BY <2>2 DEF TypeInv, StorageOK
  <2>4. ObjectsOK' /\ CachesOK' /\ WakeupsOK'
    BY <1>10, SameType DEF DeleteFile, Unwritten
  <2>5. rest \subseteq FileRecord
    BY <1>3 DEF Goroutine
  <2> HIDE DEF f, rest
  <2>6. c \in Goroutine
    BY <1>3, <2>5 DEF Goroutine
  <2>7. clean' = [clean EXCEPT ![g] = c]
    BY <2>1, <1>3 DEF TypeInv, CleanOK
  <2> HIDE DEF c
  <2> QED BY <1>1, <1>2, <1>4, <2>3, <2>4, <2>6, <2>7 DEF TypeInv
<1>11. CASE ListBackups(g)
  <2> DEFINE remove == ToDelete(seenB, clean[g].keep.last)
             c == [clean[g] EXCEPT !.at = "delete", !.backups = remove]
  <2>1. ObjectsOK' /\ CachesOK' /\ StorageOK' /\ WakeupsOK'
    BY <1>11, SameType DEF ListBackups, Unwritten
  <2>2. remove \subseteq Slots
    BY DEF ToDelete, Beyond
  <2>3. Finish(g) \/ clean' = [clean EXCEPT ![g].at = "delete", ![g].backups = remove]
    BY <1>11 DEF ListBackups
  <2> HIDE DEF remove
  <2>4. c \in Goroutine
    BY <1>3, <2>2 DEF Goroutine
  <2>5. Finish(g) \/ clean' = [clean EXCEPT ![g] = c]
    BY <2>3, <1>3 DEF TypeInv, CleanOK
  <2> HIDE DEF c
  <2>6. CleanOK'
    BY <2>4, <2>5, <1>4, <1>6
  <2> QED BY <1>1, <1>2, <2>1, <2>6 DEF TypeInv
<1>12. CASE CleanupBackupCRDs(g)
  <2>1. PICK t \in clean[g].backups :
          /\ clean' = IF clean[g].backups \ {t} = {} THEN [clean EXCEPT ![g] = NoClean]
                      ELSE [clean EXCEPT ![g].backups = clean[g].backups \ {t}]
          /\ Writes(sched, Deleted(t)) \/ Writes(sched, backup)
    BY <1>12 DEF CleanupBackupCRDs
  <2> DEFINE c == [clean[g] EXCEPT !.backups = clean[g].backups \ {t}]
  <2>2. t \in Slots /\ c \in Goroutine
    BY <1>3 DEF Goroutine
  <2>3. clean' = [clean EXCEPT ![g] = NoClean] \/ clean' = [clean EXCEPT ![g] = c]
    BY <2>1
  <2> HIDE DEF c
  <2>4. CleanOK'
    BY <2>2, <2>3, <1>4, Defaults
  <2>5. alarm' \in {0} \cup Slots /\ StorageOK'
    BY <1>1, <1>12, SameType DEF TypeInv, WakeupsOK, CleanupBackupCRDs
  <2>6. ObjectsOK' /\ CachesOK' /\ WakeupsOK'
    BY <2>1, <2>2, <2>5, WriteType, DeletedType DEF Writes, TypeInv, ObjectsOK
  <2> QED BY <1>1, <1>2, <2>4, <2>5, <2>6 DEF TypeInv
<1> QED BY <1>7, <1>8, <1>9, <1>10, <1>11, <1>12 DEF RunRetentionCleanup

LEMMA TroubleType ==
  ASSUME TypeInv, FallBehind \/ CatchUp \/ Restart \/ Tick PROVE TypeInv'
<1>0. sched \in ScheduleRecord /\ backup \in [Slots -> BackupRecord]
  BY DEF TypeInv, ObjectsOK
<1>1. CASE FallBehind
  <2>1. /\ ClockOK' /\ ObjectsOK' /\ StorageOK' /\ WakeupsOK' /\ CleanOK' /\ MadeOK'
        /\ LocalOK' /\ WorkInv'
    BY <1>1, SameType, SameLocal DEF FallBehind
  <2>2. CachesOK' /\ BoundsOK'
    BY <1>1, BoundAssumption DEF FallBehind, TypeInv, CachesOK, BoundsOK
  <2> QED BY <2>1, <2>2 DEF TypeInv
<1>2. CASE CatchUp
  <2>1. /\ ClockOK' /\ ObjectsOK' /\ StorageOK' /\ CleanOK' /\ MadeOK' /\ LocalOK' /\ WorkInv'
        /\ BoundsOK'
    BY <1>2, SameType, SameLocal DEF CatchUp
  <2>2. CachesOK'
    BY <1>0, <1>2 DEF CatchUp, CachesOK
  <2>3. queued' \in BOOLEAN
    BY <1>2, Zenon DEF CatchUp
  <2>4. WakeupsOK'
    BY <1>2, <2>3 DEF CatchUp, TypeInv, WakeupsOK
  <2> QED BY <2>1, <2>2, <2>4 DEF TypeInv
<1>3. CASE Restart
  <2>1. ClockOK' /\ ObjectsOK' /\ StorageOK' /\ MadeOK' /\ LocalOK' /\ WorkInv'
    BY <1>3, SameType, ResetType DEF Restart
  <2>2. CachesOK' /\ WakeupsOK'
    BY <1>0, <1>3, RecordFacts DEF Restart, CachesOK, WakeupsOK
  <2>3. CleanOK'
    BY <1>3, Defaults DEF Restart, CleanOK
  <2>4. BoundsOK'
    BY <1>3, BoundAssumption DEF Restart, TypeInv, BoundsOK
  <2> QED BY <2>1, <2>2, <2>3, <2>4 DEF TypeInv
<1>4. CASE Tick
  <2>1. ClockOK'
    BY <1>4, BoundAssumption DEF Tick, TypeInv, ClockOK, Times
  <2>2. /\ ObjectsOK' /\ CachesOK' /\ StorageOK' /\ WakeupsOK' /\ CleanOK' /\ MadeOK'
        /\ BoundsOK' /\ LocalOK' /\ WorkInv'
    BY <1>4, SameType, SameLocal DEF Tick, Unwritten
  <2> QED BY <2>1, <2>2 DEF TypeInv
<1> QED BY <1>1, <1>2, <1>3, <1>4

LEMMA DumpType ==
  ASSUME TypeInv, NEW d \in Dbs, Dump(d)
  PROVE  files' \subseteq FileRecord /\ dumps' \in 0..MaxFiles
<1> DEFINE f == [id |-> dumps + 1, db |-> d, at |-> now]
<1>1. dumps + 1 \in 1..MaxFiles /\ dumps' = dumps + 1 /\ files' = files \cup {f}
  BY BoundAssumption DEF Dump, TypeInv, StorageOK
<1>2. f \in FileRecord
  BY <1>1 DEF FileRecord, TypeInv, ClockOK
<1> HIDE DEF f
<1> QED BY <1>1, <1>2 DEF TypeInv, StorageOK

\* Actions that write and leave the worker, the goroutines and the clock alone.
LEMMA OutsideType ==
  ASSUME TypeInv, NEW s \in ScheduleRecord, NEW b \in [Slots -> BackupRecord], Writes(s, b),
         UNCHANGED <<now, alarm, local, clean>>, StorageOK', MadeOK', BoundsOK'
  PROVE  TypeInv'
<1>1. ClockOK' /\ CleanOK' /\ LocalOK' /\ WorkInv'
  BY SameType, SameLocal
<1>2. ObjectsOK' /\ CachesOK' /\ WakeupsOK'
  BY WriteType DEF Writes, TypeInv, WakeupsOK
<1> QED BY <1>1, <1>2 DEF TypeInv

LEMMA ClusterType ==
  ASSUME TypeInv, NEW t \in Slots, BackupEnds(t) \/ BackupGoes(t) PROVE TypeInv'
<1>0. /\ sched \in ScheduleRecord /\ backup[t] \in BackupRecord
      /\ backup \in [Slots -> BackupRecord]
  BY DEF TypeInv, ObjectsOK
<1>1. CASE BackupEnds(t)
  <2>1. PICK st \in {"Completed", "Failed"} : Writes(sched, [backup EXCEPT ![t].st = st])
    BY <1>1 DEF BackupEnds
  <2> DEFINE r == [backup[t] EXCEPT !.st = st]
             bs == [backup EXCEPT ![t] = r]
  <2>2. r \in BackupRecord
    BY <1>0 DEF BackupRecord
  <2>3. bs = [backup EXCEPT ![t].st = st]
    OBVIOUS
  <2> HIDE DEF r
  <2>4. bs \in [Slots -> BackupRecord] /\ Writes(sched, bs)
    BY <1>0, <2>1, <2>2, <2>3, BackupType
  <2>5. StorageOK'
    <3>1. (Dump(Db) /\ UNCHANGED others) \/ UNCHANGED storage
      BY <1>1 DEF BackupEnds
    <3> QED BY <3>1, DumpType, SameType, NamesAssumption DEF TypeInv, StorageOK
  <2>6. UNCHANGED <<now, alarm, local, clean>> /\ MadeOK' /\ BoundsOK'
    BY <1>1, SameType DEF BackupEnds
  <2> HIDE DEF bs
  <2> QED BY <1>0, <2>4, <2>5, <2>6, OutsideType
<1>2. CASE BackupGoes(t)
  <2>1. [backup EXCEPT ![t] = NoRecord] \in [Slots -> BackupRecord]
    BY <1>0, BackupType, Defaults
  <2>2. /\ StorageOK' /\ MadeOK' /\ BoundsOK' /\ UNCHANGED <<now, alarm, local, clean>>
        /\ Writes(sched, [backup EXCEPT ![t] = NoRecord])
    BY <1>2, SameType DEF BackupGoes
  <2> QED BY <1>0, <2>1, <2>2, OutsideType
<1> QED BY <1>1, <1>2

LEMMA EditType == ASSUME TypeInv, Edit PROVE edits' \in 0..MaxEdits
BY BoundAssumption DEF Edit, TypeInv, BoundsOK

LEMMA UsersType == ASSUME TypeInv, Others PROVE TypeInv'
<1>0. /\ sched \in ScheduleRecord /\ backup \in [Slots -> BackupRecord] /\ now \in Times
      /\ made \in Seq(Slots)
  BY DEF TypeInv, ObjectsOK, ClockOK, MadeOK
<1>1. CASE CreateResource
  <2>1. PICK s \in Specs :
          Writes([Absent(sched.uid + 1, now) EXCEPT !.exists = TRUE, !.spec = s], backup)
    BY <1>1 DEF CreateResource
  <2>2. sched.uid + 1 \in 0..MaxUid
    <3>1. sched.uid < MaxUid
      BY <1>1 DEF CreateResource
    <3>2. sched.uid \in Nat /\ MaxUid \in Nat
      BY <1>0, RecordFacts, BoundAssumption
    <3> QED BY <3>1, <3>2
  <2>3. Absent(sched.uid + 1, now) \in ScheduleRecord
    BY <1>0, <2>2, Defaults
  <2> DEFINE o == Absent(sched.uid + 1, now)
             new == [o EXCEPT !.exists = TRUE, !.spec = s]
  <2>4. new \in ScheduleRecord
    <3> HIDE DEF o
    <3> QED BY <2>3 DEF o, ScheduleRecord
  <2> HIDE DEF new
  <2>5. MadeOK'
    BY <1>1 DEF CreateResource, MadeOK
  <2>6. StorageOK' /\ BoundsOK' /\ UNCHANGED <<now, alarm, local, clean>>
    BY <1>1, SameType DEF CreateResource
  <2>7. Writes(new, backup)
    BY <2>1 DEF new
  <2> QED BY <1>0, <2>4, <2>5, <2>6, <2>7, OutsideType
<1>2. CASE EditResource
  <2>1. PICK s \in Specs : Writes([sched EXCEPT !.spec = s], backup)
    BY <1>2 DEF EditResource
  <2>2. [sched EXCEPT !.spec = s] \in ScheduleRecord
    BY <1>0 DEF ScheduleRecord
  <2>3. StorageOK' /\ MadeOK' /\ UNCHANGED <<now, alarm, local, clean>>
    BY <1>2, SameType DEF EditResource
  <2>4. BoundsOK'
    BY <1>2, EditType DEF EditResource, TypeInv, BoundsOK
  <2> QED BY <1>0, <2>1, <2>2, <2>3, <2>4, OutsideType
<1>3. CASE DeleteResource
  <2> DEFINE o == IF sched.fin THEN [sched EXCEPT !.del = TRUE] ELSE Absent(sched.uid, sched.born)
  <2>1. Writes(o, backup)
    BY <1>3 DEF DeleteResource
  <2>2. o \in ScheduleRecord
    <3>1. [sched EXCEPT !.del = TRUE] \in ScheduleRecord
      BY <1>0 DEF ScheduleRecord
    <3> QED BY <1>0, <3>1, Defaults, RecordFacts
  <2>3. StorageOK' /\ MadeOK' /\ UNCHANGED <<now, alarm, local, clean>>
    BY <1>3, SameType DEF DeleteResource
  <2>4. BoundsOK'
    BY <1>3, EditType DEF DeleteResource, TypeInv, BoundsOK
  <2> HIDE DEF o
  <2> QED BY <1>0, <2>1, <2>2, <2>3, <2>4, OutsideType
<1>4. ASSUME NEW t \in Slots, LoseBackup(t) PROVE TypeInv'
  <2>1. Writes(sched, Deleted(t)) /\ Deleted(t) \in [Slots -> BackupRecord]
    BY <1>4, DeletedType DEF LoseBackup
  <2>2. StorageOK' /\ MadeOK' /\ UNCHANGED <<now, alarm, local, clean>>
    BY <1>4, SameType DEF LoseBackup
  <2>3. BoundsOK'
    BY <1>4, BoundAssumption DEF LoseBackup, TypeInv, BoundsOK
  <2> QED BY <1>0, <2>1, <2>2, <2>3, OutsideType
<1>5. ASSUME NEW d \in Dbs, OtherDump(d) PROVE TypeInv'
  <2>1. StorageOK'
    <3>1. others' \in 0..MaxOthers /\ Dump(d)
      BY <1>5, BoundAssumption DEF OtherDump, TypeInv, StorageOK
    <3> QED BY <3>1, DumpType DEF StorageOK
  <2>2. /\ ClockOK' /\ ObjectsOK' /\ CachesOK' /\ WakeupsOK' /\ CleanOK' /\ MadeOK' /\ BoundsOK'
        /\ LocalOK' /\ WorkInv'
    BY <1>5, SameType, SameLocal DEF OtherDump, Unwritten
  <2> QED BY <2>1, <2>2 DEF TypeInv
<1> QED BY <1>1, <1>2, <1>3, <1>4, <1>5 DEF Others

LEMMA TypeStep == ASSUME TypeInv, [Next]_vars PROVE TypeInv'
<1>1. CASE Next
  BY <1>1, StartType, AddFinalizerType, LookupType, CreateBackupType, PatchStatusType,
     DeletionType, RetentionType, TroubleType, ClusterType, UsersType DEF Next, Reconcile
<1>2. CASE UNCHANGED vars
  <2>1. /\ now' = now /\ UNCHANGED <<objects, caches, storage, wakeups, local, clean, made>>
        /\ UNCHANGED bounds
    BY <1>2 DEF vars
  <2> QED BY <2>1, SameType, SameLocal DEF TypeInv
<1> QED BY <1>1, <1>2

LEMMA InitType == Init => TypeInv
<1> SUFFICES ASSUME Init PROVE TypeInv
  OBVIOUS
<1>1. /\ Absent(0, 0) \in ScheduleRecord /\ NoRecord \in BackupRecord /\ NoStatus \in Status
      /\ NoClean \in Goroutine
  BY Defaults
<1>2. ClockOK
  BY BoundAssumption DEF Init, Times, ClockOK
<1>9. WakeupsOK
  BY Zenon DEF Init, WakeupsOK
<1>8. MadeOK
  BY DEF Init, MadeOK
<1>6. ObjectsOK /\ CachesOK
  BY <1>1 DEF Init, ObjectsOK, CachesOK
<1>7. CleanOK
  BY <1>1 DEF Init, CleanOK
<1>3. StorageOK
  <2>1. [id |-> 1, db |-> Db, at |-> 0] \in FileRecord
    BY NamesAssumption, BoundAssumption DEF FileRecord, Times
  <2> QED BY <2>1, BoundAssumption DEF Init, StorageOK
<1>4. LocalOK /\ WorkInv
  BY <1>1 DEF Init, LocalOK, WorkInv, Steps
<1>5. BoundsOK
  BY BoundAssumption DEF Init, BoundsOK
<1> QED BY <1>2, <1>3, <1>4, <1>5, <1>6, <1>7, <1>8, <1>9 DEF TypeInv

LEMMA TypeInvMeans == TypeInv => TypeOK
<1> SUFFICES ASSUME TypeInv PROVE TypeOK
  OBVIOUS
<1>1. ASSUME NEW g \in Cleaners
      PROVE  [clean[g] EXCEPT !.files = {}] \in CleanRecord /\ \A f \in clean[g].files : f \in FileRecord
  <2>1. clean[g] \in Goroutine
    BY DEF TypeInv, CleanOK
  <2> QED BY <2>1 DEF Goroutine, CleanRecord
<1> QED BY <1>1 DEF TypeInv, TypeOK, ClockOK, ObjectsOK, CachesOK, StorageOK, WakeupsOK, LocalOK,
                    MadeOK, BoundsOK

\* Every variable of the schedule controller keeps its type, with any number of goroutines
\* of runRetentionCleanup.
THEOREM TypeCorrect == Spec => []TypeOK
<1>1. TypeInv /\ [Next]_vars => TypeInv'
  BY TypeStep
<1> QED BY <1>1, InitType, TypeInvMeans, PTL DEF Spec

-----------------------------------------------------------------------------
(* The steps, as far as the promise is concerned                           *)

\* The caches are up to date unless they stand still.
SyncInv == (~lagging => seenS = sched /\ seenB = backup) /\ (lagging => stale > 0)

Kept(o, p) ==
  /\ o.exists = p.exists /\ o.uid = p.uid /\ o.del = p.del /\ o.spec = p.spec
  /\ o.born = p.born /\ o.last = p.last

\* What a step does to the schedule, ...
SchedStep ==
  \/ Kept(sched', sched)
  \/ /\ pc = "patch" /\ pc' = "idle" /\ sched.exists /\ to.last # 0
     /\ Kept(sched', [sched EXCEPT !.last = to.last])
  \/ /\ CreateResource
     /\ sched'.uid = sched.uid + 1 /\ sched'.born = now /\ sched'.last = 0 /\ ~sched'.del
     /\ sched'.exists
  \/ /\ edits' > edits /\ sched'.uid = sched.uid /\ sched'.born = sched.born
     /\ sched'.exists => sched.exists /\ sched'.last = sched.last
     /\ ~sched'.exists => sched'.last = 0
  \/ pc = "unfinalize" /\ pc' = "idle" /\ sched' = Absent(sched.uid, sched.born)

\* ... to the worker and its copy, ...
LocalStep ==
  \/ UNCHANGED <<pc, obj, to>>
  \/ pc' = "idle" /\ (pc = "patch" => PatchStatus \/ crashes' > crashes)
  \/ /\ pc = "idle" /\ seenS.exists /\ obj' = seenS /\ UNCHANGED <<sched, seenS>>
     /\ pc' = "list" => seenS.del
     /\ pc' \in {"list", "finalizer", "lookup", "patch"} /\ (pc' = "patch" => to'.last = 0)
  \/ /\ pc = "finalizer" /\ Kept(obj', obj) /\ Kept(sched', sched)
     /\ pc' \in {"lookup", "patch"} /\ (pc' = "patch" => to'.last = 0)
  \/ /\ pc \in {"lookup", "create"} /\ obj' = obj /\ UNCHANGED sched
     /\ pc' \in {"create", "patch"}
     /\ pc' = "patch" => to'.last = now \/ (to'.last = 0 /\ faults' > faults)
  \/ pc \in {"list", "delete"} /\ obj' = obj /\ UNCHANGED sched /\ pc' \in {"delete", "unfinalize"}

\* ... to the caches, ...
CacheStep == seenS' \in {seenS, sched'} /\ seenB' \in {seenB, backup'} /\ SyncInv'

\* ... to the Backups and those to be deleted, ...
BackupStep ==
  \/ UNCHANGED backup
  \/ CreateBackup
  \/ \E t \in Slots :
       /\ backup' = Deleted(t)
       /\ losses' > losses \/ pc = "delete" \/ \E g \in Cleaners : t \in clean[g].backups
  \/ \E t \in Slots : BackupEnds(t) \/ BackupGoes(t)
CleanStep ==
  \A g \in Cleaners :
    /\ \/ clean'[g].backups \subseteq clean[g].backups
       \/ /\ clean[g].at # "idle" /\ clean'[g].backups = ToDelete(seenB, clean[g].keep.last)
          /\ UNCHANGED made
    /\ \/ clean'[g].at = "idle"
       \/ clean'[g].keep \in RetentionPolicy
       \/ clean[g].at # "idle" /\ clean'[g].keep = clean[g].keep

\* ... to what was made, and to the bounds and the clock.
MadeStep ==
  \/ UNCHANGED made
  \/ CreateResource /\ made' = <<>>
  \/ /\ CreateBackup /\ made' = Append(made, slot)
     /\ sched.exists /\ sched.uid = obj.uid /\ ~Present(backup, slot)
GrowStep ==
  /\ edits <= edits' /\ faults <= faults' /\ crashes <= crashes' /\ stale <= stale'
  /\ losses <= losses' /\ overlaps <= overlaps' /\ others <= others'
  /\ now' = now \/ (now' = now + 1 /\ UNCHANGED <<sched, made>>)
StepsOK ==
  SchedStep /\ LocalStep /\ CacheStep /\ BackupStep /\ CleanStep /\ MadeStep /\ GrowStep

LEMMA KeptSame == ASSUME NEW o PROVE Kept(o, o)
BY DEF Kept

\* What Write does to the caches.
LEMMA WriteStep ==
  ASSUME SyncInv, NEW s, NEW b, NEW r, Write(s, b, r), stale' = stale PROVE CacheStep
BY DEF Write, CacheStep, SyncInv, caches

LEMMA UnwrittenStep ==
  ASSUME SyncInv, Unwritten, stale' = stale PROVE CacheStep
BY DEF Unwritten, CacheStep, SyncInv, caches, objects

\* A step that leaves the goroutines alone.
LEMMA CleanSame == ASSUME UNCHANGED clean PROVE CleanStep
BY DEF CleanStep

LEMMA SpawnStep ==
  ASSUME TypeInv, NEW o \in ScheduleRecord, Spawn(o) \/ UNCHANGED <<clean, overlaps>>
  PROVE  CleanStep /\ overlaps <= overlaps'
<1>1. overlaps <= overlaps'
  BY BoundAssumption DEF Spawn, TypeInv, BoundsOK
<1>2. CASE UNCHANGED clean
  BY <1>1, <1>2, CleanSame
<1>3. CASE ~UNCHANGED clean
  <2> DEFINE n == [NoClean EXCEPT !.at = "refetch", !.keep = o.spec.keep]
             h == CHOOSE g \in Idle : TRUE
  <2>1. clean' = [clean EXCEPT ![h] = n] /\ o.spec.keep # NoPolicy
    BY <1>3 DEF Spawn
  <2>2. n.backups = {} /\ n.keep = o.spec.keep
    BY DEF NoClean
  <2>3. o.spec.keep \in RetentionPolicy
    BY <2>1, RecordFacts, SpecFacts
  <2> HIDE DEF n, h
  <2>4. clean \in [Cleaners -> Goroutine]
    BY DEF TypeInv, CleanOK
  <2>5. ASSUME NEW g \in Cleaners PROVE clean'[g] = n \/ clean'[g] = clean[g]
    BY <2>1, <2>4
  <2>6. CleanStep
    BY <2>2, <2>3, <2>5 DEF CleanStep
  <2> QED BY <1>1, <2>6
<1> QED BY <1>2, <1>3

LEMMA SameBounds ==
  ASSUME TypeInv
  PROVE  /\ UNCHANGED <<edits, faults, crashes, stale, losses, others>> /\ overlaps <= overlaps'
              /\ now' = now => GrowStep
         /\ (faults' = faults \/ Fault) /\ UNCHANGED <<notFaults, others, now>> => GrowStep
         /\ UNCHANGED bounds /\ UNCHANGED <<others, now>> => GrowStep
<1>1. /\ edits <= edits /\ faults <= faults /\ crashes <= crashes /\ stale <= stale
      /\ losses <= losses /\ overlaps <= overlaps /\ others <= others /\ faults \in Nat
  BY BoundAssumption DEF TypeInv, BoundsOK, StorageOK
<1> QED BY <1>1 DEF GrowStep, Fault, notFaults, bounds

LEMMA DecideStep ==
  ASSUME TypeInv, NEW o \in ScheduleRecord, Decide(o)
  PROVE  /\ CleanStep /\ overlaps <= overlaps'
         /\ obj' = o /\ pc' \in {"lookup", "patch"} /\ (pc' = "patch" => to'.last = 0)
<1>1. Spawn(o) \/ UNCHANGED <<clean, overlaps>>
  BY DEF Decide
<1> QED BY <1>1, SpawnStep, DecideIs DEF Decided

LEMMA StartStep == ASSUME TypeInv, SyncInv, Start PROVE StepsOK
<1>0. /\ pc = "idle" /\ Unwritten /\ UNCHANGED <<now, storage, made>>
      /\ UNCHANGED <<edits, faults, crashes, stale, losses>> /\ UNCHANGED <<sched, backup, seenS>>
  BY DEF Start, Unwritten, objects, caches
<1>1. seenS \in ScheduleRecord
  BY DEF TypeInv, CachesOK
<1>2. SchedStep /\ BackupStep /\ MadeStep /\ CacheStep
  BY <1>0, KeptSame, UnwrittenStep DEF SchedStep, BackupStep, MadeStep
<1>3. LocalStep /\ CleanStep /\ overlaps <= overlaps'
  <2>1. CASE ~seenS.exists \/ (seenS.del /\ ~seenS.fin)
    <3>1. UNCHANGED local /\ UNCHANGED clean /\ UNCHANGED overlaps
      BY <2>1 DEF Start
    <3> QED BY <3>1, <1>1, SpawnStep DEF LocalStep, local
  <2>2. CASE seenS.exists /\ seenS.del /\ seenS.fin
    <3>1. pc' = "list" /\ obj' = seenS /\ UNCHANGED <<clean, overlaps>>
      BY <2>2 DEF Start
    <3> QED BY <3>1, <2>2, <1>0, <1>1, SpawnStep DEF LocalStep
  <2>3. CASE seenS.exists /\ ~seenS.del /\ ~seenS.fin
    <3>1. pc' = "finalizer" /\ obj' = seenS /\ UNCHANGED <<clean, overlaps>>
      BY <2>3 DEF Start
    <3> QED BY <3>1, <2>3, <1>0, <1>1, SpawnStep DEF LocalStep
  <2>4. CASE seenS.exists /\ ~seenS.del /\ seenS.fin
    <3>1. Decide(seenS)
      BY <2>4 DEF Start
    <3> QED BY <3>1, <2>4, <1>0, <1>1, DecideStep DEF LocalStep
  <2> QED BY <2>1, <2>2, <2>3, <2>4
<1>4. GrowStep
  BY <1>0, <1>3, SameBounds DEF storage
<1> QED BY <1>2, <1>3, <1>4 DEF StepsOK

LEMMA AddFinalizerStep == ASSUME TypeInv, SyncInv, AddFinalizer PROVE StepsOK
<1> DEFINE added == [obj EXCEPT !.fin = TRUE]
<1>0. /\ obj \in ScheduleRecord /\ pc = "finalizer"
      /\ UNCHANGED <<now, made, edits, crashes, stale, losses, others>>
  BY DEF AddFinalizer, TypeInv, LocalOK, storage
<1>1. added \in ScheduleRecord /\ Kept(added, obj)
  BY <1>0 DEF ScheduleRecord, Kept
<1>2. \/ sched = obj /\ Write(added, backup, TRUE) /\ Reset /\ UNCHANGED <<clean, overlaps>>
      \/ Writes(sched, backup) /\ Decide(added)
  BY DEF AddFinalizer
<1>3. faults' = faults \/ Fault
  BY Zenon DEF AddFinalizer
<1> HIDE DEF added
<1>4. Kept(sched', sched) /\ UNCHANGED backup /\ CacheStep
  BY <1>0, <1>1, <1>2, WriteStep, KeptSame DEF Write, Writes
<1>5. SchedStep /\ BackupStep /\ MadeStep
  BY <1>0, <1>4 DEF SchedStep, BackupStep, MadeStep
<1>6. CASE Reset /\ UNCHANGED <<clean, overlaps>>
  <2>1. LocalStep
    BY <1>0, <1>6 DEF Reset, LocalStep
  <2>2. CleanStep /\ overlaps <= overlaps'
    BY <1>1, <1>6, SpawnStep
  <2>3. GrowStep
    BY <1>0, <1>3, <2>2, BoundAssumption DEF GrowStep, Fault, TypeInv, BoundsOK, StorageOK
  <2> QED BY <1>4, <1>5, <2>1, <2>2, <2>3 DEF StepsOK
<1>7. CASE Decide(added)
  <2>1. /\ CleanStep /\ overlaps <= overlaps' /\ obj' = added
        /\ pc' \in {"lookup", "patch"} /\ (pc' = "patch" => to'.last = 0)
    BY <1>1, <1>7, DecideStep
  <2>2. LocalStep
    BY <1>0, <1>1, <1>4, <2>1 DEF LocalStep
  <2>3. GrowStep
    BY <1>0, <1>3, <2>1, BoundAssumption DEF GrowStep, Fault, TypeInv, BoundsOK, StorageOK
  <2> QED BY <1>4, <1>5, <2>1, <2>2, <2>3 DEF StepsOK
<1> QED BY <1>2, <1>6, <1>7

LEMMA LookupStep == ASSUME TypeInv, SyncInv, Lookup PROVE StepsOK
<1>0. /\ pc = "lookup" /\ Unwritten /\ UNCHANGED <<now, storage, clean, made>> /\ UNCHANGED notFaults
      /\ UNCHANGED <<sched, backup>> /\ (faults' = faults \/ Fault)
      /\ Patch(obj, AfterBackup) \/ Goto("create")
  BY DEF Lookup, Unwritten, objects
<1>1. SchedStep /\ BackupStep /\ MadeStep /\ CacheStep /\ CleanStep
  BY <1>0, KeptSame, UnwrittenStep, CleanSame DEF SchedStep, BackupStep, MadeStep, notFaults
<1>2. GrowStep
  BY <1>0, SameBounds DEF storage
<1>3. LocalStep
  BY <1>0, AfterBackupType DEF LocalStep, Patch, Goto
<1> QED BY <1>1, <1>2, <1>3 DEF StepsOK

LEMMA CreateBackupStep == ASSUME TypeInv, SyncInv, CreateBackup PROVE StepsOK
<1> DEFINE new == [st |-> "running", uid |-> obj.uid, at |-> now, del |-> FALSE]
           failed == [phase |-> "Failed: create", last |-> 0, next |-> slot, wake |-> 0]
           bs == [backup EXCEPT ![slot] = new]
<1>0. /\ pc = "create" /\ UNCHANGED <<now, storage, clean>> /\ UNCHANGED notFaults
      /\ faults' = faults \/ Fault
  BY DEF CreateBackup
<1>1. \/ UNCHANGED made
      \/ /\ made' = Append(made, slot)
         /\ sched.exists /\ sched.uid = obj.uid /\ ~Present(backup, slot)
  BY DEF CreateBackup
<1>2. \/ Patch(obj, AfterBackup)
      \/ Patch(obj, failed) /\ Fault
  BY DEF CreateBackup
<1>3. Write(sched, bs, FALSE) \/ Write(sched, backup, FALSE)
  BY DEF CreateBackup, Writes
<1> HIDE DEF bs
<1>4. CacheStep /\ UNCHANGED sched
  BY <1>0, <1>3, WriteStep DEF notFaults, Write
<1>5. MadeStep /\ BackupStep /\ CleanStep /\ SchedStep
  BY <1>0, <1>1, <1>4, KeptSame, CleanSame DEF MadeStep, BackupStep, SchedStep
<1>6. GrowStep
  BY <1>0, SameBounds DEF storage
<1>7. LocalStep
  <2>1. failed.last = 0 /\ (Fault => faults' > faults)
    BY BoundAssumption DEF Fault, TypeInv, BoundsOK
  <2> HIDE DEF failed
  <2> QED BY <1>0, <1>2, <1>4, <2>1, AfterBackupType DEF LocalStep, Patch
<1> QED BY <1>4, <1>5, <1>6, <1>7 DEF StepsOK

LEMMA PatchStatusStep == ASSUME TypeInv, SyncInv, PatchStatus PROVE StepsOK
<1>0. /\ pc = "patch" /\ UNCHANGED <<now, storage, clean, made>> /\ UNCHANGED notFaults
      /\ (faults' = faults \/ Fault) /\ pc' = "idle"
  BY DEF PatchStatus, Reset
<1>1. PICK s, r : Write(s, backup, r) /\ (s = sched \/ (s = Merged /\ sched.exists))
  BY DEF PatchStatus, Writes
<1>2. CacheStep /\ UNCHANGED backup /\ sched' = s
  BY <1>0, <1>1, WriteStep DEF notFaults, Write
<1>3. SchedStep
  <2>1. CASE s = sched
    BY <1>2, <2>1, KeptSame DEF SchedStep
  <2>2. CASE s = Merged /\ sched.exists
    <3>1. sched \in ScheduleRecord /\ to \in Status
      BY DEF TypeInv, ObjectsOK, LocalOK
    <3>2. Kept(Merged, sched) \/ (to.last # 0 /\ Kept(Merged, [sched EXCEPT !.last = to.last]))
      BY <3>1 DEF Merged, Kept, ScheduleRecord
    <3> QED BY <1>0, <1>2, <2>2, <3>2 DEF SchedStep
  <2> QED BY <1>1, <2>1, <2>2
<1>4. MadeStep /\ BackupStep /\ CleanStep /\ LocalStep
  BY <1>0, <1>2, CleanSame DEF MadeStep, BackupStep, LocalStep
<1>5. GrowStep
  BY <1>0, SameBounds DEF storage
<1> QED BY <1>2, <1>3, <1>4, <1>5 DEF StepsOK

\* A write that leaves the schedule alone.
LEMMA SchedWritten ==
  ASSUME SyncInv, NEW b, NEW r, Write(sched, b, r), stale' = stale
  PROVE  CacheStep /\ SchedStep /\ UNCHANGED sched /\ backup' = b
BY WriteStep, KeptSame DEF Write, SchedStep

LEMMA DeletionStep ==
  ASSUME TypeInv, SyncInv, ListForDeletion \/ DeleteBackup \/ RemoveFinalizer PROVE StepsOK
<1>1. CASE ListForDeletion
  <2>1. /\ pc = "list" /\ pc' \in {"delete", "unfinalize"} /\ Unwritten /\ UNCHANGED <<sched, backup>>
        /\ UNCHANGED <<obj, made, clean, now, storage>> /\ UNCHANGED bounds
    BY <1>1 DEF ListForDeletion, Unwritten, objects
  <2>2. SchedStep /\ LocalStep /\ BackupStep /\ CleanStep /\ MadeStep
    BY <2>1, KeptSame, CleanSame DEF SchedStep, LocalStep, BackupStep, MadeStep
  <2>3. CacheStep /\ GrowStep
    BY <2>1, UnwrittenStep, SameBounds DEF bounds, storage
  <2> QED BY <2>2, <2>3 DEF StepsOK
<1>2. CASE DeleteBackup
  <2>1. /\ pc = "delete" /\ pc' \in {"delete", "unfinalize"}
        /\ UNCHANGED <<obj, made, clean, now, storage>> /\ UNCHANGED notFaults
        /\ faults' = faults \/ Fault
    BY <1>2 DEF DeleteBackup
  <2>2. PICK t \in todo : Write(sched, Deleted(t), FALSE) \/ Write(sched, backup, FALSE)
    BY <1>2 DEF DeleteBackup, Writes
  <2>3. /\ CacheStep /\ SchedStep /\ UNCHANGED sched
        /\ backup' \in {Deleted(t), backup} /\ t \in Slots
    BY <2>1, <2>2, SchedWritten DEF notFaults, TypeInv, LocalOK
  <2>4. LocalStep /\ BackupStep /\ CleanStep /\ MadeStep
    BY <2>1, <2>3, CleanSame DEF LocalStep, BackupStep, MadeStep
  <2>5. GrowStep
    BY <2>1, SameBounds DEF storage
  <2> QED BY <2>3, <2>4, <2>5 DEF StepsOK
<1>3. CASE RemoveFinalizer
  <2>1. /\ pc = "unfinalize" /\ pc' = "idle" /\ UNCHANGED <<made, clean, now, storage>>
        /\ UNCHANGED notFaults /\ (faults' = faults \/ Fault)
    BY <1>3 DEF RemoveFinalizer, Reset
  <2>2. PICK s, r : /\ Write(s, backup, r)
                    /\ s = sched \/ (sched = obj /\ s = Absent(obj.uid, obj.born))
    BY <1>3 DEF RemoveFinalizer, Writes
  <2>3. CacheStep /\ UNCHANGED backup /\ sched' \in {sched, Absent(sched.uid, sched.born)}
    BY <2>1, <2>2, WriteStep DEF notFaults, Write
  <2>4. SchedStep /\ LocalStep /\ BackupStep /\ CleanStep /\ MadeStep
    BY <2>1, <2>3, KeptSame, CleanSame DEF SchedStep, LocalStep, BackupStep, MadeStep
  <2>5. GrowStep
    BY <2>1, SameBounds DEF storage
  <2> QED BY <2>3, <2>4, <2>5 DEF StepsOK
<1> QED BY <1>1, <1>2, <1>3

\* The goroutines: only their own record changes.
LEMMA CleanOne ==
  ASSUME TypeInv, NEW g \in Cleaners, NEW c, clean' = [clean EXCEPT ![g] = c],
         c.backups \subseteq clean[g].backups,
         c.at = "idle" \/ (clean[g].at # "idle" /\ c.keep = clean[g].keep)
  PROVE  CleanStep
<1>1. \A h \in Cleaners : clean'[h] = IF h = g THEN c ELSE clean[h]
  BY DEF TypeInv, CleanOK
<1>2. \A h \in Cleaners :
        /\ clean'[h].backups \subseteq clean[h].backups
        /\ clean'[h].at = "idle" \/ (clean[h].at # "idle" /\ clean'[h].keep = clean[h].keep)
  BY <1>1
<1> QED BY <1>2 DEF CleanStep

LEMMA RetentionStep ==
  ASSUME TypeInv, SyncInv, NEW g \in Cleaners, RunRetentionCleanup(g) PROVE StepsOK
<1>1. /\ UNCHANGED <<now, local, made, others>> /\ UNCHANGED notFaults
      /\ faults' = faults \/ Fault
  BY DEF RunRetentionCleanup, Refetch, Mark, ListFiles, DeleteFile, ListBackups,
         CleanupBackupCRDs, storage, bounds, notFaults
<1>2. LocalStep /\ MadeStep /\ GrowStep
  BY <1>1, SameBounds DEF LocalStep, MadeStep, local
<1>3. clean[g].at # "idle"
  BY DEF RunRetentionCleanup, Refetch, Mark, ListFiles, DeleteFile, ListBackups,
         CleanupBackupCRDs
<1>4. clean[g] \in Goroutine /\ clean \in [Cleaners -> Goroutine]
  BY DEF TypeInv, CleanOK
<1>5. Finish(g) => CleanStep
  BY CleanOne DEF Finish, NoClean
<1>6. ASSUME NEW step, Continue(g, step) PROVE CleanStep
  <2> DEFINE c == [clean[g] EXCEPT !.at = step]
  <2>1. c.backups = clean[g].backups /\ c.keep = clean[g].keep
    BY <1>4 DEF Goroutine
  <2>2. clean' = [clean EXCEPT ![g] = c]
    BY <1>6 DEF Continue
  <2> HIDE DEF c
  <2> QED BY <2>1, <2>2, <1>3, CleanOne
<1>7. Unwritten => SchedStep /\ CacheStep /\ BackupStep
  BY <1>1, UnwrittenStep, KeptSame DEF Unwritten, objects, SchedStep, BackupStep, notFaults
<1>8. CASE Refetch(g)
  <2>1. (Continue(g, "mark") \/ Finish(g)) /\ Unwritten
    BY <1>8 DEF Refetch
  <2> QED BY <2>1, <1>2, <1>5, <1>6, <1>7 DEF StepsOK
<1>9. CASE Mark(g)
  <2> DEFINE marked == [sched EXCEPT !.cleaned = now]
  <2>1. /\ Continue(g, "files") \/ Finish(g)
        /\ Write(sched, backup, FALSE) \/ Write(marked, backup, FALSE)
    BY <1>9 DEF Mark, Writes
  <2>2. Kept(marked, sched)
    BY DEF TypeInv, ObjectsOK, ScheduleRecord, Kept
  <2> HIDE DEF marked
  <2>3. CacheStep /\ Kept(sched', sched) /\ UNCHANGED backup
    BY <1>1, <2>1, <2>2, WriteStep, KeptSame DEF Write, notFaults
  <2>4. SchedStep /\ BackupStep
    BY <2>3 DEF SchedStep, BackupStep
  <2>5. CleanStep
    BY <2>1, <1>5, <1>6
  <2> QED BY <2>3, <2>4, <2>5, <1>2 DEF StepsOK
<1>10. CASE ListFiles(g)
  <2> DEFINE remove == ApplyRetention(clean[g].keep)
             at == IF remove = {} THEN "list" ELSE "unlink"
             c == [clean[g] EXCEPT !.at = at, !.files = remove]
  <2>1. \/ Continue(g, "list") \/ Finish(g)
        \/ clean' = [clean EXCEPT ![g].at = at, ![g].files = remove]
    BY <1>10 DEF ListFiles
  <2>2. Unwritten
    BY <1>10 DEF ListFiles
  <2> HIDE DEF remove, at
  <2>3. c.backups = clean[g].backups /\ c.keep = clean[g].keep
    BY <1>4 DEF Goroutine
  <2>4. Continue(g, "list") \/ Finish(g) \/ clean' = [clean EXCEPT ![g] = c]
    BY <2>1, <1>4
  <2> HIDE DEF c
  <2>5. CleanStep
    BY <2>3, <2>4, <1>3, <1>5, <1>6, CleanOne
  <2> QED BY <2>2, <2>5, <1>2, <1>7 DEF StepsOK
<1>11. CASE DeleteFile(g)
  <2> DEFINE f == CHOOSE f \in clean[g].files : \A h \in clean[g].files : h.id <= f.id
             rest == clean[g].files \ {f}
             c == [clean[g] EXCEPT !.files = rest, !.at = IF rest = {} THEN "list" ELSE @]
  <2>1. /\ clean' = [clean EXCEPT ![g].files = rest, ![g].at = IF rest = {} THEN "list" ELSE @]
        /\ Unwritten
    BY <1>11 DEF DeleteFile
  <2> HIDE DEF rest
  <2>2. c.backups = clean[g].backups /\ c.keep = clean[g].keep
    BY <1>4 DEF Goroutine
  <2>3. clean' = [clean EXCEPT ![g] = c]
    BY <2>1, <1>4
  <2> HIDE DEF c
  <2>4. CleanStep
    BY <2>2, <2>3, <1>3, CleanOne
  <2> QED BY <2>1, <2>4, <1>2, <1>7 DEF StepsOK
<1>12. CASE ListBackups(g)
  <2> DEFINE remove == ToDelete(seenB, clean[g].keep.last)
             c == [clean[g] EXCEPT !.at = "delete", !.backups = remove]
  <2>1. /\ Finish(g) \/ clean' = [clean EXCEPT ![g].at = "delete", ![g].backups = remove]
        /\ Unwritten
    BY <1>12 DEF ListBackups
  <2>2. c.backups = remove /\ c.keep = clean[g].keep
    BY <1>4 DEF Goroutine
  <2>3. Finish(g) \/ clean' = [clean EXCEPT ![g] = c]
    BY <2>1, <1>4
  <2>4. CASE clean' = [clean EXCEPT ![g] = c]
    <3> HIDE DEF c
    <3>1. \A h \in Cleaners : clean'[h] = IF h = g THEN c ELSE clean[h]
      BY <2>4, <1>4
    <3>2. CleanStep
      BY <3>1, <2>2, <1>1, <1>3 DEF CleanStep
    <3> QED BY <3>2, <2>1, <1>2, <1>7 DEF StepsOK
  <2> QED BY <2>1, <2>3, <2>4, <1>2, <1>5, <1>7 DEF StepsOK
<1>13. CASE CleanupBackupCRDs(g)
  <2>1. PICK t \in clean[g].backups :
          /\ clean' = IF clean[g].backups \ {t} = {} THEN [clean EXCEPT ![g] = NoClean]
                      ELSE [clean EXCEPT ![g].backups = clean[g].backups \ {t}]
          /\ Write(sched, Deleted(t), FALSE) \/ Write(sched, backup, FALSE)
    BY <1>13 DEF CleanupBackupCRDs, Writes
  <2> DEFINE c == [clean[g] EXCEPT !.backups = clean[g].backups \ {t}]
  <2>2. c.backups \subseteq clean[g].backups /\ c.keep = clean[g].keep /\ t \in Slots
    BY <1>4 DEF Goroutine
  <2>3. Finish(g) \/ clean' = [clean EXCEPT ![g] = c]
    BY <2>1 DEF Finish
  <2> HIDE DEF c
  <2>4. CleanStep
    BY <2>2, <2>3, <1>3, <1>5, CleanOne
  <2>5. CacheStep /\ SchedStep /\ backup' \in {Deleted(t), backup}
    BY <2>1, <1>1, SchedWritten DEF notFaults
  <2>6. BackupStep
    BY <2>2, <2>5 DEF BackupStep
  <2> QED BY <2>4, <2>5, <2>6, <1>2 DEF StepsOK
<1> QED BY <1>8, <1>9, <1>10, <1>11, <1>12, <1>13 DEF RunRetentionCleanup

LEMMA TroubleStep ==
  ASSUME TypeInv, SyncInv, FallBehind \/ CatchUp \/ Restart \/ Tick PROVE StepsOK
<1>0. /\ edits \in Nat /\ faults \in Nat /\ crashes \in Nat /\ stale \in Nat /\ losses \in Nat
      /\ overlaps \in Nat /\ others \in Nat
  BY BoundAssumption DEF TypeInv, BoundsOK, StorageOK
<1>1. UNCHANGED <<sched, backup, made>>
  BY DEF FallBehind, CatchUp, Restart, Tick, Unwritten, objects
<1>2. SchedStep /\ BackupStep /\ MadeStep
  BY <1>1, KeptSame DEF SchedStep, BackupStep, MadeStep
<1>3. CacheStep
  BY <1>0, <1>1 DEF FallBehind, CatchUp, Restart, Tick, Unwritten, objects, caches, bounds,
                    CacheStep, SyncInv
<1>4. LocalStep
  BY <1>0 DEF FallBehind, CatchUp, Restart, Tick, Reset, local, LocalStep
<1>5. CleanStep
  <2>1. CASE Restart
    BY <2>1 DEF Restart, CleanStep, NoClean
  <2>2. CASE UNCHANGED clean
    BY <2>2, CleanSame
  <2> QED BY <2>1, <2>2 DEF FallBehind, CatchUp, Tick
<1>6. GrowStep
  BY <1>0, <1>1 DEF FallBehind, CatchUp, Restart, Tick, storage, bounds, GrowStep
<1> QED BY <1>2, <1>3, <1>4, <1>5, <1>6 DEF StepsOK

LEMMA ClusterStep ==
  ASSUME TypeInv, SyncInv, NEW t \in Slots, BackupEnds(t) \/ BackupGoes(t) PROVE StepsOK
<1>1. /\ UNCHANGED <<now, local, clean, made, others>> /\ UNCHANGED bounds
      /\ \E b : Writes(sched, b)
  BY DEF BackupEnds, BackupGoes, storage
<1>2. SchedStep /\ CacheStep
  BY <1>1, SchedWritten DEF Writes, bounds
<1>3. BackupStep /\ MadeStep /\ LocalStep /\ CleanStep
  BY <1>1, CleanSame DEF BackupStep, MadeStep, LocalStep, local
<1>4. GrowStep
  BY <1>1, SameBounds
<1> QED BY <1>2, <1>3, <1>4 DEF StepsOK

LEMMA UsersStep == ASSUME TypeInv, SyncInv, Others PROVE StepsOK
<1>0. /\ edits \in Nat /\ faults \in Nat /\ crashes \in Nat /\ stale \in Nat /\ losses \in Nat
      /\ overlaps \in Nat /\ others \in Nat /\ sched \in ScheduleRecord
  BY BoundAssumption DEF TypeInv, BoundsOK, StorageOK, ObjectsOK
<1>1. UNCHANGED <<now, local, clean>>
  BY DEF Others, CreateResource, EditResource, DeleteResource, LoseBackup, OtherDump
<1>2. LocalStep /\ CleanStep
  BY <1>1, CleanSame DEF LocalStep, local
<1>3. GrowStep
  <2>1. UNCHANGED <<faults, crashes, stale, overlaps>>
    BY DEF Others, CreateResource, EditResource, DeleteResource, LoseBackup, OtherDump, bounds
  <2>2. edits' \in {edits, edits + 1}
    BY DEF Others, CreateResource, EditResource, DeleteResource, Edit, LoseBackup, OtherDump, bounds
  <2>3. losses' \in {losses, losses + 1}
    BY DEF Others, CreateResource, EditResource, DeleteResource, LoseBackup, OtherDump, bounds
  <2>4. others' \in {others, others + 1}
    BY DEF Others, CreateResource, EditResource, DeleteResource, LoseBackup, OtherDump, storage
  <2> QED BY <1>0, <1>1, <2>1, <2>2, <2>3, <2>4 DEF GrowStep
<1>4. CASE CreateResource
  <2>1. PICK s \in Specs :
          Writes([Absent(sched.uid + 1, now) EXCEPT !.exists = TRUE, !.spec = s], backup)
    BY <1>4 DEF CreateResource
  <2> DEFINE n == [Absent(sched.uid + 1, now) EXCEPT !.exists = TRUE, !.spec = s]
  <2>2. n.uid = sched.uid + 1 /\ n.born = now /\ n.last = 0 /\ n.del = FALSE /\ n.exists = TRUE
    BY DEF Absent
  <2>3. Writes(n, backup) /\ stale' = stale /\ made' = <<>>
    BY <2>1, <1>4 DEF CreateResource, bounds
  <2> HIDE DEF n
  <2>4. CacheStep /\ sched' = n /\ backup' = backup
    BY <2>3, WriteStep DEF Writes, Write
  <2>5. SchedStep /\ BackupStep /\ MadeStep
    BY <1>4, <2>2, <2>3, <2>4 DEF SchedStep, BackupStep, MadeStep
  <2> QED BY <1>2, <1>3, <2>4, <2>5 DEF StepsOK
<1>5. CASE EditResource \/ DeleteResource
  <2>1. edits' > edits /\ stale' = stale /\ made' = made /\ sched.exists
    BY <1>0, <1>5 DEF EditResource, DeleteResource, Edit
  <2>2. PICK o : /\ Writes(o, backup) /\ o.uid = sched.uid /\ o.born = sched.born
                 /\ \/ o.exists = sched.exists /\ o.last = sched.last
                    \/ o.exists = FALSE /\ o.last = 0
    <3>1. CASE EditResource
      <4>1. PICK s \in Specs : Writes([sched EXCEPT !.spec = s], backup)
        BY <3>1 DEF EditResource
      <4> DEFINE n == [sched EXCEPT !.spec = s]
      <4>2. n.uid = sched.uid /\ n.born = sched.born /\ n.exists = sched.exists /\ n.last = sched.last
        BY <1>0 DEF ScheduleRecord
      <4> HIDE DEF n
      <4> QED BY <4>1, <4>2 DEF n
    <3>2. CASE DeleteResource /\ sched.fin
      <4> DEFINE n == [sched EXCEPT !.del = TRUE]
      <4>1. Writes(n, backup)
        BY <3>2 DEF DeleteResource
      <4>2. n.uid = sched.uid /\ n.born = sched.born /\ n.exists = sched.exists /\ n.last = sched.last
        BY <1>0 DEF ScheduleRecord
      <4> HIDE DEF n
      <4> QED BY <4>1, <4>2
    <3>3. CASE DeleteResource /\ ~sched.fin
      <4> DEFINE n == Absent(sched.uid, sched.born)
      <4>1. Writes(n, backup)
        BY <3>3 DEF DeleteResource
      <4>2. n.uid = sched.uid /\ n.born = sched.born /\ n.exists = FALSE /\ n.last = 0
        BY DEF Absent
      <4> HIDE DEF n
      <4> QED BY <4>1, <4>2
    <3> QED BY <1>5, <3>1, <3>2, <3>3
  <2>3. CacheStep /\ sched' = o /\ backup' = backup
    BY <2>1, <2>2, WriteStep DEF Writes, Write
  <2>4. SchedStep /\ BackupStep /\ MadeStep
    BY <2>1, <2>2, <2>3 DEF SchedStep, BackupStep, MadeStep
  <2> QED BY <1>2, <1>3, <2>3, <2>4 DEF StepsOK
<1>6. ASSUME NEW t \in Slots, LoseBackup(t) PROVE StepsOK
  <2>1. losses' > losses /\ stale' = stale /\ made' = made /\ Writes(sched, Deleted(t))
    BY <1>0, <1>6 DEF LoseBackup
  <2>2. CacheStep /\ SchedStep /\ backup' = Deleted(t)
    BY <2>1, SchedWritten DEF Writes
  <2>3. BackupStep /\ MadeStep
    BY <2>1, <2>2 DEF BackupStep, MadeStep
  <2> QED BY <1>2, <1>3, <2>2, <2>3 DEF StepsOK
<1>7. ASSUME NEW d \in Dbs, OtherDump(d) PROVE StepsOK
  <2>1. Unwritten /\ stale' = stale /\ made' = made /\ UNCHANGED <<sched, backup>>
    BY <1>7 DEF OtherDump, Unwritten, objects, bounds
  <2>2. CacheStep /\ SchedStep /\ BackupStep /\ MadeStep
    BY <2>1, UnwrittenStep, KeptSame DEF SchedStep, BackupStep, MadeStep
  <2> QED BY <1>2, <1>3, <2>2 DEF StepsOK
<1> QED BY <1>4, <1>5, <1>6, <1>7 DEF Others

LEMMA NextSteps == ASSUME TypeInv, SyncInv, [Next]_vars PROVE StepsOK
<1>1. CASE Next
  BY <1>1, StartStep, AddFinalizerStep, LookupStep, CreateBackupStep, PatchStatusStep,
     DeletionStep, RetentionStep, TroubleStep, ClusterStep, UsersStep DEF Next, Reconcile
<1>2. CASE UNCHANGED vars
  <2>1. /\ UNCHANGED <<now, sched, backup, seenS, seenB, lagging, clean, made, others>>
        /\ UNCHANGED <<pc, obj, to>> /\ UNCHANGED bounds
    BY <1>2 DEF vars, objects, caches, storage, local
  <2>2. SchedStep /\ LocalStep /\ BackupStep /\ CleanStep /\ MadeStep
    BY <2>1, KeptSame, CleanSame DEF SchedStep, LocalStep, BackupStep, MadeStep
  <2>3. CacheStep /\ GrowStep
    BY <2>1, SameBounds DEF CacheStep, SyncInv, bounds
  <2> QED BY <2>2, <2>3 DEF StepsOK
<1> QED BY <1>1, <1>2

-----------------------------------------------------------------------------
(* What the worker knows of the schedule                                   *)

Disturbed == Troubles > 1 \/ sched.uid > 1

\* The copies of the schedule that may still be used.
Copies == {seenS} \cup (IF pc = "idle" THEN {} ELSE {obj})

CopyInv ==
  /\ sched.exists => sched.uid >= 1
  /\ sched.born <= now /\ sched.last <= now
  /\ pc # "idle" => obj.exists
  /\ \A o \in Copies : /\ o.exists => o.uid >= 1
                       /\ o.uid <= sched.uid
                       /\ o.born <= now /\ o.last <= now

\* Of the first incarnation every copy has the time of creation, and none is ahead.
OnceInv ==
  sched.uid <= 1 =>
    /\ sched.last # 0 => sched.born <= sched.last
    /\ \A o \in Copies :
         /\ o.last # 0 => o.born <= o.last
         /\ (o.exists /\ sched.exists) => o.born = sched.born /\ o.last <= sched.last
    /\ (pc = "patch" /\ to.last # 0) => sched.born <= to.last /\ sched.last <= to.last

LEMMA CopySteps ==
  ASSUME StepsOK, NEW o \in Copies'
  PROVE  o = sched' \/ \E p \in Copies : Kept(o, p)
<1>1. seenS' = sched' \/ \E p \in Copies : Kept(seenS', p)
  BY KeptSame DEF StepsOK, CacheStep, Copies
<1>2. pc' # "idle" => \E p \in Copies : Kept(obj', p)
  BY KeptSame DEF StepsOK, LocalStep, Copies
<1> QED BY <1>1, <1>2 DEF Copies

NumbersOK ==
  /\ now \in Nat /\ sched.uid \in Nat /\ sched.born \in Nat /\ sched.last \in Nat
  /\ \A o \in Copies : o \in ScheduleRecord /\ o.uid \in Nat /\ o.born \in Nat /\ o.last \in Nat
  /\ to.last \in Nat /\ to.last \in Times /\ sched.exists \in BOOLEAN
LEMMA NumberTypes == TypeInv => NumbersOK
<1> SUFFICES ASSUME TypeInv PROVE NumbersOK
  OBVIOUS
<1>1. sched \in ScheduleRecord /\ \A o \in Copies : o \in ScheduleRecord
  BY DEF TypeInv, ObjectsOK, CachesOK, LocalOK, Copies
<1>2. now \in Nat /\ to.last \in Nat /\ to.last \in Times
  BY DEF TypeInv, ClockOK, LocalOK, Status, Times
<1> QED BY <1>1, <1>2, RecordFacts DEF NumbersOK

LEMMA NumberTypesNext == TypeInv' => NumbersOK'
BY NumberTypes, PTL

\* Schedules come and go under one name, each with a number of its own.
LEMMA SchedNumbers ==
  ASSUME TypeInv, CopyInv, StepsOK
  PROVE  /\ sched'.uid \in Nat /\ sched.uid <= sched'.uid
         /\ sched'.uid = sched.uid => sched'.born = sched.born /\ (sched'.exists => sched.exists)
         /\ sched'.uid # sched.uid => sched.uid + 1 = sched'.uid /\ ~sched.exists
         /\ sched'.last \in {0, sched.last, to.last}
<1>1. sched.uid \in Nat /\ sched.exists \in BOOLEAN
  BY NumberTypes DEF NumbersOK
<1>2. CreateResource => ~sched.exists
  BY DEF CreateResource
<1>3. SchedStep
  BY DEF StepsOK
<1>4. /\ Absent(sched.uid, sched.born).uid = sched.uid /\ Absent(sched.uid, sched.born).born = sched.born
      /\ Absent(sched.uid, sched.born).exists = FALSE /\ Absent(sched.uid, sched.born).last = 0
  BY DEF Absent
<1>5. ASSUME Kept(sched', [sched EXCEPT !.last = to.last])
      PROVE  /\ sched'.uid = sched.uid /\ sched'.born = sched.born /\ sched'.exists = sched.exists
             /\ sched'.last = to.last
  BY <1>5 DEF Kept, TypeInv, ObjectsOK, ScheduleRecord
<1> QED BY <1>1, <1>2, <1>3, <1>4, <1>5 DEF SchedStep, Kept

LEMMA CopyStep ==
  ASSUME TypeInv, TypeInv', CopyInv, StepsOK PROVE CopyInv'
<1>1. /\ now \in Nat /\ now' \in Nat /\ now <= now' /\ sched.uid \in Nat /\ sched'.uid \in Nat
      /\ sched.uid <= sched'.uid
  BY NumberTypes, SchedNumbers DEF StepsOK, GrowStep, NumbersOK
<1>2. sched'.exists => sched'.uid >= 1
  BY <1>1, SchedNumbers DEF CopyInv
<1>3. sched'.born <= now' /\ sched'.last <= now'
  <2>1. sched'.last \in {0, sched.last, to.last} /\ (pc = "patch" => to.last <= now)
    BY SchedNumbers DEF TypeInv, WorkInv
  <2>2. sched'.last <= now
    <3>1. sched'.last = to.last => to.last = 0 \/ pc = "patch" \/ to.last = sched.last
      <4>1. CASE Kept(sched', sched)
        BY <4>1 DEF Kept
      <4>2. CASE pc = "patch"
        BY <4>2
      <4>3. CASE sched'.last = 0
        BY <4>3
      <4>4. CASE sched'.last = sched.last
        BY <4>4
      <4>5. CASE sched' = Absent(sched.uid, sched.born)
        BY <4>5 DEF Absent
      <4> QED BY <4>1, <4>2, <4>3, <4>4, <4>5 DEF StepsOK, SchedStep
    <3> QED BY <1>1, <2>1, <3>1 DEF CopyInv
  <2>3. sched'.born <= now
    <3>1. CASE sched'.uid = sched.uid
      BY <3>1, SchedNumbers DEF CopyInv
    <3>2. CASE sched'.uid # sched.uid
      <4>1. sched'.born = now
        <5>1. sched'.uid # sched.uid /\ SchedStep
          BY <3>2 DEF StepsOK
        <5>2. Kept(sched', [sched EXCEPT !.last = to.last]) => sched'.uid = sched.uid
          BY DEF Kept, TypeInv, ObjectsOK, ScheduleRecord
        <5>3. Kept(sched', sched) => sched'.uid = sched.uid
          BY DEF Kept
        <5>4. Absent(sched.uid, sched.born).uid = sched.uid
          BY DEF Absent
        <5> QED BY <5>1, <5>2, <5>3, <5>4 DEF SchedStep
      <4> QED BY <4>1, <1>1
    <3> QED BY <3>1, <3>2
  <2> QED BY <2>2, <2>3, <1>1, NumberTypes, NumberTypesNext DEF NumbersOK
<1>4. pc' # "idle" => obj'.exists
  BY DEF StepsOK, LocalStep, CopyInv, Kept
<1>5. ASSUME NEW o \in Copies'
      PROVE  (o.exists => o.uid >= 1) /\ o.uid <= sched'.uid /\ o.born <= now' /\ o.last <= now'
  <2>1. CASE o = sched'
    BY <2>1, <1>1, <1>2, <1>3
  <2>2. CASE \E p \in Copies : Kept(o, p)
    <3>1. PICK p \in Copies : Kept(o, p)
      BY <2>2
    <3>2. /\ p.exists => p.uid >= 1
          /\ p.uid <= sched.uid /\ p.born <= now /\ p.last <= now
          /\ p.uid \in Nat /\ p.born \in Nat /\ p.last \in Nat
      BY NumberTypes DEF CopyInv, NumbersOK
    <3> QED BY <3>1, <3>2, <1>1 DEF Kept
  <2> QED BY <2>1, <2>2, CopySteps
<1> QED BY <1>2, <1>3, <1>4, <1>5 DEF CopyInv

\* A reconciliation is of the incarnation that is there, or of a former one.
LEMMA CopyFacts ==
  ASSUME TypeInv, CopyInv, sched.uid = 0 PROVE pc = "idle" /\ \A o \in Copies : ~o.exists
<1>1. \A o \in Copies : o.exists => FALSE
  BY NumberTypes DEF CopyInv, NumbersOK
<1> QED BY <1>1 DEF CopyInv, Copies

LEMMA OnceStep ==
  ASSUME TypeInv, TypeInv', CopyInv, OnceInv, StepsOK PROVE OnceInv'
<1> SUFFICES ASSUME sched'.uid <= 1 PROVE OnceInv'
  BY DEF OnceInv
<1>1. sched.uid <= 1 /\ sched.uid \in Nat /\ sched'.uid \in Nat /\ sched.uid <= sched'.uid
  BY SchedNumbers, NumberTypes DEF NumbersOK
<1>2. /\ sched.last # 0 => sched.born <= sched.last
      /\ \A o \in Copies :
           /\ o.last # 0 => o.born <= o.last
           /\ (o.exists /\ sched.exists) => o.born = sched.born /\ o.last <= sched.last
      /\ (pc = "patch" /\ to.last # 0) => sched.born <= to.last /\ sched.last <= to.last
  BY <1>1 DEF OnceInv
<1>3. /\ sched'.last # 0 => sched'.born <= sched'.last
      /\ sched'.exists /\ sched.exists => sched'.last >= sched.last
  <2>1. SchedStep /\ sched.last \in Nat
    BY NumberTypes DEF StepsOK, NumbersOK
  <2>2. CASE Kept(sched', sched)
    BY <1>2, <2>1, <2>2 DEF Kept
  <2>3. CASE pc = "patch" /\ to.last # 0 /\ Kept(sched', [sched EXCEPT !.last = to.last])
    <3>1. sched'.last = to.last /\ sched'.born = sched.born
      BY <2>3 DEF Kept, TypeInv, ObjectsOK, ScheduleRecord
    <3> QED BY <1>2, <2>1, <2>3, <3>1, NumberTypes DEF NumbersOK
  <2>4. CASE CreateResource /\ sched'.last = 0
    BY <2>4 DEF CreateResource
  <2>5. CASE /\ sched'.born = sched.born
             /\ sched'.exists => sched.exists /\ sched'.last = sched.last
             /\ ~sched'.exists => sched'.last = 0
    BY <2>5, <2>1, <1>2, NumberTypes DEF NumbersOK
  <2>6. CASE sched' = Absent(sched.uid, sched.born)
    BY <2>6 DEF Absent
  <2> QED BY <2>1, <2>2, <2>3, <2>4, <2>5, <2>6 DEF SchedStep
<1>4. ASSUME NEW o \in Copies'
      PROVE  /\ o.last # 0 => o.born <= o.last
             /\ (o.exists /\ sched'.exists) => o.born = sched'.born /\ o.last <= sched'.last
  <2>1. CASE o = sched'
    BY <2>1, <1>3, NumberTypes, NumberTypesNext DEF NumbersOK
  <2>2. CASE \E p \in Copies : Kept(o, p)
    <3>1. PICK p \in Copies : Kept(o, p)
      BY <2>2
    <3>2. p.last # 0 => p.born <= p.last
      BY <1>2
    <3>3. CASE sched'.uid = sched.uid
      <4>1. (p.exists /\ sched'.exists) => p.born = sched'.born /\ p.last <= sched.last
        BY <1>2, <3>3, SchedNumbers
      <4>2. sched'.exists => sched'.last >= sched.last
        BY <1>3, <3>3, SchedNumbers
      <4>3. p.last \in Nat /\ sched.last \in Nat /\ sched'.last \in Nat
        BY NumberTypes, NumberTypesNext DEF NumbersOK
      <4> QED BY <3>1, <3>2, <4>1, <4>2, <4>3 DEF Kept
    <3>4. CASE sched'.uid # sched.uid
      <4>1. sched.uid = 0
        BY <1>1, <3>4, SchedNumbers
      <4>2. ~p.exists
        BY <4>1, CopyFacts
      <4> QED BY <3>1, <3>2, <4>2 DEF Kept
    <3> QED BY <3>3, <3>4
  <2> QED BY <2>1, <2>2, CopySteps
<1>5. (pc' = "patch" /\ to'.last # 0) => sched'.born <= to'.last /\ sched'.last <= to'.last
  <2> SUFFICES ASSUME pc' = "patch", to'.last # 0
               PROVE  sched'.born <= to'.last /\ sched'.last <= to'.last
    OBVIOUS
  <2>1. CASE UNCHANGED <<pc, obj, to>>
    <3>1. sched.born <= to.last /\ sched.last <= to.last /\ to'.last = to.last /\ to.last \in Nat
      BY <1>2, <2>1, NumberTypes DEF NumbersOK
    <3>2. sched'.uid = sched.uid
      BY <2>1, <1>1, SchedNumbers, CopyFacts
    <3>3. sched'.born = sched.born /\ sched'.last \in {0, sched.last, to.last}
      BY <3>2, SchedNumbers
    <3> QED BY <3>1, <3>3
  <2>2. CASE UNCHANGED sched /\ to'.last = now
    BY <2>2 DEF CopyInv
  <2> QED BY <2>1, <2>2 DEF StepsOK, LocalStep
<1> QED BY <1>3, <1>4, <1>5 DEF OnceInv

-----------------------------------------------------------------------------
(* Slots in their order, while the calls succeed                           *)

\* A last run that moved on, but not beyond the next slot, leaves the next slot as it is.
LEMMA SameRun ==
  ASSUME NEW o \in ScheduleRecord, NEW p \in ScheduleRecord, o.spec = p.spec, o.born = p.born,
         o.spec.cron # BadCron, p.last <= o.last, o.last # 0 => o.born <= o.last
  PROVE  CalculateNextRun(p) <= o.last \/ CalculateNextRun(p) = CalculateNextRun(o)
<1> DEFINE c == o.spec.cron
           x == CalculateNextRun(p)
           y == CalculateNextRun(o)
<1>1. /\ c \in Crons /\ p.spec.cron = c
      /\ x = NextSlot(c, Base(p)) /\ y = NextSlot(c, Base(o))
      /\ Base(p) \in Times /\ Base(o) \in Times /\ x \in Nat /\ y \in Nat
  BY NextRunIs
<1>2. /\ x \in SlotsOf[c] /\ x > Base(p) /\ \A z \in SlotsOf[c] : z > Base(p) => x <= z
      /\ y \in SlotsOf[c] /\ y > Base(o) /\ \A z \in SlotsOf[c] : z > Base(o) => y <= z
  BY <1>1, NextSlotIs
<1>3. o.last \in Nat /\ p.last \in Nat /\ o.born \in Nat /\ Base(p) \in Nat /\ Base(o) \in Nat
  BY <1>1, RecordFacts DEF Times
<1>4. Base(p) <= Base(o) /\ (o.last = 0 => Base(o) = Base(p)) /\ (o.last # 0 => Base(o) = o.last)
  BY <1>3 DEF Base
<1>7. x <= o.last => CalculateNextRun(p) <= o.last
  OBVIOUS
<1>8. x = y => CalculateNextRun(p) = CalculateNextRun(o)
  OBVIOUS
<1> HIDE DEF x, y, c
<1>5. CASE x > Base(o)
  <2>1. y <= x
    BY <1>2, <1>5
  <2>2. y > Base(p) /\ y \in SlotsOf[c]
    BY <1>1, <1>2, <1>3, <1>4
  <2>3. x <= y
    BY <1>2, <2>2
  <2>4. x = y
    BY <1>1, <2>1, <2>3
  <2> QED BY <2>4, <1>8
<1>6. CASE x <= Base(o)
  <2>1. Base(o) # Base(p)
    BY <1>1, <1>2, <1>3, <1>6
  <2>2. Base(o) = o.last
    BY <1>4, <2>1
  <2> QED BY <1>6, <1>7, <2>2
<1> QED BY <1>1, <1>3, <1>5, <1>6 DEF Times

\* The slots of the Backups that were made, and what one more changes.
LEMMA MadeFacts ==
  ASSUME TypeInv
  PROVE  /\ made \in Seq(Slots) /\ DOMAIN made = 1..Len(made) /\ Len(made) \in Nat
         /\ \A i \in DOMAIN made : made[i] \in Slots /\ made[i] \in Nat
<1>1. made \in Seq(Slots)
  BY DEF TypeInv, MadeOK
<1>2. DOMAIN made = 1..Len(made) /\ Len(made) \in Nat /\ \A i \in DOMAIN made : made[i] \in Slots
  BY <1>1
<1> QED BY <1>1, <1>2, SlotFacts

LEMMA Appended ==
  ASSUME TypeInv, NEW t \in Slots, NEW m, m = Append(made, t)
  PROVE  /\ DOMAIN m = 1..(Len(made) + 1) /\ m[Len(made) + 1] = t
         /\ \A i \in DOMAIN m : (i \in DOMAIN made /\ m[i] = made[i]) \/ (i = Len(made) + 1 /\ m[i] = t)
         /\ \A i \in DOMAIN made : i \in DOMAIN m /\ m[i] = made[i]
BY MadeFacts

LEMMA SumGrows ==
  ASSUME NEW a \in Nat, NEW b \in Nat, NEW c \in Nat, NEW d \in Nat, a <= c, b <= d
  PROVE  a + b \in Nat /\ c + d \in Nat /\ a + b <= c + d
OBVIOUS

\* Trouble is never over.
LEMMA TroublesGrow ==
  ASSUME TypeInv, TypeInv', CopyInv, StepsOK
  PROVE  /\ Disturbed => Disturbed'
         /\ ~Disturbed' => sched.uid <= 1 /\ sched'.uid <= 1
         /\ edits' = 0 => edits = 0 /\ ~(edits' > edits)
         /\ losses' = 0 => losses = 0 /\ ~(losses' > losses)
         /\ faults' = 0 => faults = 0 /\ ~(faults' > faults)
         /\ crashes' = 0 => crashes = 0 /\ ~(crashes' > crashes)
         /\ stale' = 0 => stale = 0
<1>1. /\ edits \in Nat /\ faults \in Nat /\ crashes \in Nat /\ stale \in Nat /\ losses \in Nat
      /\ overlaps \in Nat /\ others \in Nat
  BY BoundAssumption DEF TypeInv, BoundsOK, StorageOK
<1>2. /\ edits' \in Nat /\ faults' \in Nat /\ crashes' \in Nat /\ stale' \in Nat /\ losses' \in Nat
      /\ overlaps' \in Nat /\ others' \in Nat
  BY BoundAssumption DEF TypeInv, BoundsOK, StorageOK
<1>3. /\ edits <= edits' /\ faults <= faults' /\ crashes <= crashes' /\ stale <= stale'
      /\ losses <= losses' /\ overlaps <= overlaps' /\ others <= others'
  BY DEF StepsOK, GrowStep
<1>4. sched.uid \in Nat /\ sched'.uid \in Nat /\ sched.uid <= sched'.uid
  BY SchedNumbers, NumberTypes DEF NumbersOK
<1>5. Troubles \in Nat /\ Troubles' \in Nat /\ Troubles <= Troubles'
  <2>1. /\ edits + faults \in Nat
         /\ edits' + faults' \in Nat
         /\ edits + faults
              <= edits' + faults'
    BY <1>1, <1>2, <1>3, SumGrows
  <2>2. /\ edits + faults + crashes \in Nat
         /\ edits' + faults' + crashes' \in Nat
         /\ edits + faults + crashes
              <= edits' + faults' + crashes'
    BY <1>1, <1>2, <1>3, <2>1, SumGrows
  <2>3. /\ edits + faults + crashes + stale \in Nat
         /\ edits' + faults' + crashes' + stale' \in Nat
         /\ edits + faults + crashes + stale
              <= edits' + faults' + crashes' + stale'
    BY <1>1, <1>2, <1>3, <2>2, SumGrows
  <2>4. /\ edits + faults + crashes + stale + losses \in Nat
         /\ edits' + faults' + crashes' + stale' + losses' \in Nat
         /\ edits + faults + crashes + stale + losses
              <= edits' + faults' + crashes' + stale' + losses'
    BY <1>1, <1>2, <1>3, <2>3, SumGrows
  <2>5. /\ edits + faults + crashes + stale + losses + overlaps \in Nat
         /\ edits' + faults' + crashes' + stale' + losses' + overlaps' \in Nat
         /\ edits + faults + crashes + stale + losses + overlaps
              <= edits' + faults' + crashes' + stale' + losses' + overlaps'
    BY <1>1, <1>2, <1>3, <2>4, SumGrows
  <2>6. /\ edits + faults + crashes + stale + losses + overlaps + others \in Nat
         /\ edits' + faults' + crashes' + stale' + losses' + overlaps' + others' \in Nat
         /\ edits + faults + crashes + stale + losses + overlaps + others
              <= edits' + faults' + crashes' + stale' + losses' + overlaps' + others'
    BY <1>1, <1>2, <1>3, <2>5, SumGrows
  <2> QED BY <2>6 DEF Troubles
<1>6. Disturbed => Disturbed'
  BY <1>4, <1>5 DEF Disturbed
<1>7. ~Disturbed' => sched.uid <= 1 /\ sched'.uid <= 1
  BY <1>4 DEF Disturbed
<1> QED BY <1>1, <1>2, <1>3, <1>6, <1>7

LEMMA LastGrows ==
  ASSUME TypeInv, TypeInv', CopyInv, OnceInv, StepsOK, sched.uid <= 1, sched.exists, sched'.exists
  PROVE  sched.last <= sched'.last
<1>1. SchedStep /\ sched.last \in Nat
  BY NumberTypes DEF StepsOK, NumbersOK
<1>2. CASE Kept(sched', sched)
  BY <1>1, <1>2 DEF Kept
<1>3. CASE pc = "patch" /\ to.last # 0 /\ Kept(sched', [sched EXCEPT !.last = to.last])
  <2>1. sched'.last = to.last
    BY <1>3 DEF Kept, TypeInv, ObjectsOK, ScheduleRecord
  <2> QED BY <1>3, <2>1 DEF OnceInv
<1>4. CASE CreateResource
  BY <1>4 DEF CreateResource
<1>5. CASE sched'.exists => sched.exists /\ sched'.last = sched.last
  BY <1>1, <1>5
<1>6. CASE sched' = Absent(sched.uid, sched.born)
  BY <1>6 DEF Absent
<1> QED BY <1>1, <1>2, <1>3, <1>4, <1>5, <1>6 DEF SchedStep

Steady == ~Disturbed /\ faults = 0 /\ crashes = 0 /\ stale = 0
OrderInv ==
  (Steady /\ sched.exists) =>
     /\ pc # "idle" => obj.last = sched.last
     /\ \A i \in DOMAIN made : made[i] <= sched.last \/ (pc = "patch" /\ made[i] <= to.last)

LEMMA OrderStep ==
  ASSUME TypeInv, TypeInv', CopyInv, OnceInv, SyncInv, OrderInv, [Next]_vars, StepsOK
  PROVE  OrderInv'
<1> SUFFICES ASSUME Steady', sched'.exists PROVE OrderInv'
  BY DEF OrderInv
<1>1. /\ Steady /\ ~(faults' > faults) /\ ~(crashes' > crashes) /\ sched.uid <= 1 /\ sched'.uid <= 1
      /\ faults' = 0 /\ faults = 0
  BY TroublesGrow DEF Steady
<1>2. seenS = sched /\ seenS' = sched'
  BY <1>1 DEF Steady, SyncInv, StepsOK, CacheStep
<1>3. CASE ~sched.exists
  <2>0. Absent(sched.uid, sched.born).exists = FALSE
    BY DEF Absent
  <2>1. sched'.uid # sched.uid /\ CreateResource /\ made' = <<>>
    <3>1. CreateResource
      BY <1>3, <2>0 DEF StepsOK, SchedStep, Kept
    <3>2. sched'.uid # sched.uid
      BY <1>3, SchedNumbers
    <3> QED BY <3>1, <3>2 DEF CreateResource
  <2>2. sched.uid = 0
    BY <1>1, <2>1, SchedNumbers, NumberTypes DEF NumbersOK
  <2>3. pc = "idle" /\ pc' = pc
    BY <2>1, <2>2, CopyFacts DEF CreateResource, local
  <2> QED BY <2>1, <2>3 DEF OrderInv
<1>4. CASE sched.exists
  <2>1. /\ pc # "idle" => obj.last = sched.last
        /\ \A i \in DOMAIN made : made[i] <= sched.last \/ (pc = "patch" /\ made[i] <= to.last)
    BY <1>1, <1>4 DEF OrderInv
  <2>2. sched.last <= sched'.last /\ sched.last \in Nat /\ sched'.last \in Nat /\ to.last \in Nat
    BY <1>1, <1>4, LastGrows, NumberTypes, NumberTypesNext DEF NumbersOK
  <2>3. pc' # "idle" => sched'.last = sched.last
    <3>1. ~CreateResource
      BY <1>4 DEF CreateResource
    <3> QED BY <3>1 DEF StepsOK, SchedStep, Kept
  <2>4. pc' # "idle" => obj'.last = sched'.last
    <3> SUFFICES ASSUME pc' # "idle" PROVE obj'.last = sched'.last
      OBVIOUS
    <3> QED BY <1>2, <2>1, <2>3 DEF StepsOK, LocalStep, Kept
  <2>5. CASE UNCHANGED made
    <3> SUFFICES ASSUME NEW i \in DOMAIN made
                 PROVE  made[i] <= sched'.last \/ (pc' = "patch" /\ made[i] <= to'.last)
      BY <2>4, <2>5 DEF OrderInv
    <3>0. made[i] \in Nat
      BY MadeFacts
    <3>1. CASE made[i] <= sched.last
      BY <3>0, <3>1, <2>2
    <3>2. CASE pc = "patch" /\ made[i] <= to.last
      <4>1. UNCHANGED <<pc, obj, to>> \/ (pc' = "idle" /\ PatchStatus)
        BY <3>2, <1>1 DEF StepsOK, LocalStep
      <4>2. CASE PatchStatus
        <5>1. ~Fault
          BY <1>1 DEF Fault
        <5>2. sched' = Merged
          BY <4>2, <5>1, <1>4 DEF PatchStatus, Writes, Write
        <5>3. sched'.last = IF to.last \notin {0, obj.last} THEN to.last ELSE sched.last
          BY <5>2 DEF Merged, TypeInv, ObjectsOK, ScheduleRecord
        <5> QED BY <3>0, <3>2, <5>3, <2>1, <2>2
      <4> QED BY <3>2, <4>1, <4>2
    <3> QED BY <2>1, <3>1, <3>2
  <2>6. CASE CreateBackup /\ made' = Append(made, slot)
    <3>1. ~Fault
      BY <1>1 DEF Fault
    <3>2. pc = "create" /\ Patch(obj, AfterBackup)
      BY <2>6, <3>1 DEF CreateBackup
    <3>3. pc' = "patch" /\ to'.last = now /\ slot <= now /\ slot \in Slots
      BY <3>2, AtWork, AfterBackupType DEF Patch
    <3>4. ASSUME NEW i \in DOMAIN made'
          PROVE  made'[i] <= sched'.last \/ made'[i] <= to'.last
      <4>1. CASE made'[i] = slot
        BY <3>3, <4>1
      <4>2. CASE i \in DOMAIN made /\ made'[i] = made[i]
        BY <3>2, <4>2, <2>1, <2>2, MadeFacts
      <4> QED BY <2>6, <3>3, <4>1, <4>2, Appended
    <3> QED BY <2>4, <3>3, <3>4 DEF OrderInv
  <2>7. ~CreateResource
    BY <1>4 DEF CreateResource
  <2> QED BY <2>5, <2>6, <2>7 DEF StepsOK, MadeStep
<1> QED BY <1>3, <1>4

\* What was made lies before the slot the worker goes for.
LEMMA SteadyOrder ==
  ASSUME TypeInv, OrderInv, Steady, sched.exists, pc = "create"
  PROVE  \A i \in DOMAIN made : made[i] < slot
<1>1. obj.last = sched.last /\ \A i \in DOMAIN made : made[i] <= sched.last
  BY DEF OrderInv
<1>2. obj.last <= Base(obj) /\ obj.last \in Nat /\ Base(obj) \in Nat
  BY AtWork, RecordFacts DEF Base
<1> QED BY <1>1, <1>2, AtWork, MadeFacts

-----------------------------------------------------------------------------
(* Slots in their order, while nobody interferes                           *)

\* A slot that was used is behind the last run of o, or is the next one and has its Backup.
Covered(o, m, bs) ==
  \A i \in DOMAIN m :
    \/ m[i] <= o.last
    \/ /\ o.spec.cron # BadCron /\ m[i] = CalculateNextRun(o)
       /\ Present(bs, m[i]) /\ ~bs[m[i]].del

Among(t, m) == \E i \in DOMAIN m : m[i] = t

\* The Backups are those that were made, in the order of their slots.
Orderly(bs, m, time) ==
  /\ \A t \in Slots : Present(bs, t) => Among(t, m) /\ bs[t].uid = 1 /\ bs[t].at <= time
  /\ \A t, u \in Slots : (Present(bs, t) /\ Present(bs, u) /\ u < t) => bs[u].at <= bs[t].at

Calm == ~Disturbed /\ edits = 0 /\ losses = 0
CalmSched ==
  /\ ~sched.del /\ (sched.uid = 1 => sched.exists) /\ (~sched.exists => made = <<>>)
  /\ sched.exists => Covered(sched, made, backup)
  /\ pc \in {"idle", "finalizer", "lookup", "create", "patch"}
CalmCopies ==
  /\ \A o \in Copies : o.exists => ~o.del /\ o.spec = sched.spec /\ Covered(o, made, backup)
  /\ pc # "idle" => seenS.exists /\ obj.last <= seenS.last

\* What a cleanup is about to delete lies before a slot that was used.
CalmClean ==
  \A g \in Cleaners : \A t \in clean[g].backups : \E i \in DOMAIN made : made[i] > t
CalmInv ==
  Calm => /\ CalmSched /\ CalmCopies /\ CalmClean
          /\ Orderly(backup, made, now) /\ Orderly(seenB, made, now)

CleanInv ==
  \A g \in Cleaners : clean[g].at # "idle" => clean[g].keep \in RetentionPolicy

LEMMA CleanInvStep == ASSUME CleanInv, StepsOK PROVE CleanInv'
<1> SUFFICES ASSUME NEW g \in Cleaners, clean'[g].at # "idle"
             PROVE  clean'[g].keep \in RetentionPolicy
  BY DEF CleanInv
<1> QED BY DEF StepsOK, CleanStep, CleanInv

\* cleanupBackupCRDs: behind each Backup it deletes there is a newer one.
LEMMA NewerOne ==
  ASSUME NEW bs \in [Slots -> BackupRecord], NEW n \in Nat, NEW t \in ToDelete(bs, n)
  PROVE  /\ t \in Slots /\ Present(bs, t)
         /\ \E u \in Slots : /\ Present(bs, u)
                             /\ bs[u].at > bs[t].at \/ (bs[u].at = bs[t].at /\ u > t)
<1> DEFINE Newest == {u \in Slots :
                        /\ Present(bs, u)
                        /\ bs[u].at > bs[t].at \/ (bs[u].at = bs[t].at /\ u > t)}
<1>1. n # 0 /\ t \in Beyond(bs, n)
  BY DEF ToDelete
<1>2. t \in Slots /\ Present(bs, t) /\ Cardinality(Newest) >= n
  BY <1>1 DEF Beyond
<1>3. Newest # {}
  <2> HIDE DEF Newest
  <2> QED BY <1>1, <1>2, FS_EmptySet
<1> QED BY <1>2, <1>3

\* In the calm the controller knows one schedule.
LEMMA CalmFacts ==
  ASSUME TypeInv, CopyInv, CalmInv, Calm
  PROVE  /\ sched.uid <= 1 /\ (made # <<>> => sched.exists /\ sched.uid = 1)
         /\ \A o \in Copies : o.exists => sched.uid = 1 /\ sched.exists /\ o.uid = 1
         /\ pc # "idle" => obj.exists /\ obj.uid = 1 /\ sched.exists /\ sched.uid = 1
<1>1. sched.uid \in Nat /\ \A o \in Copies : o.uid \in Nat
  BY NumberTypes DEF NumbersOK
<1>2. sched.uid <= 1
  BY <1>1 DEF Calm, Disturbed
<1>3. \A o \in Copies : o.exists => sched.uid = 1 /\ sched.exists /\ o.uid = 1
  BY <1>1, <1>2 DEF CopyInv, CalmInv, CalmSched
<1>4. made # <<>> => sched.exists /\ sched.uid = 1
  BY <1>1, <1>2 DEF CopyInv, CalmInv, CalmSched
<1> QED BY <1>2, <1>3, <1>4 DEF CopyInv, Copies

\* createBackup goes for a slot that is beyond every one before it.
LEMMA CalmOrder ==
  ASSUME TypeInv, CopyInv, CalmInv, Calm, pc = "create", ~Present(backup, slot)
  PROVE  \A i \in DOMAIN made : made[i] < slot
<1>1. Covered(obj, made, backup)
  BY DEF CopyInv, CalmInv, CalmCopies, Copies
<1>2. slot = CalculateNextRun(obj)
  BY AtWork
<1>3. \A i \in DOMAIN made : made[i] <= obj.last
  BY <1>1, <1>2 DEF Covered
<1>4. obj.last <= Base(obj) /\ obj.last \in Nat /\ Base(obj) \in Nat
  BY AtWork, RecordFacts DEF Base
<1> QED BY <1>3, <1>4, AtWork, MadeFacts

\* The Backups and the slots after a step in the calm.
CalmMade ==
  \/ UNCHANGED made
  \/ /\ pc = "create" /\ pc' = "patch" /\ slot \in Slots /\ made' = Append(made, slot)
     /\ ~Present(backup, slot) /\ UNCHANGED <<sched, obj, now, clean>>
     /\ backup' = [backup EXCEPT ![slot] =
                   [st |-> "running", uid |-> obj.uid, at |-> now, del |-> FALSE]]
CalmBackup(t) ==
  \/ backup'[t] = backup[t]
  \/ ~Present(backup, t) /\ backup'[t].st = "none"
  \/ /\ Present(backup, t) /\ backup'[t].st # "none" /\ backup'[t].uid = backup[t].uid
     /\ backup'[t].at = backup[t].at
     /\ backup'[t].del = backup[t].del \/ \E i \in DOMAIN made : made[i] > t
  \/ backup[t].del /\ Present(backup, t) /\ backup'[t] = NoRecord
  \/ pc = "create" /\ t = slot /\ made' = Append(made, slot) /\ ~Present(backup, slot)

LEMMA CalmMadeStep ==
  ASSUME TypeInv, CopyInv, CalmInv, Calm, StepsOK PROVE CalmMade
<1>1. CASE CreateResource /\ made' = <<>>
  <2>1. made = <<>>
    BY <1>1 DEF CreateResource, CalmInv, CalmSched
  <2> QED BY <1>1, <2>1 DEF CalmMade
<1>2. CASE /\ CreateBackup /\ made' = Append(made, slot) /\ made' # made
           /\ sched.exists /\ sched.uid = obj.uid /\ ~Present(backup, slot)
  <2>1. /\ pc = "create" /\ UNCHANGED <<now, clean>> /\ UNCHANGED sched
        /\ Patch(obj, AfterBackup) \/ \E failed : Patch(obj, failed)
    BY <1>2 DEF CreateBackup, Writes, Write
  <2>2. pc' = "patch" /\ UNCHANGED obj
    BY <2>1 DEF Patch
  <2>3. backup' = [backup EXCEPT ![slot] =
                   [st |-> "running", uid |-> obj.uid, at |-> now, del |-> FALSE]]
    BY <1>2 DEF CreateBackup, Writes, Write
  <2> QED BY <1>2, <2>1, <2>2, <2>3, AtWork DEF CalmMade
<1> QED BY <1>1, <1>2 DEF CalmMade, StepsOK, MadeStep

LEMMA CalmBackupStep ==
  ASSUME TypeInv, CopyInv, CalmInv, Calm, StepsOK, ~(losses' > losses), NEW t \in Slots
  PROVE  CalmBackup(t)
<1>0. backup \in [Slots -> BackupRecord]
  BY DEF TypeInv, ObjectsOK
<1>1. CASE UNCHANGED backup
  BY <1>1 DEF CalmBackup
<1>2. CASE CreateBackup
  <2> DEFINE new == [st |-> "running", uid |-> obj.uid, at |-> now, del |-> FALSE]
  <2>1. pc = "create" /\ sched.exists /\ sched.uid = obj.uid
    <3>1. pc = "create"
      BY <1>2 DEF CreateBackup
    <3> QED BY <3>1, CalmFacts
  <2>2. \/ UNCHANGED backup
        \/ /\ ~Present(backup, slot) /\ made' = Append(made, slot)
           /\ backup' = [backup EXCEPT ![slot] = new]
    BY <1>2, <2>1 DEF CreateBackup, Writes, Write
  <2> HIDE DEF new
  <2> QED BY <1>0, <2>1, <2>2 DEF CalmBackup
<1>3. ASSUME NEW u \in Slots, backup' = Deleted(u),
             losses' > losses \/ pc = "delete" \/ \E g \in Cleaners : u \in clean[g].backups
      PROVE  CalmBackup(t)
  <2>1. \E i \in DOMAIN made : made[i] > u
    BY <1>3 DEF CalmInv, CalmSched, CalmClean
  <2> DEFINE r == [backup[u] EXCEPT !.del = Present(backup, u)]
  <2>2. backup' = [backup EXCEPT ![u] = r]
    BY <1>3 DEF Deleted
  <2>3. r.st = backup[u].st /\ r.uid = backup[u].uid /\ r.at = backup[u].at
    BY <1>0 DEF BackupRecord
  <2> HIDE DEF r
  <2>5. CASE t # u
    BY <1>0, <2>2, <2>5 DEF CalmBackup
  <2>6. CASE t = u
    <3>1. backup'[t] = r
      BY <1>0, <2>2, <2>6
    <3> QED BY <2>1, <2>3, <2>6, <3>1 DEF CalmBackup, Present
  <2> QED BY <2>5, <2>6
<1>4. ASSUME NEW u \in Slots, BackupEnds(u) PROVE CalmBackup(t)
  <2>1. PICK st \in {"Completed", "Failed"} : backup' = [backup EXCEPT ![u].st = st]
    BY <1>4 DEF BackupEnds, Writes, Write
  <2>2. Present(backup, u)
    BY <1>4 DEF BackupEnds, Present
  <2> DEFINE r == [backup[u] EXCEPT !.st = st]
  <2>3. backup' = [backup EXCEPT ![u] = r]
    BY <2>1
  <2>4. r.st = st /\ r.uid = backup[u].uid /\ r.at = backup[u].at /\ r.del = backup[u].del
    BY <1>0 DEF BackupRecord
  <2> HIDE DEF r
  <2>5. CASE t # u
    BY <1>0, <2>3, <2>5 DEF CalmBackup
  <2>6. CASE t = u
    <3>1. backup'[t] = r
      BY <1>0, <2>3, <2>6
    <3> QED BY <2>2, <2>4, <2>6, <3>1 DEF CalmBackup
  <2> QED BY <2>5, <2>6
<1>5. ASSUME NEW u \in Slots, BackupGoes(u) PROVE CalmBackup(t)
  <2>1. /\ backup' = [backup EXCEPT ![u] = NoRecord] /\ Present(backup, u)
        /\ backup[u].del \/ ~sched.exists \/ backup[u].uid # sched.uid
    BY <1>5 DEF BackupGoes, Writes, Write
  <2>2. Among(u, made) /\ backup[u].uid = 1
    BY <2>1 DEF CalmInv, Orderly
  <2>3. made # <<>>
    BY <2>2 DEF Among
  <2>4. backup[u].del
    BY <2>1, <2>2, <2>3, CalmFacts
  <2> QED BY <1>0, <2>1, <2>4 DEF CalmBackup
<1> QED BY <1>1, <1>2, <1>3, <1>4, <1>5 DEF StepsOK, BackupStep

\* A covered slot stays covered, ...
LEMMA CoveredOn ==
  ASSUME TypeInv, CopyInv, CalmInv, Calm, NEW o \in ScheduleRecord, NEW p \in ScheduleRecord,
         o.spec = p.spec, o.born = p.born, p.last <= o.last, o.last # 0 => o.born <= o.last,
         Covered(p, made, backup), NEW i \in DOMAIN made, CalmBackup(made[i])
  PROVE  \/ made[i] <= o.last
         \/ /\ o.spec.cron # BadCron /\ made[i] = CalculateNextRun(o)
            /\ backup'[made[i]].st # "none" /\ ~backup'[made[i]].del
<1> DEFINE t == made[i]
<1>1. t \in Nat /\ t \in Slots /\ o.last \in Nat /\ p.last \in Nat
  BY MadeFacts, RecordFacts
<1>2. CASE t <= p.last
  BY <1>1, <1>2
<1>3. CASE ~(t <= p.last)
  <2>1. /\ p.spec.cron # BadCron /\ t = CalculateNextRun(p)
        /\ Present(backup, t) /\ ~backup[t].del
    BY <1>3 DEF Covered
  <2>2. t <= o.last \/ t = CalculateNextRun(o)
    BY <2>1, SameRun
  <2>3. ASSUME NEW j \in DOMAIN made, made[j] > t PROVE FALSE
    <3>1. made[j] <= p.last \/ made[j] = CalculateNextRun(p)
      BY DEF Covered
    <3>2. made[j] \in Nat
      BY MadeFacts
    <3> QED BY <1>1, <1>3, <2>1, <2>3, <3>1, <3>2
  <2>4. backup'[t].st # "none" /\ ~backup'[t].del
    BY <2>1, <2>3 DEF CalmBackup, Present
  <2> QED BY <2>1, <2>2, <2>4
<1> QED BY <1>2, <1>3

\* ... and what the worker makes is covered in every copy.
LEMMA CoveredNext ==
  ASSUME TypeInv, TypeInv', CopyInv, CalmInv, Calm, CalmMade,
         \A t \in Slots : CalmBackup(t),
         NEW o \in ScheduleRecord, NEW p \in ScheduleRecord,
         o.spec = p.spec, o.born = p.born, p.last <= o.last, o.last # 0 => o.born <= o.last,
         pc = "create" => /\ obj.spec = p.spec /\ obj.born = p.born
                          /\ obj.last <= p.last,
         Covered(p, made, backup)
  PROVE  Covered(o, made', backup')
<1>0. ASSUME NEW i \in DOMAIN made
      PROVE  \/ made[i] <= o.last
             \/ /\ o.spec.cron # BadCron /\ made[i] = CalculateNextRun(o)
                /\ Present(backup', made[i]) /\ ~backup'[made[i]].del
  <2>1. CalmBackup(made[i])
    BY MadeFacts
  <2> QED BY <2>1, CoveredOn DEF Present
<1>1. CASE UNCHANGED made
  BY <1>0, <1>1 DEF Covered
<1>2. CASE CalmMade /\ ~UNCHANGED made
  <2>1. pc = "create" /\ slot \in Slots /\ made' = Append(made, slot)
    BY <1>2 DEF CalmMade
  <2>2. backup' = [backup EXCEPT ![slot] =
                   [st |-> "running", uid |-> obj.uid, at |-> now, del |-> FALSE]]
    BY <1>2 DEF CalmMade
  <2>3. Present(backup', slot) /\ ~backup'[slot].del
    BY <2>1, <2>2 DEF Present, TypeInv, ObjectsOK
  <2>4. obj \in ScheduleRecord /\ slot = CalculateNextRun(obj) /\ obj.spec.cron # BadCron
    BY <2>1, AtWork DEF TypeInv, WorkInv
  <2>5. obj.last <= o.last /\ obj.spec = o.spec /\ obj.born = o.born
    BY <2>1, <2>4, RecordFacts
  <2>6. slot <= o.last \/ slot = CalculateNextRun(o)
    BY <2>4, <2>5, SameRun
  <2>7. ASSUME NEW i \in DOMAIN made'
        PROVE  \/ made'[i] <= o.last
               \/ /\ o.spec.cron # BadCron /\ made'[i] = CalculateNextRun(o)
                  /\ Present(backup', made'[i]) /\ ~backup'[made'[i]].del
    <3>1. CASE i \in DOMAIN made /\ made'[i] = made[i]
      BY <1>0, <3>1
    <3>2. CASE made'[i] = slot
      BY <2>3, <2>4, <2>5, <2>6, <3>2
    <3> QED BY <2>1, <3>1, <3>2, Appended
  <2> QED BY <2>7 DEF Covered
<1> QED BY <1>1, <1>2

LEMMA CalmAmong ==
  ASSUME TypeInv, CalmMade
  PROVE  /\ \A i \in DOMAIN made : i \in DOMAIN made' /\ made'[i] = made[i]
         /\ \A t \in Slots : Among(t, made) => Among(t, made')
<1>1. CASE UNCHANGED made
  BY <1>1
<1>2. CASE slot \in Slots /\ made' = Append(made, slot)
  BY <1>2, Appended DEF Among
<1> QED BY <1>1, <1>2 DEF CalmMade

LEMMA CalmOrderly ==
  ASSUME TypeInv, TypeInv', CopyInv, CalmInv, Calm, CalmMade, \A t \in Slots : CalmBackup(t),
         now <= now'
  PROVE  Orderly(backup', made', now') /\ Orderly(seenB, made', now')
<1>0. /\ now \in Nat /\ now' \in Nat
      /\ backup \in [Slots -> BackupRecord] /\ seenB \in [Slots -> BackupRecord]
  BY NumberTypes, NumberTypesNext DEF NumbersOK, TypeInv, ObjectsOK, CachesOK
<1>1. \A t \in Slots : backup[t].at \in Nat /\ seenB[t].at \in Nat
  BY <1>0 DEF BackupRecord, Times
<1>2. Orderly(backup, made, now) /\ Orderly(seenB, made, now)
  BY DEF CalmInv
<1>3. Orderly(seenB, made', now')
  BY <1>0, <1>1, <1>2, CalmAmong DEF Orderly
<1> DEFINE Old(t) == Present(backup, t) /\ backup'[t].uid = backup[t].uid /\ backup'[t].at = backup[t].at
           New(t) == /\ t = slot /\ pc = "create" /\ made' = Append(made, slot)
                     /\ ~Present(backup, slot)
<1>4. ASSUME NEW t \in Slots, Present(backup', t) PROVE Old(t) \/ New(t)
  <2>1. CalmBackup(t)
    OBVIOUS
  <2> QED BY <2>1, <1>4 DEF CalmBackup, Present, NoRecord
<1>5. ASSUME NEW t \in Slots, New(t)
      PROVE  /\ Among(t, made') /\ backup'[t].uid = 1 /\ backup'[t].at = now
             /\ \A i \in DOMAIN made : made[i] < t
  <2>1. \A i \in DOMAIN made : made[i] < t
    BY <1>5, CalmOrder
  <2>2. made' # made
    <3>1. Len(made) \in Nat /\ DOMAIN made = 1..Len(made) /\ DOMAIN made' = 1..(Len(made) + 1)
      BY <1>5, MadeFacts, Appended
    <3>2. Len(made) + 1 \in DOMAIN made' /\ Len(made) + 1 \notin DOMAIN made
      BY <3>1
    <3> QED BY <3>2
  <2>3. backup' = [backup EXCEPT ![slot] =
                   [st |-> "running", uid |-> obj.uid, at |-> now, del |-> FALSE]]
    BY <2>2 DEF CalmMade
  <2>4. obj.uid = 1
    BY <1>5, CalmFacts
  <2>5. Among(t, made')
    BY <1>5, Appended, MadeFacts DEF Among
  <2> QED BY <1>0, <1>5, <2>1, <2>3, <2>4, <2>5
<1>6. ASSUME NEW t \in Slots, Old(t)
      PROVE  Among(t, made) /\ Among(t, made') /\ backup'[t].uid = 1 /\ backup'[t].at <= now
  BY <1>2, <1>6, CalmAmong DEF Orderly
<1> HIDE DEF New
<1>7. ASSUME NEW t \in Slots, NEW u \in Slots, Present(backup', t), Present(backup', u), u < t
      PROVE  backup'[u].at <= backup'[t].at
  <2>1. CASE Old(t) /\ Old(u)
    BY <1>2, <1>7, <2>1 DEF Orderly
  <2>2. CASE New(t) /\ Old(u)
    <3>1. backup'[t].at = now /\ backup'[u].at <= now
      BY <2>2, <1>5, <1>6
    <3> QED BY <3>1
  <2>3. CASE New(u)
    <3>1. Old(t)
      <4>1. ~New(t)
        BY <1>7, <2>3, SlotFacts DEF New
      <4> QED BY <4>1, <1>4, <1>7
    <3>2. PICK i \in DOMAIN made : made[i] = t
      BY <3>1, <1>6 DEF Among
    <3>3. t < u
      BY <3>2, <2>3, <1>5
    <3> QED BY <3>3, <1>7, SlotFacts
  <2> QED BY <2>1, <2>2, <2>3, <1>4, <1>7
<1>8. ASSUME NEW t \in Slots, Present(backup', t)
      PROVE  Among(t, made') /\ backup'[t].uid = 1 /\ backup'[t].at <= now'
  <2>1. CASE Old(t)
    <3>1. Among(t, made') /\ backup'[t].uid = 1 /\ backup'[t].at <= now /\ backup'[t].at \in Nat
      BY <2>1, <1>1, <1>6
    <3> QED BY <1>0, <3>1
  <2>2. CASE New(t)
    BY <2>2, <1>0, <1>5
  <2> QED BY <2>1, <2>2, <1>4, <1>8
<1> QED BY <1>3, <1>7, <1>8 DEF Orderly

LEMMA CalmSchedStep ==
  ASSUME TypeInv, TypeInv', CopyInv, OnceInv, OnceInv', CalmInv, Calm, Calm', StepsOK, CalmMade,
         \A t \in Slots : CalmBackup(t)
  PROVE  CalmSched'
<1>1. /\ ~sched.del /\ (sched.uid = 1 => sched.exists) /\ (~sched.exists => made = <<>>)
      /\ sched.exists => Covered(sched, made, backup)
      /\ pc \in {"idle", "finalizer", "lookup", "create", "patch"}
      /\ sched \in ScheduleRecord /\ sched' \in ScheduleRecord
      /\ sched.uid \in Nat /\ sched'.uid \in Nat
      /\ sched.uid <= 1 /\ sched'.uid <= 1 /\ ~(edits' > edits)
  BY TroublesGrow, NumberTypes, NumberTypesNext
     DEF CalmInv, CalmSched, TypeInv, ObjectsOK, NumbersOK, Calm
<1>2. \/ Kept(sched', sched)
      \/ /\ pc = "patch" /\ pc' = "idle" /\ sched.exists /\ to.last # 0
         /\ Kept(sched', [sched EXCEPT !.last = to.last])
      \/ CreateResource /\ sched'.last = 0 /\ ~sched'.del /\ sched'.exists
  BY <1>1 DEF StepsOK, SchedStep
<1>3. ASSUME sched.exists
      PROVE  /\ sched'.exists /\ sched'.spec = sched.spec /\ sched'.born = sched.born
             /\ ~sched'.del
  <2>1. ~CreateResource
    BY <1>3 DEF CreateResource
  <2> QED BY <1>1, <1>2, <1>3, <2>1 DEF Kept, ScheduleRecord
<1>4. CASE sched.exists
  <2>1. sched.last <= sched'.last
    BY <1>1, <1>3, <1>4, LastGrows
  <2>2. sched'.last # 0 => sched'.born <= sched'.last
    BY <1>1 DEF OnceInv
  <2>3. pc = "create" => /\ obj.spec = sched.spec /\ obj.born = sched.born
                         /\ obj.last <= sched.last
    BY <1>1, <1>4 DEF CopyInv, OnceInv, Copies, CalmInv, CalmCopies
  <2>4. Covered(sched', made', backup')
    BY <1>1, <1>3, <1>4, <2>1, <2>2, <2>3, CoveredNext
  <2>5. pc' \in {"idle", "finalizer", "lookup", "create", "patch"}
    <3>1. seenS.exists => ~seenS.del
      BY DEF CalmInv, CalmCopies, Copies
    <3> QED BY <1>1, <3>1 DEF StepsOK, LocalStep
  <2> QED BY <1>3, <1>4, <2>4, <2>5 DEF CalmSched
<1>5. CASE ~sched.exists
  <2>1. made = <<>> /\ made' = <<>> /\ pc = "idle"
    <3>1. made = <<>> /\ pc = "idle"
      BY <1>1, <1>5, CalmFacts
    <3> QED BY <3>1, <1>1 DEF CalmMade
  <2>2. Covered(sched', made', backup')
    BY <2>1 DEF Covered
  <2>3. ~sched'.del /\ (sched'.uid = 1 => sched'.exists)
    BY <1>1, <1>2, <1>5, <2>1 DEF Kept
  <2>4. pc' \in {"idle", "finalizer", "lookup", "patch"}
    <3>1. seenS.exists => ~seenS.del
      BY DEF CalmInv, CalmCopies, Copies
    <3> QED BY <2>1, <3>1 DEF StepsOK, LocalStep
  <2> QED BY <2>1, <2>2, <2>3, <2>4 DEF CalmSched
<1> QED BY <1>4, <1>5

LEMMA CalmCopiesStep ==
  ASSUME TypeInv, TypeInv', CopyInv, CopyInv', OnceInv, OnceInv', CalmInv, Calm, Calm', StepsOK,
         CalmMade, \A t \in Slots : CalmBackup(t), CalmSched'
  PROVE  CalmCopies'
<1>1. /\ ~(edits' > edits) /\ sched.uid <= 1 /\ sched'.uid <= 1
      /\ sched \in ScheduleRecord /\ \A o \in Copies : o \in ScheduleRecord
      /\ sched.uid \in Nat /\ sched'.uid \in Nat
      /\ \A o \in Copies' : o \in ScheduleRecord
  BY TroublesGrow, NumberTypes, NumberTypesNext DEF TypeInv, ObjectsOK, Calm, NumbersOK
<1>2. ASSUME sched.exists
      PROVE  sched'.exists /\ sched'.spec = sched.spec /\ sched'.born = sched.born
  <2>1. ~CreateResource /\ pc # "unfinalize"
    BY <1>2 DEF CreateResource, CalmInv, CalmSched
  <2> QED BY <1>1, <1>2, <2>1 DEF StepsOK, SchedStep, Kept, ScheduleRecord
<1>3. ASSUME NEW o \in Copies', o.exists
      PROVE  ~o.del /\ o.spec = sched'.spec /\ Covered(o, made', backup')
  <2>1. CASE o = sched'
    BY <1>3, <2>1 DEF CalmSched
  <2>2. CASE \E p \in Copies : Kept(o, p)
    <3>1. PICK p \in Copies : Kept(o, p)
      BY <2>2
    <3>2. /\ p.exists /\ ~p.del /\ p.spec = sched.spec /\ Covered(p, made, backup)
          /\ sched.exists /\ sched.uid = 1
      BY <1>3, <3>1, CalmFacts DEF Kept, CalmInv, CalmCopies
    <3>3. o.last = p.last /\ p.last \in Nat
      BY <1>1, <3>1, RecordFacts DEF Kept
    <3>4. o.last # 0 => o.born <= o.last
      BY <1>1 DEF OnceInv
    <3>5. pc = "create" => obj.spec = p.spec /\ obj.born = p.born /\ obj.last <= p.last
      <4> SUFFICES ASSUME pc = "create"
                   PROVE  obj.spec = p.spec /\ obj.born = p.born /\ obj.last <= p.last
        OBVIOUS
      <4>1. /\ obj \in Copies /\ obj.exists /\ obj.spec = sched.spec /\ obj.last <= seenS.last
            /\ seenS.exists /\ seenS.last <= sched.last
        BY <1>1, <3>2 DEF CopyInv, OnceInv, Copies, CalmInv, CalmCopies
      <4>2. obj.born = sched.born /\ p.born = sched.born
        BY <1>1, <3>2, <4>1 DEF OnceInv
      <4>3. p = obj \/ p = seenS
        BY DEF Copies
      <4>4. obj.last \in Nat
        BY <1>1, <4>1, RecordFacts
      <4> QED BY <3>2, <4>1, <4>2, <4>3, <4>4
    <3>6. Covered(o, made', backup')
      BY <1>1, <3>1, <3>2, <3>3, <3>4, <3>5, CoveredNext DEF Kept
    <3> QED BY <1>2, <3>1, <3>2, <3>6 DEF Kept
  <2> QED BY <2>1, <2>2, CopySteps
<1>4. ASSUME pc' # "idle" PROVE seenS'.exists /\ obj'.last <= seenS'.last
  <2>1. CASE pc = "idle"
    <3>1. seenS.exists /\ obj' = seenS /\ seenS' = seenS
      BY <1>4, <2>1 DEF StepsOK, LocalStep
    <3>2. seenS.last \in Nat
      BY <1>1, RecordFacts DEF Copies
    <3> QED BY <3>1, <3>2
  <2>2. CASE pc # "idle"
    <3>1. /\ obj \in Copies /\ seenS \in Copies /\ obj.exists
          /\ seenS.exists /\ obj.last <= seenS.last
      BY <2>2 DEF CopyInv, Copies, CalmInv, CalmCopies
    <3>2. sched.exists /\ seenS.last <= sched.last
      BY <1>1, <3>1, CalmFacts DEF OnceInv
    <3>3. sched'.exists /\ sched.last <= sched'.last
      BY <1>1, <1>2, <3>2, LastGrows
    <3>4. obj'.last = obj.last
      BY <1>4, <2>2 DEF StepsOK, LocalStep, Kept
    <3>5. /\ obj.last \in Nat /\ seenS.last \in Nat /\ sched.last \in Nat /\ sched'.last \in Nat
      BY <3>1, NumberTypes, NumberTypesNext DEF NumbersOK
    <3> QED BY <3>1, <3>2, <3>3, <3>4, <3>5 DEF StepsOK, CacheStep
  <2> QED BY <2>1, <2>2
<1> QED BY <1>3, <1>4 DEF CalmCopies

LEMMA CalmCleanStep ==
  ASSUME TypeInv, CopyInv, CleanInv, CalmInv, Calm, StepsOK, CalmMade PROVE CalmClean'
<1> SUFFICES ASSUME NEW g \in Cleaners, NEW t \in clean'[g].backups
             PROVE  \E i \in DOMAIN made' : made'[i] > t
  BY DEF CalmClean
<1>1. CASE t \in clean[g].backups
  <2>1. PICK i \in DOMAIN made : made[i] > t
    BY <1>1 DEF CalmInv, CalmClean
  <2> QED BY <2>1, CalmAmong
<1>2. CASE t \notin clean[g].backups
  <2>1. /\ clean[g].at # "idle" /\ UNCHANGED made
        /\ t \in ToDelete(seenB, clean[g].keep.last)
    BY <1>2 DEF StepsOK, CleanStep
  <2>2. clean[g].keep.last \in Nat /\ seenB \in [Slots -> BackupRecord]
    BY <2>1 DEF CleanInv, RetentionPolicy, TypeInv, CachesOK
  <2>3. /\ t \in Slots /\ Present(seenB, t)
        /\ \E u \in Slots : /\ Present(seenB, u)
                            /\ seenB[u].at > seenB[t].at \/ (seenB[u].at = seenB[t].at /\ u > t)
    BY <2>1, <2>2, NewerOne
  <2>4. PICK u \in Slots : /\ Present(seenB, u)
                           /\ seenB[u].at > seenB[t].at \/ (seenB[u].at = seenB[t].at /\ u > t)
    BY <2>3
  <2>5. Among(u, made) /\ (u < t => seenB[u].at <= seenB[t].at)
    BY <2>3, <2>4 DEF CalmInv, Orderly
  <2>6. u \in Nat /\ t \in Nat /\ seenB[u].at \in Nat /\ seenB[t].at \in Nat
    BY <2>2, <2>3, SlotFacts DEF BackupRecord, Times
  <2>7. u # t
    BY <2>4, <2>6
  <2>8. u > t
    BY <2>4, <2>5, <2>6, <2>7
  <2> QED BY <2>1, <2>5, <2>8 DEF Among
<1> QED BY <1>1, <1>2

LEMMA CalmStep ==
  ASSUME TypeInv, TypeInv', CopyInv, CopyInv', OnceInv, OnceInv', CleanInv, CalmInv, StepsOK
  PROVE  CalmInv'
<1> SUFFICES ASSUME Calm' PROVE CalmInv'
  BY DEF CalmInv
<1>1. Calm /\ ~(losses' > losses)
  BY TroublesGrow DEF Calm
<1>2. CalmMade /\ \A t \in Slots : CalmBackup(t)
  BY <1>1, CalmMadeStep, CalmBackupStep
<1>3. CalmSched'
  BY <1>1, <1>2, CalmSchedStep
<1>4. CalmCopies' /\ CalmClean'
  BY <1>1, <1>2, <1>3, CalmCopiesStep, CalmCleanStep
<1>5. now <= now'
  BY NumberTypes DEF StepsOK, GrowStep, NumbersOK
<1>6. Orderly(backup', made', now') /\ Orderly(seenB', made', now')
  <2>1. Orderly(backup', made', now') /\ Orderly(seenB, made', now')
    BY <1>1, <1>2, <1>5, CalmOrderly
  <2> QED BY <2>1 DEF StepsOK, CacheStep
<1> QED BY <1>3, <1>4, <1>6 DEF CalmInv

-----------------------------------------------------------------------------
\* The inductive invariant.
IInv ==
  TypeInv /\ SyncInv /\ CopyInv /\ OnceInv /\ OrderInv /\ CleanInv /\ CalmInv

LEMMA InitInv == Init => IInv
<1> SUFFICES ASSUME Init PROVE IInv
  OBVIOUS
<1>1. TypeInv
  BY InitType
<1>2. /\ now = 1 /\ sched = Absent(0, 0) /\ seenS = sched /\ backup = [t \in Slots |-> NoRecord]
      /\ seenB = backup /\ lagging = FALSE /\ pc = "idle" /\ made = <<>>
      /\ clean = [g \in Cleaners |-> NoClean]
  BY DEF Init
<1>3. /\ sched.exists = FALSE /\ sched.uid = 0 /\ sched.del = FALSE /\ sched.born = 0
      /\ sched.last = 0
  BY <1>2 DEF Absent
<1>4. SyncInv
  BY <1>2 DEF SyncInv
<1>5. Copies = {sched}
  BY <1>2 DEF Copies
<1>6. CopyInv /\ OnceInv /\ OrderInv
  BY <1>2, <1>3, <1>5 DEF CopyInv, OnceInv, OrderInv
<1>7. \A g \in Cleaners : clean[g] = NoClean
  BY <1>2
<1>8. CleanInv /\ CalmClean
  BY <1>7 DEF CleanInv, CalmClean, NoClean
<1>9. Orderly(backup, made, now)
  BY <1>2 DEF Orderly, Present, NoRecord
<1>10. CalmSched /\ CalmCopies
  BY <1>2, <1>3, <1>5 DEF CalmSched, CalmCopies
<1> QED BY <1>1, <1>2, <1>4, <1>6, <1>8, <1>9, <1>10 DEF IInv, CalmInv

LEMMA InvStep == IInv /\ [Next]_vars => IInv'
<1> SUFFICES ASSUME IInv, [Next]_vars PROVE IInv'
  OBVIOUS
<1>1. TypeInv /\ SyncInv /\ CopyInv /\ OnceInv /\ OrderInv /\ CleanInv /\ CalmInv
  BY DEF IInv
<1>2. TypeInv' /\ StepsOK
  BY <1>1, TypeStep, NextSteps
<1>3. SyncInv' /\ CopyInv'
  BY <1>1, <1>2, CopyStep DEF StepsOK, CacheStep
<1>4. OnceInv'
  BY <1>1, <1>2, OnceStep
<1>5. OrderInv' /\ CleanInv'
  BY <1>1, <1>2, OrderStep, CleanInvStep
<1>6. CalmInv'
  BY <1>1, <1>2, <1>3, <1>4, CalmStep
<1> QED BY <1>2, <1>3, <1>4, <1>5, <1>6 DEF IInv

-----------------------------------------------------------------------------
(* The refinement                                                          *)

LEMMA InitPromise == Init => Promise!Init
<1> SUFFICES ASSUME Init PROVE Promise!Init
  OBVIOUS
<1>1. now = 1 /\ sched = Absent(0, 0) /\ made = <<>>
  BY DEF Init
<1>2. sched.born = 0 /\ sched.uid = 0
  BY <1>1 DEF Absent
<1>3. Troubles = 0
  BY DEF Init, Troubles
<1>4. ~(Troubles > 1 \/ sched.uid > 1)
  BY <1>2, <1>3
<1> QED BY <1>1, <1>2, <1>4 DEF Promise!Init

\* createBackup makes the next slot, unless too much went wrong.
LEMMA MakeIsNext ==
  ASSUME IInv, IInv', CreateBackup, made' = Append(made, slot), sched.exists, sched.uid = obj.uid,
         ~Present(backup, slot), [Next]_vars, ~Disturbed'
  PROVE  slot \in Slots /\ slot <= now /\ sched.born < slot /\ \A i \in DOMAIN made : made[i] < slot
<1>1. /\ TypeInv /\ TypeInv' /\ SyncInv /\ CopyInv /\ OnceInv /\ OrderInv /\ CalmInv
      /\ pc = "create"
  BY DEF IInv, CreateBackup
<1>2. /\ ~Disturbed /\ sched.uid <= 1
  BY <1>1, NextSteps, TroublesGrow
<1>3. slot \in Slots /\ slot <= now /\ slot > Base(obj) /\ slot \in Nat /\ obj \in ScheduleRecord
  BY <1>1, AtWork
<1>4. obj.born = sched.born /\ (obj.last # 0 => obj.born <= obj.last) /\ obj.exists
  BY <1>1, <1>2 DEF CopyInv, OnceInv, Copies
<1>5. sched.born < slot
  BY <1>3, <1>4, RecordFacts DEF Base
<1>6. \A i \in DOMAIN made : made[i] < slot
  <2>1. CASE Calm
    BY <1>1, <2>1, CalmOrder
  <2>2. CASE Steady
    BY <1>1, <2>2, SteadyOrder
  <2>3. Calm \/ Steady
    <3>1. /\ edits \in Nat /\ faults \in Nat /\ crashes \in Nat /\ stale \in Nat /\ losses \in Nat
          /\ overlaps \in Nat /\ others \in Nat
      BY <1>1, BoundAssumption DEF TypeInv, BoundsOK, StorageOK
    <3>2. edits + faults + crashes + stale + losses + overlaps + others <= 1
      BY <1>2, <3>1 DEF Disturbed, Troubles
    <3>3. \/ edits = 0 /\ losses = 0
          \/ faults = 0 /\ crashes = 0 /\ stale = 0
      BY <3>1, <3>2
    <3> QED BY <1>2, <3>3 DEF Calm, Steady
  <2> QED BY <2>1, <2>2, <2>3
<1> QED BY <1>3, <1>5, <1>6

LEMMA PromiseStep ==
  ASSUME IInv, IInv', [Next]_vars PROVE [Promise!Next]_(Promise!vars)
<1>1. TypeInv /\ TypeInv' /\ SyncInv /\ CopyInv /\ OnceInv
  BY DEF IInv
<1>2. StepsOK
  BY <1>1, NextSteps
<1> DEFINE d == Troubles > 1 \/ sched.uid > 1
<1>3. d = Disturbed /\ d' = Disturbed' /\ d \in BOOLEAN /\ d' \in BOOLEAN
  BY DEF Disturbed
<1>4. Disturbed => Disturbed'
  BY <1>1, <1>2, TroublesGrow
<1>5. d' \in {d, TRUE}
  BY <1>3, <1>4, Zenon
<1>6. now' = now \/ (now' = now + 1 /\ UNCHANGED <<sched, made>>)
  BY <1>2 DEF StepsOK, GrowStep
<1>7. CASE CreateResource
  <2>1. now' = now /\ made' = <<>>
    BY <1>7 DEF CreateResource
  <2>2. sched'.born = now
    <3>1. sched'.uid = sched.uid + 1 /\ sched'.born = now
      <4>1. PICK s \in Specs :
              sched' = [Absent(sched.uid + 1, now) EXCEPT !.exists = TRUE, !.spec = s]
        BY <1>7 DEF CreateResource, Writes, Write
      <4> QED BY <4>1 DEF Absent
    <3> QED BY <3>1
  <2>3. Promise!Renew
    BY <1>5, <2>1, <2>2 DEF Promise!Renew
  <2> QED BY <2>3 DEF Promise!Next
<1>8. CASE ~CreateResource
  <2>1. sched'.born = sched.born
    <3>1. Absent(sched.uid, sched.born).born = sched.born
      BY DEF Absent
    <3>2. Kept(sched', [sched EXCEPT !.last = to.last]) => sched'.born = sched.born
      BY <1>1 DEF Kept, TypeInv, ObjectsOK, ScheduleRecord
    <3>3. Kept(sched', sched) => sched'.born = sched.born
      BY DEF Kept
    <3> QED BY <1>2, <1>8, <3>1, <3>2, <3>3 DEF StepsOK, SchedStep
  <2>2. CASE UNCHANGED made /\ now' = now
    <3>1. CASE d' = d
      BY <2>1, <2>2, <3>1 DEF Promise!vars
    <3>2. CASE d' = TRUE
      BY <2>1, <2>2, <3>2 DEF Promise!Next, Promise!Disturb
    <3> QED BY <1>5, <3>1, <3>2
  <2>3. CASE now' = now + 1 /\ UNCHANGED <<sched, made>>
    <3>1. d' = d
      <4>1. Tick \/ now' = now
        BY DEF Next, vars, Start, Reconcile, AddFinalizer, Lookup, CreateBackup, PatchStatus,
               ListForDeletion, DeleteBackup, RemoveFinalizer, FallBehind, CatchUp, Restart, Others,
               CreateResource, EditResource, DeleteResource, LoseBackup, OtherDump,
               RunRetentionCleanup, Refetch, Mark, ListFiles, DeleteFile, ListBackups,
               CleanupBackupCRDs, BackupEnds, BackupGoes
      <4>2. Tick
        BY <4>1, <2>3, <1>1, NumberTypes DEF NumbersOK
      <4>3. UNCHANGED bounds /\ UNCHANGED storage
        BY <4>2 DEF Tick
      <4>4. Troubles' = Troubles
        BY <4>3 DEF Troubles, bounds, storage
      <4> QED BY <4>4, <2>3
    <3>2. Promise!Tick
      BY <2>1, <2>3, <3>1 DEF Promise!Tick
    <3> QED BY <3>2 DEF Promise!Next
  <2>4. CASE /\ CreateBackup /\ made' = Append(made, slot)
             /\ sched.exists /\ sched.uid = obj.uid /\ ~Present(backup, slot)
    <3>1. now' = now /\ pc = "create"
      BY <2>4 DEF CreateBackup
    <3>2. slot \in Slots /\ slot <= now
      BY <1>1, <3>1, AtWork
    <3>3. (sched.born < slot /\ \A i \in DOMAIN made : made[i] < slot) \/ d'
      <4>1. CASE d'
        BY <4>1
      <4>2. CASE ~Disturbed'
        BY <2>4, <4>2, MakeIsNext
      <4> QED BY <4>1, <4>2 DEF Disturbed
    <3>4. Promise!Make(slot)
      BY <1>5, <2>1, <2>4, <3>1, <3>2, <3>3 DEF Promise!Make, Promise!InOrder
    <3> QED BY <3>2, <3>4 DEF Promise!Next
  <2> QED BY <1>2, <1>6, <1>8, <2>2, <2>3, <2>4 DEF StepsOK, MadeStep
<1> QED BY <1>7, <1>8

\* Reconcile, createBackup and the status patches keep the promise of ScheduleSlots: each
\* step of the controller, of its goroutines, of the users and of the cluster is a step of the
\* promise or none, so that every Backup is for a slot that has come and that lies after the
\* creation of the schedule and after all slots used before, unless two things went wrong.
THEOREM KeepsItsPromise == Spec => KeepsPromise
<1>1. IInv /\ [Next]_vars => IInv'
  BY InvStep
<1>2. IInv /\ IInv' /\ [Next]_vars => [Promise!Next]_(Promise!vars)
  BY PromiseStep
<1> QED BY <1>1, <1>2, InitInv, InitPromise, PTL DEF Spec, KeepsPromise, Promise!Spec

Slot == INSTANCE ScheduleSlotsProofs WITH
  clock <- now, born <- sched.born, disturbed <- Troubles > 1 \/ sched.uid > 1

\* So no slot gets two Backups, and none gets one before it has come.
THEOREM SlotsOnceInTime == Spec => [](Slot!OncePerSlot /\ Slot!OnTime)
<1>1. Slots \subseteq Nat
  BY SlotFacts
<1>2. Slot!Spec => [](Slot!OncePerSlot /\ Slot!OnTime)
  BY <1>1, Slot!PromiseMeans
<1>3. Promise!Init <=> Slot!Init
  BY DEF Promise!Init, Slot!Init
<1>4. [Promise!Next]_(Promise!vars) <=> [Slot!Next]_(Slot!vars)
  BY DEF Promise!Next, Slot!Next, Promise!vars, Slot!vars, Promise!Tick, Slot!Tick, Promise!Renew,
         Slot!Renew, Promise!Make, Slot!Make, Promise!InOrder, Slot!InOrder, Promise!Disturb,
         Slot!Disturb
<1> QED BY <1>2, <1>3, <1>4, KeepsItsPromise, PTL DEF KeepsPromise, Promise!Spec, Slot!Spec

=============================================================================
