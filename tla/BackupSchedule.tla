---------------------------- MODULE BackupSchedule ----------------------------
(***************************************************************************)
(* The BackupSchedule controller (controllers/backup/schedule_controller.go*)
(* and pkg/backup/retention.go), for one BackupSchedule.                   *)
(*                                                                         *)
(* Its one worker creates a Backup for each slot of the cron expression    *)
(* and asks to be woken at the next one.  Each time nothing is due it      *)
(* starts a goroutine that applies the retention policy to the dump files  *)
(* and to the Backups; goroutines of successive reconciliations run side   *)
(* by side, with the copy of the schedule they were started with.  Around  *)
(* them time passes, Backups end, users edit and delete, calls fail,       *)
(* caches trail and the operator restarts.                                 *)
(***************************************************************************)
EXTENDS Naturals, FiniteSets, Sequences, SequencesExt

CONSTANTS
  Crons,        \* cron expressions that can be parsed
  SlotsOf,      \* when each of them is due, some time beyond the last one considered
  BadCron,      \* one that cannot
  Specs,        \* the specs users write
  Dbs, Db,      \* the databases with dumps in the storage, the one of the schedule
  Extends,      \* whose storage path begins with whose
  Cleaners,     \* goroutines of runRetentionCleanup at a time
  Day, Week, Month, Debounce,   \* in ticks; a tick is the granularity of cron
  NoPolicy,
  MaxTime,      \* bound: the clock
  MaxFiles,     \* bound: dumps ever made
  MaxOthers,    \* bound: dumps that are not of the schedule
  MaxUid,       \* bound: incarnations of the schedule
  MaxEdits,     \* bound: times users edit or delete the schedule
  MaxFaults,    \* bound: API calls that fail
  MaxCrashes,   \* bound: restarts of the operator
  MaxStale,     \* bound: periods in which the caches trail the API server
  MaxLosses,    \* bound: Backups users delete
  MaxOverlaps,  \* bound: goroutines started while another runs
  MaxTroubles   \* bound: all of these together

Times == 0..MaxTime
Slots == UNION {SlotsOf[c] : c \in Crons}
RetentionPolicy == [last : Nat, daily : Nat, weekly : Nat, monthly : Nat]   \* 0: not set
BackupScheduleSpec ==
  [cron : Crons \cup {BadCron}, suspend : BOOLEAN, keep : RetentionPolicy \cup {NoPolicy}]

ASSUME NamesAssumption ==
  /\ BadCron \notin Crons /\ NoPolicy \notin RetentionPolicy
  /\ Specs # {} /\ \A s \in Specs : s \in BackupScheduleSpec
  /\ Db \in Dbs /\ Extends \subseteq Dbs \X Dbs
ASSUME TimeAssumption ==
  /\ \A c \in Crons : SlotsOf[c] \subseteq Nat \ {0} /\ \E t \in SlotsOf[c] : t > MaxTime
  /\ Day \in Nat \ {0} /\ Week \in Nat \ {0} /\ Month \in Nat \ {0} /\ Debounce \in Nat
ASSUME BoundAssumption ==
  /\ MaxTime \in Nat \ {0} /\ MaxFiles \in Nat \ {0} /\ MaxOthers \in Nat /\ MaxUid \in Nat
  /\ MaxEdits \in Nat /\ MaxFaults \in Nat /\ MaxCrashes \in Nat /\ MaxStale \in Nat
  /\ MaxLosses \in Nat /\ MaxOverlaps \in Nat /\ MaxTroubles \in Nat

VARIABLES
  now,       \* the clock
  sched,     \* the BackupSchedule in the API server
  backup,    \* the Backups of the schedule by slot, in the API server
  seenS,     \* the informer cache of BackupSchedules
  seenB,     \* the informer cache of Backups
  lagging,   \* the caches stand still
  files,     \* the dump files in the storage
  dumps,     \* how many were ever made
  others,    \* of them, not by the schedule
  queued,    \* the key is in the work queue
  alarm,     \* the time at which it will be, 0 for none
  pc,        \* the next call of the worker
  obj,       \* its local copy of the schedule
  slot,      \* nextRun
  to,        \* the status about to be patched
  todo,      \* the Backups handleDeletion has still to delete
  clean,     \* the goroutines
  made,      \* history: the slots Backups were created for, in this incarnation
  edits, faults, crashes, stale, losses, overlaps

objects == <<sched, backup>>
caches == <<seenS, seenB, lagging>>
storage == <<files, dumps, others>>
wakeups == <<queued, alarm>>
local == <<pc, obj, slot, to, todo>>
bounds == <<edits, faults, crashes, stale, losses, overlaps>>
notFaults == <<edits, crashes, stale, losses, overlaps>>
vars == <<now, objects, caches, storage, wakeups, local, clean, made, bounds>>

\* "Failed" with each of its two messages.  Times are 0 when not set.
Phases == {"", "Active", "Suspended", "Failed: cron", "Failed: create"}
ScheduleRecord ==
  [exists : BOOLEAN, uid : 0..MaxUid, fin : BOOLEAN, del : BOOLEAN, spec : Specs, born : Times,
   phase : Phases, last : Times, next : {0} \cup Slots, cleaned : Times]
AnySpec == CHOOSE s \in Specs : TRUE
Absent(u, b) ==
  [exists |-> FALSE, uid |-> u, fin |-> FALSE, del |-> FALSE, spec |-> AnySpec, born |-> b,
   phase |-> "", last |-> 0, next |-> 0, cleaned |-> 0]

\* uid is that of the controller reference, at the creation time.
BackupRecord ==
  [st : {"none", "running", "Completed", "Failed"}, uid : 0..MaxUid, at : Times, del : BOOLEAN]
NoRecord == [st |-> "none", uid |-> 0, at |-> 0, del |-> FALSE]
Present(bs, t) == bs[t].st # "none"
Finished(b) == b.st \in {"Completed", "Failed"}

\* id orders the timestamps in the names of the files, at is the tick they are of.
FileRecord == [id : 1..MaxFiles, db : Dbs, at : Times]

Status == [phase : Phases, last : Times, next : {0} \cup Slots, wake : {0} \cup Slots]
NoStatus == [phase |-> "", last |-> 0, next |-> 0, wake |-> 0]

\* keep is that of the schedule the goroutine was started with; files are still to be deleted.
CleanRecord ==
  [at : {"idle", "refetch", "mark", "files", "unlink", "list", "delete"},
   keep : {s.keep : s \in Specs} \cup {NoPolicy}, files : {{}}, backups : SUBSET Slots]
NoClean == [at |-> "idle", keep |-> NoPolicy, files |-> {}, backups |-> {}]

Steps == {"idle", "finalizer", "list", "delete", "unfinalize", "lookup", "create", "patch"}

TypeOK ==
  /\ now \in Times /\ sched \in ScheduleRecord /\ seenS \in ScheduleRecord
  /\ backup \in [Slots -> BackupRecord] /\ seenB \in [Slots -> BackupRecord]
  /\ \A f \in files : f \in FileRecord
  /\ dumps \in 0..MaxFiles /\ others \in 0..MaxOthers
  /\ lagging \in BOOLEAN /\ queued \in BOOLEAN /\ alarm \in {0} \cup Slots
  /\ pc \in Steps /\ obj \in ScheduleRecord /\ slot \in {0} \cup Slots /\ to \in Status
  /\ todo \subseteq Slots
  /\ \A g \in Cleaners :
       [clean[g] EXCEPT !.files = {}] \in CleanRecord /\ \A f \in clean[g].files : f \in FileRecord
  /\ made \in Seq(Slots)
  /\ edits \in 0..MaxEdits /\ faults \in 0..MaxFaults /\ crashes \in 0..MaxCrashes
  /\ stale \in 0..MaxStale /\ losses \in 0..MaxLosses /\ overlaps \in 0..MaxOverlaps

-----------------------------------------------------------------------------
(* How a reconciliation ends and how it goes on                            *)

Troubles == edits + faults + crashes + stale + losses + overlaps + others

MoreTrouble == Troubles < MaxTroubles

Fault == MoreTrouble /\ faults < MaxFaults /\ faults' = faults + 1

Reset == pc' = "idle" /\ obj' = Absent(0, 0) /\ slot' = 0 /\ to' = NoStatus /\ todo' = {}

Unwritten == UNCHANGED <<objects, caches>>

\* For(BackupSchedule) and Owns(Backup): the watches bring what is written to the caches and
\* put the key into the queue, unless they stand still; an error puts it there, too.
Write(s, b, requeue) ==
  /\ sched' = s /\ backup' = b
  /\ IF lagging THEN UNCHANGED caches ELSE seenS' = s /\ seenB' = b /\ UNCHANGED lagging
  /\ queued' = (queued \/ requeue \/ (~lagging /\ <<s, b>> # objects))
Writes(s, b) == Write(s, b, FALSE)

Goto(step) == pc' = step /\ UNCHANGED <<obj, slot, to, todo>>

-----------------------------------------------------------------------------
(* Retention                                                               *)

Newer(f, g) == f.id > g.id

\* mutation: a file of the day of the cutoff is not recent
RecentAfter(f, age) == f.at + age > now

\* Before(cutoff), the cutoff being a number of days, weeks or months ago
Recent(f, age) == f.at + age >= now

\* applyKeepLast, on the files newest first
KeepLast(q, n) == {q[i] : i \in 1..(IF n < Len(q) THEN n ELSE Len(q))}

\* applyKeepDaily, applyKeepWeekly, applyKeepMonthly: a file is kept unless one of its
\* day, week or month was seen before it
KeepFirst(q, n, period) ==
  {q[i] : i \in {i \in DOMAIN q :
                   /\ Recent(q[i], n * period)
                   /\ \A j \in 1..(i - 1) :
                        ~(Recent(q[j], n * period) /\ q[j].at \div period = q[i].at \div period)}}

KeepPeriodic(q, n, period) == IF n = 0 THEN {} ELSE KeepFirst(q, n, period)

CalculateKeepSet(q, keep) ==
  KeepLast(q, keep.last) \cup KeepPeriodic(q, keep.daily, Day)
    \cup KeepPeriodic(q, keep.weekly, Week) \cup KeepPeriodic(q, keep.monthly, Month)

\* listBackupFiles: all that begin with the storage path
Listed(d) == {f \in files : f.db = d \/ <<d, f.db>> \in Extends}

ApplyRetention(keep) ==
  LET q == SetToSortSeq(Listed(Db), Newer) IN Listed(Db) \ CalculateKeepSet(q, keep)

ShouldRunRetentionCleanup(o) == o.cleaned = 0 \/ now >= o.cleaned + Debounce

Idle == {g \in Cleaners : clean[g].at = "idle"}

\* The goroutine of scheduleNextRun, unless it ends at once.  One that is started while another
\* runs counts as an overlap, one that ends before the annotation is written as none.
Spawn(o) ==
  LET g == CHOOSE g \in Idle : TRUE
      begun == [clean EXCEPT ![g] = [NoClean EXCEPT !.at = "refetch", !.keep = o.spec.keep]] IN
  IF o.spec.keep = NoPolicy \/ ~ShouldRunRetentionCleanup(o) THEN UNCHANGED <<clean, overlaps>>
  ELSE \/ Idle = Cleaners /\ clean' = begun /\ UNCHANGED overlaps
       \/ /\ Idle \notin {{}, Cleaners} /\ clean' = begun
          /\ MoreTrouble /\ overlaps < MaxOverlaps /\ overlaps' = overlaps + 1
       \/ Idle # Cleaners /\ UNCHANGED <<clean, overlaps>>

Finish(g) == clean' = [clean EXCEPT ![g] = NoClean]
Continue(g, step) == clean' = [clean EXCEPT ![g].at = step]

\* updateRetentionCleanupAnnotation: Get and check again
Refetch(g) ==
  /\ clean[g].at = "refetch"
  /\ IF seenS.exists /\ ShouldRunRetentionCleanup(seenS) THEN Continue(g, "mark") ELSE Finish(g)
  /\ Unwritten /\ UNCHANGED <<now, storage, wakeups, local, made, bounds>>

\* Patch without an optimistic lock
Mark(g) ==
  /\ clean[g].at = "mark"
  /\ LET marked == [sched EXCEPT !.cleaned = now] IN
       \/ sched.exists /\ Writes(marked, backup) /\ Continue(g, "files") /\ UNCHANGED faults
       \/ ~sched.exists /\ Finish(g) /\ Writes(sched, backup) /\ UNCHANGED faults
       \/ sched.exists /\ Fault /\ Finish(g) /\ \E s \in {sched, marked} : Writes(s, backup)
  /\ UNCHANGED <<now, storage, alarm, local, made, notFaults>>

\* prepareRetentionCleanup and ApplyRetention.  The Database, its DBCluster and an S3
\* storage may be found or not; if the files cannot be listed the Backups are still deleted.
ListFiles(g) ==
  /\ clean[g].at = "files"
  /\ \/ Finish(g) /\ UNCHANGED faults
     \/ LET remove == ApplyRetention(clean[g].keep) IN
          /\ clean' = [clean EXCEPT ![g].at = IF remove = {} THEN "list" ELSE "unlink", ![g].files = remove]
          /\ UNCHANGED faults
     \/ Fault /\ Continue(g, "list")
  /\ Unwritten /\ UNCHANGED <<now, storage, wakeups, local, made, notFaults>>

\* DeleteFiles, newest first; what cannot be deleted stays
DeleteFile(g) ==
  /\ clean[g].at = "unlink"
  /\ LET f == CHOOSE f \in clean[g].files : \A h \in clean[g].files : h.id <= f.id
         rest == clean[g].files \ {f} IN
       /\ clean' = [clean EXCEPT ![g].files = rest, ![g].at = IF rest = {} THEN "list" ELSE @]
       /\ \/ files' = files \ {f} /\ UNCHANGED faults
          \/ Fault /\ UNCHANGED files
  /\ Unwritten /\ UNCHANGED <<now, dumps, others, wakeups, local, made, notFaults>>

\* The Backups with this many that are newer in the list (of equal times the later slot).
Beyond(bs, n) ==
  {t \in Slots :
     /\ Present(bs, t)
     /\ Cardinality({u \in Slots : /\ Present(bs, u)
                                   /\ bs[u].at > bs[t].at \/ (bs[u].at = bs[t].at /\ u > t)}) >= n}

\* mutation: off by one
ToDeleteMore(bs, n) == IF n = 0 THEN {} ELSE {t \in Beyond(bs, n - 1) : Finished(bs[t])}

ToDelete(bs, n) == IF n = 0 THEN {} ELSE {t \in Beyond(bs, n) : Finished(bs[t])}

\* cleanupBackupCRDs: List
ListBackups(g) ==
  /\ clean[g].at = "list"
  /\ LET remove == ToDelete(seenB, clean[g].keep.last) IN
       IF remove = {} THEN Finish(g)
       ELSE clean' = [clean EXCEPT ![g].at = "delete", ![g].backups = remove]
  /\ Unwritten /\ UNCHANGED <<now, storage, wakeups, local, made, bounds>>

\* Delete: the finalizer of the Backup keeps it for a while.
Deleted(t) == [backup EXCEPT ![t].del = Present(backup, t)]

CleanupBackupCRDs(g) ==
  /\ clean[g].at = "delete"
  /\ \E t \in clean[g].backups :
       LET rest == clean[g].backups \ {t} IN
         /\ clean' = IF rest = {} THEN [clean EXCEPT ![g] = NoClean]
                     ELSE [clean EXCEPT ![g].backups = rest]
         /\ \/ Writes(sched, Deleted(t)) /\ UNCHANGED faults
            \/ Fault /\ Writes(sched, backup)
  /\ UNCHANGED <<now, storage, alarm, local, made, notFaults>>

RunRetentionCleanup(g) ==
  \/ Refetch(g) \/ Mark(g) \/ ListFiles(g) \/ DeleteFile(g) \/ ListBackups(g) \/ CleanupBackupCRDs(g)

-----------------------------------------------------------------------------
(* Reconcile                                                               *)

\* Schedule.Next of the cron library
NextSlot(c, t) == CHOOSE x \in SlotsOf[c] : x > t /\ \A y \in SlotsOf[c] : y > t => x <= y

\* mutation: the first run does not wait for its slot to come after the creation
CalculateFirstRun(o) == NextSlot(o.spec.cron, o.last)

CalculateNextRun(o) == NextSlot(o.spec.cron, IF o.last # 0 THEN o.last ELSE o.born)

Patch(o, status) ==
  pc' = "patch" /\ obj' = o /\ to' = status /\ slot' = 0 /\ todo' = {}

\* The rest of Reconcile once the finalizer is there, or could not be added.
Decide(o) ==
  LET run == CalculateNextRun(o) IN
  CASE o.spec.suspend ->
         Patch(o, [NoStatus EXCEPT !.phase = "Suspended"]) /\ UNCHANGED <<clean, overlaps>>
    [] ~o.spec.suspend /\ o.spec.cron = BadCron ->
         Patch(o, [NoStatus EXCEPT !.phase = "Failed: cron"]) /\ UNCHANGED <<clean, overlaps>>
    [] ~o.spec.suspend /\ o.spec.cron # BadCron /\ now >= run ->
         pc' = "lookup" /\ obj' = o /\ slot' = run /\ UNCHANGED <<to, todo, clean, overlaps>>
    [] OTHER ->   \* scheduleNextRun
         Patch(o, [phase |-> "Active", last |-> 0, next |-> run, wake |-> run]) /\ Spawn(o)

Ringing == alarm # 0 /\ now >= alarm

\* The worker takes the key off the queue and gets the schedule from the cache.
Start ==
  /\ pc = "idle" /\ (queued \/ Ringing)
  /\ queued' = FALSE /\ alarm' = IF Ringing THEN 0 ELSE alarm
  /\ CASE ~seenS.exists \/ (seenS.del /\ ~seenS.fin) -> UNCHANGED <<local, clean, overlaps>>
       [] seenS.exists /\ seenS.del /\ seenS.fin ->
            pc' = "list" /\ obj' = seenS /\ UNCHANGED <<slot, to, todo, clean, overlaps>>
       [] seenS.exists /\ ~seenS.del /\ ~seenS.fin ->
            pc' = "finalizer" /\ obj' = seenS /\ UNCHANGED <<slot, to, todo, clean, overlaps>>
       [] OTHER -> Decide(seenS)
  /\ Unwritten /\ UNCHANGED <<now, storage, made, edits, faults, crashes, stale, losses>>

\* ensureScheduleFinalizer: Update conflicts unless obj is the current version; after a
\* failure the reconciliation goes on with the local copy.
AddFinalizer ==
  /\ pc = "finalizer"
  /\ LET added == [obj EXCEPT !.fin = TRUE] IN
       \/ sched = obj /\ Write(added, backup, TRUE) /\ Reset /\ UNCHANGED <<clean, faults, overlaps>>
       \/ sched # obj /\ Writes(sched, backup) /\ Decide(added) /\ UNCHANGED faults
       \/ Fault /\ Writes(sched, backup) /\ Decide(added)
  /\ UNCHANGED <<now, storage, alarm, made, edits, crashes, stale, losses>>

\* mutation: a phase the resource does not have
AfterBackupNewPhase ==
  [phase |-> "Completed", last |-> now, next |-> NextSlot(obj.spec.cron, slot), wake |-> 0]

\* updateStatusAfterBackup: the time of the backup is now, whatever slot it is for
AfterBackup ==
  [phase |-> "Active", last |-> now, next |-> NextSlot(obj.spec.cron, slot), wake |-> 0]

\* handleScheduledBackup: a Backup of that name is the one of the slot; a Get that fails
\* counts as one that found nothing.
Lookup ==
  /\ pc = "lookup"
  /\ \/ Present(seenB, slot) /\ Patch(obj, AfterBackup) /\ UNCHANGED faults
     \/ ~Present(seenB, slot) /\ Goto("create") /\ UNCHANGED faults
     \/ Present(seenB, slot) /\ Fault /\ Goto("create")
  /\ Unwritten /\ UNCHANGED <<now, storage, wakeups, clean, made, notFaults>>

\* createBackup: AlreadyExists is as good; a failing call may have taken effect.
CreateBackup ==
  /\ pc = "create"
  /\ LET new == [st |-> "running", uid |-> obj.uid, at |-> now, del |-> FALSE]
         Create == /\ ~Present(backup, slot) /\ Writes(sched, [backup EXCEPT ![slot] = new])
                   /\ made' = IF sched.exists /\ sched.uid = obj.uid THEN Append(made, slot) ELSE made
         Leave == Writes(sched, backup) /\ UNCHANGED made
         failed == [phase |-> "Failed: create", last |-> 0, next |-> slot, wake |-> 0] IN
       \/ Present(backup, slot) /\ Leave /\ Patch(obj, AfterBackup) /\ UNCHANGED faults
       \/ Create /\ Patch(obj, AfterBackup) /\ UNCHANGED faults
       \/ (Create \/ Leave) /\ Fault /\ Patch(obj, failed)
  /\ UNCHANGED <<now, storage, alarm, clean, notFaults>>

\* MergeFrom: only the fields that differ from the local copy are written.
Merged ==
  [sched EXCEPT !.phase = IF to.phase # obj.phase THEN to.phase ELSE @,
                !.last  = IF to.last \notin {0, obj.last} THEN to.last ELSE @,
                !.next  = IF to.next \notin {0, obj.next} THEN to.next ELSE @]

Earliest(a, b) == IF a = 0 \/ (b # 0 /\ b < a) THEN b ELSE a

\* mutation: the next slot is not waited for
PatchStatusOnly ==
  /\ pc = "patch"
  /\ Writes(IF sched.exists THEN Merged ELSE sched, backup) /\ Reset
  /\ UNCHANGED <<now, storage, alarm, clean, made, bounds>>

\* updateStatusWithRequeue; a failing call may have taken effect.
PatchStatus ==
  /\ pc = "patch"
  /\ \/ /\ sched.exists /\ Writes(Merged, backup)
        /\ alarm' = Earliest(alarm, to.wake) /\ UNCHANGED faults
     \/ ~sched.exists /\ Write(sched, backup, TRUE) /\ UNCHANGED <<alarm, faults>>
     \/ sched.exists /\ Fault /\ UNCHANGED alarm /\ \E s \in {sched, Merged} : Write(s, backup, TRUE)
  /\ Reset /\ UNCHANGED <<now, storage, clean, made, notFaults>>

\* handleDeletion: List
ListForDeletion ==
  /\ pc = "list"
  /\ todo' = {t \in Slots : Present(seenB, t)}
  /\ pc' = IF todo' = {} THEN "unfinalize" ELSE "delete"
  /\ Unwritten /\ UNCHANGED <<now, storage, wakeups, obj, slot, to, clean, made, bounds>>

\* Delete each; errors are logged.
DeleteBackup ==
  /\ pc = "delete"
  /\ \E t \in todo :
       /\ todo' = todo \ {t} /\ pc' = IF todo' = {} THEN "unfinalize" ELSE "delete"
       /\ \/ Writes(sched, Deleted(t)) /\ UNCHANGED faults
          \/ Fault /\ Writes(sched, backup)
  /\ UNCHANGED <<now, storage, alarm, obj, slot, to, clean, made, notFaults>>

RemoveFinalizer ==
  /\ pc = "unfinalize"
  /\ \/ sched = obj /\ Writes(Absent(obj.uid, obj.born), backup) /\ UNCHANGED faults
     \/ sched # obj /\ Write(sched, backup, TRUE) /\ UNCHANGED faults
     \/ Fault /\ Write(sched, backup, TRUE)
  /\ Reset /\ UNCHANGED <<now, storage, alarm, clean, made, notFaults>>

Reconcile ==
  \/ AddFinalizer \/ Lookup \/ CreateBackup \/ PatchStatus
  \/ ListForDeletion \/ DeleteBackup \/ RemoveFinalizer

-----------------------------------------------------------------------------
(* The manager, Kubernetes and time                                        *)

\* The caches stand still, and catch up.
FallBehind ==
  /\ ~lagging /\ lagging' = TRUE /\ MoreTrouble /\ stale < MaxStale /\ stale' = stale + 1
  /\ UNCHANGED <<now, objects, seenS, seenB, storage, wakeups, local, clean, made,
                 edits, faults, crashes, losses, overlaps>>

CatchUp ==
  /\ lagging /\ lagging' = FALSE /\ seenS' = sched /\ seenB' = backup
  /\ queued' = (queued \/ <<seenS, seenB>> # objects)
  /\ UNCHANGED <<now, objects, storage, alarm, local, clean, made, bounds>>

Restart ==
  /\ MoreTrouble /\ crashes < MaxCrashes /\ crashes' = crashes + 1
  /\ seenS' = sched /\ seenB' = backup /\ lagging' = FALSE
  /\ queued' = sched.exists /\ alarm' = 0 /\ Reset
  /\ clean' = [g \in Cleaners |-> NoClean]
  /\ UNCHANGED <<now, objects, storage, made, edits, faults, stale, losses, overlaps>>

Tick ==
  /\ now < MaxTime /\ now' = now + 1
  /\ Unwritten /\ UNCHANGED <<storage, wakeups, local, clean, made, bounds>>

Dump(d) ==
  /\ dumps < MaxFiles /\ dumps' = dumps + 1
  /\ files' = files \cup {[id |-> dumps + 1, db |-> d, at |-> now]}

\* The Backup controller and its job
BackupEnds(t) ==
  /\ backup[t].st = "running" /\ ~backup[t].del
  /\ \/ Writes(sched, [backup EXCEPT ![t].st = "Completed"]) /\ Dump(Db) /\ UNCHANGED others
     \/ Writes(sched, [backup EXCEPT ![t].st = "Failed"]) /\ UNCHANGED storage
  /\ UNCHANGED <<now, alarm, local, clean, made, bounds>>

\* A Backup goes when its own finalizer lets it, or its owner is gone.
BackupGoes(t) ==
  /\ Present(backup, t)
  /\ backup[t].del \/ ~sched.exists \/ backup[t].uid # sched.uid
  /\ Writes(sched, [backup EXCEPT ![t] = NoRecord])
  /\ UNCHANGED <<now, storage, alarm, local, clean, made, bounds>>

-----------------------------------------------------------------------------
(* Users                                                                   *)

CreateResource ==
  /\ ~sched.exists /\ sched.uid < MaxUid
  /\ \E s \in Specs :
       Writes([Absent(sched.uid + 1, now) EXCEPT !.exists = TRUE, !.spec = s], backup)
  /\ made' = <<>>
  /\ UNCHANGED <<now, storage, alarm, local, clean, bounds>>

Edit == MoreTrouble /\ edits < MaxEdits /\ edits' = edits + 1

EditResource ==
  /\ sched.exists /\ ~sched.del /\ Edit
  /\ \E s \in Specs \ {sched.spec} : Writes([sched EXCEPT !.spec = s], backup)
  /\ UNCHANGED <<now, storage, alarm, local, clean, made, faults, crashes, stale, losses, overlaps>>

\* A deletion counts as an edit.
DeleteResource ==
  /\ sched.exists /\ ~sched.del /\ Edit
  /\ Writes(IF sched.fin THEN [sched EXCEPT !.del = TRUE] ELSE Absent(sched.uid, sched.born), backup)
  /\ UNCHANGED <<now, storage, alarm, local, clean, made, faults, crashes, stale, losses, overlaps>>

LoseBackup(t) ==
  /\ Present(backup, t) /\ ~backup[t].del
  /\ MoreTrouble /\ losses < MaxLosses /\ losses' = losses + 1
  /\ Writes(sched, Deleted(t))
  /\ UNCHANGED <<now, storage, alarm, local, clean, made, edits, faults, crashes, stale, overlaps>>

\* A Backup that is not of the schedule
OtherDump(d) ==
  /\ MoreTrouble /\ others < MaxOthers /\ others' = others + 1 /\ Dump(d)
  /\ Unwritten /\ UNCHANGED <<now, wakeups, local, clean, made, bounds>>

Others ==
  \/ CreateResource \/ EditResource \/ DeleteResource
  \/ \E t \in Slots : LoseBackup(t)
  \/ \E d \in Dbs : OtherDump(d)

-----------------------------------------------------------------------------
Init ==
  /\ now = 1 /\ sched = Absent(0, 0) /\ seenS = sched
  /\ backup = [t \in Slots |-> NoRecord] /\ seenB = backup /\ lagging = FALSE
  /\ files = {[id |-> 1, db |-> Db, at |-> 0]} /\ dumps = 1 /\ others = 0 /\ queued = FALSE /\ alarm = 0
  /\ pc = "idle" /\ obj = Absent(0, 0) /\ slot = 0 /\ to = NoStatus /\ todo = {}
  /\ clean = [g \in Cleaners |-> NoClean] /\ made = <<>>
  /\ edits = 0 /\ faults = 0 /\ crashes = 0 /\ stale = 0 /\ losses = 0 /\ overlaps = 0

Next ==
  \/ Start \/ Reconcile \/ FallBehind \/ CatchUp \/ Restart \/ Tick \/ Others
  \/ \E g \in Cleaners : RunRetentionCleanup(g)
  \/ \E t \in Slots : BackupEnds(t) \/ BackupGoes(t)

Spec == Init /\ [][Next]_vars

\* The worker goes on and the caches catch up.
Fairness ==
  /\ WF_vars(Start) /\ WF_vars(Reconcile) /\ WF_vars(CatchUp)

FairSpec == Spec /\ Fairness

-----------------------------------------------------------------------------
(* Properties                                                              *)

Promise ==
  INSTANCE ScheduleSlots WITH
    clock <- now, born <- sched.born, disturbed <- Troubles > 1 \/ sched.uid > 1

\* The controller keeps what ScheduleSlots promises, with any one edit, failed call,
\* restart, stale read, deleted Backup or foreign dump: a Backup only for a slot that has come, one
\* for each at most, in order.  Not promised to a schedule created anew under its name: the
\* status patch of a reconciliation of the former one may land on it.
KeepsPromise == Promise!Spec

Awake == sched.exists /\ ~sched.del /\ ~sched.spec.suspend /\ sched.spec.cron # BadCron
Due == Awake /\ now >= CalculateNextRun(sched)

\* A slot that has come is handled, and a deleted schedule goes: after a Backup the
\* controller asks for no requeue and is woken by its own status patch, and a failed
\* creation has only the change of the status to count on.  A second failure changes
\* nothing.
KeepsGoing ==
  /\ Due ~> (~Due \/ faults > 1)
  /\ sched.del ~> ~sched.exists

\* What the policy protects: the last files, and the newest file of each recent period.
NewestOf(f, n, period) ==
  /\ n > 0 /\ now - f.at <= n * period
  /\ ~\E g \in files : g.db = f.db /\ Newer(g, f) /\ g.at \div period = f.at \div period
Protected(f, keep) ==
  \/ Cardinality({g \in files : g.db = f.db /\ Newer(g, f)}) < keep.last
  \/ NewestOf(f, keep.daily, Day) \/ NewestOf(f, keep.weekly, Week)
  \/ NewestOf(f, keep.monthly, Month)

\* A file is deleted only while the policy does not protect it: although the list is old by
\* then, several cleanups run at a time and dumps are made meanwhile.  A change of the
\* policy is not heeded by cleanups that have begun.
ProtectedFilesStay ==
  [][edits = 0 => \A f \in files \ files' : ~Protected(f, sched.spec.keep)]_vars

\* As long as no user deletes a Backup or edits the policy, the Backup of a live schedule is
\* deleted only after it ended and while keepLast newer ones are there.
NewestBackupsStay ==
  [][(Awake /\ edits = 0 /\ losses' = 0) =>
       \A t \in Slots :
         (backup[t].uid = sched.uid /\ ~backup[t].del /\ backup'[t].del) =>
           /\ Finished(backup[t])
           /\ sched.spec.keep.last <
                Cardinality({u \in Slots : Present(backup, u) /\ backup[u].at >= backup[t].at})]_vars

-----------------------------------------------------------------------------
(* What the repository says of the controller and it does not do           *)

\* docs/crds/backupschedule.md: "Retention operates on all `.sql.gz` files in the database's
\* S3 path".
OwnFilesOnly == [][\A f \in files \ files' : f.db = Db]_vars

=============================================================================
