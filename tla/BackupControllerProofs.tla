------------------------- MODULE BackupControllerProofs -------------------------
(***************************************************************************)
(* Safety of BackupController for every set of Backups, run identifiers    *)
(* and clusters, every limit and every number of faults and restarts.      *)
(***************************************************************************)
EXTENDS BackupController, FiniteSetTheorems, TLAPS

USE DEF JobNames

-----------------------------------------------------------------------------
(* Type correctness                                                        *)

\* A job still counts its failures below the limit while it runs, and a worker that is
\* about to get a job by name has a name: what TypeOK needs to be inductive.
LiveBound == \A n \in JobNames : Live(jobs, n) => jobs[n].nfail <= BackoffLimit
CheckNamed == pc = "check" => obj.job # NoJob
TypeInv == TypeOK /\ LiveBound /\ CheckNamed

\* The parts of TypeInv that the controller's own steps and the environment disturb.
ApiOK == /\ backup \in [Backups -> BackupRecord]
         /\ jobs \in [JobNames -> JobRecord]
         /\ dumps \subseteq Dump
         /\ LiveBound
CacheOK == seenB \in [Backups -> BackupRecord] /\ seenJ \in [JobNames -> JobRecord]
LocalOK == /\ queue \subseteq Backups
           /\ pc \in Steps
           /\ cur \in Backups \cup {NoBackup}
           /\ (pc # "idle") => (cur \in Backups)
           /\ obj \in BackupRecord
           /\ hash \in 0..MaxSpec
           /\ to \in Status
           /\ copy \in Snapshot
           /\ todo \subseteq JobNames
           /\ CheckNamed
CountOK == faults \in 0..MaxFaults /\ crashes \in 0..MaxCrashes

LEMMA TypeParts == TypeInv <=> ApiOK /\ CacheOK /\ LocalOK /\ CountOK
BY DEF TypeInv, TypeOK, ApiOK, CacheOK, LocalOK, CountOK

LEMMA TypePartsNext == ApiOK' /\ CacheOK' /\ LocalOK' /\ CountOK' => TypeInv'
BY DEF TypeInv, TypeOK, ApiOK, CacheOK, LocalOK, CountOK, LiveBound, CheckNamed

LEMMA Defaults ==
  /\ \A u \in 0..MaxUid : Absent(u) \in BackupRecord
  /\ \A u \in 0..MaxUid : NewBackup(u) \in BackupRecord
  /\ NoRecord \in JobRecord
  /\ NoStatus \in Status
  /\ NoSnapshot \in Snapshot
<1>1. \A u \in 0..MaxUid : Absent(u) \in BackupRecord
  BY BoundAssumption DEF Absent, Fresh, BackupRecord, Phases
<1>2. \A u \in 0..MaxUid : NewBackup(u) \in BackupRecord
  <2>1. 1 \in 0..MaxSpec
    BY BoundAssumption
  <2> QED BY <2>1, BoundAssumption DEF NewBackup, Fresh, BackupRecord, Phases
<1>3. NoRecord \in JobRecord
  BY LimitAssumption, BoundAssumption DEF NoRecord, JobRecord
<1>4. NoStatus \in Status
  BY DEF NoStatus, Status, Phases
<1>5. NoSnapshot \in Snapshot
  BY <1>3 DEF NoSnapshot, Snapshot
<1> QED BY <1>1, <1>2, <1>3, <1>4, <1>5

LEMMA FaultCount == ASSUME TypeInv, Fault PROVE faults' \in 0..MaxFaults
BY BoundAssumption DEF TypeInv, TypeOK, Fault

\* The ways a step of the worker ends keep its local variables typed.
LEMMA ReturnType ==
  ASSUME TypeInv, NEW q \in BOOLEAN, pc # "idle", Return(q) PROVE LocalOK'
BY Defaults, BoundAssumption DEF TypeInv, TypeOK, LocalOK, Return, Steps, CheckNamed

LEMMA GotoType ==
  ASSUME TypeInv, NEW step \in Steps \ {"check"}, pc # "idle", Goto(step) PROVE LocalOK'
BY DEF TypeInv, TypeOK, LocalOK, Goto, CheckNamed

LEMMA PatchThenType ==
  ASSUME TypeInv, pc # "idle", NEW o \in BackupRecord, NEW phase \in Phases,
         NEW job \in JobNames \cup {NoJob}, NEW path \in JobNames \cup {NoJob},
         NEW c \in Snapshot, PatchThen(o, phase, job, path, c)
  PROVE  LocalOK'
BY DEF TypeInv, TypeOK, LocalOK, PatchThen, CheckNamed, Steps, Status

LEMMA PatchPhaseType ==
  ASSUME TypeInv, pc # "idle", NEW o \in BackupRecord, NEW phase \in Phases,
         PatchPhase(o, phase)
  PROVE  LocalOK'
<1>1. o.job \in JobNames \cup {NoJob} /\ o.path \in JobNames \cup {NoJob}
  BY DEF BackupRecord
<1> QED BY <1>1, PatchThenType, Defaults DEF PatchPhase

LEMMA EvaluateType ==
  ASSUME TypeInv, pc # "idle", NEW o \in BackupRecord, NEW c \in Snapshot, Evaluate(o, c)
  PROVE  LocalOK'
<1>1. CASE JobVerdict(c.job) = "Running"
  BY <1>1, ReturnType DEF Evaluate
<1>2. CASE JobVerdict(c.job) = "Failed"
  BY <1>2, PatchPhaseType DEF Evaluate, Phases
<1>3. CASE JobVerdict(c.job) = "Completed"
  <2> DEFINE p == IF c.job.ann THEN c.name ELSE o.path
  <2>1. p \in JobNames \cup {NoJob} /\ o.job \in JobNames \cup {NoJob}
    BY DEF BackupRecord, Snapshot
  <2>2. PatchThen(o, "Completed", o.job, p, NoSnapshot)
    BY <1>3 DEF Evaluate
  <2> QED BY <2>1, <2>2, PatchThenType, Defaults DEF Phases
<1> QED BY <1>1, <1>2, <1>3 DEF JobVerdict

\* A failing or succeeding patch, a created job and a record written by users are typed.
LEMMA MergedType ==
  ASSUME TypeInv, cur \in Backups PROVE Merged(backup[cur]) \in BackupRecord
<1> DEFINE a == backup[cur]
<1>1. a \in BackupRecord /\ obj \in BackupRecord /\ to \in Status /\ hash \in 0..MaxSpec
  BY DEF TypeInv, TypeOK
<1> QED BY <1>1 DEF Merged, BackupRecord, Status

LEMMA NewJobType == ASSUME TypeInv PROVE NewJob(obj) \in JobRecord
<1>1. obj.uid \in 0..MaxUid /\ obj.spec \in 0..MaxSpec
  BY DEF TypeInv, TypeOK, BackupRecord
<1> QED BY <1>1, LimitAssumption DEF NewJob, JobRecord

LEMMA SnapshotType == ASSUME TypeInv, NEW n \in JobNames PROVE SnapshotOf(n) \in Snapshot
BY DEF TypeInv, TypeOK, SnapshotOf, Snapshot

-----------------------------------------------------------------------------
(* One lemma per group of actions                                          *)

LEMMA InitType == Init => TypeInv
BY Defaults, BackupsAssumption, BoundAssumption
   DEF Init, TypeInv, TypeOK, LiveBound, CheckNamed, Live, NoRecord, Steps

LEMMA StartType ==
  ASSUME TypeInv, NEW b \in Backups, Start(b) PROVE TypeInv'
<1>1. FirstStep(seenB[b]) \in Steps
  BY DEF FirstStep, Steps
<1>2. seenB[b] \in BackupRecord /\ seenB[b].spec \in 0..MaxSpec
  BY DEF TypeInv, TypeOK, BackupRecord
<1>3. FirstStep(seenB[b]) = "check" => seenB[b].job # NoJob
  BY DEF FirstStep
<1>4. LocalOK'
  BY <1>1, <1>2, <1>3 DEF Start, TypeInv, TypeOK, LocalOK, CheckNamed
<1>5. ApiOK' /\ CacheOK' /\ CountOK'
  BY TypeParts DEF Start, ApiOK, CacheOK, CountOK, LiveBound, Live, api, cache
<1> QED BY <1>4, <1>5, TypePartsNext

\* Every step of the worker has a current Backup and leaves the caches alone.
LEMMA ReconcileType ==
  ASSUME TypeInv, Reconcile PROVE TypeInv'
<1> USE TypeParts
<1>0. cur \in Backups /\ pc # "idle" /\ obj \in BackupRecord
  BY DEF TypeInv, TypeOK, Reconcile, AddFinalizer, ListForCleanup, DeleteJob,
         RemoveFinalizer, CheckJobStatus, FindJobByLabels, FindExistingJob, GetResources,
         CheckThrottling, CreateJob, PatchStatus
<1>1. CacheOK' /\ crashes' \in 0..MaxCrashes
  BY DEF CacheOK, CountOK, cache, Reconcile, AddFinalizer, ListForCleanup, DeleteJob,
         RemoveFinalizer, CheckJobStatus, FindJobByLabels, FindExistingJob, GetResources,
         CheckThrottling, CreateJob, PatchStatus
<1>2. CASE AddFinalizer
  <2>1. LocalOK'
    BY <1>0, <1>2, ReturnType DEF AddFinalizer
  <2>2. faults' \in 0..MaxFaults
    BY <1>2, FaultCount DEF AddFinalizer, CountOK
  <2>3. [backup EXCEPT ![cur].fin = TRUE] \in [Backups -> BackupRecord]
    <3> DEFINE o == [backup[cur] EXCEPT !.fin = TRUE]
    <3>1. backup \in [Backups -> BackupRecord]
      BY DEF ApiOK
    <3>2. o \in BackupRecord
      BY <1>0, <3>1 DEF BackupRecord
    <3>3. [backup EXCEPT ![cur].fin = TRUE] = [backup EXCEPT ![cur] = o]
      OBVIOUS
    <3> HIDE DEF o
    <3> QED BY <1>0, <3>1, <3>2, <3>3
  <2>4. ApiOK'
    BY <1>2, <2>3 DEF AddFinalizer, ApiOK, LiveBound, Live
  <2> QED BY <1>1, <2>1, <2>2, <2>4, TypePartsNext DEF CountOK
<1>3. CASE ListForCleanup
  BY <1>0, <1>1, <1>3, TypePartsNext
     DEF ListForCleanup, JobsOf, api, cache, ApiOK, LocalOK, CountOK, LiveBound, Live,
         CheckNamed, Steps
<1>4. CASE DeleteJob
  <2>1. faults' \in 0..MaxFaults
    BY <1>4, FaultCount DEF DeleteJob, CountOK
  <2>2. ApiOK'
    <3>1. \A n \in JobNames : [jobs EXCEPT ![n] = NoRecord] \in [JobNames -> JobRecord]
      BY Defaults DEF ApiOK
    <3>2. todo \subseteq JobNames
      BY DEF LocalOK
    <3>3. CASE UNCHANGED jobs
      BY <1>4, <3>3 DEF DeleteJob, ApiOK, LiveBound, Live
    <3>4. CASE \E n \in todo : jobs' = [jobs EXCEPT ![n] = NoRecord]
      <4> PICK n \in todo : jobs' = [jobs EXCEPT ![n] = NoRecord]
        BY <3>4
      <4>1. \A m \in JobNames : jobs'[m] = jobs[m] \/ jobs'[m].st = "none"
        BY <3>2 DEF ApiOK, NoRecord
      <4>2. jobs' \in [JobNames -> JobRecord]
        BY <3>1, <3>2
      <4> QED BY <1>4, <4>1, <4>2 DEF DeleteJob, ApiOK, LiveBound, Live
    <3> QED BY <1>4, <3>3, <3>4 DEF DeleteJob
  <2>3. LocalOK'
    BY <1>4 DEF DeleteJob, LocalOK, CheckNamed
  <2> QED BY <1>1, <2>1, <2>2, <2>3, TypePartsNext DEF CountOK
<1>5. CASE RemoveFinalizer
  <2>1. LocalOK'
    BY <1>0, <1>5, ReturnType DEF RemoveFinalizer
  <2>2. faults' \in 0..MaxFaults
    BY <1>5, FaultCount DEF RemoveFinalizer, CountOK
  <2>3. Absent(obj.uid) \in BackupRecord
    BY <1>0, Defaults DEF BackupRecord
  <2>4. ApiOK'
    BY <1>5, <2>3 DEF RemoveFinalizer, ApiOK, LiveBound, Live
  <2> QED BY <1>1, <2>1, <2>2, <2>4, TypePartsNext DEF CountOK
<1>6. ASSUME UNCHANGED <<api, cache, faults, crashes>>, LocalOK' PROVE TypeInv'
  BY <1>1, <1>6, TypePartsNext DEF api, ApiOK, CountOK, LiveBound, Live
<1>7. CASE CheckJobStatus
  <2>1. obj.job \in JobNames
    BY <1>0, <1>7 DEF CheckJobStatus, LocalOK, CheckNamed, BackupRecord
  <2>2. LocalOK'
    BY <1>0, <1>7, <2>1, SnapshotType, EvaluateType, GotoType DEF CheckJobStatus, Steps
  <2> QED BY <1>6, <1>7, <2>2 DEF CheckJobStatus
<1>8. \A n \in JobsOf(seenJ, cur) : n \in JobNames /\ SnapshotOf(n) \in Snapshot
  BY SnapshotType DEF JobsOf
<1>9. obj.path \in JobNames \cup {NoJob} /\ obj.job \in JobNames \cup {NoJob}
  BY <1>0 DEF BackupRecord
<1>10. CASE FindJobByLabels
  <2>1. LocalOK'
    BY <1>0, <1>8, <1>9, <1>10, PatchPhaseType, PatchThenType, EvaluateType
       DEF FindJobByLabels, Phases
  <2> QED BY <1>6, <1>10, <2>1 DEF FindJobByLabels
<1>11. CASE FindExistingJob
  <2>1. LocalOK'
    BY <1>0, <1>8, <1>9, <1>11, PatchThenType, GotoType DEF FindExistingJob, Phases, Steps
  <2> QED BY <1>6, <1>11, <2>1 DEF FindExistingJob
<1>12. CASE GetResources
  <2>1. LocalOK'
    BY <1>0, <1>12, PatchPhaseType, GotoType DEF GetResources, Phases, Steps
  <2> QED BY <1>6, <1>12, <2>1 DEF GetResources
<1>13. CASE CheckThrottling
  <2>1. LocalOK'
    BY <1>0, <1>13, PatchPhaseType, GotoType DEF CheckThrottling, Phases, Steps
  <2> QED BY <1>6, <1>13, <2>1 DEF CheckThrottling
<1>14. CASE \E r \in RunIDs : CreateJob(r)
  <2> PICK r \in RunIDs : CreateJob(r)
    BY <1>14
  <2> DEFINE n == <<cur, r>>
  <2>1. n \in JobNames
    BY <1>0
  <2>2. LocalOK'
    <3>1. CASE Goto("labels")
      BY <1>0, <3>1, GotoType DEF Steps
    <3>2. CASE PatchThen(obj, "Running", n, obj.path, NoSnapshot)
      BY <1>0, <1>9, <2>1, <3>2, PatchThenType, Defaults DEF Phases
    <3>3. CASE PatchPhase(obj, "Failed")
      BY <1>0, <3>3, PatchPhaseType DEF Phases
    <3> QED BY <3>1, <3>2, <3>3 DEF CreateJob
  <2>3. faults' \in 0..MaxFaults
    BY FaultCount DEF CreateJob, CountOK
  <2>4. [jobs EXCEPT ![n] = NewJob(obj)] \in [JobNames -> JobRecord]
    BY <2>1, NewJobType DEF ApiOK
  <2>5. NewJob(obj).nfail <= BackoffLimit
    BY LimitAssumption DEF NewJob
  <2>6. ApiOK'
    BY <2>1, <2>4, <2>5 DEF CreateJob, ApiOK, LiveBound, Live
  <2> QED BY <1>1, <2>2, <2>3, <2>6, TypePartsNext DEF CountOK
<1>15. CASE PatchStatus
  <2> DEFINE patched == [backup EXCEPT ![cur] = Merged(@)]
  <2>1. patched \in [Backups -> BackupRecord] /\ patched[cur] \in BackupRecord
    BY <1>0, MergedType DEF ApiOK
  <2>2. copy \in Snapshot
    BY DEF LocalOK
  <2>3. LocalOK'
    <3>1. CASE Evaluate(patched[cur], copy)
      BY <1>0, <2>1, <2>2, <3>1, EvaluateType
    <3>2. ASSUME NEW q \in BOOLEAN, Return(q) PROVE LocalOK'
      BY <1>0, <3>2, ReturnType
    <3>3. RequeueAfterPatch(to.phase) \in BOOLEAN /\ RequeueAfterError(to.phase) \in BOOLEAN
      BY DEF RequeueAfterPatch, RequeueAfterError
    <3> QED BY <1>15, <3>1, <3>2, <3>3 DEF PatchStatus
  <2>4. faults' \in 0..MaxFaults
    BY <1>15, FaultCount DEF PatchStatus, CountOK
  <2>5. ApiOK'
    BY <1>15, <2>1 DEF PatchStatus, ApiOK, LiveBound, Live
  <2> QED BY <1>1, <2>3, <2>4, <2>5, TypePartsNext DEF CountOK
<1> QED BY <1>2, <1>3, <1>4, <1>5, <1>7, <1>10, <1>11, <1>12, <1>13, <1>14, <1>15
        DEF Reconcile

\* Informers, restarts, users and the job controller leave the worker's variables typed.
LEMMA ManagerType ==
  ASSUME TypeInv, SyncBackups \/ SyncJobs \/ Restart PROVE TypeInv'
<1> USE TypeParts
<1>1. ApiOK'
  BY DEF SyncBackups, SyncJobs, Restart, api, ApiOK, LiveBound, Live
<1>2. CacheOK'
  BY DEF SyncBackups, SyncJobs, Restart, ApiOK, CacheOK
<1>3. CountOK'
  BY BoundAssumption DEF SyncBackups, SyncJobs, Restart, CountOK
<1>4. LocalOK'
  <2>1. CASE SyncBackups \/ SyncJobs
    BY <2>1 DEF SyncBackups, SyncJobs, local, LocalOK, CheckNamed
  <2>2. CASE Restart
    BY <2>2, Defaults, BoundAssumption DEF Restart, LocalOK, CheckNamed, Steps
  <2> QED BY <2>1, <2>2
<1> QED BY <1>1, <1>2, <1>3, <1>4, TypePartsNext

LEMMA UsersType ==
  ASSUME TypeInv, Users PROVE TypeInv'
<1> USE TypeParts
<1> PICK b \in Backups : CreateBackup(b) \/ EditBackup(b) \/ DeleteBackup(b)
  BY DEF Users
<1>1. UNCHANGED <<jobs, dumps, cache, queue, local, faults, crashes>>
  BY DEF CreateBackup, EditBackup, DeleteBackup
<1>2. backup[b] \in BackupRecord /\ backup[b].uid \in 0..MaxUid
  BY DEF ApiOK, BackupRecord
<1>3. backup' \in [Backups -> BackupRecord]
  <2>1. CASE CreateBackup(b)
    <3>1. NewBackup(backup[b].uid + 1) \in BackupRecord
      BY <1>2, <2>1, Defaults, BoundAssumption DEF CreateBackup
    <3> QED BY <2>1, <3>1 DEF CreateBackup, ApiOK
  <2>2. CASE EditBackup(b)
    BY <1>2, <2>2, BoundAssumption DEF EditBackup, ApiOK, BackupRecord
  <2>3. CASE DeleteBackup(b)
    <3>1. Absent(backup[b].uid) \in BackupRecord
      BY <1>2, Defaults
    <3>2. [backup[b] EXCEPT !.del = TRUE] \in BackupRecord
      BY <1>2 DEF BackupRecord
    <3> QED BY <2>3, <3>1, <3>2 DEF DeleteBackup, ApiOK
  <2> QED BY <2>1, <2>2, <2>3
<1>4. ApiOK' /\ CacheOK' /\ LocalOK' /\ CountOK'
  BY <1>1, <1>3 DEF cache, local, ApiOK, CacheOK, LocalOK, CountOK, LiveBound, Live, CheckNamed
<1> QED BY <1>4, TypePartsNext

LEMMA JobControllerType ==
  ASSUME TypeInv, JobController PROVE TypeInv'
<1> USE TypeParts
<1> PICK n \in JobNames :
      PodFails(n) \/ Upload(n) \/ JobSucceeds(n) \/ JobFails(n) \/ TTLRemove(n)
  BY DEF JobController
<1>1. UNCHANGED <<backup, cache, queue, local, faults, crashes>>
  BY DEF PodFails, Upload, JobSucceeds, JobFails, TTLRemove
<1> DEFINE j == jobs[n]
<1>2. j \in JobRecord /\ (Live(jobs, n) => j.nfail <= BackoffLimit)
  BY DEF ApiOK, LiveBound
<1>3. \E r \in JobRecord :
        /\ jobs' = [jobs EXCEPT ![n] = r]
        /\ r.st \in {"active", "uploaded"} => r.nfail <= BackoffLimit
  <2>1. CASE PodFails(n)
    <3> DEFINE r == With(j, "active", j.nfail + 1, j.ann)
    <3>1. r \in JobRecord /\ r.nfail <= BackoffLimit
      BY <1>2, <2>1, LimitAssumption DEF PodFails, JobRecord, With, Live
    <3>2. jobs' = [jobs EXCEPT ![n] = r]
      BY <2>1 DEF PodFails
    <3> QED BY <3>1, <3>2
  <2>2. CASE Upload(n)
    <3> PICK a \in {TRUE, j.ann} : jobs' = [jobs EXCEPT ![n] = With(@, "uploaded", @.nfail, a)]
      BY <2>2 DEF Upload
    <3> DEFINE r == With(j, "uploaded", j.nfail, a)
    <3>1. r \in JobRecord /\ r.nfail <= BackoffLimit
      BY <1>2, <2>2 DEF Upload, JobRecord, Live, With
    <3>2. jobs' = [jobs EXCEPT ![n] = r]
      OBVIOUS
    <3> QED BY <3>1, <3>2
  <2>3. CASE JobSucceeds(n)
    <3> DEFINE r == [j EXCEPT !.st = "succeeded"]
    <3>1. r \in JobRecord /\ r.st = "succeeded"
      BY <1>2 DEF JobRecord
    <3>2. jobs' = [jobs EXCEPT ![n] = r]
      BY <2>3 DEF JobSucceeds
    <3> QED BY <3>1, <3>2
  <2>4. CASE JobFails(n)
    <3> DEFINE r == With(j, "failed", j.nfail + 1, j.ann)
    <3>1. r \in JobRecord /\ r.st = "failed"
      BY <1>2, <2>4, LimitAssumption DEF JobFails, JobRecord, With, Live
    <3>2. jobs' = [jobs EXCEPT ![n] = r]
      BY <2>4 DEF JobFails
    <3> QED BY <3>1, <3>2
  <2>5. CASE TTLRemove(n)
    BY <2>5, Defaults DEF TTLRemove, NoRecord
  <2> QED BY <2>1, <2>2, <2>3, <2>4, <2>5
<1>4. dumps' \subseteq Dump
  <2>1. [job |-> n, uid |-> j.uid, spec |-> j.spec] \in Dump
    BY <1>2 DEF JobRecord, Dump
  <2> QED BY <2>1 DEF ApiOK, PodFails, Upload, JobSucceeds, JobFails, TTLRemove
<1>5. ApiOK'
  <2> PICK r \in JobRecord :
        /\ jobs' = [jobs EXCEPT ![n] = r]
        /\ r.st \in {"active", "uploaded"} => r.nfail <= BackoffLimit
    BY <1>3
  <2>1. jobs' \in [JobNames -> JobRecord] /\ jobs'[n] = r
    BY DEF ApiOK
  <2>2. \A m \in JobNames : m # n => jobs'[m] = jobs[m]
    BY DEF ApiOK
  <2> QED BY <1>1, <1>4, <2>1, <2>2 DEF ApiOK, LiveBound, Live
<1>6. CacheOK' /\ LocalOK' /\ CountOK'
  BY <1>1 DEF cache, local, CacheOK, LocalOK, CountOK, CheckNamed
<1> QED BY <1>5, <1>6, TypePartsNext

LEMMA StutterType == ASSUME TypeInv, UNCHANGED vars PROVE TypeInv'
BY DEF vars, api, cache, local, TypeInv, TypeOK, LiveBound, Live, CheckNamed

LEMMA TypeStep == TypeInv /\ [Next]_vars => TypeInv'
BY StartType, ReconcileType, ManagerType, UsersType, JobControllerType, StutterType DEF Next

LEMMA TypeInvariant == Spec => []TypeInv
BY InitType, TypeStep, PTL DEF Spec

\* Every variable stays in its type: statuses, jobs and the worker's local state.
THEOREM TypeCorrect == Spec => []TypeOK
BY TypeInvariant, PTL DEF TypeInv

-----------------------------------------------------------------------------
(* Completed means a dump                                                  *)

\* What makes StatusBackedByDump inductive: every copy of a status, current, cached,
\* local or about to be written, and every copy of a job is backed by a dump in ds, and a
\* status only ever names a job of its own Backup.
DumpIn(ds, n) == \E d \in ds : d.job = n

BackedBy(ds, b, o) ==
  /\ o.phase = "Completed" => \E r \in RunIDs : DumpIn(ds, <<b, r>>)
  /\ o.path # NoJob => DumpIn(ds, o.path)
  /\ o.job # NoJob => o.job[1] = b

JobBackedBy(ds, j, n) ==
  (j.st \in {"uploaded", "succeeded"} \/ j.ann = TRUE) => DumpIn(ds, n)

SnapshotBacked(ds, b, c) ==
  c # NoSnapshot => c.name \in JobNames /\ c.name[1] = b /\ JobBackedBy(ds, c.job, c.name)

ApiBacked == /\ \A b \in Backups : BackedBy(dumps, b, backup[b])
             /\ \A n \in JobNames : JobBackedBy(dumps, jobs[n], n)
CacheBacked == /\ \A b \in Backups : BackedBy(dumps, b, seenB[b])
               /\ \A n \in JobNames : JobBackedBy(dumps, seenJ[n], n)
LocalBacked == /\ pc # "idle" => BackedBy(dumps, cur, obj)
               /\ pc = "patch" => BackedBy(dumps, cur, to) /\ SnapshotBacked(dumps, cur, copy)
BackedInv == ApiBacked /\ CacheBacked /\ LocalBacked

LEMMA BackedGrows ==
  ASSUME NEW ds, NEW es, ds \subseteq es
  PROVE  /\ \A b, o : BackedBy(ds, b, o) => BackedBy(es, b, o)
         /\ \A j, n : JobBackedBy(ds, j, n) => JobBackedBy(es, j, n)
         /\ \A b, c : SnapshotBacked(ds, b, c) => SnapshotBacked(es, b, c)
BY DEF BackedBy, JobBackedBy, SnapshotBacked, DumpIn

LEMMA ReturnBacked == ASSUME NEW q, Return(q) PROVE LocalBacked'
BY DEF Return, LocalBacked

LEMMA GotoBacked ==
  ASSUME BackedInv, NEW step, step # "patch", pc # "idle", Goto(step), dumps' = dumps
  PROVE  LocalBacked'
BY DEF Goto, BackedInv, LocalBacked

LEMMA PatchThenBacked ==
  ASSUME NEW o, NEW phase, NEW job, NEW path, NEW c, dumps' = dumps,
         BackedBy(dumps, cur, o), SnapshotBacked(dumps, cur, c),
         phase = "Completed" => \E r \in RunIDs : DumpIn(dumps, <<cur, r>>),
         path # NoJob => DumpIn(dumps, path), job # NoJob => job[1] = cur,
         PatchThen(o, phase, job, path, c)
  PROVE  LocalBacked'
BY DEF PatchThen, LocalBacked, BackedBy

LEMMA PatchPhaseBacked ==
  ASSUME NEW o, NEW phase, phase # "Completed", dumps' = dumps, BackedBy(dumps, cur, o),
         PatchPhase(o, phase)
  PROVE  LocalBacked'
<1>1. SnapshotBacked(dumps, cur, NoSnapshot)
  BY DEF SnapshotBacked
<1> QED BY <1>1, PatchThenBacked DEF PatchPhase, BackedBy

LEMMA EvaluateBacked ==
  ASSUME NEW o, NEW c, dumps' = dumps, BackedBy(dumps, cur, o),
         c.name \in JobNames, c.name[1] = cur, JobBackedBy(dumps, c.job, c.name),
         Evaluate(o, c), c.job.ann \in BOOLEAN
  PROVE  LocalBacked'
<1>1. CASE JobVerdict(c.job) = "Running"
  BY <1>1, ReturnBacked DEF Evaluate
<1>2. CASE JobVerdict(c.job) = "Failed"
  BY <1>2, PatchPhaseBacked DEF Evaluate
<1>3. CASE JobVerdict(c.job) = "Completed"
  <2> DEFINE p == IF c.job.ann THEN c.name ELSE o.path
  <2>1. PatchThen(o, "Completed", o.job, p, NoSnapshot)
    BY <1>3 DEF Evaluate
  <2>2. DumpIn(dumps, c.name)
    BY <1>3 DEF JobVerdict, JobBackedBy
  <2>3. \E r \in RunIDs : c.name = <<cur, r>>
    OBVIOUS
  <2>4. p # NoJob => DumpIn(dumps, p)
    BY <2>2 DEF BackedBy
  <2>5. SnapshotBacked(dumps, cur, NoSnapshot)
    BY DEF SnapshotBacked
  <2> QED BY <2>1, <2>2, <2>3, <2>4, <2>5, PatchThenBacked DEF BackedBy
<1> QED BY <1>1, <1>2, <1>3 DEF JobVerdict

LEMMA NothingBacked ==
  /\ \A ds, b, u : BackedBy(ds, b, Absent(u)) /\ BackedBy(ds, b, NewBackup(u))
  /\ \A ds, n : JobBackedBy(ds, NoRecord, n)
<1>1. \A ds, b, u : BackedBy(ds, b, Absent(u)) /\ BackedBy(ds, b, NewBackup(u))
  BY DEF BackedBy, Absent, NewBackup, Fresh
<1>2. NoRecord.st = "none" /\ NoRecord.ann # TRUE
  BY DEF NoRecord
<1> QED BY <1>1, <1>2 DEF JobBackedBy

LEMMA InitBacked == Init => BackedInv
BY NothingBacked DEF Init, BackedInv, ApiBacked, CacheBacked, LocalBacked

LEMMA StartBacked ==
  ASSUME TypeInv, BackedInv, NEW b \in Backups, Start(b) PROVE BackedInv'
<1>1. ApiBacked' /\ CacheBacked'
  BY DEF Start, api, cache, BackedInv, ApiBacked, CacheBacked
<1>2. FirstStep(seenB[b]) # "patch"
  BY DEF FirstStep
<1>3. LocalBacked'
  BY <1>2 DEF Start, api, BackedInv, CacheBacked, LocalBacked
<1> QED BY <1>1, <1>3 DEF BackedInv

LEMMA ReconcileBacked ==
  ASSUME TypeInv, BackedInv, Reconcile PROVE BackedInv'
<1>0. cur \in Backups /\ pc # "idle" /\ obj \in BackupRecord
  BY DEF TypeInv, TypeOK, Reconcile, AddFinalizer, ListForCleanup, DeleteJob,
         RemoveFinalizer, CheckJobStatus, FindJobByLabels, FindExistingJob, GetResources,
         CheckThrottling, CreateJob, PatchStatus
<1>1. CacheBacked' /\ dumps' = dumps
  BY DEF BackedInv, CacheBacked, api, cache, Reconcile, AddFinalizer, ListForCleanup,
         DeleteJob, RemoveFinalizer, CheckJobStatus, FindJobByLabels, FindExistingJob,
         GetResources, CheckThrottling, CreateJob, PatchStatus
<1>2. BackedBy(dumps, cur, obj) /\ obj.job \in JobNames \cup {NoJob}
  BY <1>0 DEF BackedInv, LocalBacked, BackupRecord
<1>3. backup \in [Backups -> BackupRecord] /\ jobs \in [JobNames -> JobRecord]
      /\ seenJ \in [JobNames -> JobRecord] /\ todo \subseteq JobNames
  BY DEF TypeInv, TypeOK
<1>4. \A n \in JobNames :
        /\ JobBackedBy(dumps, seenJ[n], n) /\ JobBackedBy(dumps, jobs[n], n)
        /\ SnapshotOf(n).name = n /\ SnapshotOf(n).job = seenJ[n]
        /\ SnapshotOf(n).job.ann \in BOOLEAN
  BY <1>3 DEF BackedInv, ApiBacked, CacheBacked, SnapshotOf, JobRecord
<1>5. \A n \in JobsOf(seenJ, cur) :
        n \in JobNames /\ n[1] = cur /\ SnapshotBacked(dumps, cur, SnapshotOf(n))
  BY <1>4 DEF JobsOf, SnapshotBacked
<1>6. \A b \in Backups : BackedBy(dumps, b, backup[b])
  BY DEF BackedInv, ApiBacked
<1>7. ASSUME NEW o, BackedBy(dumps, cur, o), jobs' = jobs, LocalBacked',
             backup' = backup \/ backup' = [backup EXCEPT ![cur] = o]
      PROVE  BackedInv'
  BY <1>0, <1>1, <1>3, <1>4, <1>6, <1>7 DEF BackedInv, ApiBacked
<1>8. ASSUME UNCHANGED api, LocalBacked' PROVE BackedInv'
  BY <1>2, <1>7, <1>8 DEF api
<1>9. CASE AddFinalizer
  <2> DEFINE o == [obj EXCEPT !.fin = TRUE]
  <2>1. BackedBy(dumps, cur, o)
    BY <1>0, <1>2 DEF BackedBy, BackupRecord
  <2>2. backup' = backup \/ backup' = [backup EXCEPT ![cur] = o]
    BY <1>9 DEF AddFinalizer
  <2>3. LocalBacked'
    BY <1>9, ReturnBacked DEF AddFinalizer
  <2> QED BY <1>7, <1>9, <2>1, <2>2, <2>3 DEF AddFinalizer
<1>10. CASE ListForCleanup
  BY <1>1, <1>2, <1>8, <1>10 DEF ListForCleanup, LocalBacked
<1>11. CASE DeleteJob
  <2>1. LocalBacked'
    BY <1>1, <1>2, <1>11 DEF DeleteJob, LocalBacked
  <2>2. \A n \in JobNames : jobs'[n] = jobs[n] \/ jobs'[n] = NoRecord
    BY <1>3, <1>11 DEF DeleteJob
  <2>3. ApiBacked'
    BY <1>1, <1>4, <1>6, <1>11, <2>2, NothingBacked DEF DeleteJob, ApiBacked
  <2> QED BY <1>1, <2>1, <2>3 DEF BackedInv
<1>12. CASE RemoveFinalizer
  <2>1. BackedBy(dumps, cur, Absent(obj.uid))
    BY NothingBacked
  <2>2. LocalBacked'
    BY <1>12, ReturnBacked DEF RemoveFinalizer
  <2> QED BY <1>7, <1>12, <2>1, <2>2 DEF RemoveFinalizer
<1>13. CASE CheckJobStatus
  <2>1. obj.job \in JobNames /\ obj.job[1] = cur
    BY <1>2, <1>13 DEF CheckJobStatus, TypeInv, CheckNamed, BackedBy
  <2>2. LocalBacked'
    BY <1>0, <1>1, <1>2, <1>4, <1>13, <2>1, EvaluateBacked, GotoBacked DEF CheckJobStatus
  <2> QED BY <1>8, <1>13, <2>2 DEF CheckJobStatus
<1>14. CASE FindJobByLabels
  <2>1. CASE PatchPhase(obj, "Failed")
    BY <1>1, <1>2, <1>8, <1>14, <2>1, PatchPhaseBacked DEF FindJobByLabels
  <2>2. ASSUME NEW n \in JobsOf(seenJ, cur),
               PatchThen(obj, "Running", n, obj.path, SnapshotOf(n))
        PROVE  LocalBacked'
    BY <1>1, <1>2, <1>5, <2>2, PatchThenBacked DEF BackedBy
  <2>3. ASSUME NEW n \in JobsOf(seenJ, cur), Evaluate(obj, SnapshotOf(n))
        PROVE  LocalBacked'
    BY <1>1, <1>2, <1>4, <1>5, <2>3, EvaluateBacked
  <2> QED BY <1>8, <1>14, <2>1, <2>2, <2>3 DEF FindJobByLabels
<1>15. CASE FindExistingJob
  <2>1. CASE Goto("resources")
    BY <1>0, <1>1, <1>8, <1>15, <2>1, GotoBacked DEF FindExistingJob
  <2>2. ASSUME NEW n \in JobsOf(seenJ, cur),
               PatchThen(obj, "Running", n, obj.path, SnapshotOf(n))
        PROVE  LocalBacked'
    BY <1>1, <1>2, <1>5, <2>2, PatchThenBacked DEF BackedBy
  <2> QED BY <1>8, <1>15, <2>1, <2>2 DEF FindExistingJob
<1>16. CASE GetResources
  <2>1. LocalBacked'
    BY <1>0, <1>1, <1>2, <1>16, GotoBacked, PatchPhaseBacked DEF GetResources
  <2> QED BY <1>8, <1>16, <2>1 DEF GetResources
<1>17. CASE CheckThrottling
  <2>1. LocalBacked'
    BY <1>0, <1>1, <1>2, <1>17, GotoBacked, PatchPhaseBacked DEF CheckThrottling
  <2> QED BY <1>8, <1>17, <2>1 DEF CheckThrottling
<1>18. CASE \E r \in RunIDs : CreateJob(r)
  <2> PICK r \in RunIDs : CreateJob(r)
    BY <1>18
  <2> DEFINE n == <<cur, r>>
  <2>1. n \in JobNames /\ n[1] = cur
    BY <1>0
  <2>5. LocalBacked'
    <3>1. CASE Goto("labels")
      BY <1>0, <1>1, <3>1, GotoBacked
    <3>2. CASE PatchThen(obj, "Running", n, obj.path, NoSnapshot)
      BY <1>1, <1>2, <2>1, <3>2, PatchThenBacked DEF BackedBy, SnapshotBacked
    <3>3. CASE PatchPhase(obj, "Failed")
      BY <1>1, <1>2, <3>3, PatchPhaseBacked
    <3> QED BY <3>1, <3>2, <3>3 DEF CreateJob
  <2>6. JobBackedBy(dumps, NewJob(obj), n)
    BY DEF JobBackedBy, NewJob
  <2>7. \A m \in JobNames : jobs'[m] = jobs[m] \/ (m = n /\ jobs'[m] = NewJob(obj))
    BY <1>3, <2>1 DEF CreateJob
  <2>8. ApiBacked'
    BY <1>1, <1>4, <1>6, <2>6, <2>7 DEF CreateJob, ApiBacked
  <2> QED BY <1>1, <2>5, <2>8 DEF BackedInv
<1>19. CASE PatchStatus
  <2> DEFINE o == Merged(backup[cur])
             patched == [backup EXCEPT ![cur] = Merged(@)]
  <2>1. BackedBy(dumps, cur, to) /\ SnapshotBacked(dumps, cur, copy) /\ copy \in Snapshot
    BY <1>19 DEF PatchStatus, BackedInv, LocalBacked, TypeInv, TypeOK
  <2>2. BackedBy(dumps, cur, o)
    <3>1. /\ o.phase \in {to.phase, backup[cur].phase}
          /\ o.path \in {to.path, backup[cur].path}
          /\ o.job \in {to.job, backup[cur].job}
      BY <1>0, <1>3 DEF Merged, BackupRecord
    <3> QED BY <1>0, <1>6, <2>1, <3>1 DEF BackedBy
  <2>3. patched[cur] = o /\ patched = [backup EXCEPT ![cur] = o]
    BY <1>0, <1>3
  <2>4. LocalBacked'
    <3>1. CASE copy # NoSnapshot /\ Evaluate(patched[cur], copy)
      BY <1>1, <2>1, <2>2, <2>3, <3>1, EvaluateBacked DEF SnapshotBacked, Snapshot, JobRecord
    <3>2. CASE \E q \in {RequeueAfterPatch(to.phase), RequeueAfterError(to.phase)} : Return(q)
      BY <3>2, ReturnBacked
    <3> QED BY <1>19, <3>1, <3>2 DEF PatchStatus
  <2>5. backup' = backup \/ backup' = [backup EXCEPT ![cur] = o]
    BY <1>19, <2>3 DEF PatchStatus
  <2> QED BY <1>7, <1>19, <2>2, <2>4, <2>5 DEF PatchStatus
<1> QED BY <1>9, <1>10, <1>11, <1>12, <1>13, <1>14, <1>15, <1>16, <1>17, <1>18, <1>19
        DEF Reconcile

\* The environment: caches are copied, users write no status, a pod stores its dump before
\* its job is annotated or succeeds.
LEMMA EnvironmentBacked ==
  ASSUME TypeInv, BackedInv,
         SyncBackups \/ SyncJobs \/ Restart \/ Users \/ UNCHANGED vars
  PROVE  BackedInv'
<1>1. CASE SyncBackups \/ SyncJobs
  BY <1>1 DEF SyncBackups, SyncJobs, api, local, BackedInv, ApiBacked, CacheBacked, LocalBacked
<1>2. CASE Restart
  BY <1>2 DEF Restart, api, BackedInv, ApiBacked, CacheBacked, LocalBacked
<1>3. CASE Users
  <2> PICK b \in Backups : CreateBackup(b) \/ EditBackup(b) \/ DeleteBackup(b)
    BY <1>3 DEF Users
  <2>1. UNCHANGED <<jobs, dumps, cache, local>>
    BY DEF CreateBackup, EditBackup, DeleteBackup
  <2>2. backup \in [Backups -> BackupRecord] /\ BackedBy(dumps, b, backup[b])
    BY DEF TypeInv, TypeOK, BackedInv, ApiBacked
  <2>3. BackedBy(dumps, b, backup'[b])
    <3>1. CASE CreateBackup(b)
      BY <2>2, <3>1, NothingBacked DEF CreateBackup
    <3>2. CASE EditBackup(b)
      BY <2>2, <3>2 DEF EditBackup, BackedBy, BackupRecord
    <3>3. CASE DeleteBackup(b)
      <4> DEFINE o == [backup[b] EXCEPT !.del = TRUE]
      <4>1. BackedBy(dumps, b, o)
        BY <2>2 DEF BackedBy, BackupRecord
      <4>2. backup'[b] = o \/ \E u : backup'[b] = Absent(u)
        BY <2>2, <3>3 DEF DeleteBackup
      <4> HIDE DEF o
      <4> QED BY <4>1, <4>2, NothingBacked
    <3> QED BY <3>1, <3>2, <3>3
  <2>4. \A a \in Backups : a # b => backup'[a] = backup[a]
    BY <2>2 DEF CreateBackup, EditBackup, DeleteBackup
  <2> QED BY <2>1, <2>3, <2>4 DEF cache, local, BackedInv, ApiBacked, CacheBacked, LocalBacked
<1>4. CASE UNCHANGED vars
  BY <1>4 DEF vars, api, cache, local, BackedInv, ApiBacked, CacheBacked, LocalBacked
<1> QED BY <1>1, <1>2, <1>3, <1>4

LEMMA JobControllerBacked ==
  ASSUME TypeInv, BackedInv, JobController PROVE BackedInv'
<1> PICK n \in JobNames :
      PodFails(n) \/ Upload(n) \/ JobSucceeds(n) \/ JobFails(n) \/ TTLRemove(n)
  BY DEF JobController
<1>1. UNCHANGED <<backup, cache, local>> /\ dumps \subseteq dumps'
  BY DEF PodFails, Upload, JobSucceeds, JobFails, TTLRemove
<1>2. jobs[n] \in JobRecord /\ jobs \in [JobNames -> JobRecord]
      /\ JobBackedBy(dumps, jobs[n], n)
  BY DEF TypeInv, TypeOK, BackedInv, ApiBacked
<1>3. JobBackedBy(dumps', jobs'[n], n)
  <2>1. CASE Upload(n)
    <3> DEFINE d == [job |-> n, uid |-> jobs[n].uid, spec |-> jobs[n].spec]
    <3>1. d \in dumps' /\ d.job = n
      BY <2>1 DEF Upload
    <3> QED BY <3>1 DEF JobBackedBy, DumpIn
  <2>2. CASE PodFails(n) \/ JobFails(n)
    BY <1>1, <1>2, <2>2 DEF PodFails, JobFails, JobBackedBy, With, DumpIn
  <2>3. CASE JobSucceeds(n)
    BY <1>1, <1>2, <2>3 DEF JobSucceeds, JobBackedBy, JobRecord, DumpIn
  <2>4. CASE TTLRemove(n)
    BY <1>2, <2>4, NothingBacked DEF TTLRemove
  <2> QED BY <2>1, <2>2, <2>3, <2>4
<1>4. \A m \in JobNames : m # n => jobs'[m] = jobs[m]
  BY <1>2 DEF PodFails, Upload, JobSucceeds, JobFails, TTLRemove
<1>5. ApiBacked'
  BY <1>1, <1>3, <1>4, BackedGrows DEF BackedInv, ApiBacked
<1>6. CacheBacked' /\ LocalBacked'
  BY <1>1, BackedGrows DEF cache, local, BackedInv, CacheBacked, LocalBacked
<1> QED BY <1>5, <1>6 DEF BackedInv

LEMMA BackedInvariant == Spec => []BackedInv
<1>1. TypeInv /\ BackedInv /\ [Next]_vars => BackedInv'
  BY StartBacked, ReconcileBacked, EnvironmentBacked, JobControllerBacked DEF Next
<1> QED BY InitBacked, TypeInvariant, <1>1, PTL DEF Spec

\* Completed is never reported without a dump, and the reported path is one: for any number
\* of Backups, however stale the caches and whichever calls fail.
THEOREM StatusBacked == Spec => []StatusBackedByDump
<1>1. BackedInv => StatusBackedByDump
  BY DEF BackedInv, ApiBacked, BackedBy, StatusBackedByDump, DumpOf, DumpIn
<1> QED BY BackedInvariant, <1>1, PTL

-----------------------------------------------------------------------------
(* No job without the finalizer                                            *)

\* What makes JobImpliesFinalizer inductive: whatever copy o of b the controller holds, if
\* it carries the finalizer and its object still exists, the object carries it too; and
\* the steps that lead to the creation of a job hold a copy with the finalizer.
FinalizerKept(b, u, f) ==
  /\ u <= backup[b].uid
  /\ (f = TRUE /\ backup[b].exists /\ u = backup[b].uid) => backup[b].fin

CreateSteps == {"find", "resources", "throttle", "create"}

FinalizerInv ==
  /\ \A b \in Backups : FinalizerKept(b, seenB[b].uid, seenB[b].fin)
  /\ pc # "idle" => FinalizerKept(cur, obj.uid, obj.fin)
  /\ \A n \in JobNames : Present(jobs, n) => FinalizerKept(n[1], jobs[n].uid, TRUE)
  /\ pc \in CreateSteps => obj.fin

\* A step that leaves the worker's copy of the Backup alone or drops it.
KeepsObj == /\ pc' # "idle" => cur' = cur /\ obj' = obj
            /\ pc' \in CreateSteps => pc \in CreateSteps

LEMMA EvaluateSteps ==
  ASSUME NEW o, NEW c, Evaluate(o, c)
  PROVE  pc' \in {"idle", "patch"} /\ (pc' = "patch" => cur' = cur /\ obj' = o)
BY DEF Evaluate, Return, PatchPhase, PatchThen, JobVerdict

LEMMA ReconcileKeeps ==
  ASSUME Reconcile, ~PatchStatus, TypeInv PROVE KeepsObj /\ pc # "idle"
<1>1. CASE AddFinalizer \/ RemoveFinalizer \/ ListForCleanup \/ DeleteJob
  BY <1>1 DEF AddFinalizer, RemoveFinalizer, ListForCleanup, DeleteJob, Return, KeepsObj,
              CreateSteps
<1>2. CASE CheckJobStatus \/ FindJobByLabels
  BY <1>2, EvaluateSteps DEF CheckJobStatus, FindJobByLabels, Goto, PatchPhase, PatchThen,
                             KeepsObj, CreateSteps
<1>3. CASE FindExistingJob \/ GetResources \/ CheckThrottling
  BY <1>3 DEF FindExistingJob, GetResources, CheckThrottling, Goto, PatchPhase, PatchThen,
              KeepsObj, CreateSteps
<1>4. CASE \E r \in RunIDs : CreateJob(r)
  BY <1>4 DEF CreateJob, Goto, PatchPhase, PatchThen, KeepsObj, CreateSteps
<1> QED BY <1>1, <1>2, <1>3, <1>4 DEF Reconcile

LEMMA InitFinalizer == Init => FinalizerInv
<1>1. Absent(0).uid = 0 /\ NoRecord.st = "none" /\ Absent(0).fin = FALSE
  BY DEF Absent, Fresh, NoRecord
<1> QED BY <1>1 DEF Init, FinalizerInv, FinalizerKept, Present, CreateSteps

\* An object that still exists under the same uid never loses its finalizer.
Advances(b) ==
  /\ backup[b].uid <= backup'[b].uid
  /\ (backup'[b].exists /\ backup'[b].uid = backup[b].uid)
       => backup[b].exists /\ (backup[b].fin => backup'[b].fin)

LEMMA FreshFields ==
  \A u : /\ Absent(u).uid = u /\ ~Absent(u).exists
        /\ NewBackup(u).uid = u /\ NewBackup(u).exists
BY DEF Absent, NewBackup, Fresh

LEMMA NextAdvances ==
  ASSUME TypeInv, [Next]_vars, NEW b \in Backups PROVE Advances(b)
<1>1. /\ backup \in [Backups -> BackupRecord] /\ backup[b] \in BackupRecord
      /\ backup[b].uid \in Int
      /\ pc # "idle" => cur \in Backups
  BY BoundAssumption DEF TypeInv, TypeOK, BackupRecord
<1>2. CASE backup' = backup
  BY <1>1, <1>2 DEF Advances
<1>3. CASE AddFinalizer
  <2>1. backup'[b] = backup[b] \/ backup'[b] = [backup[b] EXCEPT !.fin = TRUE]
    BY <1>1, <1>3 DEF AddFinalizer
  <2>2. /\ backup'[b].uid = backup[b].uid
        /\ backup'[b].exists = backup[b].exists
        /\ backup[b].fin => backup'[b].fin
    BY <1>1, <2>1 DEF BackupRecord
  <2> QED BY <1>1, <2>2 DEF Advances
<1>4. CASE RemoveFinalizer
  <2>1. CASE backup'[b] = backup[b]
    BY <1>1, <2>1 DEF Advances
  <2>2. CASE backup'[b] = Absent(backup[b].uid)
    BY <1>1, <2>2, FreshFields DEF Advances
  <2> QED BY <1>1, <1>4, <2>1, <2>2 DEF RemoveFinalizer
<1>5. CASE PatchStatus
  <2>1. /\ Merged(backup[b]).uid = backup[b].uid
        /\ Merged(backup[b]).exists = backup[b].exists
        /\ Merged(backup[b]).fin = backup[b].fin
    BY <1>1 DEF Merged, BackupRecord
  <2> QED BY <1>1, <1>5, <2>1 DEF PatchStatus, Advances
<1>6. CASE Users
  <2> PICK a \in Backups : CreateBackup(a) \/ EditBackup(a) \/ DeleteBackup(a)
    BY <1>6 DEF Users
  <2>1. CASE CreateBackup(a)
    <3>1. backup'[b] = backup[b] \/ backup'[b] = NewBackup(backup[b].uid + 1)
      BY <1>1, <2>1 DEF CreateBackup
    <3>2. CASE backup'[b] = backup[b]
      BY <1>1, <3>2 DEF Advances
    <3>3. CASE backup'[b] = NewBackup(backup[b].uid + 1)
      BY <1>1, <3>3, FreshFields DEF Advances
    <3> QED BY <3>1, <3>2, <3>3
  <2>2. CASE EditBackup(a)
    <3>1. backup'[b] = backup[b] \/ backup'[b] = [backup[b] EXCEPT !.spec = @ + 1]
      BY <1>1, <2>2 DEF EditBackup
    <3>2. /\ backup'[b].uid = backup[b].uid
          /\ backup'[b].exists = backup[b].exists
          /\ backup'[b].fin = backup[b].fin
      BY <1>1, <3>1 DEF BackupRecord
    <3> QED BY <1>1, <3>2 DEF Advances
  <2>3. CASE DeleteBackup(a)
    <3>1. \/ backup'[b] = backup[b]
          \/ backup'[b] = [backup[b] EXCEPT !.del = TRUE]
          \/ backup'[b] = Absent(backup[b].uid)
      BY <1>1, <2>3 DEF DeleteBackup
    <3>2. CASE backup'[b] = backup[b] \/ backup'[b] = [backup[b] EXCEPT !.del = TRUE]
      <4>1. /\ backup'[b].uid = backup[b].uid
            /\ backup'[b].exists = backup[b].exists
            /\ backup'[b].fin = backup[b].fin
        BY <1>1, <3>2 DEF BackupRecord
      <4> QED BY <1>1, <4>1 DEF Advances
    <3>3. CASE backup'[b] = Absent(backup[b].uid)
      BY <1>1, <3>3, FreshFields DEF Advances
    <3> QED BY <3>1, <3>2, <3>3
  <2> QED BY <2>1, <2>2, <2>3
<1>7. CASE (\E a \in Backups : Start(a)) \/ SyncBackups \/ SyncJobs \/ Restart \/ JobController
  BY <1>2, <1>7 DEF Start, SyncBackups, SyncJobs, Restart, JobController, PodFails, Upload,
                    JobSucceeds, JobFails, TTLRemove, api
<1>8. CASE Reconcile /\ ~AddFinalizer /\ ~RemoveFinalizer /\ ~PatchStatus
  BY <1>2, <1>8 DEF Reconcile, ListForCleanup, DeleteJob, CheckJobStatus, FindJobByLabels,
                    FindExistingJob, GetResources, CheckThrottling, CreateJob, api
<1> QED BY <1>2, <1>3, <1>4, <1>5, <1>6, <1>7, <1>8 DEF Next, vars, api

LEMMA KeptStep ==
  ASSUME TypeInv, [Next]_vars, NEW b \in Backups, NEW u \in Int, NEW f, FinalizerKept(b, u, f)
  PROVE  /\ u <= backup'[b].uid
         /\ (f = TRUE /\ backup'[b].exists /\ u = backup'[b].uid) => backup'[b].fin
<1>1. backup[b].uid \in Int /\ backup'[b].uid \in Int
  BY TypeStep, BoundAssumption DEF TypeInv, TypeOK, BackupRecord
<1>2. Advances(b)
  BY NextAdvances
<1> QED BY <1>1, <1>2 DEF FinalizerKept, Advances

LEMMA OnlyCreateJobAdds ==
  ASSUME TypeInv, [Next]_vars, ~\E r \in RunIDs : CreateJob(r), NEW n \in JobNames
  PROVE  Present(jobs, n)' => Present(jobs, n) /\ jobs'[n].uid = jobs[n].uid
<1>1. jobs \in [JobNames -> JobRecord] /\ todo \subseteq JobNames
  BY DEF TypeInv, TypeOK
<1>2. CASE DeleteJob
  <2>1. jobs'[n] = jobs[n] \/ jobs'[n].st = "none"
    BY <1>1, <1>2 DEF DeleteJob, NoRecord
  <2> QED BY <2>1 DEF Present
<1>3. CASE JobController
  <2> PICK m \in JobNames :
        PodFails(m) \/ Upload(m) \/ JobSucceeds(m) \/ JobFails(m) \/ TTLRemove(m)
    BY <1>3 DEF JobController
  <2>1. n # m => jobs'[n] = jobs[n]
    BY <1>1 DEF PodFails, Upload, JobSucceeds, JobFails, TTLRemove
  <2>2. Present(jobs, m)' => Present(jobs, m) /\ jobs'[m].uid = jobs[m].uid
    BY <1>1 DEF PodFails, Upload, JobSucceeds, JobFails, TTLRemove, Present, Live, With,
                NoRecord, JobRecord
  <2> QED BY <2>1, <2>2 DEF Present
<1>4. CASE jobs' = jobs
  BY <1>4 DEF Present
<1> QED BY <1>2, <1>3, <1>4
        DEF Next, vars, Reconcile, AddFinalizer, ListForCleanup, RemoveFinalizer,
            CheckJobStatus, FindJobByLabels, FindExistingJob, GetResources,
            CheckThrottling, PatchStatus, Start, SyncBackups, SyncJobs, Restart, Users,
            CreateBackup, EditBackup, DeleteBackup, api

LEMMA FinalizerStep ==
  ASSUME TypeInv, FinalizerInv, [Next]_vars PROVE FinalizerInv'
<1>0. TypeInv'
  BY TypeStep
<1>1. /\ \A b \in Backups : seenB[b].uid \in Int /\ backup'[b].uid \in Int
      /\ obj.uid \in Int /\ \A n \in JobNames : jobs[n].uid \in Int /\ n[1] \in Backups
      /\ pc # "idle" => cur \in Backups
      /\ jobs \in [JobNames -> JobRecord]
  BY <1>0, BoundAssumption DEF TypeInv, TypeOK, BackupRecord, JobRecord
<1>2. \A b \in Backups : FinalizerKept(b, seenB[b].uid, seenB[b].fin)'
  <2>1. seenB' = seenB \/ seenB' = backup
    BY DEF Next, vars, Reconcile, AddFinalizer, ListForCleanup, DeleteJob, RemoveFinalizer,
           CheckJobStatus, FindJobByLabels, FindExistingJob, GetResources, CheckThrottling,
           CreateJob, PatchStatus, Start, SyncBackups, SyncJobs, Restart, Users,
           CreateBackup, EditBackup, DeleteBackup, JobController, PodFails, Upload,
           JobSucceeds, JobFails, TTLRemove, cache
  <2>2. \A b \in Backups : FinalizerKept(b, backup[b].uid, backup[b].fin)
    BY BoundAssumption DEF FinalizerKept, TypeInv, TypeOK, BackupRecord
  <2>3. \A b \in Backups : backup[b].uid \in Int
    BY BoundAssumption DEF TypeInv, TypeOK, BackupRecord
  <2> QED BY <1>1, <2>1, <2>2, <2>3, KeptStep DEF FinalizerInv, FinalizerKept
<1>3. pc' # "idle" => FinalizerKept(cur, obj.uid, obj.fin)'
  <2>1. CASE UNCHANGED local \/ (Reconcile /\ ~PatchStatus)
    <3>1. pc' # "idle" => pc # "idle" /\ cur' = cur /\ obj' = obj
      BY <2>1, ReconcileKeeps DEF KeepsObj, local
    <3> QED BY <1>1, <3>1, KeptStep DEF FinalizerInv, FinalizerKept
  <2>2. CASE \E b \in Backups : Start(b)
    <3> PICK b \in Backups : Start(b)
      BY <2>2
    <3>1. pc' # "idle" => cur' = b /\ obj' = seenB[b]
      BY DEF Start
    <3> QED BY <1>1, <3>1, KeptStep DEF FinalizerInv, FinalizerKept
  <2>3. CASE PatchStatus
    <3>1. pc' # "idle" => cur' = cur /\ obj' = backup'[cur]
      BY <2>3, EvaluateSteps DEF PatchStatus, Return
    <3>2. cur \in Backups
      BY <1>1, <2>3 DEF PatchStatus
    <3> QED BY <1>1, <3>1, <3>2 DEF FinalizerKept
  <2>4. CASE Restart
    BY <2>4 DEF Restart
  <2> QED BY <2>1, <2>2, <2>3, <2>4
          DEF Next, vars, SyncBackups, SyncJobs, Users, CreateBackup, EditBackup,
              DeleteBackup, JobController, PodFails, Upload, JobSucceeds, JobFails, TTLRemove
<1>4. \A n \in JobNames : Present(jobs, n)' => FinalizerKept(n[1], jobs[n].uid, TRUE)'
  <2>1. CASE ~\E r \in RunIDs : CreateJob(r)
    BY <1>1, <2>1, OnlyCreateJobAdds, KeptStep DEF FinalizerInv, FinalizerKept
  <2>2. CASE \E r \in RunIDs : CreateJob(r)
    <3> PICK r \in RunIDs : CreateJob(r)
      BY <2>2
    <3>1. /\ pc \in CreateSteps /\ obj.fin /\ cur \in Backups /\ obj.fin \in BOOLEAN
          /\ FinalizerKept(cur, obj.uid, obj.fin)
      BY <1>1 DEF CreateJob, CreateSteps, FinalizerInv, TypeInv, TypeOK, BackupRecord
    <3>3. FinalizerKept(cur, obj.uid, TRUE)
      BY <3>1 DEF FinalizerKept
    <3>2. \A n \in JobNames : jobs'[n] = jobs[n]
                              \/ (n[1] = cur /\ jobs'[n].uid = obj.uid)
      BY <1>1, <3>1 DEF CreateJob, NewJob
    <3>4. /\ obj.uid <= backup'[cur].uid
          /\ backup'[cur].exists /\ obj.uid = backup'[cur].uid => backup'[cur].fin
      BY <1>1, <3>1, <3>3, KeptStep
    <3>5. ASSUME NEW n \in JobNames, Present(jobs, n)'
          PROVE  FinalizerKept(n[1], jobs[n].uid, TRUE)'
      <4>1. CASE jobs'[n] = jobs[n]
        BY <1>1, <3>5, <4>1, KeptStep DEF FinalizerInv, FinalizerKept, Present
      <4>2. CASE n[1] = cur /\ jobs'[n].uid = obj.uid
        BY <3>4, <4>2 DEF FinalizerKept
      <4> QED BY <3>2, <4>1, <4>2
    <3> QED BY <3>5
  <2> QED BY <2>1, <2>2
<1>5. pc' \in CreateSteps => obj'.fin
  <2>1. CASE UNCHANGED local \/ (Reconcile /\ ~PatchStatus)
    <3>1. pc' \in CreateSteps => pc \in CreateSteps /\ obj' = obj
      BY <2>1, ReconcileKeeps DEF KeepsObj, local, CreateSteps
    <3> QED BY <3>1 DEF FinalizerInv
  <2>2. CASE \E b \in Backups : Start(b)
    BY <2>2 DEF Start, FirstStep, CreateSteps, TypeInv, TypeOK, BackupRecord
  <2>3. CASE PatchStatus
    BY <2>3, EvaluateSteps DEF PatchStatus, Return, CreateSteps
  <2>4. CASE Restart
    BY <2>4 DEF Restart, CreateSteps
  <2> QED BY <2>1, <2>2, <2>3, <2>4
          DEF Next, vars, SyncBackups, SyncJobs, Users, CreateBackup, EditBackup,
              DeleteBackup, JobController, PodFails, Upload, JobSucceeds, JobFails, TTLRemove
<1> QED BY <1>2, <1>3, <1>4, <1>5 DEF FinalizerInv

LEMMA FinalizerInvariant == Spec => []FinalizerInv
BY InitFinalizer, TypeInvariant, FinalizerStep, PTL DEF Spec

\* Whatever the caches show, a job's Backup carries the finalizer as long as it exists, so
\* its deletion goes through the cleanup of its jobs.
THEOREM FinalizerBeforeJob == Spec => []JobImpliesFinalizer
<1>1. FinalizerInv => JobImpliesFinalizer
  BY DEF FinalizerInv, FinalizerKept, JobImpliesFinalizer
<1> QED BY FinalizerInvariant, <1>1, PTL

-----------------------------------------------------------------------------
(* One live job, if reads are not stale                                    *)

\* The argument findExistingJob rests on: with caches that have caught up, no job of the
\* current Backup exists while the worker is on its way from the check to the creation,
\* since nobody else creates jobs.
JoblessSteps == {"resources", "throttle", "create"}

SingleInv ==
  /\ \A m, n \in JobNames :
       (m[1] = n[1] /\ Present(jobs, m) /\ Present(jobs, n)) => m = n
  /\ pc \in JoblessSteps => \A n \in JobNames : n[1] = cur => ~Present(jobs, n)

LEMMA JoblessStep ==
  ASSUME TypeInv, [Next]_vars, pc' \in JoblessSteps
  PROVE  cur' = cur /\ (pc \in JoblessSteps
                        \/ (MayRead /\ jobs' = jobs /\ JobsOf(seenJ, cur) = {}))
<1>1. CASE UNCHANGED local
  BY <1>1 DEF local
<1>2. CASE \E b \in Backups : Start(b)
  BY <1>2 DEF Start, FirstStep, JoblessSteps
<1>3. CASE Restart
  BY <1>3 DEF Restart, JoblessSteps
<1>4. CASE AddFinalizer \/ RemoveFinalizer \/ ListForCleanup \/ DeleteJob
  BY <1>4 DEF AddFinalizer, RemoveFinalizer, ListForCleanup, DeleteJob, Return, JoblessSteps
<1>5. CASE CheckJobStatus \/ FindJobByLabels \/ PatchStatus
  BY <1>5, EvaluateSteps DEF CheckJobStatus, FindJobByLabels, PatchStatus, Goto, Return,
                             PatchPhase, PatchThen, JoblessSteps
<1>6. CASE FindExistingJob
  BY <1>6 DEF FindExistingJob, Goto, PatchThen, JoblessSteps, api
<1>7. CASE GetResources \/ CheckThrottling \/ \E r \in RunIDs : CreateJob(r)
  BY <1>7 DEF GetResources, CheckThrottling, CreateJob, Goto, PatchPhase, PatchThen,
              JoblessSteps
<1> QED BY <1>1, <1>2, <1>3, <1>4, <1>5, <1>6, <1>7
        DEF Next, vars, Reconcile, SyncBackups, SyncJobs, Users, CreateBackup, EditBackup,
            DeleteBackup, JobController, PodFails, Upload, JobSucceeds, JobFails, TTLRemove

LEMMA SingleStep ==
  ASSUME TypeInv, LagAllowed = FALSE, SingleInv, [Next]_vars PROVE SingleInv'
<1>1. jobs \in [JobNames -> JobRecord]
  BY DEF TypeInv, TypeOK
<1>2. CASE ~\E r \in RunIDs : CreateJob(r)
  <2>1. \A n \in JobNames : Present(jobs, n)' => Present(jobs, n)
    BY <1>2, OnlyCreateJobAdds
  <2>2. (MayRead /\ jobs' = jobs /\ JobsOf(seenJ, cur) = {})
          => \A n \in JobNames : n[1] = cur => ~Present(jobs, n)'
    BY <2>1 DEF MayRead, CaughtUp, JobsOf, Present
  <2> QED BY <2>1, <2>2, JoblessStep DEF SingleInv
<1>3. CASE \E r \in RunIDs : CreateJob(r)
  <2> PICK r \in RunIDs : CreateJob(r)
    BY <1>3
  <2> DEFINE k == <<cur, r>>
  <2>1. /\ pc \in JoblessSteps /\ pc' \notin JoblessSteps
        /\ \A n \in JobNames : n # k => jobs'[n] = jobs[n]
    BY <1>1 DEF CreateJob, Goto, PatchThen, PatchPhase, JoblessSteps
  <2>2. \A n \in JobNames : n[1] = cur => ~Present(jobs, n)
    BY <2>1 DEF SingleInv
  <2>3. \A n \in JobNames : Present(jobs, n)' => n = k \/ (Present(jobs, n) /\ n[1] # cur)
    BY <2>1, <2>2 DEF Present
  <2> QED BY <2>1, <2>3 DEF SingleInv
<1> QED BY <1>2, <1>3

\* With caches that have caught up at each read, a Backup never has two live jobs: the
\* property the comment of createBackupJobIfAllowed claims holds under this assumption.
THEOREM OneLiveJob == LagAllowed = FALSE /\ Spec => []AtMostOneLiveJob
<1>1. Init => SingleInv
  BY DEF Init, SingleInv, Present, NoRecord, JoblessSteps
<1>2. SingleInv => AtMostOneLiveJob
  BY DEF SingleInv, AtMostOneLiveJob, Present, Live
<1>3. CASE LagAllowed = FALSE
  <2>1. TypeInv /\ SingleInv /\ [Next]_vars => SingleInv'
    BY <1>3, SingleStep
  <2> QED BY <1>1, <1>2, <2>1, TypeInvariant, PTL DEF Spec
<1> QED BY <1>3

-----------------------------------------------------------------------------
(* What a step may do to a Backup                                          *)

\* The Backup goes on under its metadata, and with its status as well.
SameObject(b) ==
  /\ backup'[b].exists = backup[b].exists /\ backup'[b].uid = backup[b].uid
  /\ backup'[b].fin = backup[b].fin
SameStatus(b) == backup'[b].phase = backup[b].phase /\ backup'[b].hash = backup[b].hash
Gone(b) == backup'[b] = Absent(backup[b].uid)

Patched(b) ==
  /\ backup[b].exists /\ SameObject(b) /\ backup'[b].spec = backup[b].spec
  /\ backup'[b].phase = IF to.phase # obj.phase THEN to.phase ELSE backup[b].phase
  /\ backup'[b].hash = IF hash # obj.hash THEN hash ELSE backup[b].hash
Born(b) ==
  ~backup[b].exists /\ backup'[b] = NewBackup(backup[b].uid + 1) /\ UNCHANGED <<local, jobs, dumps, faults>>
Edited(b) ==
  /\ SameObject(b) /\ SameStatus(b) /\ backup'[b].spec = backup[b].spec + 1 /\ UNCHANGED local
Doomed(b) ==
  /\ UNCHANGED <<local, jobs, dumps, faults>> /\ backup[b].exists
  /\ \/ backup[b].fin /\ SameObject(b) /\ SameStatus(b) /\ backup'[b].spec = backup[b].spec
     \/ ~backup[b].fin /\ Gone(b)

LEMMA BackupSteps ==
  ASSUME TypeInv, [Next]_vars, NEW b \in Backups
  PROVE  \/ backup'[b] = backup[b]
         \/ AddFinalizer /\ b = cur /\ backup'[b] = [backup[b] EXCEPT !.fin = TRUE]
         \/ RemoveFinalizer /\ b = cur /\ backup[b] = obj /\ Gone(b)
         \/ PatchStatus /\ b = cur /\ Patched(b)
         \/ Born(b) \/ Edited(b) \/ Doomed(b)
<1>1. /\ backup \in [Backups -> BackupRecord] /\ backup[b] \in BackupRecord
      /\ pc # "idle" => cur \in Backups
  BY DEF TypeInv, TypeOK
<1>2. CASE backup' = backup
  BY <1>2
<1>3. CASE AddFinalizer
  BY <1>1, <1>3 DEF AddFinalizer
<1>4. CASE RemoveFinalizer
  BY <1>1, <1>4 DEF RemoveFinalizer, Gone
<1>5. CASE PatchStatus
  <2>1. backup'[b] = backup[b] \/ (b = cur /\ backup[b].exists /\ backup'[b] = Merged(backup[b]))
    BY <1>1, <1>5 DEF PatchStatus
  <2> DEFINE a == backup[b]
             phase == IF to.phase # obj.phase THEN to.phase ELSE a.phase
             h == IF hash # obj.hash THEN hash ELSE a.hash
             m == Merged(a)
  <2>2. m.exists = a.exists /\ m.uid = a.uid /\ m.fin = a.fin /\ m.spec = a.spec
    BY <1>1 DEF Merged, BackupRecord
  <2>3. m.phase = phase /\ m.hash = h
    BY <1>1 DEF Merged, BackupRecord
  <2> QED BY <1>5, <2>1, <2>2, <2>3 DEF Patched, SameObject
<1>6. ASSUME NEW a \in Backups, CreateBackup(a) \/ EditBackup(a) \/ DeleteBackup(a)
      PROVE  backup'[b] = backup[b] \/ Born(b) \/ Edited(b) \/ Doomed(b)
  <2>1. a # b => backup'[b] = backup[b]
    BY <1>1, <1>6 DEF CreateBackup, EditBackup, DeleteBackup
  <2>2. CASE CreateBackup(b)
    BY <1>1, <2>2 DEF CreateBackup, Born
  <2>3. CASE EditBackup(b)
    BY <1>1, <2>3 DEF EditBackup, Edited, SameObject, SameStatus, BackupRecord
  <2>4. CASE DeleteBackup(b)
    BY <1>1, <2>4 DEF DeleteBackup, Doomed, Gone, SameObject, SameStatus, BackupRecord
  <2> QED BY <1>6, <2>1, <2>2, <2>3, <2>4
<1>7. CASE Reconcile /\ ~AddFinalizer /\ ~RemoveFinalizer /\ ~PatchStatus
  BY <1>2, <1>7 DEF Reconcile, ListForCleanup, DeleteJob, CheckJobStatus, FindJobByLabels,
                    FindExistingJob, GetResources, CheckThrottling, CreateJob, api
<1>8. CASE (\E a \in Backups : Start(a)) \/ SyncBackups \/ SyncJobs \/ Restart \/ JobController
  BY <1>2, <1>8 DEF Start, SyncBackups, SyncJobs, Restart, JobController, PodFails, Upload,
                    JobSucceeds, JobFails, TTLRemove, api
<1> QED BY <1>2, <1>3, <1>4, <1>5, <1>6, <1>7, <1>8 DEF Next, Users, vars, api

-----------------------------------------------------------------------------
(* The Backup under the worker, if reads are not stale                     *)

\* The worker holds an object with the finalizer, which nobody else can make disappear: what
\* it read stays true but for edits of the spec.  Nothing but its own patch touches the
\* status, so what was not processed when it began is not until it patches.
Busy == pc \notin {"idle", "finalizer"}
Working == Busy /\ pc \notin {"cleanup", "delete"}
Held ==
  /\ Busy => /\ backup[cur].exists /\ backup[cur].uid = obj.uid /\ backup[cur].fin
             /\ backup[cur].phase = obj.phase /\ hash <= backup[cur].spec
  /\ Working => ~Processed(cur)
  /\ (pc = "patch" /\ copy # NoSnapshot) => to.phase = "Running"
Plain ==
  \A b \in Backups : /\ backup[b].hash <= backup[b].spec
                     /\ ~backup[b].exists => backup[b].phase \notin Terminal
HeldInv == Held /\ Plain

\* How the worker comes to be busy, and stays so.
Begins(b) ==
  /\ MayRead /\ UNCHANGED <<api, cache, faults>>
  /\ cur' = b /\ obj' = seenB[b] /\ hash' = seenB[b].spec
  /\ seenB[b].exists /\ seenB[b].fin
  /\ pc' \in {"cleanup", "check", "find"}
  /\ pc' # "cleanup" => ~AlreadyProcessed(seenB[b])
GoesOn ==
  /\ Busy /\ UNCHANGED <<cur, hash>> /\ (Working' => Working)
  /\ obj' = IF PatchStatus THEN backup'[cur] ELSE obj
LEMMA BusyStep ==
  ASSUME TypeInv, [Next]_vars, Busy' PROVE GoesOn \/ \E b \in Backups : Begins(b)
<1>1. CASE UNCHANGED local /\ ~PatchStatus
  BY <1>1 DEF local, Busy, Working, GoesOn
<1>2. ASSUME NEW b \in Backups, Start(b) PROVE Begins(b)
  BY <1>2 DEF Start, FirstStep, Busy, Begins
<1>3. CASE Restart
  BY <1>3 DEF Restart, Busy
<1>4. CASE AddFinalizer \/ RemoveFinalizer \/ ListForCleanup \/ DeleteJob
  BY <1>4 DEF AddFinalizer, RemoveFinalizer, ListForCleanup, DeleteJob, PatchStatus, Return,
              Busy, Working, GoesOn
<1>5. CASE CheckJobStatus \/ FindJobByLabels
  <2>1. pc' \in {"labels", "patch"} /\ cur' = cur /\ obj' = obj /\ hash' = hash
    <3>1. ASSUME NEW c, Evaluate(obj, c)
          PROVE  pc' \in {"idle", "patch"} /\ (pc' = "patch" => cur' = cur /\ obj' = obj /\ hash' = hash)
      BY <3>1 DEF Evaluate, Return, PatchPhase, PatchThen, JobVerdict
    <3> QED BY <1>5, <3>1 DEF CheckJobStatus, FindJobByLabels, Goto, PatchPhase, PatchThen, Busy
  <2> QED BY <1>5, <2>1 DEF CheckJobStatus, FindJobByLabels, PatchStatus, Busy, Working, GoesOn
<1>6. CASE FindExistingJob \/ GetResources \/ CheckThrottling \/ \E r \in RunIDs : CreateJob(r)
  BY <1>6 DEF FindExistingJob, GetResources, CheckThrottling, CreateJob, PatchStatus, Goto, PatchPhase,
              PatchThen, Busy, Working, GoesOn
<1>7. CASE PatchStatus
  <2>1. PICK c : Evaluate(backup'[cur], c)
    BY <1>7 DEF PatchStatus, Return, Busy
  <2>2. cur' = cur /\ obj' = backup'[cur] /\ hash' = hash /\ pc' = "patch"
    BY <2>1 DEF Evaluate, Return, PatchPhase, PatchThen, JobVerdict, Busy
  <2> QED BY <1>7, <2>2 DEF PatchStatus, Busy, Working, GoesOn
<1> QED BY <1>1, <1>2, <1>3, <1>4, <1>5, <1>6, <1>7
        DEF Next, vars, Reconcile, SyncBackups, SyncJobs, Users, CreateBackup, EditBackup,
            DeleteBackup, JobController, PodFails, Upload, JobSucceeds, JobFails, TTLRemove

LEMMA BlankFields ==
  \A u : /\ Absent(u).hash = 0 /\ Absent(u).spec = 0 /\ Absent(u).phase \notin Terminal
        /\ NewBackup(u).hash = 0 /\ NewBackup(u).spec = 1
        /\ NewBackup(u).exists /\ NewBackup(u).phase \notin Terminal
<1>1. \A u : Absent(u).phase \notin Terminal /\ NewBackup(u).phase \notin Terminal
  BY Zenon DEF Absent, NewBackup, Fresh, Terminal
<1>2. \A u : Absent(u).hash = 0 /\ NewBackup(u).hash = 0
  BY Zenon DEF Absent, NewBackup, Fresh
<1>3. \A u : Absent(u).spec = 0 /\ NewBackup(u).spec = 1 /\ NewBackup(u).exists
  BY Zenon DEF Absent, NewBackup, Fresh
<1> QED BY <1>1, <1>2, <1>3

LEMMA InitHeld == Init => HeldInv
<1> SUFFICES ASSUME Init PROVE HeldInv
  OBVIOUS
<1>1. pc = "idle" /\ \A b \in Backups : backup[b] = Absent(0)
  BY DEF Init
<1>2. Held
  BY <1>1 DEF Held, Busy, Working
<1>3. Plain
  BY <1>1, BlankFields DEF Plain
<1> QED BY <1>2, <1>3 DEF HeldInv

LEMMA BackupFields ==
  ASSUME TypeInv, NEW b \in Backups
  PROVE  backup[b] \in BackupRecord /\ backup[b].hash \in Int /\ backup[b].spec \in Int
         /\ hash \in Int
BY BoundAssumption DEF TypeInv, TypeOK, BackupRecord

LEMMA PlainStep == ASSUME TypeInv, HeldInv, [Next]_vars PROVE Plain'
<1> SUFFICES ASSUME NEW b \in Backups
             PROVE  /\ backup'[b].hash <= backup'[b].spec
                    /\ ~backup'[b].exists => backup'[b].phase \notin Terminal
  BY DEF Plain
<1>1. /\ backup[b] \in BackupRecord /\ backup[b].hash \in Int /\ backup[b].spec \in Int
      /\ hash \in Int
  BY BackupFields
<1>2. /\ backup[b].hash <= backup[b].spec
      /\ ~backup[b].exists => backup[b].phase \notin Terminal
  BY DEF HeldInv, Plain
<1>3. CASE backup'[b] = backup[b]
  BY <1>2, <1>3
<1>4. CASE AddFinalizer /\ backup'[b] = [backup[b] EXCEPT !.fin = TRUE]
  <2>1. /\ backup'[b].hash = backup[b].hash /\ backup'[b].spec = backup[b].spec
        /\ backup'[b].exists = backup[b].exists /\ backup'[b].phase = backup[b].phase
    BY <1>1, <1>4 DEF BackupRecord
  <2> QED BY <1>2, <2>1
<1>5. CASE Gone(b) \/ Born(b)
  <2>1. \E u : backup'[b] = Absent(u) \/ backup'[b] = NewBackup(u)
    BY Zenon, <1>5 DEF Gone, Born
  <2> QED BY <2>1, BlankFields
<1>6. CASE PatchStatus /\ b = cur /\ Patched(b)
  <2>1. hash <= backup[b].spec /\ backup[b].exists
    BY <1>6 DEF PatchStatus, HeldInv, Held, Busy
  <2>2. backup'[b].hash <= backup'[b].spec
    BY <1>1, <1>2, <1>6, <2>1 DEF Patched
  <2> QED BY <1>6, <2>1, <2>2 DEF Patched, SameObject
<1>7. CASE Edited(b)
  BY <1>1, <1>2, <1>7 DEF Edited, SameObject, SameStatus
<1>8. CASE Doomed(b)
  BY <1>1, <1>2, <1>5, <1>8 DEF Doomed, SameObject, SameStatus
<1> QED BY <1>3, <1>4, <1>5, <1>6, <1>7, <1>8, BackupSteps

\* A job is looked at again after a patch only when the patch adopts it.
LEMMA CopyStep ==
  ASSUME [Next]_vars, (pc = "patch" /\ copy # NoSnapshot) => to.phase = "Running",
         pc' = "patch", copy' # NoSnapshot
  PROVE  to'.phase = "Running"
<1>1. CASE UNCHANGED local
  BY <1>1 DEF local
<1>2. CASE (\E b \in Backups : Start(b)) \/ Restart
  BY <1>2 DEF Start, FirstStep, Restart
<1>3. CASE AddFinalizer \/ RemoveFinalizer \/ ListForCleanup \/ DeleteJob
  BY <1>3 DEF AddFinalizer, RemoveFinalizer, ListForCleanup, DeleteJob, Return
<1>4. ASSUME NEW o, NEW c, Evaluate(o, c) PROVE FALSE
  BY <1>4 DEF Evaluate, Return, PatchPhase, PatchThen, JobVerdict
<1>5. CASE CheckJobStatus \/ PatchStatus
  BY <1>4, <1>5 DEF CheckJobStatus, PatchStatus, Goto, Return
<1>6. CASE FindJobByLabels \/ FindExistingJob
  BY <1>4, <1>6 DEF FindJobByLabels, FindExistingJob, Goto, PatchPhase, PatchThen
<1>7. CASE GetResources \/ CheckThrottling \/ \E r \in RunIDs : CreateJob(r)
  BY <1>7 DEF GetResources, CheckThrottling, CreateJob, Goto, PatchPhase, PatchThen
<1> QED BY <1>1, <1>2, <1>3, <1>5, <1>6, <1>7
        DEF Next, vars, Reconcile, SyncBackups, SyncJobs, Users, CreateBackup, EditBackup,
            DeleteBackup, JobController, PodFails, Upload, JobSucceeds, JobFails, TTLRemove

LEMMA HeldStep ==
  ASSUME TypeInv, LagAllowed = FALSE, HeldInv, [Next]_vars PROVE HeldInv'
<1>1. \A b \in Backups : /\ backup[b] \in BackupRecord
                         /\ backup[b].hash \in Int /\ backup[b].spec \in Int /\ hash \in Int
                         /\ backup[b].hash <= backup[b].spec
  BY BackupFields DEF HeldInv, Plain
<1>2. ASSUME Busy'
      PROVE  /\ backup'[cur'].exists /\ backup'[cur'].uid = obj'.uid /\ backup'[cur'].fin
             /\ backup'[cur'].phase = obj'.phase /\ hash' <= backup'[cur'].spec
             /\ (Working' /\ ~PatchStatus) => ~Processed(cur)'
  <2>1. CASE GoesOn
    <3>1. /\ cur \in Backups /\ cur' = cur /\ hash' = hash /\ pc \notin {"idle", "finalizer"}
          /\ backup[cur].exists /\ backup[cur].uid = obj.uid /\ backup[cur].fin
          /\ hash <= backup[cur].spec /\ (Working => ~Processed(cur))
          /\ backup[cur].phase = obj.phase
      BY <2>1 DEF GoesOn, HeldInv, Held, Busy, TypeInv, TypeOK
    <3>2. /\ SameObject(cur) /\ hash <= backup'[cur].spec
          /\ ~PatchStatus => backup'[cur].phase = backup[cur].phase
          /\ (Working /\ ~PatchStatus) => ~Processed(cur)'
      <4>1. CASE backup'[cur] = backup[cur]
        BY <3>1, <4>1 DEF SameObject, Processed
      <4>2. CASE PatchStatus /\ Patched(cur)
        BY <3>1, <4>2 DEF Patched
      <4>3. CASE Edited(cur)
        BY <1>1, <3>1, <4>3 DEF Edited, SameStatus, Processed
      <4>4. CASE Doomed(cur)
        BY <3>1, <4>4 DEF Doomed, SameStatus, Processed
      <4>5. ~AddFinalizer /\ ~RemoveFinalizer /\ ~Born(cur)
        BY <3>1, <1>2 DEF AddFinalizer, RemoveFinalizer, Return, Born, Busy
      <4> QED BY <3>1, <4>1, <4>2, <4>3, <4>4, <4>5, BackupSteps
    <3>3. obj'.uid = obj.uid
      BY <2>1, <3>1, <3>2 DEF GoesOn, SameObject
    <3> QED BY <2>1, <3>1, <3>2, <3>3 DEF GoesOn, SameObject, Processed
  <2>2. ASSUME NEW b \in Backups, Begins(b)
        PROVE  /\ backup'[cur'].exists /\ backup'[cur'].uid = obj'.uid /\ backup'[cur'].fin
               /\ backup'[cur'].phase = obj'.phase /\ hash' <= backup'[cur'].spec
               /\ Working' => ~Processed(cur)'
    <3>1. seenB = backup /\ backup' = backup /\ cur' = b
      BY <2>2 DEF Begins, MayRead, CaughtUp, api
    <3> QED BY <1>1, <2>2, <3>1 DEF Begins, AlreadyProcessed, Processed, Working
  <2> QED BY <1>2, <2>1, <2>2, BusyStep
<1>3. ASSUME PatchStatus, Busy'
      PROVE  ~Processed(cur)'
  <2>1. PICK c : Evaluate(backup'[cur], c)
    BY <1>3 DEF PatchStatus, Return, Busy
  <2>2. cur' = cur /\ cur \in Backups /\ pc = "patch"
    BY <1>3, <2>1 DEF Evaluate, Return, PatchPhase, PatchThen, JobVerdict, Busy, PatchStatus,
                      TypeInv, TypeOK
  <2>3. copy # NoSnapshot /\ backup' = [backup EXCEPT ![cur] = Merged(backup[cur])]
    BY <1>3 DEF PatchStatus, Return, Busy
  <2>4. to.phase = "Running" /\ ~Processed(cur)
    BY <2>2, <2>3 DEF HeldInv, Held, Busy, Working
  <2>5. backup'[cur].phase = "Running"
    <3>1. backup[cur].phase = obj.phase
      BY <2>2 DEF HeldInv, Held, Busy
    <3> QED BY <1>1, <2>2, <2>3, <2>4, <3>1 DEF Merged, BackupRecord, TypeInv, TypeOK
  <2> QED BY <2>2, <2>5 DEF Processed, Terminal
<1>4. (pc' = "patch" /\ copy' # NoSnapshot) => to'.phase = "Running"
  BY CopyStep DEF HeldInv, Held
<1> QED BY <1>2, <1>3, <1>4, PlainStep DEF HeldInv, Held, Busy, Working

LEMMA HeldInvariant == LagAllowed = FALSE /\ Spec => []HeldInv
<1>1. CASE LagAllowed = FALSE
  <2>1. TypeInv /\ HeldInv /\ [Next]_vars => HeldInv'
    BY <1>1, HeldStep
  <2> QED BY <2>1, InitHeld, TypeInvariant, PTL DEF Spec
<1> QED BY <1>1

\* A Backup that is processed stays as it is until its spec changes or it goes, at every
\* step: the only writer of the status works on a Backup that is not processed.
THEOREM TerminalStays == LagAllowed = FALSE /\ Spec => TerminalSticky
<1>1. ASSUME TypeInv, HeldInv, [Next]_vars
      PROVE  [\A b \in Backups :
                (Processed(b) /\ backup'[b].exists /\ backup'[b].spec = backup[b].spec)
                  => backup'[b].phase = backup[b].phase]_vars
  <2> SUFFICES ASSUME NEW b \in Backups, Processed(b), backup'[b].exists,
                      backup'[b].spec = backup[b].spec
               PROVE  backup'[b].phase = backup[b].phase
    OBVIOUS
  <2>1. backup[b] \in BackupRecord /\ backup[b].spec \in Int
    BY <1>1, BackupFields
  <2>2. CASE AddFinalizer /\ backup'[b] = [backup[b] EXCEPT !.fin = TRUE]
    BY <2>1, <2>2 DEF BackupRecord
  <2>3. ~Gone(b)
    BY FreshFields DEF Gone
  <2>4. ~Born(b)
    BY <1>1 DEF Born, Processed, HeldInv, Plain
  <2>5. ~Edited(b)
    BY <2>1 DEF Edited
  <2>6. ~(PatchStatus /\ b = cur)
    BY <1>1 DEF PatchStatus, HeldInv, Held, Working, Busy
  <2> QED BY <1>1, <2>2, <2>3, <2>4, <2>5, <2>6, BackupSteps DEF Doomed, SameStatus
<1> QED BY <1>1, HeldInvariant, TypeInvariant, PTL DEF Spec, TerminalSticky

-----------------------------------------------------------------------------
(* No job outlives its Backup, if reads are not stale and no call fails    *)

\* What makes NoOrphanJob inductive: every job there is, running or not, belongs to the
\* object that exists, and handleDeletion has all of them on its list until they are gone.
OwnJobs ==
  /\ \A n \in JobNames :
       Present(jobs, n) => backup[n[1]].exists /\ backup[n[1]].uid = jobs[n].uid
  /\ pc = "delete" => \A n \in JobNames : (Present(jobs, n) /\ n[1] = cur) => n \in todo
OwnJobsInv == faults = 0 => OwnJobs

LEMMA FaultsGrow ==
  ASSUME TypeInv, [Next]_vars PROVE faults' = faults \/ (Fault /\ faults' # 0)
<1>1. faults \in Nat
  BY BoundAssumption DEF TypeInv, TypeOK
<1>2. Fault => faults' # 0
  BY <1>1 DEF Fault
<1> QED BY <1>2
        DEF Next, vars, Reconcile, AddFinalizer, ListForCleanup, DeleteJob, RemoveFinalizer,
            CheckJobStatus, FindJobByLabels, FindExistingJob, GetResources, CheckThrottling,
            CreateJob, PatchStatus, Start, SyncBackups, SyncJobs, Restart, Users,
            CreateBackup, EditBackup, DeleteBackup, JobController, PodFails, Upload,
            JobSucceeds, JobFails, TTLRemove

LEMMA DeleteSteps ==
  ASSUME [Next]_vars, pc' = "delete"
  PROVE  cur' = cur /\ (ListForCleanup \/ (pc = "delete" /\ (DeleteJob \/ UNCHANGED todo)))
<1>1. CASE UNCHANGED local
  BY <1>1 DEF local
<1>2. CASE (\E b \in Backups : Start(b)) \/ Restart
  BY <1>2 DEF Start, FirstStep, Restart
<1>3. CASE AddFinalizer \/ RemoveFinalizer \/ ListForCleanup \/ DeleteJob
  BY <1>3 DEF AddFinalizer, RemoveFinalizer, ListForCleanup, DeleteJob, Return
<1>4. ASSUME NEW o, NEW c, Evaluate(o, c) PROVE FALSE
  BY <1>4 DEF Evaluate, Return, PatchPhase, PatchThen, JobVerdict
<1>5. CASE CheckJobStatus \/ PatchStatus
  BY <1>4, <1>5 DEF CheckJobStatus, PatchStatus, Goto, Return
<1>6. CASE FindJobByLabels \/ FindExistingJob
  BY <1>4, <1>6 DEF FindJobByLabels, FindExistingJob, Goto, PatchPhase, PatchThen
<1>7. CASE GetResources \/ CheckThrottling \/ \E r \in RunIDs : CreateJob(r)
  BY <1>7 DEF GetResources, CheckThrottling, CreateJob, Goto, PatchPhase, PatchThen
<1> QED BY <1>1, <1>2, <1>3, <1>5, <1>6, <1>7
        DEF Next, vars, Reconcile, SyncBackups, SyncJobs, Users, CreateBackup, EditBackup,
            DeleteBackup, JobController, PodFails, Upload, JobSucceeds, JobFails, TTLRemove

\* What CreateJob adds belongs to the Backup under the worker.
LEMMA CreatedIsOwn ==
  ASSUME TypeInv, HeldInv, NEW r \in RunIDs, CreateJob(r), NEW n \in JobNames
  PROVE  \/ jobs'[n] = jobs[n]
         \/ /\ n = <<cur, r>> /\ ~Present(jobs, n) /\ jobs'[n] = NewJob(obj)
            /\ backup[cur].exists /\ backup[cur].uid = obj.uid /\ backup' = backup
BY DEF CreateJob, HeldInv, Held, Busy, TypeInv, TypeOK

LEMMA OwnJobsStep ==
  ASSUME TypeInv, FinalizerInv, LagAllowed = FALSE, HeldInv, OwnJobsInv, [Next]_vars
  PROVE  OwnJobsInv'
<1> SUFFICES ASSUME faults' = 0 PROVE OwnJobs'
  BY DEF OwnJobsInv
<1>1. OwnJobs /\ ~Fault
  BY FaultsGrow DEF OwnJobsInv, Fault
<1>2. ASSUME NEW n \in JobNames, Present(jobs, n)'
      PROVE  backup'[n[1]].exists /\ backup'[n[1]].uid = jobs'[n].uid
  <2> DEFINE b == n[1]
  <2>1. b \in Backups
    OBVIOUS
  <2>2. CASE ~\E r \in RunIDs : CreateJob(r)
    <3>1. /\ Present(jobs, n) /\ jobs'[n].uid = jobs[n].uid
          /\ backup[b].exists /\ backup[b].uid = jobs[n].uid
      BY <1>1, <1>2, <2>2, OnlyCreateJobAdds DEF OwnJobs
    <3>2. backup[b].fin /\ backup[b] \in BackupRecord
      BY <2>1, <3>1, BackupFields DEF FinalizerInv, FinalizerKept
    <3>3. CASE AddFinalizer /\ backup'[b] = [backup[b] EXCEPT !.fin = TRUE]
      BY <3>1, <3>2, <3>3 DEF BackupRecord
    <3>4. ~(RemoveFinalizer /\ b = cur)
      BY <1>1, <3>1 DEF RemoveFinalizer, OwnJobs
    <3> QED BY <2>1, <3>1, <3>2, <3>3, <3>4, BackupSteps
            DEF Patched, Born, Edited, Doomed, SameObject
  <2>3. ASSUME NEW r \in RunIDs, CreateJob(r)
        PROVE  backup'[b].exists /\ backup'[b].uid = jobs'[n].uid
    <3>1. backup' = backup /\ NewJob(obj).uid = obj.uid
      BY <2>3 DEF CreateJob, NewJob
    <3> QED BY <1>1, <1>2, <2>3, <3>1, CreatedIsOwn DEF OwnJobs, Present
  <2> QED BY <2>2, <2>3
<1>3. ASSUME pc' = "delete", NEW n \in JobNames, Present(jobs, n)', n[1] = cur'
      PROVE  n \in todo'
  <2>1. cur' = cur /\ (ListForCleanup \/ (pc = "delete" /\ (DeleteJob \/ UNCHANGED todo)))
    BY <1>3, DeleteSteps
  <2>2. CASE ListForCleanup
    BY <1>3, <2>1, <2>2 DEF ListForCleanup, JobsOf, MayRead, CaughtUp, Present, api
  <2>3. CASE pc = "delete"
    <3>1. Present(jobs, n)
      BY <1>3, <2>3, OnlyCreateJobAdds DEF CreateJob
    <3>2. n \in todo
      BY <1>1, <1>3, <2>1, <2>3, <3>1 DEF OwnJobs
    <3>3. CASE DeleteJob
      <4>1. ASSUME NEW m \in todo, jobs' = [jobs EXCEPT ![m] = NoRecord], todo' = todo \ {m}
            PROVE  n \in todo'
        BY <1>3, <3>2, <4>1 DEF Present, NoRecord, TypeInv, TypeOK
      <4> QED BY <1>1, <3>3, <4>1 DEF DeleteJob
    <3> QED BY <2>1, <2>3, <3>2, <3>3 DEF ListForCleanup
  <2> QED BY <2>1, <2>2, <2>3
<1> QED BY <1>2, <1>3 DEF OwnJobs

LEMMA OwnJobsInvariant == LagAllowed = FALSE /\ Spec => []OwnJobsInv
<1>1. Init => OwnJobsInv
  BY DEF Init, OwnJobsInv, OwnJobs, Present, NoRecord
<1>2. CASE LagAllowed = FALSE
  <2>1. TypeInv /\ FinalizerInv /\ HeldInv /\ OwnJobsInv /\ [Next]_vars => OwnJobsInv'
    BY <1>2, OwnJobsStep
  <2> QED BY <1>1, <1>2, <2>1, HeldInvariant, FinalizerInvariant, TypeInvariant, PTL DEF Spec
<1> QED BY <1>2

\* As long as no call fails, whatever restarts there are, handleDeletion has deleted every
\* job of the Backup when it releases it, and the job that is created belongs to the object
\* that exists.
THEOREM JobsGoWithBackup == LagAllowed = FALSE /\ Spec => []NoOrphanJob
<1>1. OwnJobsInv => NoOrphanJob
  BY DEF OwnJobsInv, OwnJobs, NoOrphanJob, Present, Live
<1> QED BY <1>1, OwnJobsInvariant, PTL

-----------------------------------------------------------------------------
(* Completed by a dump of its own, if reads are not stale and no call fails *)

\* A job that has a dump has one made for the object it was created for, and what the
\* worker is about to report rests on such a job of its own Backup.
OwnDump(b, u) == \E d \in dumps : d.job[1] = b /\ d.uid = u
OwnDumps ==
  /\ \A n \in JobNames :
       jobs[n].st \in {"uploaded", "succeeded"} => OwnDump(n[1], jobs[n].uid)
  /\ faults = 0 =>
       /\ (pc = "patch" /\ (to.phase = "Completed" \/ copy.job.st = "succeeded"))
            => OwnDump(cur, obj.uid)
       /\ \A b \in Backups : backup[b].phase = "Completed" => OwnDump(b, backup[b].uid)

LEMMA DumpsGrow == ASSUME [Next]_vars PROVE dumps \subseteq dumps'
BY DEF Next, vars, Reconcile, AddFinalizer, ListForCleanup, DeleteJob, RemoveFinalizer,
       CheckJobStatus, FindJobByLabels, FindExistingJob, GetResources, CheckThrottling,
       CreateJob, PatchStatus, Start, SyncBackups, SyncJobs, Restart, Users,
       CreateBackup, EditBackup, DeleteBackup, JobController, PodFails, Upload,
       JobSucceeds, JobFails, TTLRemove, api

LEMMA OwnDumpStays == ASSUME [Next]_vars, NEW b, NEW u, OwnDump(b, u) PROVE OwnDump(b, u)'
BY DumpsGrow DEF OwnDump

\* How the worker comes to patch a status: it has patched none yet, it has looked at a job
\* of its Backup, it looks at one again after a patch, or it reports no success.
Looked(n) ==
  /\ pc \in {"check", "labels", "find"} /\ MayRead /\ UNCHANGED <<api, cur, obj>>
  /\ n[1] = cur /\ Present(seenJ, n)
  /\ to'.phase = "Completed" => seenJ[n].st = "succeeded"
  /\ copy' \in {NoSnapshot, SnapshotOf(n)}
LookedAgain ==
  /\ PatchStatus /\ cur' = cur /\ obj' = backup'[cur] /\ copy' = NoSnapshot
  /\ to'.phase = "Completed" => copy.job.st = "succeeded"

LEMMA PatchCause ==
  ASSUME TypeInv, BackedInv, [Next]_vars, pc' = "patch"
  PROVE  \/ UNCHANGED local
         \/ \E n \in JobNames : Looked(n)
         \/ LookedAgain
         \/ copy' = NoSnapshot /\ to'.phase # "Completed"
<1>1. ASSUME NEW o, NEW c, Evaluate(o, c)
      PROVE  /\ cur' = cur /\ obj' = o /\ copy' = NoSnapshot
             /\ to'.phase = "Completed" => c.job.st = "succeeded"
  <2>1. CASE JobVerdict(c.job) = "Running"
    BY <1>1, <2>1 DEF Evaluate, Return
  <2>2. CASE JobVerdict(c.job) = "Failed"
    BY <1>1, <2>2 DEF Evaluate, PatchPhase, PatchThen
  <2>3. CASE JobVerdict(c.job) = "Completed" /\ c.job.st = "succeeded"
    BY <1>1, <2>3 DEF Evaluate, PatchThen
  <2> QED BY <2>1, <2>2, <2>3 DEF JobVerdict
<1>2. ~(\E b \in Backups : Start(b)) /\ ~Restart
  BY DEF Start, FirstStep, Restart
<1>3. CASE AddFinalizer \/ RemoveFinalizer \/ ListForCleanup \/ DeleteJob
  BY <1>3 DEF AddFinalizer, RemoveFinalizer, ListForCleanup, DeleteJob, Return
<1>4. CASE CheckJobStatus
  <2>1. obj.job \in JobNames /\ obj.job[1] = cur
    BY <1>4 DEF CheckJobStatus, TypeInv, TypeOK, CheckNamed, BackupRecord, BackedInv,
                LocalBacked, BackedBy
  <2>2. Present(seenJ, obj.job) /\ Evaluate(obj, SnapshotOf(obj.job))
    BY <1>4 DEF CheckJobStatus, Goto
  <2>3. SnapshotOf(obj.job).job = seenJ[obj.job]
    BY DEF SnapshotOf
  <2>4. Looked(obj.job)
    BY <1>1, <1>4, <2>1, <2>2, <2>3 DEF CheckJobStatus, Looked
  <2> QED BY <2>1, <2>4
<1>5. CASE FindJobByLabels \/ FindExistingJob
  <2>1. CASE PatchPhase(obj, "Failed")
    <3>1. copy' = NoSnapshot /\ to'.phase = "Failed"
      BY <2>1 DEF PatchPhase, PatchThen
    <3> QED BY <3>1
  <2>2. ASSUME NEW n \in JobsOf(seenJ, cur),
               \/ PatchThen(obj, "Running", n, obj.path, SnapshotOf(n))
               \/ Evaluate(obj, SnapshotOf(n))
        PROVE  n \in JobNames /\ Looked(n)
    <3>1. n \in JobNames /\ n[1] = cur /\ Present(seenJ, n) /\ SnapshotOf(n).job = seenJ[n]
      BY <2>2 DEF JobsOf, SnapshotOf
    <3>2. CASE Evaluate(obj, SnapshotOf(n))
      BY <1>1, <1>5, <3>1, <3>2 DEF FindJobByLabels, FindExistingJob, Looked
    <3>3. CASE PatchThen(obj, "Running", n, obj.path, SnapshotOf(n))
      BY <1>5, <3>1, <3>3 DEF FindJobByLabels, FindExistingJob, Looked, PatchThen
    <3> QED BY <2>2, <3>1, <3>2, <3>3
  <2>3. ~Goto("resources")
    BY DEF Goto
  <2>4. \/ PatchPhase(obj, "Failed")
        \/ \E n \in JobsOf(seenJ, cur) : \/ PatchThen(obj, "Running", n, obj.path, SnapshotOf(n))
                                        \/ Evaluate(obj, SnapshotOf(n))
    BY <1>5, <2>3 DEF FindJobByLabels, FindExistingJob
  <2>5. CASE \E n \in JobsOf(seenJ, cur) : n \in JobNames /\ Looked(n)
    BY <2>5
  <2> QED BY <2>1, <2>2, <2>4, <2>5, Zenon
<1>6. CASE GetResources \/ CheckThrottling \/ \E r \in RunIDs : CreateJob(r)
  <2>1. copy' = NoSnapshot /\ to'.phase # "Completed"
    <3>1. ASSUME NEW phase \in {"Failed", "Pending"}, PatchPhase(obj, phase)
          PROVE  copy' = NoSnapshot /\ to'.phase # "Completed"
      BY <3>1 DEF PatchPhase, PatchThen
    <3>2. ASSUME NEW n, PatchThen(obj, "Running", n, obj.path, NoSnapshot)
          PROVE  copy' = NoSnapshot /\ to'.phase # "Completed"
      BY <3>2 DEF PatchThen
    <3>3. ~Goto("throttle") /\ ~Goto("create") /\ ~Goto("labels")
      BY DEF Goto
    <3> QED BY <1>6, <3>1, <3>2, <3>3 DEF GetResources, CheckThrottling, CreateJob
  <2> QED BY <2>1
<1>7. CASE PatchStatus
  <2>1. copy # NoSnapshot /\ Evaluate(backup'[cur], copy)
    BY <1>7 DEF PatchStatus, Return
  <2> QED BY <1>1, <1>7, <2>1 DEF LookedAgain
<1> QED BY <1>2, <1>3, <1>4, <1>5, <1>6, <1>7
        DEF Next, vars, Reconcile, SyncBackups, SyncJobs, Users, CreateBackup, EditBackup,
            DeleteBackup, JobController, PodFails, Upload, JobSucceeds, JobFails, TTLRemove

\* A job comes to have a dump by Upload alone, which records it.
LEMMA UploadStep ==
  ASSUME TypeInv, [Next]_vars, NEW n \in JobNames, jobs'[n].st \in {"uploaded", "succeeded"}
  PROVE  /\ jobs'[n].uid = jobs[n].uid
         /\ jobs[n].st \in {"uploaded", "succeeded"} \/ OwnDump(n[1], jobs[n].uid)'
<1>1. jobs \in [JobNames -> JobRecord] /\ todo \subseteq JobNames
  BY DEF TypeInv, TypeOK
<1>2. CASE jobs' = jobs
  BY <1>2
<1>3. CASE DeleteJob
  BY <1>1, <1>3 DEF DeleteJob, NoRecord
<1>4. ASSUME NEW r \in RunIDs, CreateJob(r) PROVE jobs'[n] = jobs[n]
  BY <1>1, <1>4 DEF CreateJob, NewJob
<1>5. ASSUME NEW m \in JobNames,
             PodFails(m) \/ Upload(m) \/ JobSucceeds(m) \/ JobFails(m) \/ TTLRemove(m)
      PROVE  /\ jobs'[n].uid = jobs[n].uid
             /\ jobs[n].st \in {"uploaded", "succeeded"} \/ OwnDump(n[1], jobs[n].uid)'
  <2>1. CASE m # n
    BY <1>1, <1>5, <2>1 DEF PodFails, Upload, JobSucceeds, JobFails, TTLRemove
  <2>2. CASE Upload(n)
    <3>1. jobs'[n].uid = jobs[n].uid
      BY <1>1, <2>2 DEF Upload, With
    <3>2. [job |-> n, uid |-> jobs[n].uid, spec |-> jobs[n].spec] \in dumps'
      BY <2>2 DEF Upload
    <3> QED BY <3>1, <3>2 DEF OwnDump
  <2>3. CASE PodFails(n) \/ JobFails(n) \/ TTLRemove(n)
    BY <1>1, <2>3 DEF PodFails, JobFails, TTLRemove, With, NoRecord
  <2>4. CASE JobSucceeds(n)
    BY <1>1, <2>4 DEF JobSucceeds, JobRecord
  <2> QED BY <1>5, <2>1, <2>2, <2>3, <2>4
<1> QED BY <1>2, <1>3, <1>4, <1>5
        DEF Next, vars, Reconcile, AddFinalizer, ListForCleanup, RemoveFinalizer,
            CheckJobStatus, FindJobByLabels, FindExistingJob, GetResources,
            CheckThrottling, PatchStatus, Start, SyncBackups, SyncJobs, Restart, Users,
            CreateBackup, EditBackup, DeleteBackup, JobController, api

LEMMA OwnDumpsStep ==
  ASSUME TypeInv, BackedInv, LagAllowed = FALSE, HeldInv, OwnJobsInv, OwnDumps, [Next]_vars
  PROVE  OwnDumps'
<1>1. ASSUME NEW n \in JobNames, jobs'[n].st \in {"uploaded", "succeeded"}
      PROVE  OwnDump(n[1], jobs[n].uid)'
  BY <1>1, UploadStep, OwnDumpStays DEF OwnDumps
<1>2. ASSUME faults' = 0
      PROVE  faults = 0 /\ OwnJobs
  BY <1>2, FaultsGrow DEF Fault, OwnJobsInv
<1>3. ASSUME faults' = 0, pc' = "patch", to'.phase = "Completed" \/ copy'.job.st = "succeeded"
      PROVE  OwnDump(cur, obj.uid)'
  <2>1. NoSnapshot.job.st = "none"
    BY DEF NoSnapshot, NoRecord
  <2>2. CASE UNCHANGED local
    <3>1. cur' = cur /\ obj' = obj /\ OwnDump(cur, obj.uid)
      BY <1>2, <1>3, <2>2 DEF local, OwnDumps
    <3> QED BY <3>1, OwnDumpStays DEF OwnDump
  <2>3. ASSUME NEW n \in JobNames, Looked(n) PROVE OwnDump(cur, obj.uid)'
    <3>1. seenJ = jobs /\ Present(jobs, n) /\ n[1] = cur /\ cur' = cur /\ obj' = obj
      BY <2>3 DEF Looked, MayRead, CaughtUp
    <3>2. SnapshotOf(n).job = seenJ[n]
      BY DEF SnapshotOf
    <3>3. jobs[n].st = "succeeded"
      BY <1>3, <2>1, <2>3, <3>1, <3>2 DEF Looked
    <3>4. OwnDump(cur, jobs[n].uid) /\ backup[cur].uid = jobs[n].uid
      BY <1>2, <1>3, <3>1, <3>3 DEF OwnDumps, OwnJobs
    <3>5. backup[cur].uid = obj.uid
      BY <2>3 DEF Looked, HeldInv, Held, Busy
    <3> QED BY <3>1, <3>4, <3>5, OwnDumpStays DEF OwnDump
  <2>4. CASE LookedAgain
    <3>1. pc = "patch" /\ copy.job.st = "succeeded" /\ cur \in Backups
      BY <1>3, <2>1, <2>4 DEF LookedAgain, PatchStatus, TypeInv, TypeOK
    <3>2. OwnDump(cur, obj.uid) /\ backup[cur].uid = obj.uid
      BY <1>2, <1>3, <3>1 DEF OwnDumps, HeldInv, Held, Busy
    <3>3. backup'[cur].uid = backup[cur].uid
      BY <3>1, <3>2, <2>4, BackupSteps, FreshFields
         DEF LookedAgain, PatchStatus, AddFinalizer, RemoveFinalizer, Patched, Born, Edited,
             Doomed, Gone, SameObject
    <3>4. obj'.uid = obj.uid /\ cur' = cur
      BY <2>4, <3>2, <3>3 DEF LookedAgain
    <3>5. PICK d \in dumps : d.job[1] = cur /\ d.uid = obj.uid
      BY <3>2 DEF OwnDump
    <3> QED BY <3>4, <3>5, DumpsGrow DEF OwnDump
  <2> QED BY <1>3, <2>1, <2>2, <2>3, <2>4, PatchCause
<1>4. ASSUME faults' = 0, NEW b \in Backups, backup'[b].phase = "Completed"
      PROVE  OwnDump(b, backup[b].uid)'
  <2>1. backup[b] \in BackupRecord /\ (backup[b].phase = "Completed" => OwnDump(b, backup[b].uid))
    BY <1>2, <1>4, BackupFields DEF OwnDumps
  <2>2. ASSUME backup[b].phase = "Completed", backup'[b].uid = backup[b].uid
        PROVE  OwnDump(b, backup[b].uid)'
    BY <2>1, <2>2, OwnDumpStays DEF OwnDump
  <2>3. CASE AddFinalizer /\ backup'[b] = [backup[b] EXCEPT !.fin = TRUE]
    BY <1>4, <2>1, <2>2, <2>3 DEF BackupRecord
  <2>4. ~Gone(b) /\ ~Born(b)
    BY <1>4, BlankFields DEF Gone, Born, Terminal
  <2>5. CASE PatchStatus /\ b = cur /\ Patched(b)
    <3>1. CASE backup[b].phase = "Completed"
      BY <2>2, <2>5, <3>1 DEF Patched, SameObject
    <3>2. CASE to.phase = "Completed"
      <4>1. OwnDump(b, obj.uid) /\ backup[b].uid = obj.uid
        BY <1>2, <1>4, <2>5, <3>2 DEF OwnDumps, PatchStatus, HeldInv, Held, Busy
      <4> QED BY <2>5, <4>1, OwnDumpStays DEF Patched, SameObject, OwnDump
    <3> QED BY <1>4, <2>5, <3>1, <3>2 DEF Patched
  <2>6. CASE backup'[b] = backup[b] \/ Edited(b) \/ Doomed(b)
    BY <1>4, <2>2, <2>4, <2>6 DEF Edited, Doomed, SameObject, SameStatus
  <2> QED BY <2>3, <2>4, <2>5, <2>6, BackupSteps
<1> QED BY <1>1, <1>3, <1>4 DEF OwnDumps

\* As long as no call fails, whatever restarts there are, a Backup is reported Completed
\* only after a job created for this very object has stored a dump.
THEOREM CompletedIsOwn == LagAllowed = FALSE /\ Spec => []CompletedByOwnDump
<1>1. Init => OwnDumps
  <2>1. ASSUME Init
        PROVE  /\ \A n \in JobNames : jobs[n].st = "none"
               /\ \A b \in Backups : backup[b] = Absent(0)
               /\ pc = "idle"
    BY <2>1 DEF Init, NoRecord
  <2> QED BY <2>1, BlankFields DEF OwnDumps, Terminal
<1>2. OwnDumps => CompletedByOwnDump
  BY DEF OwnDumps, OwnDump, CompletedByOwnDump
<1>3. CASE LagAllowed = FALSE
  <2>1. TypeInv /\ BackedInv /\ HeldInv /\ OwnJobsInv /\ OwnDumps /\ [Next]_vars => OwnDumps'
    BY <1>3, OwnDumpsStep
  <2> QED BY <1>1, <1>2, <1>3, <2>1, HeldInvariant, OwnJobsInvariant, BackedInvariant,
             TypeInvariant, PTL DEF Spec
<1> QED BY <1>3

-----------------------------------------------------------------------------
(* The limit per cluster, if reads are not stale                           *)

\* What makes ThrottleHonoured inductive: between the count and the creation the number of
\* active jobs of the cluster does not grow, for nobody else creates jobs.
ThrottleInv ==
  /\ IsFiniteSet({n \in JobNames : Present(jobs, n)})
  /\ \A c \in Clusters : Cardinality(ActiveJobs(jobs, c)) <= MaxConcurrent
  /\ pc = "create" => Cardinality(ActiveJobs(jobs, ClusterOf[cur])) < MaxConcurrent

LEMMA ActiveFinite ==
  ASSUME ThrottleInv, NEW c
  PROVE  IsFiniteSet(ActiveJobs(jobs, c)) /\ Cardinality(ActiveJobs(jobs, c)) \in Nat
<1>1. ActiveJobs(jobs, c) \subseteq {n \in JobNames : Present(jobs, n)}
  BY DEF ActiveJobs
<1> QED BY <1>1, FS_Subset, FS_CardinalityType DEF ThrottleInv

\* Whatever jobs go through by themselves, they never become active again.
LEMMA ActiveShrinks ==
  ASSUME TypeInv, [Next]_vars, ~\E r \in RunIDs : CreateJob(r), NEW n \in JobNames,
         Present(jobs, n)', jobs'[n].st # "succeeded", jobs'[n].nfail = 0
  PROVE  Present(jobs, n) /\ jobs[n].st # "succeeded" /\ jobs[n].nfail = 0
<1>1. jobs \in [JobNames -> JobRecord] /\ todo \subseteq JobNames /\ jobs[n] \in JobRecord
      /\ jobs[n].nfail \in Nat
  BY LimitAssumption DEF TypeInv, TypeOK, JobRecord
<1>2. CASE jobs'[n] = jobs[n]
  BY <1>2 DEF Present
<1>3. CASE DeleteJob
  BY <1>1, <1>2, <1>3 DEF DeleteJob, NoRecord, Present
<1>4. CASE JobController
  <2> PICK m \in JobNames :
        PodFails(m) \/ Upload(m) \/ JobSucceeds(m) \/ JobFails(m) \/ TTLRemove(m)
    BY <1>4 DEF JobController
  <2>1. CASE n # m
    BY <1>1, <1>2, <2>1 DEF PodFails, Upload, JobSucceeds, JobFails, TTLRemove
  <2>2. ~PodFails(n) /\ ~JobFails(n)
    BY <1>1 DEF PodFails, JobFails, With
  <2>3. ~JobSucceeds(n) /\ ~TTLRemove(n)
    BY <1>1 DEF JobSucceeds, TTLRemove, NoRecord, Present, JobRecord
  <2>4. CASE Upload(n)
    BY <1>1, <2>4 DEF Upload, With, Present
  <2> QED BY <2>1, <2>2, <2>3, <2>4
<1> QED BY <1>2, <1>3, <1>4
        DEF Next, vars, Reconcile, AddFinalizer, ListForCleanup, RemoveFinalizer,
            CheckJobStatus, FindJobByLabels, FindExistingJob, GetResources,
            CheckThrottling, PatchStatus, Start, SyncBackups, SyncJobs, Restart, Users,
            CreateBackup, EditBackup, DeleteBackup, api

LEMMA CreateCause ==
  ASSUME [Next]_vars, pc' = "create"
  PROVE  /\ cur' = cur
         /\ \/ pc = "create" /\ ~\E r \in RunIDs : CreateJob(r)
            \/ /\ CheckThrottling /\ jobs' = jobs
               /\ ~(Cardinality(ActiveJobs(seenJ, ClusterOf[cur])) >= MaxConcurrent)
<1>1. ~(\E b \in Backups : Start(b)) /\ ~Restart
  BY DEF Start, FirstStep, Restart
<1>2. ASSUME NEW q PROVE ~Return(q)
  BY DEF Return
<1>3. ASSUME NEW o, NEW phase PROVE ~PatchPhase(o, phase)
  BY DEF PatchPhase, PatchThen
<1>4. ASSUME NEW o, NEW phase, NEW job, NEW path, NEW c PROVE ~PatchThen(o, phase, job, path, c)
  BY DEF PatchThen
<1>5. ASSUME NEW o, NEW c PROVE ~Evaluate(o, c)
  BY <1>2, <1>3, <1>4 DEF Evaluate, JobVerdict
<1>6. ~Goto("labels") /\ ~Goto("resources") /\ ~Goto("throttle")
  BY DEF Goto
<1>7. ~AddFinalizer /\ ~RemoveFinalizer /\ ~ListForCleanup /\ ~DeleteJob
  BY <1>2 DEF AddFinalizer, RemoveFinalizer, ListForCleanup, DeleteJob
<1>8. ~CheckJobStatus /\ ~FindJobByLabels /\ ~FindExistingJob /\ ~GetResources
  BY <1>3, <1>4, <1>5, <1>6 DEF CheckJobStatus, FindJobByLabels, FindExistingJob, GetResources
<1>9. ~PatchStatus /\ ~\E r \in RunIDs : CreateJob(r)
  BY <1>2, <1>3, <1>4, <1>5, <1>6 DEF PatchStatus, CreateJob
<1>10. CASE CheckThrottling
  BY <1>3, <1>10 DEF CheckThrottling, Goto, api
<1>11. CASE UNCHANGED local
  BY <1>9, <1>11 DEF local
<1> QED BY <1>1, <1>7, <1>8, <1>9, <1>10, <1>11
        DEF Next, vars, Reconcile, SyncBackups, SyncJobs, Users, CreateBackup, EditBackup,
            DeleteBackup, JobController, PodFails, Upload, JobSucceeds, JobFails, TTLRemove

LEMMA ThrottleStep ==
  ASSUME TypeInv, LagAllowed = FALSE, ThrottleInv, [Next]_vars PROVE ThrottleInv'
<1> DEFINE Some(js) == {n \in JobNames : Present(js, n)}
<1>1. /\ MaxConcurrent \in Int
      /\ \A c : IsFiniteSet(ActiveJobs(jobs, c)) /\ Cardinality(ActiveJobs(jobs, c)) \in Nat
  BY LimitAssumption, ActiveFinite DEF MaxConcurrent
<1>2. CASE ~\E r \in RunIDs : CreateJob(r)
  <2>1. Some(jobs') \subseteq Some(jobs)
    BY <1>2, OnlyCreateJobAdds DEF Present
  <2>2. \A c : ActiveJobs(jobs', c) \subseteq ActiveJobs(jobs, c)
    BY <1>2, ActiveShrinks DEF ActiveJobs, Present
  <2>3. \A c : Cardinality(ActiveJobs(jobs', c)) <= Cardinality(ActiveJobs(jobs, c))
               /\ Cardinality(ActiveJobs(jobs', c)) \in Nat
    BY <1>1, <2>2, FS_Subset, FS_CardinalityType
  <2>4. IsFiniteSet(Some(jobs'))
    BY <2>1, FS_Subset DEF ThrottleInv
  <2>5. \A c \in Clusters : Cardinality(ActiveJobs(jobs', c)) <= MaxConcurrent
    BY <1>1, <2>3 DEF ThrottleInv
  <2>6. ASSUME pc' = "create"
        PROVE  Cardinality(ActiveJobs(jobs', ClusterOf[cur'])) < MaxConcurrent
    <3>1. cur' = cur
      BY <2>6, CreateCause
    <3>2. Cardinality(ActiveJobs(jobs, ClusterOf[cur])) < MaxConcurrent
      <4>1. CASE pc = "create"
        BY <4>1 DEF ThrottleInv
      <4>2. CASE CheckThrottling /\ ~(Cardinality(ActiveJobs(seenJ, ClusterOf[cur])) >= MaxConcurrent)
        BY <1>1, <4>2 DEF CheckThrottling, MayRead, CaughtUp
      <4> QED BY <2>6, <4>1, <4>2, CreateCause
    <3> QED BY <1>1, <2>3, <3>1, <3>2
  <2> QED BY <2>4, <2>5, <2>6 DEF ThrottleInv
<1>3. ASSUME NEW r \in RunIDs, CreateJob(r) PROVE ThrottleInv'
  <2> DEFINE k == <<cur, r>>
             d == ClusterOf[cur]
  <2>1. /\ pc = "create" /\ cur \in Backups /\ k \in JobNames
        /\ \A n \in JobNames : n # k => jobs'[n] = jobs[n]
    BY <1>3 DEF CreateJob, TypeInv, TypeOK
  <2>2. pc' # "create"
    BY <1>3, <2>1, CreateCause DEF CheckThrottling
  <2>3. Some(jobs') \subseteq Some(jobs) \cup {k}
    BY <2>1 DEF Present
  <2>4. IsFiniteSet(Some(jobs'))
    <3>1. IsFiniteSet(Some(jobs))
      BY DEF ThrottleInv
    <3>2. IsFiniteSet(Some(jobs) \cup {k})
      BY <3>1, FS_AddElement
    <3> QED BY <2>3, <3>2, FS_Subset
  <2>5. ASSUME NEW c \in Clusters PROVE Cardinality(ActiveJobs(jobs', c)) <= MaxConcurrent
    <3>1. CASE c = d
      <4>1. ActiveJobs(jobs', c) \subseteq ActiveJobs(jobs, c) \cup {k}
        BY <2>1 DEF ActiveJobs, Present
      <4>2. /\ IsFiniteSet(ActiveJobs(jobs, c) \cup {k})
            /\ Cardinality(ActiveJobs(jobs, c) \cup {k}) <= Cardinality(ActiveJobs(jobs, c)) + 1
        <5> DEFINE A == ActiveJobs(jobs, c)
        <5>1. IsFiniteSet(A) /\ Cardinality(A) \in Nat
          BY <1>1
        <5> HIDE DEF A
        <5>2. /\ IsFiniteSet(A \cup {k})
              /\ Cardinality(A \cup {k}) = IF k \in A THEN Cardinality(A) ELSE Cardinality(A) + 1
          BY <5>1, FS_AddElement
        <5>3. IsFiniteSet(A \cup {k}) /\ Cardinality(A \cup {k}) <= Cardinality(A) + 1
          BY <5>1, <5>2
        <5> QED BY <5>3 DEF A
      <4>3. /\ Cardinality(ActiveJobs(jobs', c)) \in Nat
            /\ Cardinality(ActiveJobs(jobs', c)) <= Cardinality(ActiveJobs(jobs, c) \cup {k})
            /\ Cardinality(ActiveJobs(jobs, c) \cup {k}) \in Nat
        BY <4>1, <4>2, FS_Subset, FS_CardinalityType
      <4>4. Cardinality(ActiveJobs(jobs, c)) < MaxConcurrent
        BY <2>1, <3>1 DEF ThrottleInv
      <4> QED BY <1>1, <4>2, <4>3, <4>4
    <3>2. CASE c # d
      <4>1. ActiveJobs(jobs', c) \subseteq ActiveJobs(jobs, c)
        BY <2>1, <3>2 DEF ActiveJobs, Present
      <4>2. /\ Cardinality(ActiveJobs(jobs', c)) \in Nat
            /\ Cardinality(ActiveJobs(jobs', c)) <= Cardinality(ActiveJobs(jobs, c))
        BY <1>1, <4>1, FS_Subset, FS_CardinalityType
      <4>3. Cardinality(ActiveJobs(jobs, c)) <= MaxConcurrent
        BY DEF ThrottleInv
      <4> QED BY <1>1, <4>2, <4>3
    <3> QED BY <3>1, <3>2
  <2> QED BY <2>2, <2>4, <2>5 DEF ThrottleInv
<1> QED BY <1>2, <1>3

\* At most MaxConcurrentBackups jobs of a cluster run without a failed pod at any time: the
\* single worker makes the count of checkThrottling good until the creation that follows.
THEOREM LimitHonoured == LagAllowed = FALSE /\ Spec => []ThrottleHonoured
<1>1. Init => ThrottleInv
  <2> SUFFICES ASSUME Init PROVE ThrottleInv
    OBVIOUS
  <2>1. {n \in JobNames : Present(jobs, n)} = {} /\ pc = "idle"
    BY DEF Init, Present, NoRecord
  <2>2. \A c : ActiveJobs(jobs, c) = {}
    BY <2>1 DEF ActiveJobs
  <2>3. 0 <= MaxConcurrent
    BY LimitAssumption DEF MaxConcurrent
  <2> QED BY <2>1, <2>2, <2>3, FS_EmptySet DEF ThrottleInv
<1>2. ThrottleInv => ThrottleHonoured
  <2> SUFFICES ASSUME ThrottleInv, NEW c \in Clusters
               PROVE  Cardinality({n \in ActiveJobs(jobs, c) : Live(jobs, n)}) <= MaxConcurrent
    BY DEF ThrottleHonoured
  <2> DEFINE R == {n \in ActiveJobs(jobs, c) : Live(jobs, n)}
  <2>1. IsFiniteSet(ActiveJobs(jobs, c)) /\ Cardinality(ActiveJobs(jobs, c)) \in Nat
    BY ActiveFinite
  <2>2. Cardinality(R) \in Nat /\ Cardinality(R) <= Cardinality(ActiveJobs(jobs, c))
    BY <2>1, FS_Subset, FS_CardinalityType
  <2>3. Cardinality(ActiveJobs(jobs, c)) <= MaxConcurrent /\ MaxConcurrent \in Int
    BY LimitAssumption DEF ThrottleInv, MaxConcurrent
  <2> QED BY <2>1, <2>2, <2>3
<1>3. CASE LagAllowed = FALSE
  <2>1. TypeInv /\ ThrottleInv /\ [Next]_vars => ThrottleInv'
    BY <1>3, ThrottleStep
  <2> QED BY <1>1, <1>2, <2>1, TypeInvariant, PTL DEF Spec
<1> QED BY <1>3

=============================================================================
