------------------------ MODULE RestoreControllerProofs ------------------------
(***************************************************************************)
(* Safety of RestoreController for every set of Restores, Backups, files   *)
(* and databases, every spec and every number of faults and restarts.      *)
(***************************************************************************)
EXTENDS RestoreController, TLAPS

USE DEF JobNames

-----------------------------------------------------------------------------
(* Type correctness                                                        *)

\* A worker that is about to get a job by name has a name, every job was started by somebody,
\* and a pod that has got beyond its start has a dump: what TypeOK needs to be inductive.
CheckNamed == pc = "check" => obj.job # NoJob
JobsStarted == \A n \in JobNames : Present(job, n) => <<n[1], job[n].uid>> \in started
PodsHaveFile ==
  \A n \in JobNames : pod[n].at \in {"opened", "dropped", "ready"} => pod[n].path \in Files
TypeInv == TypeOK /\ CheckNamed /\ JobsStarted /\ PodsHaveFile

\* The parts of TypeInv that different actions disturb.
RestoreOK == restore \in [Restores -> RestoreRecord]
JobOK == job \in [JobNames -> JobRecord] /\ JobsStarted
CacheOK == seenR \in [Restores -> RestoreRecord] /\ seenJ \in [JobNames -> JobRecord]
PodOK == pod \in [JobNames -> PodRecord] /\ PodsHaveFile
SourceOK == backup \in [Backups -> BackupRecord] /\ files \subseteq Files
DbOK == db \in [Dbs -> DbRecord]
LocalOK == /\ queue \subseteq Restores
           /\ pc \in Steps /\ cur \in Restores \cup {NoRestore} /\ (pc # "idle" => cur \in Restores)
           /\ obj \in RestoreRecord /\ path \in Files \cup {NoFile} /\ to \in Status
           /\ CheckNamed
HistoryOK == /\ started \subseteq Restores \X (0..MaxUid) /\ again \subseteq started
             /\ done \subseteq started
CountOK == /\ edits \in 0..MaxEdits /\ faults \in 0..MaxFaults /\ crashes \in 0..MaxCrashes
           /\ stale \in 0..MaxStale /\ losses \in 0..MaxLosses

LEMMA TypeParts ==
  TypeInv <=> /\ RestoreOK /\ JobOK /\ CacheOK /\ PodOK /\ SourceOK /\ DbOK /\ LocalOK
              /\ HistoryOK /\ CountOK
BY DEF TypeInv, TypeOK, RestoreOK, JobOK, CacheOK, PodOK, SourceOK, DbOK, LocalOK, HistoryOK,
       CountOK

LEMMA TypePartsNext ==
  ASSUME RestoreOK', JobOK', CacheOK', PodOK', SourceOK', DbOK', LocalOK', HistoryOK', CountOK'
  PROVE  TypeInv'
BY DEF TypeInv, TypeOK, RestoreOK, JobOK, CacheOK, PodOK, SourceOK, DbOK, LocalOK, HistoryOK,
       CountOK, JobsStarted, CheckNamed, PodsHaveFile

\* What an action leaves unchanged keeps its type.
LEMMA Kept ==
  ASSUME TypeInv
  PROVE  /\ UNCHANGED restore => RestoreOK'
         /\ UNCHANGED <<job, started>> => JobOK'
         /\ UNCHANGED caches => CacheOK'
         /\ UNCHANGED pod => PodOK'
         /\ UNCHANGED <<backup, files>> => SourceOK'
         /\ UNCHANGED db => DbOK'
         /\ UNCHANGED <<queue, local>> => LocalOK'
         /\ UNCHANGED history => HistoryOK'
         /\ UNCHANGED bounds => CountOK'
<1> USE TypeParts
<1>1. UNCHANGED restore => RestoreOK'
  BY DEF RestoreOK
<1>2. UNCHANGED <<job, started>> => JobOK'
  BY DEF JobOK, JobsStarted, Present
<1>3. UNCHANGED caches => CacheOK'
  BY DEF CacheOK, caches
<1>4. UNCHANGED pod => PodOK'
  BY DEF PodOK, PodsHaveFile
<1>5. UNCHANGED <<backup, files>> => SourceOK'
  BY DEF SourceOK
<1>6. UNCHANGED db => DbOK'
  BY DEF DbOK
<1>7. UNCHANGED <<queue, local>> => LocalOK'
  BY DEF LocalOK, local, CheckNamed
<1>8. UNCHANGED history => HistoryOK'
  BY DEF HistoryOK, history
<1>9. UNCHANGED bounds => CountOK'
  BY DEF CountOK, bounds
<1> QED BY <1>1, <1>2, <1>3, <1>4, <1>5, <1>6, <1>7, <1>8, <1>9

LEMMA FreshType ==
  ASSUME NEW e \in BOOLEAN, NEW u \in 0..MaxUid, NEW s \in Specs
  PROVE  NewRestore(e, u, s) \in RestoreRecord
BY Zenon DEF NewRestore, RestoreRecord, Phases

LEMMA SpecType == AnySpec \in Specs
BY NamesAssumption DEF AnySpec

LEMMA AbsentType == ASSUME NEW u \in 0..MaxUid PROVE Absent(u) \in RestoreRecord
BY SpecType, FreshType DEF Absent

LEMMA Defaults ==
  /\ 0 \in 0..MaxUid
  /\ NoRecord \in JobRecord
  /\ NoStatus \in Status
  /\ NoPod \in PodRecord
<1>1. 0 \in 0..MaxUid
  BY BoundAssumption
<1>2. NoRecord \in JobRecord
  BY <1>1 DEF NoRecord, JobRecord
<1>3. NoStatus \in Status
  BY Zenon DEF NoStatus, Status, Phases
<1>4. NoPod \in PodRecord
  BY SpecType DEF NoPod, PodRecord
<1> QED BY <1>1, <1>2, <1>3, <1>4

LEMMA FaultCount == ASSUME TypeInv, Fault PROVE faults' \in 0..MaxFaults
BY BoundAssumption DEF TypeInv, TypeOK, Fault

LEMMA ReadCount ==
  ASSUME TypeInv, NEW seen, NEW real, Reads(seen, real) PROVE stale' \in 0..MaxStale
BY BoundAssumption DEF TypeInv, TypeOK, Reads

-----------------------------------------------------------------------------
(* How a reconciliation ends and goes on                                   *)

LEMMA ReturnType ==
  ASSUME TypeInv, NEW q \in BOOLEAN, pc # "idle", Return(q) PROVE LocalOK'
<1>1. Absent(0) \in RestoreRecord
  BY Defaults, AbsentType
<1> QED BY <1>1, Defaults DEF TypeInv, TypeOK, LocalOK, Return, Reset, Steps, CheckNamed

LEMMA GotoType ==
  ASSUME TypeInv, NEW step \in Steps \ {"check"}, pc # "idle", Goto(step) PROVE LocalOK'
BY DEF TypeInv, TypeOK, LocalOK, Goto, CheckNamed

LEMMA PatchType ==
  ASSUME TypeInv, pc # "idle", NEW phase \in Phases, NEW j \in JobNames \cup {NoJob},
         NEW p \in Files \cup {NoFile}, Patch(phase, j, p)
  PROVE  LocalOK'
BY DEF TypeInv, TypeOK, LocalOK, Patch, CheckNamed, Steps, Status

LEMMA PatchPhaseType ==
  ASSUME TypeInv, pc # "idle", NEW phase \in Phases, PatchPhase(phase) PROVE LocalOK'
<1>1. obj.job \in JobNames \cup {NoJob} /\ obj.path \in Files \cup {NoFile}
  BY DEF TypeInv, TypeOK, RestoreRecord
<1> QED BY <1>1, PatchType DEF PatchPhase

LEMMA MergedType ==
  ASSUME TypeInv, NEW o \in RestoreRecord PROVE Merged(o) \in RestoreRecord
<1>1. obj \in RestoreRecord /\ to \in Status
  BY DEF TypeInv, TypeOK
<1>2. /\ obj.spec \in Specs /\ to.phase \in Phases /\ to.job \in JobNames \cup {NoJob}
      /\ to.path \in Files \cup {NoFile}
  BY <1>1 DEF RestoreRecord, Status
<1> HIDE DEF JobNames
<1> DEFINE phase == IF to.phase # obj.phase THEN to.phase ELSE o.phase
           hash == IF obj.spec # obj.hash THEN obj.spec ELSE o.hash
           named == IF to.job # obj.job THEN to.job ELSE o.job
           dump == IF to.path # obj.path THEN to.path ELSE o.path
<1>3. /\ phase \in Phases /\ hash \in Specs \cup {NoSpec} /\ named \in JobNames \cup {NoJob}
      /\ dump \in Files \cup {NoFile}
  BY <1>2 DEF RestoreRecord
<1>4. Merged(o) = [o EXCEPT !.phase = phase, !.hash = hash, !.job = named, !.path = dump]
  BY DEF Merged
<1> HIDE DEF phase, hash, named, dump
<1> QED BY <1>3, <1>4 DEF RestoreRecord

-----------------------------------------------------------------------------
(* One lemma per group of actions                                          *)

LEMMA InitType == Init => TypeInv
<1> SUFFICES ASSUME Init PROVE TypeInv
  OBVIOUS
<1>1. RestoreOK /\ CacheOK
  BY Defaults, AbsentType DEF Init, RestoreOK, CacheOK
<1>2. JobOK
  <2>1. job \in [JobNames -> JobRecord]
    BY Defaults DEF Init
  <2>2. \A n \in JobNames : job[n].st = "none"
    BY DEF Init, NoRecord
  <2> QED BY <2>1, <2>2 DEF JobOK, JobsStarted, Present
<1>3. PodOK /\ DbOK
  BY Defaults, NamesAssumption DEF Init, PodOK, PodsHaveFile, NoPod, DbOK, DbRecord
<1>4. SourceOK
  BY DEF Init, SourceOK, BackupRecord
<1>5. LocalOK
  BY Defaults, AbsentType DEF Init, LocalOK, Steps, CheckNamed
<1>6. HistoryOK /\ CountOK
  BY BoundAssumption DEF Init, HistoryOK, CountOK
<1> QED BY <1>1, <1>2, <1>3, <1>4, <1>5, <1>6, TypeParts

LEMMA StartType == ASSUME TypeInv, NEW r \in Restores, Start(r) PROVE TypeInv'
<1>1. FirstStep(seenR[r]) \in Steps /\ (FirstStep(seenR[r]) = "check" => seenR[r].job # NoJob)
  BY DEF FirstStep, Steps
<1>2. seenR[r] \in RestoreRecord
  BY DEF TypeInv, TypeOK
<1>3. LocalOK'
  BY <1>1, <1>2 DEF Start, TypeInv, TypeOK, LocalOK, CheckNamed
<1>4. CountOK'
  BY ReadCount, TypeParts DEF Start, CountOK
<1> QED BY <1>3, <1>4, Kept, TypePartsNext DEF Start, caches, world, history

\* Every step of the worker has a current Restore and leaves the caches alone.
LEMMA ReconcileFrame ==
  ASSUME TypeInv, Reconcile
  PROVE  /\ cur \in Restores /\ pc # "idle" /\ obj \in RestoreRecord /\ restore[cur] \in RestoreRecord
         /\ CacheOK' /\ SourceOK' /\ DbOK'
         /\ UNCHANGED <<edits, crashes, losses>>
<1>1. pc # "idle"
  BY DEF Reconcile, AddFinalizer, DeleteJob, RemoveFinalizer, CheckJobStatus, ResolveSource,
         GetResources, CreateJob, PatchStatus
<1>2. UNCHANGED <<caches, backup, files, db, edits, crashes, losses>>
  BY DEF Reconcile, AddFinalizer, DeleteJob, RemoveFinalizer, CheckJobStatus, ResolveSource,
         GetResources, CreateJob, PatchStatus, world, others, bounds
<1> QED BY <1>1, <1>2, Kept DEF TypeInv, TypeOK

LEMMA FinalizerType ==
  ASSUME TypeInv, AddFinalizer \/ RemoveFinalizer PROVE TypeInv'
<1> DEFINE added == [restore[cur] EXCEPT !.fin = TRUE]
<1>1. cur \in Restores /\ pc # "idle" /\ obj \in RestoreRecord /\ restore[cur] \in RestoreRecord
  BY ReconcileFrame DEF Reconcile
<1>2. added \in RestoreRecord /\ Absent(obj.uid) \in RestoreRecord
  BY <1>1, AbsentType DEF RestoreRecord
<1>3. [restore EXCEPT ![cur].fin = TRUE] = [restore EXCEPT ![cur] = added]
  OBVIOUS
<1>4. RestoreOK'
  <2> HIDE DEF added
  <2> QED BY <1>1, <1>2, <1>3 DEF AddFinalizer, RemoveFinalizer, TypeInv, TypeOK, RestoreOK
<1>5. LocalOK'
  BY <1>1, ReturnType DEF AddFinalizer, RemoveFinalizer
<1>6. CountOK'
  BY FaultCount, TypeParts DEF AddFinalizer, RemoveFinalizer, others, CountOK
<1> QED BY <1>4, <1>5, <1>6, Kept, TypePartsNext
        DEF AddFinalizer, RemoveFinalizer, caches, world, history

LEMMA DeleteJobType == ASSUME TypeInv, DeleteJob PROVE TypeInv'
<1>1. cur \in Restores /\ pc # "idle" /\ obj \in RestoreRecord
  BY ReconcileFrame DEF Reconcile
<1>2. JobOK'
  <2>1. obj.job \in JobNames \cup {NoJob}
    BY <1>1 DEF RestoreRecord
  <2>2. \A n \in JobNames : [job EXCEPT ![n] = NoRecord] \in [JobNames -> JobRecord]
    BY Defaults DEF TypeInv, TypeOK
  <2>3. \A n \in JobNames : job'[n] = job[n] \/ job'[n].st = "none"
    <3>1. job' = job \/ (obj.job \in JobNames /\ job' = [job EXCEPT ![obj.job] = NoRecord])
      BY <2>1 DEF DeleteJob
    <3>2. job \in [JobNames -> JobRecord]
      BY DEF TypeInv, TypeOK
    <3> QED BY <3>1, <3>2 DEF NoRecord
  <2>4. job' \in [JobNames -> JobRecord]
    <3>1. job \in [JobNames -> JobRecord]
      BY DEF TypeInv, TypeOK
    <3>2. job' = job \/ (obj.job # NoJob /\ job' = [job EXCEPT ![obj.job] = NoRecord])
      BY DEF DeleteJob
    <3> QED BY <2>1, <2>2, <3>1, <3>2
  <2>5. UNCHANGED started
    BY DEF DeleteJob, history
  <2>6. JobsStarted'
    <3>1. JobsStarted
      BY DEF TypeInv
    <3> HIDE DEF JobNames
    <3> QED BY <2>3, <2>5, <3>1 DEF JobsStarted, Present
  <2> QED BY <2>4, <2>6 DEF JobOK
<1>3. LocalOK'
  BY <1>1, ReturnType, GotoType DEF DeleteJob, Steps
<1>4. CountOK'
  BY FaultCount, TypeParts DEF DeleteJob, others, CountOK
<1> QED BY <1>2, <1>3, <1>4, Kept, TypePartsNext DEF DeleteJob, world

\* The steps that change nothing but the worker's variables.
LEMMA QuietType ==
  ASSUME TypeInv, CheckJobStatus \/ ResolveSource \/ GetResources PROVE TypeInv'
<1>1. cur \in Restores /\ pc # "idle" /\ obj \in RestoreRecord
  BY ReconcileFrame DEF Reconcile
<1>2. {"Completed", "Failed"} \subseteq Phases
  BY DEF Phases
<1>3. CASE CheckJobStatus
  <2>1. LocalOK'
    BY <1>1, <1>2, <1>3, PatchPhaseType, ReturnType DEF CheckJobStatus
  <2>2. CountOK'
    BY <1>3, FaultCount, ReadCount, TypeParts DEF CheckJobStatus, CountOK
  <2> QED BY <1>3, <2>1, <2>2, Kept, TypePartsNext DEF CheckJobStatus, world, history
<1>4. CASE ResolveSource
  <2>1. \A s \in Sources : Resolved(s) \subseteq Files \cup {NoFile}
    <3> SUFFICES ASSUME NEW s \in Sources PROVE Resolved(s) \subseteq Files \cup {NoFile}
      OBVIOUS
    <3>1. \A b \in Backups : backup[b].path \in Files \cup {NoFile}
      BY DEF TypeInv, TypeOK, BackupRecord
    <3>2. CASE s.by = "path"
      BY <3>2 DEF Resolved, Sources
    <3>3. CASE s.by # "path"
      BY <3>1, <3>3 DEF Resolved, Sources, Latest
    <3> QED BY <3>2, <3>3
  <2>2. obj.spec.source \in Sources
    BY <1>1, NamesAssumption DEF RestoreRecord, RestoreSpec
  <2>3. LocalOK'
    <3>1. CASE PatchPhase("Failed")
      BY <1>1, <1>2, <3>1, PatchPhaseType
    <3>2. CASE /\ path' \in Resolved(obj.spec.source) /\ pc' = "resources"
               /\ UNCHANGED <<queue, cur, obj, to, faults>>
      BY <1>1, <2>1, <2>2, <3>2 DEF TypeInv, TypeOK, LocalOK, CheckNamed, Steps
    <3> QED BY <1>4, <3>1, <3>2 DEF ResolveSource
  <2>4. CountOK'
    BY <1>4, FaultCount, TypeParts DEF ResolveSource, others, CountOK
  <2> QED BY <1>4, <2>3, <2>4, Kept, TypePartsNext DEF ResolveSource, world, history
<1>5. CASE GetResources
  <2>1. LocalOK'
    BY <1>1, <1>2, <1>5, PatchPhaseType, GotoType DEF GetResources, Steps
  <2> QED BY <1>5, <2>1, Kept, TypePartsNext DEF GetResources, world, history
<1> QED BY <1>3, <1>4, <1>5

LEMMA CreateJobType ==
  ASSUME TypeInv, NEW id \in RunIDs, CreateJob(id) PROVE TypeInv'
<1> DEFINE n == <<cur, id>>
           me == <<cur, obj.uid>>
           new == [st |-> "active", uid |-> obj.uid]
           begun == [at |-> "started", spec |-> obj.spec, path |-> path]
           Create == /\ job' = [job EXCEPT ![n] = new] /\ pod' = [pod EXCEPT ![n] = begun]
                     /\ started' = started \cup {me} /\ again' = again \cup (started \cap {me})
<1>1. cur \in Restores /\ pc # "idle" /\ obj \in RestoreRecord
  BY ReconcileFrame DEF Reconcile
<1>2. n \in JobNames /\ me \in Restores \X (0..MaxUid) /\ new \in JobRecord /\ begun \in PodRecord
  BY <1>1 DEF RestoreRecord, JobRecord, PodRecord, TypeInv, TypeOK
<1>3. Create \/ UNCHANGED <<job, pod, started, again>>
  BY DEF CreateJob
<1>4. JobOK' /\ PodOK' /\ HistoryOK'
  <2>1. UNCHANGED done
    BY DEF CreateJob
  <2>2. CASE Create
    <3>1. job' \in [JobNames -> JobRecord] /\ pod' \in [JobNames -> PodRecord]
      BY <1>2, <2>2 DEF TypeInv, TypeOK
    <3>4. PodsHaveFile'
      BY <1>2, <2>2 DEF TypeInv, TypeOK, PodsHaveFile
    <3>2. JobsStarted'
      <4> SUFFICES ASSUME NEW m \in JobNames, Present(job', m)
                   PROVE  <<m[1], job'[m].uid>> \in started'
        BY DEF JobsStarted, Present
      <4>1. CASE m = n
        BY <1>2, <2>2, <4>1 DEF TypeInv, TypeOK
      <4>2. CASE m # n
        BY <1>2, <2>2, <4>2 DEF TypeInv, TypeOK, JobsStarted, Present
      <4> QED BY <4>1, <4>2
    <3>3. HistoryOK'
      BY <1>2, <2>1, <2>2 DEF TypeInv, TypeOK, HistoryOK
    <3> QED BY <3>1, <3>2, <3>3, <3>4 DEF JobOK, PodOK
  <2>3. CASE UNCHANGED <<job, pod, started, again>>
    BY <2>1, <2>3, Kept DEF history
  <2> QED BY <1>3, <2>2, <2>3
<1>5. LocalOK'
  <2>1. CASE Patch("Running", n, path)
    BY <1>1, <1>2, <2>1, PatchType DEF Phases, TypeInv, TypeOK
  <2>2. CASE PatchPhase("Failed")
    BY <1>1, <2>2, PatchPhaseType DEF Phases
  <2> QED BY <2>1, <2>2 DEF CreateJob
<1>6. CountOK'
  BY FaultCount, TypeParts DEF CreateJob, others, CountOK
<1> QED BY <1>4, <1>5, <1>6, Kept, TypePartsNext DEF CreateJob

LEMMA PatchStatusType == ASSUME TypeInv, PatchStatus PROVE TypeInv'
<1> DEFINE patched == [restore EXCEPT ![cur] = Merged(@)]
<1>1. cur \in Restores /\ pc # "idle" /\ restore[cur] \in RestoreRecord
  BY ReconcileFrame DEF Reconcile
<1>2. patched \in [Restores -> RestoreRecord]
  BY <1>1, MergedType DEF TypeInv, TypeOK
<1>3. RestoreOK'
  BY <1>2 DEF PatchStatus, TypeInv, TypeOK, RestoreOK
<1>4. LocalOK'
  BY <1>1, ReturnType DEF PatchStatus
<1>5. CountOK'
  BY FaultCount, TypeParts DEF PatchStatus, others, CountOK
<1> QED BY <1>3, <1>4, <1>5, Kept, TypePartsNext DEF PatchStatus, world, history

LEMMA ReconcileType == ASSUME TypeInv, Reconcile PROVE TypeInv'
BY FinalizerType, DeleteJobType, QuietType, CreateJobType, PatchStatusType DEF Reconcile

LEMMA ManagerType == ASSUME TypeInv, SyncRestores \/ SyncJobs \/ Restart PROVE TypeInv'
<1>1. CASE SyncRestores
  <2>1. CacheOK' /\ LocalOK'
    BY <1>1 DEF SyncRestores, TypeInv, TypeOK, CacheOK, LocalOK, CheckNamed, local
  <2> QED BY <1>1, <2>1, Kept, TypePartsNext DEF SyncRestores, world, history
<1>2. CASE SyncJobs
  <2>1. CacheOK'
    BY <1>2 DEF SyncJobs, TypeInv, TypeOK, CacheOK
  <2> QED BY <1>2, <2>1, Kept, TypePartsNext DEF SyncJobs, world, history
<1>3. CASE Restart
  <2>1. CacheOK'
    BY <1>3 DEF Restart, TypeInv, TypeOK, CacheOK
  <2>2. LocalOK'
    BY <1>3, Defaults, AbsentType
       DEF Restart, Reset, TypeInv, TypeOK, LocalOK, CheckNamed, Steps
  <2>3. CountOK'
    BY <1>3, BoundAssumption, TypeParts DEF Restart, CountOK
  <2> QED BY <1>3, <2>1, <2>2, <2>3, Kept, TypePartsNext DEF Restart, world, history
<1> QED BY <1>1, <1>2, <1>3

LEMMA PodType ==
  ASSUME TypeInv, NEW n \in JobNames, RunRestore(n) \/ StopPod(n) \/ TTLRemove(n) PROVE TypeInv'
<1>1. JobOK' /\ HistoryOK'
  <2>1. CASE UNCHANGED <<job, history>>
    BY <2>1, Kept DEF history
  <2>2. CASE TTLRemove(n)
    <3>1. job' \in [JobNames -> JobRecord] /\ UNCHANGED history
      BY <2>2, Defaults DEF TTLRemove, TypeInv, TypeOK
    <3>2. \A m \in JobNames : job'[m] = job[m] \/ job'[m].st = "none"
      BY <2>2 DEF TTLRemove, TypeInv, TypeOK, NoRecord
    <3> QED BY <3>1, <3>2, Kept DEF TypeInv, JobsStarted, JobOK, Present, history
  <2>3. ASSUME NEW result \in {"succeeded", "failed"}, Ends(n, result), UNCHANGED <<started, again>>
        PROVE  JobOK' /\ HistoryOK'
    <3> DEFINE j == [job[n] EXCEPT !.st = result]
    <3>1. CASE ~Present(job, n)
      BY <2>3, <3>1, Kept DEF Ends, history
    <3>2. CASE Present(job, n)
      <4>1. job' = [job EXCEPT ![n] = j] /\ j \in JobRecord /\ j.uid = job[n].uid
        BY <2>3, <3>2 DEF Ends, TypeInv, TypeOK, JobRecord
      <4>2. job' \in [JobNames -> JobRecord]
        BY <4>1 DEF TypeInv, TypeOK
      <4>3. \A m \in JobNames : job'[m].uid = job[m].uid /\ (m # n => job'[m] = job[m])
        BY <4>1 DEF TypeInv, TypeOK
      <4>4. <<n[1], job[n].uid>> \in started
        BY <3>2 DEF TypeInv, JobsStarted
      <4>5. JobsStarted'
        BY <2>3, <4>3, <4>4 DEF TypeInv, JobsStarted, Present
      <4>6. HistoryOK'
        BY <2>3, <3>2, <4>4 DEF Ends, TypeInv, TypeOK, HistoryOK
      <4> QED BY <4>2, <4>5, <4>6 DEF JobOK
    <3> QED BY <3>1, <3>2
  <2>4. CASE RunRestore(n)
    <3>1. UNCHANGED <<started, again>>
      BY <2>4 DEF RunRestore
    <3>2. Ends(n, "succeeded") \/ Ends(n, "failed") \/ UNCHANGED <<job, done>>
      BY <2>4 DEF RunRestore, OpenSource, DropDatabase, CreateDatabase, CheckEmpty, RunPsql,
                  PodFails, Reaches
    <3> QED BY <2>1, <2>3, <3>1, <3>2 DEF history
  <2>5. CASE StopPod(n)
    BY <2>1, <2>5 DEF StopPod
  <2> QED BY <2>2, <2>4, <2>5
<1>2. PodOK'
  <2>1. ASSUME NEW stage \in {"opened", "dropped", "ready"}, pod' = [pod EXCEPT ![n].at = stage],
               pod[n].path \in Files
        PROVE  PodOK'
    <3> DEFINE p == [pod[n] EXCEPT !.at = stage]
    <3>1. pod[n] \in PodRecord
      BY DEF TypeInv, TypeOK
    <3>2. p \in PodRecord /\ p.path = pod[n].path
      BY <3>1 DEF PodRecord
    <3>3. pod' = [pod EXCEPT ![n] = p]
      BY <2>1
    <3> HIDE DEF p
    <3>4. pod \in [JobNames -> PodRecord] /\ PodsHaveFile
      BY DEF TypeInv, TypeOK
    <3>5. pod' \in [JobNames -> PodRecord]
      BY <3>2, <3>3, <3>4
    <3>6. \A m \in JobNames : pod'[m] = pod[m] \/ (m = n /\ pod'[m] = p)
      BY <3>3, <3>4
    <3>7. PodsHaveFile'
      BY <2>1, <3>2, <3>4, <3>6 DEF PodsHaveFile
    <3> QED BY <3>5, <3>7 DEF PodOK
  <2>2. CASE pod' = [pod EXCEPT ![n] = NoPod]
    BY <2>2, Defaults DEF TypeInv, TypeOK, PodOK, PodsHaveFile, NoPod
  <2>3. \/ pod' = [pod EXCEPT ![n] = NoPod] \/ UNCHANGED pod
        \/ \E stage \in {"opened", "dropped", "ready"} :
             pod' = [pod EXCEPT ![n].at = stage] /\ pod[n].path \in Files
    <3>1. files \subseteq Files
      BY DEF TypeInv, TypeOK
    <3> QED BY <3>1 DEF RunRestore, StopPod, TTLRemove, OpenSource, DropDatabase, CreateDatabase,
                CheckEmpty, RunPsql, PodFails, Reaches, Ends, world, TypeInv, PodsHaveFile
  <2> QED BY <2>1, <2>2, <2>3, Kept
<1>3. DbOK'
  <2> DEFINE t == Target(n)
  <2>1. \/ UNCHANGED db
        \/ db' = [db EXCEPT ![t] = [exists |-> FALSE, data |-> {}]]
        \/ db' = [db EXCEPT ![t].exists = TRUE]
        \/ db' = [db EXCEPT ![t].data = @ \cup {pod[n].path}] /\ pod[n].path \in Files
    BY DEF RunRestore, StopPod, TTLRemove, OpenSource, DropDatabase, CreateDatabase, CheckEmpty,
           RunPsql, PodFails, world, TypeInv, PodsHaveFile
  <2>2. pod[n] \in PodRecord /\ db \in [Dbs -> DbRecord]
    BY DEF TypeInv, TypeOK
  <2>3. t \in Dbs
    BY <2>2, NamesAssumption DEF PodRecord, Target, RestoreSpec
  <2> HIDE DEF t
  <2>4. db[t] \in DbRecord
    BY <2>2, <2>3
  <2>5. CASE db' = [db EXCEPT ![t].exists = TRUE]
    <3> DEFINE e == [db[t] EXCEPT !.exists = TRUE]
    <3>1. e \in DbRecord
      BY <2>4 DEF DbRecord
    <3>2. db' = [db EXCEPT ![t] = e]
      BY <2>5
    <3> HIDE DEF e
    <3> QED BY <2>2, <3>1, <3>2 DEF DbOK
  <2>6. CASE db' = [db EXCEPT ![t].data = @ \cup {pod[n].path}] /\ pod[n].path \in Files
    <3> DEFINE e == [db[t] EXCEPT !.data = @ \cup {pod[n].path}]
    <3>1. e \in DbRecord
      BY <2>4, <2>6 DEF DbRecord
    <3>2. db' = [db EXCEPT ![t] = e]
      BY <2>6
    <3> HIDE DEF e
    <3> QED BY <2>2, <3>1, <3>2 DEF DbOK
  <2>7. CASE db' = [db EXCEPT ![t] = [exists |-> FALSE, data |-> {}]]
    BY <2>2, <2>7 DEF DbOK, DbRecord
  <2> QED BY <2>1, <2>5, <2>6, <2>7, Kept
<1>4. UNCHANGED <<restore, caches, backup, files, queue, local, bounds>>
  BY DEF RunRestore, StopPod, TTLRemove, world
<1> QED BY <1>1, <1>2, <1>3, <1>4, Kept, TypePartsNext

LEMMA UsersType == ASSUME TypeInv, Others PROVE TypeInv'
<1>1. JobOK' /\ CacheOK' /\ PodOK' /\ DbOK' /\ LocalOK' /\ HistoryOK'
  <2>1. UNCHANGED <<job, caches, pod, db, queue, local, history>>
    BY DEF Others, CreateResource, EditResource, DeleteResource, BackupCompletes, BackupGoes,
           FileGoes, world
  <2> QED BY <2>1, Kept DEF history
<1>2. CountOK'
  <2>1. \/ Edit /\ UNCHANGED <<faults, crashes, stale, losses>>
        \/ Loss /\ UNCHANGED <<edits, faults, crashes, stale>>
        \/ UNCHANGED bounds
    BY DEF Others, CreateResource, EditResource, DeleteResource, BackupCompletes, BackupGoes,
           FileGoes, bounds
  <2>2. Edit => edits' \in 0..MaxEdits
    BY BoundAssumption DEF TypeInv, TypeOK, Edit
  <2>3. Loss => losses' \in 0..MaxLosses
    BY BoundAssumption DEF TypeInv, TypeOK, Loss
  <2> QED BY <2>1, <2>2, <2>3, Kept, TypeParts DEF CountOK
<1>3. RestoreOK' /\ SourceOK'
  <2>1. CASE \E r \in Restores : CreateResource(r) \/ EditResource(r) \/ DeleteResource(r)
    <3> PICK r \in Restores : CreateResource(r) \/ EditResource(r) \/ DeleteResource(r)
      BY <2>1
    <3>1. restore[r] \in RestoreRecord /\ restore[r].uid \in 0..MaxUid
      BY DEF TypeInv, TypeOK, RestoreRecord
    <3>6. restore \in [Restores -> RestoreRecord]
      BY DEF TypeInv, TypeOK
    <3>2. SourceOK'
      BY Kept DEF CreateResource, EditResource, DeleteResource, world
    <3>3. CASE CreateResource(r)
      <4>1. restore[r].uid + 1 \in 0..MaxUid
        BY <3>1, <3>3, BoundAssumption DEF CreateResource
      <4> PICK s \in Specs : restore' = [restore EXCEPT ![r] = NewRestore(TRUE, @.uid + 1, s)]
        BY <3>3 DEF CreateResource
      <4>2. NewRestore(TRUE, restore[r].uid + 1, s) \in RestoreRecord
        BY <4>1, FreshType
      <4> QED BY <3>2, <3>6, <4>2 DEF RestoreOK
    <3>4. CASE EditResource(r)
      <4> PICK s \in Specs : restore' = [restore EXCEPT ![r].spec = s]
        BY <3>4 DEF EditResource
      <4> DEFINE e == [restore[r] EXCEPT !.spec = s]
      <4>1. e \in RestoreRecord
        BY <3>1 DEF RestoreRecord
      <4>2. restore' = [restore EXCEPT ![r] = e]
        OBVIOUS
      <4> HIDE DEF e
      <4> QED BY <3>2, <3>6, <4>1, <4>2 DEF RestoreOK
    <3>5. CASE DeleteResource(r)
      <4> DEFINE e == [restore[r] EXCEPT !.del = TRUE]
      <4>1. e \in RestoreRecord /\ Absent(restore[r].uid) \in RestoreRecord
        BY <3>1, AbsentType DEF RestoreRecord
      <4>2. restore' = [restore EXCEPT ![r] = e] \/ restore' = [restore EXCEPT ![r] = Absent(@.uid)]
        BY <3>5 DEF DeleteResource
      <4> HIDE DEF e
      <4> QED BY <3>2, <3>6, <4>1, <4>2 DEF RestoreOK
    <3> QED BY <3>2, <3>3, <3>4, <3>5
  <2>2. CASE \E b \in Backups : BackupCompletes(b) \/ BackupGoes(b)
    <3> PICK b \in Backups : BackupCompletes(b) \/ BackupGoes(b)
      BY <2>2
    <3>1. backup \in [Backups -> BackupRecord] /\ files \subseteq Files
      BY DEF TypeInv, TypeOK
    <3>2. \A c \in Backups : backup[c].at + 1 \in Nat
      BY <3>1 DEF BackupRecord
    <3>3. SourceOK'
      BY <3>1, <3>2 DEF BackupCompletes, BackupGoes, SourceOK, BackupRecord
    <3>4. UNCHANGED restore
      BY DEF BackupCompletes, BackupGoes
    <3> QED BY <3>3, <3>4, Kept
  <2>3. CASE \E f \in Files : FileGoes(f)
    BY <2>3, Kept DEF FileGoes, TypeInv, TypeOK, SourceOK
  <2> QED BY <2>1, <2>2, <2>3 DEF Others
<1> QED BY <1>1, <1>2, <1>3, TypePartsNext

LEMMA StutterType == ASSUME TypeInv, UNCHANGED vars PROVE TypeInv'
BY Kept, TypePartsNext DEF vars, world, history

LEMMA TypeStep == TypeInv /\ [Next]_vars => TypeInv'
BY StartType, ReconcileType, ManagerType, UsersType, PodType, StutterType DEF Next

LEMMA TypeInvariant == Spec => []TypeInv
BY InitType, TypeStep, PTL DEF Spec

\* Every variable of the Restore controller, its job and the world around them keeps its
\* type.
THEOREM TypeCorrect == Spec => []TypeOK
<1>1. TypeInv => TypeOK
  BY DEF TypeInv
<1> QED BY <1>1, TypeInvariant, PTL

-----------------------------------------------------------------------------
(* What a database loses                                                   *)

LEMMA DbStep ==
  ASSUME TypeInv, [Next]_vars, NEW d \in Dbs, ~(db[d].data \subseteq db'[d].data)
  PROVE  \E n \in JobNames : /\ pod[n].at = "opened" /\ Target(n) = d
                             /\ pod[n].spec.onConflict = "drop"
<1>1. db \in [Dbs -> DbRecord] /\ db[d] \in DbRecord
  BY DEF TypeInv, TypeOK
<1>2. PICK n \in JobNames : RunRestore(n)
  BY DEF Next, Start, Reconcile, AddFinalizer, DeleteJob, RemoveFinalizer, CheckJobStatus,
         ResolveSource, GetResources, CreateJob, PatchStatus, SyncRestores, SyncJobs, Restart, Others,
         CreateResource, EditResource, DeleteResource, BackupCompletes, BackupGoes, FileGoes,
         StopPod, TTLRemove, world, vars
<1>3. CASE DropDatabase(n)
  BY <1>1, <1>3 DEF DropDatabase
<1>4. CASE CreateDatabase(n)
  <2>1. CASE db' = [db EXCEPT ![Target(n)].exists = TRUE]
    <3> DEFINE e == [db[Target(n)] EXCEPT !.exists = TRUE]
    <3>1. db' = [db EXCEPT ![Target(n)] = e]
      BY <2>1
    <3>2. Target(n) = d => e.data = db[d].data
      BY <1>1 DEF DbRecord
    <3> HIDE DEF e
    <3> QED BY <1>1, <3>1, <3>2
  <2> QED BY <1>4, <2>1 DEF CreateDatabase
<1>5. CASE RunPsql(n)
  <2>1. CASE db' = [db EXCEPT ![Target(n)].data = @ \cup {pod[n].path}]
    <3> DEFINE e == [db[Target(n)] EXCEPT !.data = @ \cup {pod[n].path}]
    <3>1. db' = [db EXCEPT ![Target(n)] = e]
      BY <2>1
    <3>2. Target(n) = d => db[d].data \subseteq e.data
      BY <1>1 DEF DbRecord
    <3> HIDE DEF e
    <3> QED BY <1>1, <3>1, <3>2
  <2> QED BY <1>5, <2>1 DEF RunPsql
<1>6. CASE OpenSource(n) \/ CheckEmpty(n) \/ PodFails(n)
  BY <1>6 DEF OpenSource, CheckEmpty, PodFails
<1> QED BY <1>2, <1>3, <1>4, <1>5, <1>6 DEF RunRestore

\* Whatever pods of whatever Restores work on a database at the same time, it loses data only
\* to one that was told to drop it and has opened its dump.
THEOREM LossNeedsADump == Spec => DataLostOnlyToADump
<1>1. TypeInv /\ [Next]_vars
        => [\A d \in Dbs :
              ~(db[d].data \subseteq db'[d].data)
                => \E n \in JobNames : /\ pod[n].at = "opened" /\ Target(n) = d
                                       /\ pod[n].spec.onConflict = "drop"]_vars
  BY DbStep
<1> QED BY <1>1, TypeInvariant, PTL DEF Spec, DataLostOnlyToADump

-----------------------------------------------------------------------------
(* The inductive invariant                                                 *)

Busy == pc \notin {"idle", "finalizer"}
Good(r) == stale = 0 \/ restore[r].uid = 1

\* Whatever is around is of the present incarnation of its name or of one before.
Uids ==
  /\ \A r \in Restores : restore[r].exists => restore[r].uid >= 1
  /\ \A r \in Restores : seenR[r].exists => seenR[r].uid \in 1..restore[r].uid
  /\ \A n \in JobNames : Present(job, n) => job[n].uid \in 1..restore[n[1]].uid
  /\ \A n \in JobNames : Present(seenJ, n) => seenJ[n].uid \in 1..restore[n[1]].uid
  /\ pc # "idle" => obj.uid \in 1..restore[cur].uid
  /\ \A r \in Restores, u \in 0..MaxUid : <<r, u>> \in started => u <= restore[r].uid

\* A status names a job that has the name of its Restore.
Names ==
  /\ \A r \in Restores : restore[r].job # NoJob => restore[r].job[1] = r
  /\ \A r \in Restores : seenR[r].job # NoJob => seenR[r].job[1] = r
  /\ (pc # "idle" /\ obj.job # NoJob) => obj.job[1] = cur
  /\ pc = "patch" => (to.job = obj.job \/ (to.job # NoJob /\ to.job[1] = cur))

\* With current reads the Restore being reconciled stays the same, and the job its status
\* names is its own.
Same ==
  stale = 0 =>
    /\ Busy => restore[cur].exists /\ restore[cur].fin /\ restore[cur].uid = obj.uid
    /\ \A r \in Restores :
         (restore[r].job # NoJob /\ Present(job, restore[r].job))
           => job[restore[r].job].uid = restore[r].uid
    /\ (Busy /\ obj.job # NoJob /\ Present(job, obj.job)) => job[obj.job].uid = obj.uid
    /\ (pc = "patch" /\ to.job # NoJob /\ Present(job, to.job)) => job[to.job].uid = obj.uid

\* A success that is seen, and one about to be reported, happened.
Succeeded ==
  /\ \A n \in JobNames : job[n].st = "succeeded" => <<n[1], job[n].uid>> \in done
  /\ \A n \in JobNames : seenJ[n].st = "succeeded" => <<n[1], seenJ[n].uid>> \in done
  /\ (pc = "patch" /\ to.phase = "Completed" /\ restore[cur].exists /\ Good(cur))
       => <<cur, restore[cur].uid>> \in done

\* In a calm world a Restore that was started names its job, or is about to, and one that is
\* about to be started was not.
Once ==
  Calm =>
    /\ again = {}
    /\ \A r \in Restores :
         (restore[r].exists /\ <<r, restore[r].uid>> \in started)
           => \/ restore[r].job # NoJob
              \/ pc = "patch" /\ cur = r /\ to.job # NoJob /\ to.job # obj.job
    /\ pc \in {"source", "resources", "create"}
         => obj.job = NoJob /\ <<cur, obj.uid>> \notin started

\* The status about to be patched names the job that was just created.
Handed(n) == pc = "patch" /\ cur = n[1] /\ to.job = n /\ to.phase = "Running"

\* In a calm world a job that runs is the one its Restore names, or is about to, and that
\* Restore is neither Failed nor without its finalizer; the worker deletes the job before the
\* Restore, reports Failed only what runs no job, and knows the status it changes.
Live ==
  Calm =>
    /\ \A n \in JobNames :
         job[n].st = "active" =>
           /\ restore[n[1]].exists /\ restore[n[1]].fin /\ restore[n[1]].uid = job[n].uid
           /\ Handed(n) \/ (restore[n[1]].job = n /\ restore[n[1]].phase # "Failed")
    /\ Busy => obj.phase = restore[cur].phase /\ obj.job = restore[cur].job
    /\ (pc = "unfinalize" /\ obj.job # NoJob) => job[obj.job].st # "active"
    /\ pc = "patch" =>
         /\ to.job = obj.job \/ (obj.job = NoJob /\ to.phase = "Running")
         /\ to.phase = "Failed" => \A n \in JobNames : n[1] = cur => job[n].st # "active"

SafeInv == TypeInv /\ Uids /\ Names /\ Same /\ Succeeded /\ Once /\ Live /\ CompletedByOwnJob

-----------------------------------------------------------------------------
(* What a step does to a Restore, to a job and to the worker               *)

\* A Restore comes into being, is patched by the worker, goes away, or stays what it is to
\* the properties.
Created(r) ==
  /\ ~restore[r].exists /\ restore'[r].exists /\ restore'[r].uid = restore[r].uid + 1
  /\ restore'[r].job = NoJob /\ restore'[r].phase # "Completed"
  /\ UNCHANGED <<job, local, started, done>>
Patched(r) ==
  /\ pc = "patch" /\ pc' = "idle" /\ r = cur /\ restore[r].exists /\ restore'[r].exists
  /\ restore'[r].uid = restore[r].uid
  /\ restore'[r].job = IF to.job # obj.job THEN to.job ELSE restore[r].job
  /\ restore'[r].phase = IF to.phase # obj.phase THEN to.phase ELSE restore[r].phase
  /\ restore[r].fin => restore'[r].fin
  /\ UNCHANGED <<job, started, done>>
Gone(r) ==
  /\ ~restore'[r].exists /\ restore'[r].uid = restore[r].uid /\ restore'[r].job = NoJob
  /\ restore[r].fin => pc' = "idle"
Alike(r) ==
  /\ restore'[r].exists = restore[r].exists /\ restore'[r].uid = restore[r].uid
  /\ restore'[r].job = restore[r].job /\ restore'[r].phase = restore[r].phase
  /\ restore[r].fin => restore'[r].fin
RestoreStep(r) == Created(r) \/ Patched(r) \/ Gone(r) \/ Alike(r)

LEMMA RestoreSteps ==
  ASSUME TypeInv, Next PROVE \A r \in Restores : RestoreStep(r)
<1> SUFFICES ASSUME NEW r \in Restores PROVE RestoreStep(r)
  OBVIOUS
<1>1. restore \in [Restores -> RestoreRecord] /\ restore[r] \in RestoreRecord
  BY DEF TypeInv, TypeOK
<1>2. CASE UNCHANGED restore
  BY <1>2 DEF RestoreStep, Alike
<1>3. CASE AddFinalizer
  <2> DEFINE added == [restore[cur] EXCEPT !.fin = TRUE]
  <2>1. UNCHANGED restore \/ restore' = [restore EXCEPT ![cur] = added]
    BY <1>3 DEF AddFinalizer
  <2>2. cur \in Restores
    BY <1>3, ReconcileFrame DEF Reconcile
  <2>3. /\ added.exists = restore[cur].exists /\ added.uid = restore[cur].uid
        /\ added.job = restore[cur].job /\ added.phase = restore[cur].phase /\ added.fin
    BY <1>1, <2>2 DEF TypeInv, TypeOK, RestoreRecord
  <2> HIDE DEF added
  <2>4. restore'[r] = restore[r] \/ (r = cur /\ restore'[r] = added)
    BY <1>1, <2>1, <2>2
  <2> QED BY <2>3, <2>4 DEF RestoreStep, Alike
<1>4. CASE RemoveFinalizer
  <2>1. \/ UNCHANGED restore
        \/ /\ obj = restore[cur] /\ restore' = [restore EXCEPT ![cur] = Absent(obj.uid)]
           /\ pc' = "idle"
    BY <1>4 DEF RemoveFinalizer, Return, Reset
  <2>2. ~Absent(obj.uid).exists /\ Absent(obj.uid).uid = obj.uid /\ Absent(obj.uid).job = NoJob
    BY Zenon DEF Absent, NewRestore
  <2>3. restore'[r] = restore[r] \/ (pc' = "idle" /\ obj = restore[r] /\ restore'[r] = Absent(obj.uid))
    BY <1>1, <2>1
  <2> QED BY <2>2, <2>3 DEF RestoreStep, Gone, Alike
<1>5. CASE PatchStatus
  <2>1. \/ UNCHANGED restore
        \/ /\ pc = "patch" /\ pc' = "idle" /\ restore[cur].exists
           /\ restore' = [restore EXCEPT ![cur] = Merged(restore[cur])]
    BY <1>5 DEF PatchStatus, Return, Reset
  <2>2. cur \in Restores /\ restore[cur] \in RestoreRecord
    BY <1>5, ReconcileFrame DEF Reconcile
  <2>3. LET m == Merged(restore[cur]) IN
          /\ m.exists = restore[cur].exists /\ m.uid = restore[cur].uid /\ m.fin = restore[cur].fin
          /\ m.job = IF to.job # obj.job THEN to.job ELSE restore[cur].job
          /\ m.phase = IF to.phase # obj.phase THEN to.phase ELSE restore[cur].phase
    BY <2>2 DEF Merged, RestoreRecord
  <2>4. \/ restore'[r] = restore[r]
        \/ /\ r = cur /\ pc = "patch" /\ pc' = "idle" /\ restore[r].exists
           /\ restore'[r] = Merged(restore[cur])
    BY <1>1, <2>1, <2>2
  <2>5. UNCHANGED <<job, started, done>>
    BY <1>5 DEF PatchStatus, history
  <2> QED BY <2>3, <2>4, <2>5 DEF RestoreStep, Patched, Alike
<1>6. CASE \E q \in Restores : CreateResource(q)
  <2> PICK q \in Restores : CreateResource(q)
    BY <1>6
  <2> PICK s \in Specs : restore' = [restore EXCEPT ![q] = NewRestore(TRUE, @.uid + 1, s)]
    BY DEF CreateResource
  <2> DEFINE new == NewRestore(TRUE, restore[q].uid + 1, s)
  <2>1. new.exists /\ new.uid = restore[q].uid + 1 /\ new.job = NoJob /\ new.phase = ""
    BY Zenon DEF NewRestore
  <2>2. "" # "Completed"
    OBVIOUS
  <2>3. new.phase # "Completed"
    BY <2>1, <2>2, Zenon
  <2>4. restore' = [restore EXCEPT ![q] = new]
    OBVIOUS
  <2>5. new.exists /\ new.uid = restore[q].uid + 1 /\ new.job = NoJob
    BY <2>1, Zenon
  <2> HIDE DEF new
  <2>6. restore'[r] = restore[r] \/ (q = r /\ restore'[r] = new)
    BY <1>1, <2>4
  <2>7. ~restore[q].exists /\ UNCHANGED <<job, local, started, done>>
    BY DEF CreateResource, history
  <2>8. CASE restore'[r] = restore[r]
    BY <2>8 DEF RestoreStep, Alike
  <2>9. CASE q = r /\ restore'[r] = new
    BY <2>3, <2>5, <2>7, <2>9 DEF RestoreStep, Created
  <2> QED BY <2>6, <2>8, <2>9
<1>7. CASE \E q \in Restores : EditResource(q) \/ DeleteResource(q)
  <2> PICK q \in Restores : EditResource(q) \/ DeleteResource(q)
    BY <1>7
  <2>1. restore[q] \in RestoreRecord
    BY <1>1 DEF TypeInv, TypeOK
  <2>2. CASE EditResource(q)
    <3> PICK s \in Specs : restore' = [restore EXCEPT ![q].spec = s]
      BY <2>2 DEF EditResource
    <3> DEFINE e == [restore[q] EXCEPT !.spec = s]
    <3>1. /\ e.exists = restore[q].exists /\ e.uid = restore[q].uid /\ e.job = restore[q].job
          /\ e.phase = restore[q].phase /\ e.fin = restore[q].fin
      BY <2>1 DEF RestoreRecord
    <3>2. restore' = [restore EXCEPT ![q] = e]
      OBVIOUS
    <3> HIDE DEF e
    <3>3. restore'[r] = restore[r] \/ (q = r /\ restore'[r] = e)
      BY <1>1, <3>2
    <3> QED BY <3>1, <3>3 DEF RestoreStep, Alike
  <2>3. CASE DeleteResource(q)
    <3> DEFINE e == [restore[q] EXCEPT !.del = TRUE]
               a == Absent(restore[q].uid)
    <3>1. /\ e.exists = restore[q].exists /\ e.uid = restore[q].uid /\ e.job = restore[q].job
          /\ e.phase = restore[q].phase /\ e.fin = restore[q].fin
      BY <2>1 DEF RestoreRecord
    <3>2. ~a.exists /\ a.uid = restore[q].uid /\ a.job = NoJob
      BY Zenon DEF Absent, NewRestore
    <3>3. restore' = [restore EXCEPT ![q] = IF restore[q].fin THEN e ELSE a]
      BY <2>3 DEF DeleteResource
    <3> HIDE DEF e, a
    <3>4. restore'[r] = restore[r] \/ (q = r /\ restore'[r] = IF restore[r].fin THEN e ELSE a)
      BY <1>1, <3>3
    <3> QED BY <3>1, <3>2, <3>4 DEF RestoreStep, Alike, Gone
  <2> QED BY <2>2, <2>3
<1>8. \/ UNCHANGED restore \/ AddFinalizer \/ RemoveFinalizer \/ PatchStatus
      \/ \E q \in Restores : CreateResource(q) \/ EditResource(q) \/ DeleteResource(q)
  BY DEF Next, Start, Reconcile, DeleteJob, CheckJobStatus, ResolveSource, GetResources, CreateJob,
         SyncRestores, SyncJobs, Restart, Others, BackupCompletes, BackupGoes, FileGoes,
         RunRestore, StopPod, TTLRemove
<1> QED BY <1>2, <1>3, <1>4, <1>5, <1>6, <1>7, <1>8

\* A job is created by the worker for the Restore at hand, ends, is removed, or stays.
Begun(n) ==
  /\ pc = "create" /\ pc' = "patch" /\ n[1] = cur /\ UNCHANGED <<cur, obj>>
  /\ job'[n].st = "active" /\ job'[n].uid = obj.uid
Ended(n) ==
  /\ Present(job, n) /\ job'[n].uid = job[n].uid /\ UNCHANGED local /\ job'[n].st # "active"
  /\ job'[n].st = "succeeded" => <<n[1], job[n].uid>> \in done'
JobStep(n) == Begun(n) \/ Ended(n) \/ job'[n].st = "none" \/ job'[n] = job[n]

LEMMA JobSteps ==
  ASSUME TypeInv, Next PROVE \A n \in JobNames : JobStep(n)
<1> SUFFICES ASSUME NEW n \in JobNames PROVE JobStep(n)
  OBVIOUS
<1>1. job \in [JobNames -> JobRecord] /\ job[n] \in JobRecord
  BY DEF TypeInv, TypeOK
<1>2. CASE UNCHANGED job
  BY <1>2 DEF JobStep
<1>3. CASE DeleteJob \/ \E m \in JobNames : TTLRemove(m)
  <2>1. UNCHANGED job \/ \E m \in JobNames \cup {NoJob} : job' = [job EXCEPT ![m] = NoRecord]
    <3>1. CASE DeleteJob
      <4>1. obj.job \in JobNames \cup {NoJob}
        BY DEF TypeInv, TypeOK, RestoreRecord
      <4> QED BY <3>1, <4>1 DEF DeleteJob
    <3> QED BY <1>3, <3>1 DEF TTLRemove
  <2> QED BY <1>1, <2>1 DEF JobStep, NoRecord
<1>4. CASE \E id \in RunIDs : CreateJob(id)
  <2> PICK id \in RunIDs : CreateJob(id)
    BY <1>4
  <2> DEFINE new == [st |-> "active", uid |-> obj.uid]
  <2>1. UNCHANGED job \/ job' = [job EXCEPT ![<<cur, id>>] = new]
    BY DEF CreateJob
  <2>2. pc = "create" /\ pc' = "patch" /\ UNCHANGED <<cur, obj>>
    BY DEF CreateJob, Patch, PatchPhase
  <2>3. <<cur, id>> \in JobNames
    BY <2>2 DEF TypeInv, TypeOK
  <2>4. new.st = "active" /\ new.uid = obj.uid
    OBVIOUS
  <2> HIDE DEF new
  <2>5. job'[n] = job[n] \/ (n = <<cur, id>> /\ job'[n] = new)
    BY <1>1, <2>1, <2>3
  <2> QED BY <2>2, <2>4, <2>5 DEF JobStep, Begun
<1>5. CASE \E m \in JobNames : RunRestore(m)
  <2> PICK m \in JobNames : RunRestore(m)
    BY <1>5
  <2>1. Ends(m, "succeeded") \/ Ends(m, "failed") \/ UNCHANGED job
    BY DEF RunRestore, OpenSource, DropDatabase, CreateDatabase, CheckEmpty, RunPsql, PodFails, Reaches
  <2>2. UNCHANGED local
    BY DEF RunRestore
  <2>3. ASSUME NEW result \in {"succeeded", "failed"}, Ends(m, result) PROVE JobStep(n)
    <3> DEFINE e == [job[m] EXCEPT !.st = result]
    <3>1. UNCHANGED job
          \/ /\ Present(job, m) /\ job' = [job EXCEPT ![m] = e]
             /\ result = "succeeded" => <<m[1], job[m].uid>> \in done'
      BY <2>3 DEF Ends
    <3>2. e.st = result /\ e.uid = job[m].uid
      BY <1>1 DEF TypeInv, TypeOK, JobRecord
    <3> HIDE DEF e
    <3>3. job'[n] = job[n] \/ (n = m /\ job'[n] = e)
      BY <1>1, <3>1
    <3> QED BY <2>2, <3>1, <3>2, <3>3 DEF JobStep, Ended
  <2> QED BY <1>2, <2>1, <2>3
<1>6. \/ UNCHANGED job \/ DeleteJob \/ \E id \in RunIDs : CreateJob(id)
      \/ \E m \in JobNames : RunRestore(m) \/ TTLRemove(m)
  BY DEF Next, Start, Reconcile, AddFinalizer, RemoveFinalizer, CheckJobStatus, ResolveSource,
         GetResources, PatchStatus, SyncRestores, SyncJobs, Restart, Others, CreateResource,
         EditResource, DeleteResource, BackupCompletes, BackupGoes, FileGoes, StopPod
<1> QED BY <1>2, <1>3, <1>4, <1>5, <1>6

\* The caches change to what there is; the histories grow, that of the jobs only by the
\* worker that creates one.
CacheStep ==
  /\ UNCHANGED seenR \/ (seenR' = restore /\ UNCHANGED restore)
  /\ UNCHANGED seenJ \/ (seenJ' = job /\ UNCHANGED <<job, restore>>)
StartedStep ==
  /\ pc = "create" /\ pc' = "patch" /\ UNCHANGED restore
  /\ started' = started \cup {<<cur, obj.uid>>}
  /\ again' = again \cup (started \cap {<<cur, obj.uid>>})
  /\ Calm' => \E n \in JobNames : to'.job = n
HistoryStep ==
  /\ UNCHANGED <<started, again>> \/ StartedStep
  /\ done \subseteq done'
  /\ stale <= stale' /\ (stale' = 0 => stale = 0) /\ (Calm' => Calm)

LEMMA OtherSteps == ASSUME TypeInv, Next PROVE CacheStep /\ HistoryStep
<1>1. UNCHANGED <<seenR, seenJ>> \/ SyncRestores \/ SyncJobs \/ Restart
  BY DEF Next, Start, Reconcile, AddFinalizer, DeleteJob, RemoveFinalizer, CheckJobStatus,
         ResolveSource, GetResources, CreateJob, PatchStatus, Others, CreateResource, EditResource,
         DeleteResource, BackupCompletes, BackupGoes, FileGoes, RunRestore, StopPod, TTLRemove, caches
<1>2. CacheStep
  BY <1>1 DEF CacheStep, SyncRestores, SyncJobs, Restart
<1>3. UNCHANGED <<started, again>> \/ \E id \in RunIDs : CreateJob(id)
  BY DEF Next, Start, Reconcile, AddFinalizer, DeleteJob, RemoveFinalizer, CheckJobStatus,
         ResolveSource, GetResources, PatchStatus, SyncRestores, SyncJobs, Restart, Others,
         CreateResource, EditResource, DeleteResource, BackupCompletes, BackupGoes, FileGoes,
         RunRestore, StopPod, TTLRemove, history
<1>4. UNCHANGED <<started, again>> \/ StartedStep
  <2>1. ASSUME NEW id \in RunIDs, CreateJob(id) PROVE UNCHANGED <<started, again>> \/ StartedStep
    <3>1. pc = "create" /\ pc' = "patch" /\ UNCHANGED restore
      BY <2>1 DEF CreateJob, Patch, PatchPhase
    <3>2. \/ UNCHANGED <<started, again>>
          \/ /\ started' = started \cup {<<cur, obj.uid>>}
             /\ again' = again \cup (started \cap {<<cur, obj.uid>>})
      BY <2>1 DEF CreateJob
    <3>3. <<cur, id>> \in JobNames
      BY <3>1 DEF TypeInv, TypeOK
    <3>4. Fault \/ Patch("Running", <<cur, id>>, path)
      BY <2>1 DEF CreateJob
    <3>5. Calm' => to'.job = <<cur, id>>
      <4>1. Fault => ~Calm'
        BY BoundAssumption DEF Fault, Calm, TypeInv, TypeOK
      <4> QED BY <3>4, <4>1 DEF Patch
    <3> QED BY <3>1, <3>2, <3>3, <3>5 DEF StartedStep
  <2> QED BY <1>3, <2>1
<1>5. done \subseteq done'
  <2>1. UNCHANGED done \/ \E n \in JobNames : RunRestore(n)
    BY DEF Next, Start, Reconcile, AddFinalizer, DeleteJob, RemoveFinalizer, CheckJobStatus,
           ResolveSource, GetResources, CreateJob, PatchStatus, SyncRestores, SyncJobs, Restart, Others,
           CreateResource, EditResource, DeleteResource, BackupCompletes, BackupGoes, FileGoes,
           StopPod, TTLRemove, history
  <2>2. ASSUME NEW n \in JobNames, RunRestore(n) PROVE done \subseteq done'
    BY <2>2 DEF RunRestore, OpenSource, DropDatabase, CreateDatabase, CheckEmpty, RunPsql, PodFails,
                Reaches, Ends
  <2> QED BY <2>1, <2>2
<1>6. \/ UNCHANGED <<faults, crashes, stale>>
      \/ Fault /\ UNCHANGED <<crashes, stale>>
      \/ crashes' = crashes + 1 /\ UNCHANGED <<faults, stale>>
      \/ stale' = stale + 1 /\ UNCHANGED <<faults, crashes>>
  BY DEF Next, Start, Reconcile, AddFinalizer, DeleteJob, RemoveFinalizer, CheckJobStatus,
         ResolveSource, GetResources, CreateJob, PatchStatus, SyncRestores, SyncJobs, Restart, Others,
         CreateResource, EditResource, DeleteResource, BackupCompletes, BackupGoes, FileGoes,
         RunRestore, StopPod, TTLRemove, bounds, others, Reads
<1>7. stale <= stale' /\ (stale' = 0 => stale = 0) /\ (Calm' => Calm)
  <2>1. stale \in Nat /\ faults \in Nat /\ crashes \in Nat
    BY BoundAssumption DEF TypeInv, TypeOK
  <2> QED BY <1>6, <2>1 DEF Fault, Calm
<1> QED BY <1>2, <1>4, <1>5, <1>7 DEF HistoryStep

\* The worker rests, ends, begins with what the cache shows, goes on, or is about to patch.
Begins ==
  /\ pc = "idle" /\ cur' \in Restores /\ obj' = seenR[cur'] /\ obj'.exists
  /\ pc' = FirstStep(obj') /\ (stale' = 0 => seenR = restore)
  /\ UNCHANGED <<restore, job, seenR, seenJ, to, started, again, done>>
GoesOn ==
  /\ Busy /\ pc # "patch" /\ UNCHANGED <<restore, cur, obj>>
  /\ pc' \notin {"idle", "finalizer", "check", "patch"}
  /\ pc' \in {"source", "resources", "create"} => pc \in {"source", "resources", "create"}
ToPatch ==
  /\ Busy /\ pc # "patch" /\ pc' = "patch" /\ UNCHANGED <<restore, cur, obj>>
  /\ \/ to'.job = obj.job
     \/ /\ to'.job \in JobNames /\ to'.job[1] = cur
        /\ Present(job', to'.job) => job'[to'.job].uid = obj.uid
  /\ to'.phase = "Completed"
       => /\ obj.job \in JobNames /\ seenJ[obj.job].st = "succeeded"
          /\ (stale' = 0 => seenJ = job) /\ UNCHANGED <<job, seenJ, done>>
WorkerStep == UNCHANGED local \/ pc' = "idle" \/ Begins \/ GoesOn \/ ToPatch

LEMMA WorkerSteps == ASSUME TypeInv, Next PROVE WorkerStep
<1>1. ASSUME NEW r \in Restores, Start(r) PROVE WorkerStep
  <2>1. FirstStep(seenR[r]) # "idle" => seenR[r].exists
    BY DEF FirstStep
  <2>2. stale' = 0 => seenR = restore
    BY <1>1, BoundAssumption DEF Start, Reads, TypeInv, TypeOK
  <2>3. CASE FirstStep(seenR[r]) = "idle"
    BY <1>1, <2>3 DEF Start, WorkerStep
  <2>4. CASE FirstStep(seenR[r]) # "idle"
    <3>1. cur' = r /\ obj' = seenR[r] /\ pc' = FirstStep(seenR[r]) /\ pc = "idle"
      BY <1>1, <2>4 DEF Start
    <3>2. UNCHANGED <<restore, job, seenR, seenJ, to, started, again, done>>
      BY <1>1 DEF Start, caches, history
    <3> QED BY <2>1, <2>2, <2>4, <3>1, <3>2 DEF WorkerStep, Begins
  <2> QED BY <2>3, <2>4
<1>2. CASE AddFinalizer \/ RemoveFinalizer \/ PatchStatus
  BY <1>2 DEF AddFinalizer, RemoveFinalizer, PatchStatus, Return, Reset, WorkerStep
<1>3. CASE DeleteJob
  BY <1>3 DEF DeleteJob, Return, Reset, Goto, WorkerStep, GoesOn, Busy
<1>4. CASE CheckJobStatus
  <2>1. obj.job \in JobNames
    BY <1>4 DEF CheckJobStatus, TypeInv, TypeOK, CheckNamed, RestoreRecord
  <2>2. pc = "check" /\ UNCHANGED <<restore, job, seenJ, done>>
    BY <1>4 DEF CheckJobStatus, caches, history
  <2>3. \/ pc' = "idle" \/ PatchPhase("Failed")
        \/ PatchPhase("Completed") /\ Reads(seenJ, job) /\ seenJ[obj.job].st = "succeeded"
    BY <1>4 DEF CheckJobStatus, Return, Reset
  <2>4. Reads(seenJ, job) => (stale' = 0 => seenJ = job)
    BY BoundAssumption DEF Reads, TypeInv, TypeOK
  <2> QED BY <2>1, <2>2, <2>3, <2>4 DEF PatchPhase, Patch, WorkerStep, ToPatch, Busy
<1>5. CASE ResolveSource
  BY <1>5 DEF ResolveSource, PatchPhase, Patch, WorkerStep, ToPatch, GoesOn, Busy
<1>6. CASE GetResources
  BY <1>6 DEF GetResources, PatchPhase, Patch, Goto, WorkerStep, ToPatch, GoesOn, Busy
<1>7. ASSUME NEW id \in RunIDs, CreateJob(id) PROVE WorkerStep
  <2>1. pc = "create" /\ pc' = "patch" /\ UNCHANGED <<restore, cur, obj>> /\ to'.phase # "Completed"
    BY <1>7 DEF CreateJob, Patch, PatchPhase
  <2>2. <<cur, id>> \in JobNames /\ job \in [JobNames -> JobRecord]
    BY <2>1 DEF TypeInv, TypeOK
  <2>3. to'.job = obj.job \/ to'.job = <<cur, id>>
    BY <1>7 DEF CreateJob, Patch, PatchPhase
  <2>4. Present(job', <<cur, id>>) => job'[<<cur, id>>].uid = obj.uid
    <3>1. UNCHANGED job \/ job' = [job EXCEPT ![<<cur, id>>] = [st |-> "active", uid |-> obj.uid]]
      BY <1>7 DEF CreateJob
    <3>2. Present(job, <<cur, id>>) => job[<<cur, id>>].uid = obj.uid
      BY <1>7 DEF CreateJob, MayDraw, InUse
    <3> QED BY <2>2, <3>1, <3>2 DEF Present
  <2> QED BY <2>1, <2>2, <2>3, <2>4 DEF WorkerStep, ToPatch, Busy
<1>8. CASE Restart
  BY <1>8 DEF Restart, Reset, WorkerStep
<1>9. UNCHANGED local \/ Reconcile \/ Restart \/ \E r \in Restores : Start(r)
  BY DEF Next, SyncRestores, SyncJobs, Others, CreateResource, EditResource, DeleteResource,
         BackupCompletes, BackupGoes, FileGoes, RunRestore, StopPod, TTLRemove
<1> QED BY <1>1, <1>2, <1>3, <1>4, <1>5, <1>6, <1>7, <1>8, <1>9 DEF WorkerStep, Reconcile

\* In a calm world the worker leaves off patching only with the patch done.
PatchSucceeds ==
  (Calm' /\ pc = "patch" /\ pc' = "idle") => Patched(cur) \/ ~restore[cur].exists

LEMMA PatchSteps == ASSUME TypeInv, Next PROVE PatchSucceeds
<1> SUFFICES ASSUME Calm', pc = "patch", pc' = "idle", restore[cur].exists PROVE Patched(cur)
  BY DEF PatchSucceeds
<1>1. faults' = 0 /\ crashes' = 0 /\ faults \in Nat /\ crashes \in Nat
  BY BoundAssumption DEF Calm, TypeInv, TypeOK
<1>2. ~Fault /\ ~Restart
  BY <1>1 DEF Fault, Restart
<1>3. ~UNCHANGED local
  BY DEF local
<1>4. PatchStatus
  BY <1>2, <1>3
     DEF Next, Start, Reconcile, AddFinalizer, DeleteJob, RemoveFinalizer, CheckJobStatus, ResolveSource,
         GetResources, CreateJob, SyncRestores, SyncJobs, Others, CreateResource, EditResource,
         DeleteResource, BackupCompletes, BackupGoes, FileGoes, RunRestore, StopPod, TTLRemove
<1>5. restore' = [restore EXCEPT ![cur] = Merged(restore[cur])] /\ UNCHANGED <<job, started, done>>
  BY <1>2, <1>4 DEF PatchStatus, history
<1>6. cur \in Restores /\ restore \in [Restores -> RestoreRecord] /\ restore[cur] \in RestoreRecord
  BY DEF TypeInv, TypeOK
<1>7. LET m == Merged(restore[cur]) IN
        /\ m.exists = restore[cur].exists /\ m.uid = restore[cur].uid /\ m.fin = restore[cur].fin
        /\ m.job = IF to.job # obj.job THEN to.job ELSE restore[cur].job
        /\ m.phase = IF to.phase # obj.phase THEN to.phase ELSE restore[cur].phase
  BY <1>6 DEF Merged, RestoreRecord
<1>8. restore'[cur] = Merged(restore[cur])
  BY <1>5, <1>6
<1> QED BY <1>5, <1>7, <1>8 DEF Patched

\* What the worker does to a job it knows of, in a calm world: it turns to the finalizer with
\* the job deleted, reports Failed where no job runs, Running with the job it created, and
\* takes away a Restore that is what it began with.
Turns ==
  (pc # "unfinalize" /\ pc' = "unfinalize")
    => UNCHANGED obj /\ (obj.job = NoJob \/ job'[obj.job].st = "none")
Reports ==
  (pc # "patch" /\ pc' = "patch") =>
    \/ /\ to'.job = obj.job /\ UNCHANGED job
       /\ to'.phase = "Failed"
            => \/ pc \in {"source", "resources"}
               \/ obj.job \in JobNames /\ job[obj.job].st # "active"
    \/ /\ pc = "create" /\ to'.phase = "Running"
       /\ \A n \in JobNames : n # to'.job => job'[n] = job[n]
Removes ==
  \A r \in Restores :
    (restore[r].exists /\ ~restore'[r].exists) =>
      /\ UNCHANGED job
      /\ restore[r].fin => pc = "unfinalize" /\ cur = r /\ obj = restore[r]
CalmStep == Calm' => Turns /\ Reports /\ Removes

LEMMA CalmSteps == ASSUME TypeInv, Next PROVE CalmStep
<1> SUFFICES ASSUME Calm' PROVE Turns /\ Reports /\ Removes
  BY DEF CalmStep
<1>1. ~Fault /\ ~Restart
  BY BoundAssumption DEF Fault, Restart, Calm, TypeInv, TypeOK
<1>2. obj.job \in JobNames \cup {NoJob} /\ job \in [JobNames -> JobRecord]
  BY DEF TypeInv, TypeOK, RestoreRecord
<1>3. Turns
  <2> SUFFICES ASSUME pc # "unfinalize", pc' = "unfinalize"
               PROVE  UNCHANGED obj /\ (obj.job = NoJob \/ job'[obj.job].st = "none")
    BY DEF Turns
  <2>1. DeleteJob
    BY DEF Next, Start, FirstStep, Reconcile, AddFinalizer, RemoveFinalizer, CheckJobStatus,
           ResolveSource, GetResources, CreateJob, PatchStatus, SyncRestores, SyncJobs, Restart, Others,
           CreateResource, EditResource, DeleteResource, BackupCompletes, BackupGoes, FileGoes,
           RunRestore, StopPod, TTLRemove, Return, Reset, Goto, PatchPhase, Patch, local
  <2> QED BY <1>2, <2>1 DEF DeleteJob, Goto, Return, Reset, NoRecord
<1>4. Reports
  <2> SUFFICES ASSUME pc # "patch", pc' = "patch"
               PROVE  \/ /\ to'.job = obj.job /\ UNCHANGED job
                         /\ to'.phase = "Failed"
                              => \/ pc \in {"source", "resources"}
                                 \/ obj.job \in JobNames /\ job[obj.job].st # "active"
                      \/ /\ pc = "create" /\ to'.phase = "Running"
                         /\ \A n \in JobNames : n # to'.job => job'[n] = job[n]
    BY DEF Reports
  <2>1. CheckJobStatus \/ ResolveSource \/ GetResources \/ \E id \in RunIDs : CreateJob(id)
    BY DEF Next, Start, FirstStep, Reconcile, AddFinalizer, DeleteJob, RemoveFinalizer, PatchStatus,
           SyncRestores, SyncJobs, Restart, Others, CreateResource, EditResource, DeleteResource,
           BackupCompletes, BackupGoes, FileGoes, RunRestore, StopPod, TTLRemove, Return, Reset,
           Goto, local
  <2>2. CASE CheckJobStatus
    <3>1. obj.job \in JobNames /\ UNCHANGED job
      BY <2>2 DEF CheckJobStatus, TypeInv, TypeOK, CheckNamed, RestoreRecord
    <3>2. Reads(seenJ, job) => seenJ = job
      BY BoundAssumption DEF Reads, Calm, TypeInv, TypeOK
    <3>3. to'.job = obj.job /\ (to'.phase = "Failed" => job[obj.job].st \in {"none", "failed"})
      BY <1>1, <2>2, <3>2 DEF CheckJobStatus, Return, Reset, PatchPhase, Patch
    <3> QED BY <3>1, <3>3
  <2>3. CASE ResolveSource
    BY <2>3 DEF ResolveSource, PatchPhase, Patch
  <2>4. CASE GetResources
    BY <2>4 DEF GetResources, PatchPhase, Patch, Goto
  <2>5. ASSUME NEW id \in RunIDs, CreateJob(id)
        PROVE  /\ pc = "create" /\ to'.phase = "Running"
               /\ \A n \in JobNames : n # to'.job => job'[n] = job[n]
    <3>1. /\ pc = "create" /\ to'.phase = "Running" /\ to'.job = <<cur, id>>
          /\ \/ UNCHANGED job
             \/ job' = [job EXCEPT ![<<cur, id>>] = [st |-> "active", uid |-> obj.uid]]
      BY <1>1, <2>5 DEF CreateJob, Patch
    <3> QED BY <1>2, <3>1
  <2> QED BY <2>1, <2>2, <2>3, <2>4, <2>5
<1>5. Removes
  <2> SUFFICES ASSUME NEW r \in Restores, restore[r].exists, ~restore'[r].exists
               PROVE  /\ UNCHANGED job
                      /\ restore[r].fin => pc = "unfinalize" /\ cur = r /\ obj = restore[r]
    BY DEF Removes
  <2>1. restore \in [Restores -> RestoreRecord]
    BY DEF TypeInv, TypeOK
  <2>2. \/ AddFinalizer \/ RemoveFinalizer \/ PatchStatus
        \/ \E q \in Restores : CreateResource(q) \/ EditResource(q) \/ DeleteResource(q)
    BY DEF Next, Start, Reconcile, DeleteJob, CheckJobStatus, ResolveSource, GetResources, CreateJob,
           SyncRestores, SyncJobs, Restart, Others, BackupCompletes, BackupGoes, FileGoes,
           RunRestore, StopPod, TTLRemove
  <2>4. CASE RemoveFinalizer
    BY <2>1, <2>4 DEF RemoveFinalizer
  <2>5. CASE AddFinalizer
    <3> DEFINE added == [restore[cur] EXCEPT !.fin = TRUE]
    <3>1. cur \in Restores /\ restore[cur] \in RestoreRecord
      BY <2>1, <2>5, ReconcileFrame DEF Reconcile
    <3>2. added.exists = restore[cur].exists
      BY <3>1 DEF RestoreRecord
    <3>3. UNCHANGED restore \/ restore' = [restore EXCEPT ![cur] = added]
      BY <2>5 DEF AddFinalizer
    <3> HIDE DEF added
    <3> QED BY <2>1, <3>2, <3>3
  <2>6. CASE PatchStatus
    <3>1. cur \in Restores /\ restore[cur] \in RestoreRecord
      BY <2>1, <2>6, ReconcileFrame DEF Reconcile
    <3>2. Merged(restore[cur]).exists = restore[cur].exists
      BY <3>1 DEF Merged, RestoreRecord
    <3>3. UNCHANGED restore \/ restore' = [restore EXCEPT ![cur] = Merged(restore[cur])]
      BY <2>6 DEF PatchStatus
    <3> QED BY <2>1, <3>2, <3>3
  <2>7. ASSUME NEW q \in Restores, CreateResource(q) \/ EditResource(q) \/ DeleteResource(q)
        PROVE  UNCHANGED job /\ ~restore[r].fin
    <3>1. UNCHANGED job
      BY <2>7 DEF CreateResource, EditResource, DeleteResource
    <3>3. CASE CreateResource(q)
      <4> PICK s \in Specs : restore' = [restore EXCEPT ![q] = NewRestore(TRUE, @.uid + 1, s)]
        BY <3>3 DEF CreateResource
      <4>1. NewRestore(TRUE, restore[q].uid + 1, s).exists
        BY Zenon DEF NewRestore
      <4> QED BY <2>1, <4>1
    <3>4. CASE EditResource(q)
      <4> PICK s \in Specs : restore' = [restore EXCEPT ![q].spec = s]
        BY <3>4 DEF EditResource
      <4> DEFINE e == [restore[q] EXCEPT !.spec = s]
      <4>1. e.exists = restore[q].exists
        BY <2>1 DEF RestoreRecord
      <4>2. restore' = [restore EXCEPT ![q] = e]
        OBVIOUS
      <4> HIDE DEF e
      <4> QED BY <2>1, <4>1, <4>2
    <3>5. CASE DeleteResource(q)
      <4> DEFINE e == [restore[q] EXCEPT !.del = TRUE]
                 a == Absent(restore[q].uid)
      <4>1. e.exists = restore[q].exists
        BY <2>1 DEF RestoreRecord
      <4>2. restore' = [restore EXCEPT ![q] = IF restore[q].fin THEN e ELSE a]
        BY <3>5 DEF DeleteResource
      <4> HIDE DEF e, a
      <4>3. restore'[r] = restore[r] \/ (q = r /\ restore'[r] = IF restore[r].fin THEN e ELSE a)
        BY <2>1, <4>2
      <4> QED BY <3>1, <4>1, <4>3
    <3> QED BY <2>7, <3>1, <3>3, <3>4, <3>5
  <2> QED BY <2>2, <2>4, <2>5, <2>6, <2>7
<1> QED BY <1>3, <1>4, <1>5

-----------------------------------------------------------------------------
(* The parts of the invariant, one lemma each                              *)

\* What a step does, in the terms above.
StepFacts ==
  /\ \A r \in Restores : RestoreStep(r)
  /\ \A n \in JobNames : JobStep(n)
  /\ CacheStep /\ HistoryStep /\ WorkerStep /\ PatchSucceeds /\ CalmStep
LEMMA Facts == ASSUME TypeInv, Next PROVE StepFacts
BY RestoreSteps, JobSteps, OtherSteps, WorkerSteps, PatchSteps, CalmSteps DEF StepFacts

LEMMA Sorts ==
  ASSUME TypeInv
  PROVE  /\ \A r \in Restores : restore[r].uid \in Nat /\ restore[r].exists \in BOOLEAN
         /\ \A r \in Restores : seenR[r].uid \in Nat /\ seenR[r].job \in JobNames \cup {NoJob}
         /\ \A r \in Restores : restore[r].job \in JobNames \cup {NoJob}
         /\ \A n \in JobNames : job[n].uid \in Nat /\ seenJ[n].uid \in Nat
         /\ obj.uid \in Nat /\ obj.job \in JobNames \cup {NoJob} /\ to.job \in JobNames \cup {NoJob}
         /\ (pc # "idle" => cur \in Restores)
         /\ \A n \in JobNames : n[1] \in Restores
<1>1. \A r \in Restores : restore[r] \in RestoreRecord /\ seenR[r] \in RestoreRecord
  BY DEF TypeInv, TypeOK
<1>2. \A n \in JobNames : job[n] \in JobRecord /\ seenJ[n] \in JobRecord
  BY DEF TypeInv, TypeOK
<1>3. obj \in RestoreRecord /\ to \in Status /\ (pc # "idle" => cur \in Restores)
  BY DEF TypeInv, TypeOK
<1>4. \A o \in RestoreRecord :
        o.uid \in Nat /\ o.exists \in BOOLEAN /\ o.job \in JobNames \cup {NoJob}
  BY BoundAssumption DEF RestoreRecord
<1>5. (\A j \in JobRecord : j.uid \in Nat) /\ (\A t \in Status : t.job \in JobNames \cup {NoJob})
  BY BoundAssumption DEF JobRecord, Status
<1>6. \A n \in JobNames : n[1] \in Restores
  OBVIOUS
<1> HIDE DEF JobNames
<1> QED BY <1>1, <1>2, <1>3, <1>4, <1>5, <1>6

LEMMA UidGrows ==
  ASSUME TypeInv, StepFacts, NEW r \in Restores
  PROVE  /\ restore[r].uid \in Nat /\ restore'[r].uid \in Nat /\ restore[r].uid <= restore'[r].uid
         /\ restore[r].uid = restore'[r].uid \/ Created(r)
BY Sorts DEF StepFacts, RestoreStep, Created, Patched, Gone, Alike

LEMMA UidsStep == ASSUME TypeInv, StepFacts, Uids PROVE Uids'
<1>1. (\A r \in Restores : restore[r].exists => restore[r].uid >= 1)'
  BY UidGrows, Sorts DEF Uids, StepFacts, RestoreStep, Created, Patched, Gone, Alike
<1>2. (\A r \in Restores : seenR[r].exists => seenR[r].uid \in 1..restore[r].uid)'
  BY UidGrows, Sorts DEF Uids, StepFacts, CacheStep
<1>3. (\A n \in JobNames : Present(job, n) => job[n].uid \in 1..restore[n[1]].uid)'
  <2> SUFFICES ASSUME NEW n \in JobNames, Present(job', n)
               PROVE  job'[n].uid \in 1..restore'[n[1]].uid
    BY DEF Present
  <2>1. /\ restore[n[1]].uid \in Nat /\ restore'[n[1]].uid \in Nat
        /\ restore[n[1]].uid <= restore'[n[1]].uid
    BY UidGrows, Sorts
  <2>2. CASE Begun(n)
    BY <2>1, <2>2, Sorts DEF Uids, Begun
  <2>3. CASE Ended(n) \/ job'[n] = job[n]
    BY <2>1, <2>3, Sorts DEF Uids, Ended, Present
  <2> QED BY <2>2, <2>3 DEF StepFacts, JobStep, Present
<1>4. (\A n \in JobNames : Present(seenJ, n) => seenJ[n].uid \in 1..restore[n[1]].uid)'
  <2> SUFFICES ASSUME NEW n \in JobNames, Present(seenJ', n)
               PROVE  seenJ'[n].uid \in 1..restore'[n[1]].uid
    BY DEF Present
  <2>1. /\ restore[n[1]].uid \in Nat /\ restore'[n[1]].uid \in Nat
        /\ restore[n[1]].uid <= restore'[n[1]].uid
    BY UidGrows, Sorts
  <2> QED BY <2>1, Sorts DEF Uids, StepFacts, CacheStep, Present
<1>5. (pc # "idle" => obj.uid \in 1..restore[cur].uid)'
  <2> SUFFICES ASSUME pc' # "idle" PROVE obj'.uid \in 1..restore'[cur'].uid
    OBVIOUS
  <2>1. CASE pc # "idle" /\ UNCHANGED <<cur, obj>>
    <3>1. cur \in Restores
      BY <2>1, Sorts
    <3> QED BY <2>1, <3>1, UidGrows, Sorts DEF Uids
  <2>2. CASE Begins
    BY <2>2, Sorts DEF Uids, Begins
  <2>3. UNCHANGED local => pc = pc' /\ UNCHANGED <<cur, obj>>
    BY DEF local
  <2> QED BY <2>1, <2>2, <2>3 DEF StepFacts, WorkerStep, GoesOn, ToPatch, Busy
<1>6. (\A r \in Restores, u \in 0..MaxUid : <<r, u>> \in started => u <= restore[r].uid)'
  <2> SUFFICES ASSUME NEW r \in Restores, NEW u \in 0..MaxUid, <<r, u>> \in started'
               PROVE  u <= restore'[r].uid
    OBVIOUS
  <2>1. /\ u \in Nat /\ restore[r].uid \in Nat /\ restore'[r].uid \in Nat
        /\ restore[r].uid <= restore'[r].uid
    BY UidGrows, BoundAssumption
  <2>2. CASE <<r, u>> \in started
    BY <2>1, <2>2 DEF Uids
  <2>3. CASE StartedStep /\ r = cur /\ u = obj.uid
    BY <2>1, <2>3 DEF Uids, StartedStep
  <2> QED BY <2>2, <2>3 DEF StepFacts, HistoryStep, StartedStep
<1> QED BY <1>1, <1>2, <1>3, <1>4, <1>5, <1>6 DEF Uids

LEMMA NamesStep == ASSUME TypeInv, StepFacts, Names PROVE Names'
<1>1. (\A r \in Restores : restore[r].job # NoJob => restore[r].job[1] = r)'
  <2> SUFFICES ASSUME NEW r \in Restores, restore'[r].job # NoJob PROVE restore'[r].job[1] = r
    OBVIOUS
  <2>1. \/ restore'[r].job = restore[r].job
        \/ pc = "patch" /\ r = cur /\ restore'[r].job = to.job /\ to.job # obj.job
    BY DEF StepFacts, RestoreStep, Created, Patched, Gone, Alike
  <2> QED BY <2>1 DEF Names
<1>2. (\A r \in Restores : seenR[r].job # NoJob => seenR[r].job[1] = r)'
  BY DEF Names, StepFacts, CacheStep
<1>3. (pc # "idle" /\ obj.job # NoJob => obj.job[1] = cur)'
  <2>1. UNCHANGED local => pc = pc' /\ UNCHANGED <<cur, obj>>
    BY DEF local
  <2> QED BY <2>1 DEF Names, StepFacts, WorkerStep, Begins, GoesOn, ToPatch, Busy
<1>4. (pc = "patch" => (to.job = obj.job \/ (to.job # NoJob /\ to.job[1] = cur)))'
  <2> SUFFICES ASSUME pc' = "patch"
               PROVE  to'.job = obj'.job \/ (to'.job # NoJob /\ to'.job[1] = cur')
    OBVIOUS
  <2>1. UNCHANGED local => pc = pc' /\ UNCHANGED <<cur, obj, to>>
    BY DEF local
  <2>2. ~Begins
    BY DEF Begins, FirstStep
  <2> HIDE DEF JobNames
  <2> QED BY <2>1, <2>2, NamesAssumption DEF Names, StepFacts, WorkerStep, GoesOn, ToPatch
<1> QED BY <1>1, <1>2, <1>3, <1>4 DEF Names

\* With current reads the Restore at hand is neither made anew nor gone under the worker.
LEMMA AtHand ==
  ASSUME TypeInv, StepFacts, Uids, Same, stale' = 0, Busy, pc' # "idle"
  PROVE  /\ cur \in Restores /\ stale = 0
         /\ restore[cur].exists /\ restore[cur].fin /\ restore[cur].uid = obj.uid
         /\ restore'[cur].exists /\ restore'[cur].fin /\ restore'[cur].uid = obj.uid
         /\ restore'[cur].job = restore[cur].job
<1>1. cur \in Restores /\ stale = 0
  BY Sorts DEF StepFacts, HistoryStep, Busy
<1>2. restore[cur].exists /\ restore[cur].fin /\ restore[cur].uid = obj.uid
  BY <1>1 DEF Same
<1>3. RestoreStep(cur)
  BY <1>1 DEF StepFacts
<1>4. restore'[cur].fin
  BY <1>2, <1>3 DEF RestoreStep, Created, Patched, Gone, Alike
<1>5. restore'[cur].exists /\ restore'[cur].uid = obj.uid /\ restore'[cur].job = restore[cur].job
  BY <1>2, <1>3 DEF RestoreStep, Created, Patched, Gone, Alike
<1> QED BY <1>1, <1>2, <1>4, <1>5

LEMMA Resting ==
  UNCHANGED local => pc' = pc /\ UNCHANGED <<cur, obj, path, to>>
BY DEF local

\* A job that is there after a step was there before, with the same uid, or was created for
\* the Restore at hand.
LEMMA JobUid ==
  ASSUME TypeInv, StepFacts, NEW n \in JobNames, Present(job', n)
  PROVE  Begun(n) \/ (Present(job, n) /\ job'[n].uid = job[n].uid)
BY DEF StepFacts, JobStep, Ended, Present

LEMMA SameStep == ASSUME TypeInv, StepFacts, Uids, Names, Same PROVE Same'
<1> SUFFICES ASSUME stale' = 0 PROVE Same'
  BY DEF Same
<1> HIDE DEF JobNames
<1>1. stale = 0
  BY DEF StepFacts, HistoryStep
<1>2. CASE Begins
  <2>1. UNCHANGED <<restore, job, to>> /\ obj' = restore[cur'] /\ cur' \in Restores /\ pc' # "patch"
    BY <1>2 DEF Begins, FirstStep
  <2>2. Busy' => obj'.exists /\ obj'.fin
    BY <1>2 DEF Begins, FirstStep, Busy
  <2> QED BY <1>1, <2>1, <2>2 DEF Same, Present
<1>3. CASE ~Begins
  <2>1. Busy' => Busy /\ pc' # "idle" /\ UNCHANGED <<cur, obj>>
    BY <1>3, Resting DEF StepFacts, WorkerStep, GoesOn, ToPatch, Busy
  <2>2. Busy' => /\ restore'[cur'].exists /\ restore'[cur'].fin /\ restore'[cur'].uid = obj'.uid
    BY <2>1, AtHand
  <2>3. ASSUME NEW r \in Restores, restore'[r].job # NoJob, Present(job', restore'[r].job)
        PROVE  job'[restore'[r].job].uid = restore'[r].uid
    <3>1. restore'[r].job \in JobNames /\ restore'[r].job[1] = r
      <4>1. restore'[r].job = restore[r].job \/ restore'[r].job = to.job
        BY <2>3 DEF StepFacts, RestoreStep, Created, Patched, Gone, Alike
      <4>2. Names'
        BY NamesStep
      <4> QED BY <2>3, <4>1, <4>2, Sorts DEF Names
    <3>2. CASE Begun(restore'[r].job)
      <4>1. Busy /\ pc' # "idle" /\ r = cur
        BY <3>1, <3>2 DEF Begun, Busy
      <4> QED BY <3>2, <4>1, AtHand DEF Begun
    <3>3. CASE ~Begun(restore'[r].job)
      <4>1. Present(job, restore'[r].job) /\ job'[restore'[r].job].uid = job[restore'[r].job].uid
        BY <2>3, <3>1, <3>3, JobUid
      <4>2. CASE Patched(r)
        <5>1. Busy /\ restore[cur].uid = obj.uid /\ r = cur
          BY <1>1, <4>2 DEF Same, Patched, Busy
        <5>2. restore'[r].job = to.job \/ restore'[r].job = restore[r].job
          BY <4>2 DEF Patched
        <5>3. restore'[r].uid = restore[r].uid
          BY <4>2 DEF Patched
        <5> QED BY <1>1, <2>3, <4>1, <4>2, <5>1, <5>2, <5>3 DEF Same, Patched
      <4>3. CASE Alike(r)
        BY <1>1, <2>3, <4>1, <4>3 DEF Same, Alike
      <4> QED BY <2>3, <4>2, <4>3 DEF StepFacts, RestoreStep, Created, Gone
    <3> QED BY <3>2, <3>3
  <2>4. ASSUME Busy', obj'.job # NoJob, Present(job', obj'.job)
        PROVE  job'[obj'.job].uid = obj'.uid
    <3>1. Busy /\ pc' # "idle" /\ UNCHANGED <<cur, obj>> /\ obj.job \in JobNames
      BY <2>1, <2>4, Sorts
    <3>2. Begun(obj.job) \/ (Present(job, obj.job) /\ job'[obj.job].uid = job[obj.job].uid)
      BY <2>4, <3>1, JobUid
    <3>3. Begun(obj.job) => job'[obj.job].uid = obj.uid
      BY DEF Begun
    <3> QED BY <1>1, <2>4, <3>1, <3>2, <3>3 DEF Same
  <2>5. ASSUME pc' = "patch", to'.job # NoJob, Present(job', to'.job)
        PROVE  job'[to'.job].uid = obj'.uid
    <3>1. CASE UNCHANGED local
      <4>1. pc = "patch" /\ UNCHANGED <<obj, to>> /\ to.job \in JobNames
        BY <2>5, <3>1, Resting, Sorts
      <4>2. Present(job, to.job) /\ job'[to.job].uid = job[to.job].uid
        BY <2>5, <4>1, JobUid DEF Begun
      <4> QED BY <1>1, <2>5, <4>1, <4>2 DEF Same
    <3>2. CASE ToPatch
      <4>1. to'.job = obj.job => obj.job # NoJob
        BY <2>5
      <4>2. UNCHANGED obj /\ Busy'
        BY <2>5, <3>2 DEF ToPatch, Busy
      <4> QED BY <2>4, <2>5, <3>2, <4>1, <4>2 DEF ToPatch
    <3> QED BY <1>3, <2>5, <3>1, <3>2 DEF StepFacts, WorkerStep, GoesOn
  <2> QED BY <2>2, <2>3, <2>4, <2>5 DEF Same, Present
<1> QED BY <1>2, <1>3

\* Whoever is about to patch Completed names a Restore that is the one it began with, unless
\* what it saw was stale and the name is used again.
LEMMA SucceededStep ==
  ASSUME TypeInv, StepFacts, Uids, Names, Same, Succeeded PROVE Succeeded'
<1> HIDE DEF JobNames
<1>1. done \subseteq done' /\ (stale' = 0 => stale = 0)
  BY DEF StepFacts, HistoryStep
<1>2. (\A n \in JobNames : job[n].st = "succeeded" => <<n[1], job[n].uid>> \in done)'
  BY <1>1 DEF Succeeded, StepFacts, JobStep, Begun, Ended
<1>3. (\A n \in JobNames : seenJ[n].st = "succeeded" => <<n[1], seenJ[n].uid>> \in done)'
  BY <1>1 DEF Succeeded, StepFacts, CacheStep
<1>4. ((pc = "patch" /\ to.phase = "Completed" /\ restore[cur].exists /\ Good(cur))
         => <<cur, restore[cur].uid>> \in done)'
  <2> SUFFICES ASSUME pc' = "patch", to'.phase = "Completed", restore'[cur'].exists,
                      stale' = 0 \/ restore'[cur'].uid = 1
               PROVE  <<cur', restore'[cur'].uid>> \in done'
    BY DEF Good
  <2>1. CASE UNCHANGED local
    <3>1. pc = "patch" /\ UNCHANGED <<cur, obj, to>> /\ cur \in Restores /\ Busy
      BY <2>1, Resting, Sorts DEF Busy
    <3>2. ~Created(cur)
      <4>1. CASE stale' = 0
        BY <3>1, <4>1, AtHand DEF Created
      <4>2. CASE restore'[cur].uid = 1
        BY <3>1, <4>2, Sorts DEF Created, Uids
      <4> QED BY <3>1, <4>1, <4>2
    <3>3. restore[cur].exists /\ restore'[cur].uid = restore[cur].uid
      BY <3>1, <3>2 DEF StepFacts, RestoreStep, Patched, Gone, Alike
    <3> QED BY <1>1, <3>1, <3>3 DEF Succeeded, Good
  <2>2. CASE ToPatch
    <3>1. /\ UNCHANGED <<restore, cur, obj, done>> /\ cur \in Restores /\ Busy /\ pc' # "idle"
          /\ obj.job \in JobNames /\ seenJ[obj.job].st = "succeeded" /\ (stale' = 0 => seenJ = job)
      BY <2>2, Sorts DEF ToPatch, Busy
    <3>2. obj.job[1] = cur /\ <<obj.job[1], seenJ[obj.job].uid>> \in done
      BY <3>1, NamesAssumption DEF Names, Succeeded, Busy
    <3>3. Present(seenJ, obj.job)
      BY <3>1 DEF Present
    <3>4. CASE stale' = 0
      <4>1. stale = 0 /\ seenJ = job /\ restore[cur].uid = obj.uid
        BY <1>1, <3>1, <3>4, AtHand
      <4>2. job[obj.job].uid = obj.uid
        BY <3>1, <3>3, <4>1, NamesAssumption DEF Same, Present
      <4> QED BY <3>1, <3>2, <4>1, <4>2
    <3>5. CASE restore[cur].uid = 1
      <4>1. seenJ[obj.job].uid = 1
        BY <3>1, <3>2, <3>3, <3>5 DEF Uids
      <4> QED BY <3>1, <3>2, <3>5, <4>1
    <3> QED BY <3>1, <3>4, <3>5
  <2> QED BY <2>1, <2>2 DEF StepFacts, WorkerStep, Begins, GoesOn, FirstStep
<1> QED BY <1>2, <1>3, <1>4 DEF Succeeded

LEMMA CompletedStep ==
  ASSUME TypeInv, StepFacts, Succeeded, CompletedByOwnJob PROVE CompletedByOwnJob'
<1> SUFFICES ASSUME NEW r \in Restores, restore'[r].exists, restore'[r].phase = "Completed",
                    stale' = 0 \/ restore'[r].uid = 1
             PROVE  <<r, restore'[r].uid>> \in done'
  BY DEF CompletedByOwnJob
<1>1. done \subseteq done' /\ (stale' = 0 => stale = 0)
  BY DEF StepFacts, HistoryStep
<1>2. CASE Patched(r)
  <2>1. /\ pc = "patch" /\ r = cur /\ restore[r].exists /\ restore'[r].uid = restore[r].uid
        /\ to.phase = "Completed" \/ restore[r].phase = "Completed"
    BY <1>2 DEF Patched
  <2> QED BY <1>1, <2>1 DEF Succeeded, Good, CompletedByOwnJob
<1>3. CASE Alike(r)
  BY <1>1, <1>3 DEF Alike, CompletedByOwnJob
<1> QED BY <1>2, <1>3 DEF StepFacts, RestoreStep, Created, Gone

LEMMA OnceStep ==
  ASSUME TypeInv, StepFacts, Uids, Names, Same, Once PROVE Once'
<1> SUFFICES ASSUME Calm' PROVE Once'
  BY DEF Once
<1> HIDE DEF JobNames
<1>1. Calm /\ stale' = 0 /\ stale = 0
  BY DEF StepFacts, HistoryStep, Calm
<1>2. again' = {}
  BY <1>1 DEF StepFacts, HistoryStep, StartedStep, Once
<1>3. ASSUME NEW r \in Restores, restore'[r].exists, <<r, restore'[r].uid>> \in started'
      PROVE  \/ restore'[r].job # NoJob
             \/ pc' = "patch" /\ cur' = r /\ to'.job # NoJob /\ to'.job # obj'.job
  <2>1. CASE Created(r)
    <3>1. UNCHANGED started /\ restore'[r].uid = restore[r].uid + 1
      BY <2>1 DEF Created
    <3>2. started \subseteq Restores \X (0..MaxUid)
      BY DEF TypeInv, TypeOK
    <3> QED BY <1>3, <3>1, <3>2, Sorts DEF Uids
  <2>2. CASE StartedStep /\ ~Created(r)
    <3>1. /\ UNCHANGED restore /\ Busy /\ pc' = "patch" /\ pc = "create"
          /\ (\E n \in JobNames : to'.job = n)
          /\ started' = started \cup {<<cur, obj.uid>>}
      BY <2>2 DEF StartedStep, Busy
    <3>2. UNCHANGED <<cur, obj>>
      BY <3>1 DEF StepFacts, WorkerStep, Begins, GoesOn, ToPatch, local
    <3>3. obj.job = NoJob
      BY <1>1, <3>1 DEF Once
    <3>4. CASE r = cur
      BY <3>1, <3>2, <3>3, <3>4, NamesAssumption
    <3>5. CASE r # cur
      BY <1>1, <1>3, <3>1, <3>5 DEF Once
    <3> QED BY <3>4, <3>5
  <2>3. CASE UNCHANGED started /\ ~Created(r)
    <3>1. /\ restore[r].exists /\ restore'[r].uid = restore[r].uid
          /\ Patched(r) \/ restore'[r].job = restore[r].job
      BY <1>3, <2>3 DEF StepFacts, RestoreStep, Patched, Gone, Alike
    <3>2. \/ restore[r].job # NoJob
          \/ pc = "patch" /\ cur = r /\ to.job # NoJob /\ to.job # obj.job
      BY <1>1, <1>3, <2>3, <3>1 DEF Once
    <3>3. CASE Patched(r)
      <4>1. pc = "patch" /\ restore'[r].job = IF to.job # obj.job THEN to.job ELSE restore[r].job
        BY <3>3 DEF Patched
      <4>2. to.job = obj.job \/ to.job # NoJob
        BY <4>1 DEF Names
      <4> QED BY <3>2, <4>1, <4>2
    <3>4. CASE restore'[r].job = restore[r].job /\ restore[r].job # NoJob
      BY <3>4
    <3>5. CASE ~Patched(r) /\ pc = "patch" /\ cur = r /\ to.job # NoJob /\ to.job # obj.job
      <4>1. Busy /\ cur \in Restores /\ restore[cur].exists
        BY <3>1, <3>5, Sorts DEF Busy
      <4>2. pc' # "idle"
        BY <3>5, <4>1 DEF StepFacts, PatchSucceeds
      <4>3. UNCHANGED local
        BY <3>5, <4>2 DEF StepFacts, WorkerStep, Begins, GoesOn, ToPatch
      <4> QED BY <3>5, <4>3, Resting
    <3> QED BY <3>1, <3>2, <3>3, <3>4, <3>5
  <2> QED BY <2>1, <2>2, <2>3 DEF StepFacts, HistoryStep
<1>4. ASSUME pc' \in {"source", "resources", "create"}
      PROVE  obj'.job = NoJob /\ <<cur', obj'.uid>> \notin started'
  <2>1. UNCHANGED started
    BY <1>4 DEF StepFacts, HistoryStep, StartedStep
  <2>2. CASE Begins
    <3>1. obj' = restore[cur'] /\ obj'.exists /\ obj'.job = NoJob /\ cur' \in Restores /\ pc = "idle"
      BY <1>1, <1>4, <2>2 DEF Begins, FirstStep
    <3> QED BY <1>1, <2>1, <3>1 DEF Once
  <2>3. CASE ~Begins
    <3>1. pc \in {"source", "resources", "create"} /\ UNCHANGED <<cur, obj>>
      BY <1>4, <2>3, Resting DEF StepFacts, WorkerStep, GoesOn, ToPatch
    <3> QED BY <1>1, <2>1, <3>1 DEF Once
  <2> QED BY <2>2, <2>3
<1> QED BY <1>2, <1>3, <1>4 DEF Once

LEMMA ActiveBefore ==
  ASSUME StepFacts, NEW n \in JobNames, job'[n].st = "active"
  PROVE  Begun(n) \/ (job[n].st = "active" /\ job'[n].uid = job[n].uid)
BY DEF StepFacts, JobStep, Ended

LEMMA LiveStep ==
  ASSUME TypeInv, StepFacts, Uids, Names, Same, Once, Live PROVE Live'
<1> SUFFICES ASSUME Calm' PROVE Live'
  BY DEF Live
<1> HIDE DEF JobNames
<1>1. Calm /\ stale' = 0 /\ stale = 0 /\ Turns /\ Reports /\ Removes
  BY DEF StepFacts, HistoryStep, CalmStep, Calm
\* What the worker knows of the Restore at hand.
<1>2. Busy => cur \in Restores /\ obj.phase = restore[cur].phase /\ obj.job = restore[cur].job
  BY <1>1, Sorts DEF Live, Busy
<1>3. (pc' # "idle" /\ Busy /\ ~Begins)
        => /\ UNCHANGED <<cur, obj>> /\ Alike(cur)
           /\ restore[cur].exists /\ restore[cur].fin /\ restore[cur].uid = obj.uid
  <2> SUFFICES ASSUME pc' # "idle", Busy, ~Begins
               PROVE  /\ UNCHANGED <<cur, obj>> /\ Alike(cur)
                      /\ restore[cur].exists /\ restore[cur].fin /\ restore[cur].uid = obj.uid
    OBVIOUS
  <2>1. UNCHANGED <<cur, obj>>
    BY Resting DEF StepFacts, WorkerStep, GoesOn, ToPatch
  <2>2. /\ restore[cur].exists /\ restore[cur].fin /\ restore[cur].uid = obj.uid
        /\ restore'[cur].exists /\ cur \in Restores
    BY <1>1, AtHand
  <2>3. Alike(cur)
    BY <2>2 DEF StepFacts, RestoreStep, Created, Patched, Gone
  <2> QED BY <2>1, <2>2, <2>3
<1>4. (Busy => obj.phase = restore[cur].phase /\ obj.job = restore[cur].job)'
  <2> SUFFICES ASSUME Busy'
               PROVE  obj'.phase = restore'[cur'].phase /\ obj'.job = restore'[cur'].job
    OBVIOUS
  <2>1. CASE Begins
    BY <1>1, <2>1 DEF Begins
  <2>2. CASE ~Begins
    <3>1. Busy /\ pc' # "idle"
      BY <2>2, Resting DEF StepFacts, WorkerStep, GoesOn, ToPatch, Busy
    <3> QED BY <1>2, <1>3, <2>2, <3>1 DEF Alike
  <2> QED BY <2>1, <2>2
<1>5. ((pc = "unfinalize" /\ obj.job # NoJob) => job[obj.job].st # "active")'
  <2> SUFFICES ASSUME pc' = "unfinalize", obj'.job # NoJob PROVE job'[obj'.job].st # "active"
    OBVIOUS
  <2>1. CASE pc # "unfinalize"
    BY <1>1, <2>1 DEF Turns
  <2>2. CASE pc = "unfinalize"
    <3>1. UNCHANGED obj /\ obj.job \in JobNames
      BY <2>2, Resting, Sorts DEF StepFacts, WorkerStep, Begins, GoesOn, ToPatch
    <3>2. job[obj.job].st # "active"
      BY <1>1, <2>2, <3>1 DEF Live
    <3>3. ~Begun(obj.job)
      BY <2>2 DEF Begun
    <3> QED BY <3>1, <3>2, <3>3, ActiveBefore
  <2> QED BY <2>1, <2>2
<1>6. ASSUME pc' = "patch"
      PROVE  /\ to'.job = obj'.job \/ (obj'.job = NoJob /\ to'.phase = "Running")
             /\ to'.phase = "Failed" => \A n \in JobNames : n[1] = cur' => job'[n].st # "active"
  <2>1. ~Begins
    BY <1>6 DEF Begins, FirstStep
  <2>2. Busy /\ UNCHANGED <<cur, obj>>
    BY <1>6, <2>1, Resting DEF StepFacts, WorkerStep, GoesOn, ToPatch, Busy
  <2>3. CASE pc = "patch"
    <3>1. UNCHANGED to
      BY <1>6, <2>1, <2>3, Resting DEF StepFacts, WorkerStep, GoesOn, ToPatch
    <3>2. \A n \in JobNames : ~Begun(n)
      BY <2>3 DEF Begun
    <3> QED BY <1>1, <2>2, <2>3, <3>1, <3>2, ActiveBefore DEF Live
  <2>4. CASE pc # "patch"
    <3>1. CASE pc = "create" /\ to'.phase = "Running"
      BY <1>1, <2>2, <3>1 DEF Once
    <3>2. CASE /\ to'.job = obj.job /\ UNCHANGED job
               /\ to'.phase = "Failed"
                    => \/ pc \in {"source", "resources"}
                       \/ obj.job \in JobNames /\ job[obj.job].st # "active"
      <4> SUFFICES ASSUME to'.phase = "Failed", NEW n \in JobNames, n[1] = cur
                   PROVE  job[n].st # "active"
        BY <2>2, <3>2
      <4>1. job[n].st = "active" => obj.job = n
        BY <1>1, <1>2, <2>2, <2>4 DEF Live, Handed
      <4>2. pc \in {"source", "resources"} => obj.job = NoJob
        BY <1>1 DEF Once
      <4> QED BY <3>2, <4>1, <4>2, NamesAssumption
    <3> QED BY <1>1, <1>6, <2>4, <3>1, <3>2 DEF Reports
  <2> QED BY <2>3, <2>4
<1>7. ASSUME NEW n \in JobNames, job'[n].st = "active"
      PROVE  /\ restore'[n[1]].exists /\ restore'[n[1]].fin /\ restore'[n[1]].uid = job'[n].uid
             /\ Handed(n)' \/ (restore'[n[1]].job = n /\ restore'[n[1]].phase # "Failed")
  <2> DEFINE r == n[1]
  <2>0. r \in Restores
    BY Sorts
  <2>1. CASE pc = "create" /\ pc' = "patch" /\ r = cur
    <3>1. Busy /\ ~Begins /\ obj.job = NoJob
      BY <1>1, <2>1 DEF Busy, Begins, Once
    <3>2. UNCHANGED cur /\ Alike(r) /\ restore[r].exists /\ restore[r].fin /\ restore[r].uid = obj.uid
      BY <1>3, <2>1, <3>1
    <3>3. \A m \in JobNames : m[1] = cur => job[m].st # "active"
      BY <1>1, <1>2, <2>1, <3>1, NamesAssumption DEF Live, Handed
    <3>4. Begun(n)
      BY <2>1, <3>3, <1>7, ActiveBefore
    <3>5. to'.phase = "Running" /\ to'.job = n
      BY <1>1, <1>7, <2>1, <3>3 DEF Reports
    <3> QED BY <2>1, <3>2, <3>4, <3>5 DEF Alike, Begun, Handed
  <2>2. CASE ~(pc = "create" /\ pc' = "patch" /\ r = cur)
    <3>1. job[n].st = "active" /\ job'[n].uid = job[n].uid
      BY <1>7, <2>2, ActiveBefore DEF Begun
    <3>2. /\ restore[r].exists /\ restore[r].fin /\ restore[r].uid = job[n].uid
          /\ Handed(n) \/ (restore[r].job = n /\ restore[r].phase # "Failed")
      BY <1>1, <3>1 DEF Live
    <3>3. CASE Patched(r)
      <4>1. /\ pc = "patch" /\ r = cur /\ obj.phase = restore[r].phase /\ obj.job = restore[r].job
            /\ to.job = obj.job \/ (obj.job = NoJob /\ to.phase = "Running")
            /\ to.phase # "Failed"
        BY <1>1, <1>2, <3>1, <3>3 DEF Live, Patched, Busy
      <4>2. /\ restore'[r].exists /\ restore'[r].fin /\ restore'[r].uid = job'[n].uid
            /\ restore'[r].job = IF to.job # obj.job THEN to.job ELSE restore[r].job
            /\ restore'[r].phase = IF to.phase # obj.phase THEN to.phase ELSE restore[r].phase
        BY <3>1, <3>2, <3>3 DEF Patched
      <4>3. CASE Handed(n)
        BY <4>1, <4>2, <4>3 DEF Handed
      <4>4. CASE restore[r].job = n /\ restore[r].phase # "Failed"
        BY <4>1, <4>2, <4>4, NamesAssumption
      <4> QED BY <3>2, <4>3, <4>4
    <3>4. CASE Alike(r) /\ ~Patched(r)
      <4>1. CASE Handed(n)
        <5>1. pc = "patch" /\ cur = r
          BY <4>1 DEF Handed
        <5>2. pc' # "idle"
          BY <3>2, <3>4, <5>1 DEF StepFacts, PatchSucceeds
        <5>3. UNCHANGED local
          BY <5>1, <5>2 DEF StepFacts, WorkerStep, Begins, GoesOn, ToPatch
        <5> QED BY <3>1, <3>2, <3>4, <4>1, <5>3, Resting DEF Alike, Handed
      <4> QED BY <3>1, <3>2, <3>4, <4>1 DEF Alike
    <3>5. ~Gone(r)
      <4>1. Gone(r) => pc = "unfinalize" /\ obj = restore[r]
        BY <1>1, <2>0, <3>2 DEF Gone, Removes
      <4>2. (pc = "unfinalize" /\ obj.job # NoJob) => job[obj.job].st # "active"
        BY <1>1 DEF Live
      <4> QED BY <3>1, <3>2, <4>1, <4>2, NamesAssumption DEF Handed
    <3>6. ~Created(r)
      BY <3>2 DEF Created
    <3> QED BY <2>0, <3>3, <3>4, <3>5, <3>6 DEF StepFacts, RestoreStep
  <2> QED BY <2>1, <2>2
<1> QED BY <1>4, <1>5, <1>6, <1>7 DEF Live, Handed

-----------------------------------------------------------------------------
(* The theorems                                                            *)

LEMMA SafeInit == Init => SafeInv
<1> SUFFICES ASSUME Init PROVE SafeInv
  OBVIOUS
<1>1. TypeInv
  BY InitType
<1>2. ~Absent(0).exists /\ Absent(0).job = NoJob
  BY Zenon DEF Absent, NewRestore
<1>3. \A r \in Restores : restore[r] = Absent(0) /\ seenR[r] = Absent(0)
  BY DEF Init
<1>4. \A n \in JobNames : job[n].st = "none" /\ seenJ[n].st = "none"
  BY DEF Init, NoRecord
<1>5. pc = "idle" /\ started = {} /\ again = {}
  BY DEF Init
<1>6. Uids /\ Names
  BY <1>2, <1>3, <1>4, <1>5 DEF Uids, Names, Present
<1>7. Same /\ Succeeded
  BY <1>2, <1>3, <1>4, <1>5 DEF Same, Succeeded, Present, Busy
<1>8. Once /\ CompletedByOwnJob
  BY <1>2, <1>3, <1>5 DEF Once, CompletedByOwnJob
<1>9. Live
  BY <1>4, <1>5 DEF Live, Busy
<1> QED BY <1>1, <1>6, <1>7, <1>8, <1>9 DEF SafeInv

LEMMA SafeStutter == ASSUME SafeInv, UNCHANGED vars PROVE SafeInv'
<1>1. TypeInv'
  BY StutterType DEF SafeInv
<1>2. Uids' /\ Names'
  BY DEF SafeInv, vars, caches, local, history, Uids, Names, Present
<1>3. Same' /\ Succeeded'
  BY DEF SafeInv, vars, caches, local, history, bounds, Same, Succeeded, Present, Busy, Good
<1>4. Once' /\ CompletedByOwnJob'
  BY DEF SafeInv, vars, caches, local, history, bounds, Once, CompletedByOwnJob, Calm
<1>5. Live'
  BY DEF SafeInv, vars, local, bounds, Live, Calm, Busy, Handed
<1> QED BY <1>1, <1>2, <1>3, <1>4, <1>5 DEF SafeInv

LEMMA SafeStep == SafeInv /\ [Next]_vars => SafeInv'
<1> SUFFICES ASSUME SafeInv, Next PROVE SafeInv'
  BY SafeStutter
<1>1. TypeInv' /\ StepFacts
  BY TypeStep, Facts DEF SafeInv
<1> QED BY <1>1, UidsStep, NamesStep, SameStep, SucceededStep, OnceStep, LiveStep, CompletedStep
       DEF SafeInv

LEMMA SafeInvariant == Spec => []SafeInv
BY SafeInit, SafeStep, PTL DEF Spec

\* A Restore that reports Completed had a job of its own that succeeded, whatever was
\* restarted, failed or expired meanwhile.
THEOREM CompletedIsTrue == Spec => []CompletedByOwnJob
<1>1. SafeInv => CompletedByOwnJob
  BY DEF SafeInv
<1> QED BY <1>1, SafeInvariant, PTL

\* Where no call failed, nothing was restarted and no read was stale, a Restore has one job in
\* its life: what it restored is not dropped by a second one.
THEOREM OneJob == Spec => []RunsOnce
<1>1. SafeInv => RunsOnce
  BY DEF SafeInv, Once, RunsOnce
<1> QED BY <1>1, SafeInvariant, PTL

\* Where no call failed, nothing was restarted and no read was stale, a Restore that reports
\* Failed has no job at work on the database.
THEOREM FailedStopped == Spec => []FailedHasStopped
<1>1. SafeInv => FailedHasStopped
  BY DEF SafeInv, Live, Handed, FailedHasStopped
<1> QED BY <1>1, SafeInvariant, PTL

\* Under the same conditions no job outlives the Restore it was created for, whenever that is
\* deleted.
THEOREM JobsGoWithRestore == Spec => []NoOrphanJob
<1>1. SafeInv => NoOrphanJob
  BY DEF SafeInv, Live, NoOrphanJob
<1> QED BY <1>1, SafeInvariant, PTL

=============================================================================
