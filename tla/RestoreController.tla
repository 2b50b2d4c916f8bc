--------------------------- MODULE RestoreController ---------------------------
(***************************************************************************)
(* The Restore controller (controllers/backup/restore_controller.go) and   *)
(* the job it starts (pkg/backup/restore.go).                              *)
(*                                                                         *)
(* A restore may drop a database, and nothing undoes that.  The controller *)
(* has one worker and each of its API calls is one action; the pod of a    *)
(* job works at the same time, statement by statement, also for a while    *)
(* after the job was deleted.  Around them users edit and delete Restores, *)
(* Backups complete and are deleted, dump files expire, the job controller *)
(* removes finished jobs and the operator restarts.                        *)
(***************************************************************************)
EXTENDS Naturals

CONSTANTS
  Restores,     \* names of Restore objects
  MaxRunID,     \* bound: random parts of a job name in use at a time, generateRunID
  Backups,      \* names of Backup objects
  Files,        \* dump files
  Dbs,          \* databases, each a Database object with its PostgreSQL database
  SourceDb,     \* the database each Backup is of
  Specs,        \* the specs users write
  Contents,     \* what a database may hold to begin with
  NoRestore, NoSpec, NoJob, NoFile,
  MaxUid,       \* bound: incarnations of one Restore name
  MaxEdits,     \* bound: changes users make to specs, Restores created anew
  MaxFaults,    \* bound: API calls and statements that fail
  MaxCrashes,   \* bound: restarts of the operator
  MaxStale,     \* bound: reads from a cache that trails the API server
  MaxLosses,    \* bound: Backups and files that are deleted
  MaxTroubles   \* bound: all of these together

RunIDs == 1..MaxRunID
JobNames == Restores \X RunIDs

\* RestoreSpec: backupRef and latestFrom name a Backup and a database, path a file; "none"
\* stands for a source that resolveSource refuses.
Sources ==
  [by : {"backupRef"}, name : Backups] \cup [by : {"latestFrom"}, name : Dbs]
  \cup [by : {"path"}, name : Files] \cup [by : {"none"}, name : {NoFile}]
RestoreSpec == [source : Sources, target : Dbs, onConflict : {"fail", "drop", "overwrite"}]

\* The data of a database: tables in schema public, data in other schemas.
Own == {"tables", "elsewhere"}

ASSUME NamesAssumption ==
  /\ NoRestore \notin Restores /\ NoJob \notin JobNames /\ NoFile \notin Files
  /\ NoSpec \notin Specs /\ Specs \subseteq RestoreSpec /\ Specs # {}
  /\ SourceDb \in [Backups -> Dbs] /\ Contents \subseteq SUBSET Own
ASSUME BoundAssumption ==
  /\ MaxRunID \in Nat /\ MaxUid \in Nat /\ MaxEdits \in Nat /\ MaxFaults \in Nat /\ MaxCrashes \in Nat
  /\ MaxStale \in Nat /\ MaxLosses \in Nat /\ MaxTroubles \in Nat

VARIABLES
  restore,    \* the Restore objects in the API server
  job,        \* the Job objects in the API server, with what their pods were given
  seenR,      \* the informer cache of Restores
  seenJ,      \* the informer cache of Jobs
  pod,        \* what the pod of each job has done so far
  backup,     \* the Backup objects, as the cache shows them
  files,      \* the dump files in the storage
  db,         \* the PostgreSQL databases
  queue,      \* the controller's work queue (delayed keys too)
  pc,         \* the next call of the worker, "idle" between reconciliations
  cur,        \* req.NamespacedName
  obj,        \* the local copy of the Restore
  path,       \* sourcePath
  to,         \* the status about to be patched
  started,    \* history: the incarnations a job was created for
  again,      \* history: the incarnations a second job was created for
  done,       \* history: the incarnations one of whose jobs succeeded
  edits, faults, crashes, stale, losses

caches == <<seenR, seenJ>>
local == <<pc, cur, obj, path, to>>
world == <<pod, backup, files, db>>
history == <<started, again, done>>
bounds == <<edits, faults, crashes, stale, losses>>
others == <<edits, crashes, stale, losses>>   \* than faults
vars == <<restore, job, caches, world, queue, local, history, bounds>>

Phases == {"", "Running", "Completed", "Failed"}
Terminal == {"Completed", "Failed"}

\* hash is the spec that status.specHash was computed from.
RestoreRecord ==
  [exists : BOOLEAN, uid : 0..MaxUid, fin : BOOLEAN, del : BOOLEAN, spec : Specs,
   phase : Phases, hash : Specs \cup {NoSpec}, job : JobNames \cup {NoJob},
   path : Files \cup {NoFile}]
NewRestore(e, u, s) ==
  [exists |-> e, uid |-> u, fin |-> FALSE, del |-> FALSE, spec |-> s, phase |-> "",
   hash |-> NoSpec, job |-> NoJob, path |-> NoFile]
AnySpec == CHOOSE s \in Specs : TRUE
Absent(u) == NewRestore(FALSE, u, AnySpec)

\* uid is that of the Restore the job was created for.
JobRecord == [st : {"none", "active", "succeeded", "failed"}, uid : 0..MaxUid]
NoRecord == [st |-> "none", uid |-> 0]
Present(js, n) == js[n].st # "none"

\* A pod has opened the dump, dropped the database, is ready to feed the dump to psql.
\* spec and path are what its environment was computed from.
PodRecord == [at : {"none", "started", "opened", "dropped", "ready"}, spec : Specs,
              path : Files \cup {NoFile}]
NoPod == [at |-> "none", spec |-> AnySpec, path |-> NoFile]
Working(n) == pod[n].at # "none"
Target(n) == pod[n].spec.target

\* at orders the completion times, 0 for none.
BackupRecord ==
  [phase : {"absent", "Running", "Completed"}, path : Files \cup {NoFile}, at : Nat]

\* data: its own data and the dumps that were restored into it.
DbRecord == [exists : BOOLEAN, data : SUBSET (Own \cup Files)]

Status == [phase : Phases, job : JobNames \cup {NoJob}, path : Files \cup {NoFile}]
NoStatus == [phase |-> "", job |-> NoJob, path |-> NoFile]

Steps == {"idle", "finalizer", "cleanup", "unfinalize", "check", "source", "resources",
          "create", "patch"}

TypeOK ==
  /\ restore \in [Restores -> RestoreRecord] /\ seenR \in [Restores -> RestoreRecord]
  /\ job \in [JobNames -> JobRecord] /\ seenJ \in [JobNames -> JobRecord]
  /\ pod \in [JobNames -> PodRecord]
  /\ backup \in [Backups -> BackupRecord] /\ files \subseteq Files
  /\ db \in [Dbs -> DbRecord]
  /\ queue \subseteq Restores
  /\ pc \in Steps /\ cur \in Restores \cup {NoRestore} /\ (pc # "idle" => cur \in Restores)
  /\ obj \in RestoreRecord /\ path \in Files \cup {NoFile} /\ to \in Status
  /\ started \subseteq Restores \X (0..MaxUid) /\ again \subseteq started
  /\ done \subseteq started
  /\ edits \in 0..MaxEdits /\ faults \in 0..MaxFaults /\ crashes \in 0..MaxCrashes
  /\ stale \in 0..MaxStale /\ losses \in 0..MaxLosses

-----------------------------------------------------------------------------
(* How a reconciliation ends and how it goes on                            *)

MoreTrouble == edits + faults + crashes + stale + losses < MaxTroubles

\* A read waits until the cache has caught up, or it is one of those that do not.
Reads(seen, real) ==
  \/ seen = real /\ UNCHANGED stale
  \/ seen # real /\ MoreTrouble /\ stale < MaxStale /\ stale' = stale + 1

Fault == MoreTrouble /\ faults < MaxFaults /\ faults' = faults + 1

Reset == pc' = "idle" /\ cur' = NoRestore /\ obj' = Absent(0) /\ path' = NoFile /\ to' = NoStatus

\* Errors and delays put the key back.
Return(requeue) ==
  /\ queue' = IF requeue THEN queue \cup {cur} ELSE queue
  /\ Reset

Goto(step) == pc' = step /\ UNCHANGED <<queue, cur, obj, path, to>>

Patch(phase, j, p) ==
  /\ pc' = "patch" /\ to' = [phase |-> phase, job |-> j, path |-> p]
  /\ UNCHANGED <<queue, cur, obj, path>>

\* updateStatus and updateStatusCompleted keep the job and the path.
PatchPhase(phase) == Patch(phase, obj.job, obj.path)

-----------------------------------------------------------------------------
(* Reconcile                                                               *)

\* isAlreadyProcessed
AlreadyProcessed(o) == o.phase \in Terminal /\ o.hash = o.spec

\* mutation: a Restore that ended is started again when its job is gone
FirstStepWithoutJob(o) ==
  IF ~o.exists THEN "idle"
  ELSE IF o.del THEN IF o.fin THEN "cleanup" ELSE "idle"
  ELSE IF ~o.fin THEN "finalizer"
  ELSE IF AlreadyProcessed(o) THEN "idle"
  ELSE IF o.job # NoJob /\ Present(seenJ, o.job) THEN "check"
  ELSE "source"

\* The early returns of Reconcile, in their order.
FirstStep(o) ==
  IF ~o.exists THEN "idle"
  ELSE IF o.del THEN IF o.fin THEN "cleanup" ELSE "idle"
  ELSE IF ~o.fin THEN "finalizer"
  ELSE IF AlreadyProcessed(o) THEN "idle"
  ELSE IF o.job # NoJob THEN "check"
  ELSE "source"

\* A worker takes a key off the queue and gets the object from the cache.
Start(r) ==
  /\ pc = "idle" /\ r \in queue /\ Reads(seenR, restore)
  /\ queue' = queue \ {r}
  /\ pc' = FirstStep(seenR[r])
  /\ IF FirstStep(seenR[r]) = "idle" THEN UNCHANGED <<cur, obj>>
     ELSE cur' = r /\ obj' = seenR[r]
  /\ UNCHANGED <<restore, job, caches, world, path, to, history, edits, faults, crashes, losses>>

\* ensureFinalizer: Update conflicts unless obj is the current version; any failure ends
\* the reconciliation with neither an error nor a requeue.
AddFinalizer ==
  /\ pc = "finalizer"
  /\ \/ /\ restore[cur] = obj /\ restore' = [restore EXCEPT ![cur].fin = TRUE]
        /\ Return(TRUE) /\ UNCHANGED faults
     \/ restore[cur] # obj /\ Return(FALSE) /\ UNCHANGED <<restore, faults>>
     \/ Fault /\ Return(FALSE) /\ UNCHANGED restore
  /\ UNCHANGED <<job, caches, world, history, others>>

\* mutation: a Restore is deleted without its job
CleanupNothing ==
  /\ pc = "cleanup" /\ Goto("unfinalize")
  /\ UNCHANGED <<restore, job, caches, world, history, bounds>>

\* handleDeletion: the job the status names is deleted, its pod is told to stop.
DeleteJob ==
  /\ pc = "cleanup"
  /\ \/ obj.job = NoJob /\ Goto("unfinalize") /\ UNCHANGED <<job, faults>>
     \/ /\ obj.job # NoJob /\ job' = [job EXCEPT ![obj.job] = NoRecord]
        /\ Goto("unfinalize") /\ UNCHANGED faults
     \/ obj.job # NoJob /\ Fault /\ Return(TRUE) /\ UNCHANGED job
  /\ UNCHANGED <<restore, caches, world, history, others>>

RemoveFinalizer ==
  /\ pc = "unfinalize"
  /\ \/ /\ restore[cur] = obj /\ restore' = [restore EXCEPT ![cur] = Absent(obj.uid)]
        /\ Return(FALSE) /\ UNCHANGED faults
     \/ restore[cur] # obj /\ Return(TRUE) /\ UNCHANGED <<restore, faults>>
     \/ Fault /\ Return(TRUE) /\ UNCHANGED restore
  /\ UNCHANGED <<job, caches, world, history, others>>

\* mutations: a failed job counts as a success; what has not succeeded has failed; a running
\* job is not polled; the phase is one the CRD does not have
CheckAnyEnd ==
  /\ pc = "check" /\ Reads(seenJ, job)
  /\ CASE seenJ[obj.job].st = "none" -> PatchPhase("Failed")
       [] seenJ[obj.job].st \in {"succeeded", "failed"} -> PatchPhase("Completed")
       [] OTHER -> Return(TRUE)
  /\ UNCHANGED <<restore, job, caches, world, history, edits, faults, crashes, losses>>

CheckNotSucceeded ==
  /\ pc = "check" /\ Reads(seenJ, job)
  /\ CASE seenJ[obj.job].st = "succeeded" -> PatchPhase("Completed")
       [] OTHER -> PatchPhase("Failed")
  /\ UNCHANGED <<restore, job, caches, world, history, edits, faults, crashes, losses>>

CheckOnce ==
  /\ pc = "check" /\ Reads(seenJ, job)
  /\ CASE seenJ[obj.job].st = "succeeded" -> PatchPhase("Completed")
       [] seenJ[obj.job].st \in {"none", "failed"} -> PatchPhase("Failed")
       [] OTHER -> Return(FALSE)
  /\ UNCHANGED <<restore, job, caches, world, history, edits, faults, crashes, losses>>

CheckNewPhase ==
  /\ pc = "check" /\ Reads(seenJ, job)
  /\ CASE seenJ[obj.job].st = "succeeded" -> PatchPhase("Succeeded")
       [] seenJ[obj.job].st \in {"none", "failed"} -> PatchPhase("Failed")
       [] OTHER -> Return(TRUE)
  /\ UNCHANGED <<restore, job, caches, world, history, edits, faults, crashes, losses>>

\* checkJobStatus and evaluateJobStatus, whatever spec the job was created for; a job
\* that is not in the cache was deleted, or has not reached it.
CheckJobStatus ==
  /\ pc = "check"
  /\ \/ /\ Reads(seenJ, job) /\ UNCHANGED faults
        /\ CASE seenJ[obj.job].st = "succeeded" -> PatchPhase("Completed")
             [] seenJ[obj.job].st \in {"none", "failed"} -> PatchPhase("Failed")
             [] OTHER -> Return(TRUE)
     \/ Fault /\ Return(TRUE) /\ UNCHANGED stale
  /\ UNCHANGED <<restore, job, caches, world, history, edits, crashes, losses>>

\* resolveFromBackupRef, resolveFromLatest and the path of the spec: the dumps it may be
Usable(b) == backup[b].phase = "Completed" /\ backup[b].path # NoFile
Latest(d) ==
  {b \in Backups : /\ SourceDb[b] = d /\ Usable(b)
                   /\ \A c \in Backups : (SourceDb[c] = d /\ Usable(c)) => backup[c].at <= backup[b].at}
Resolved(source) ==
  CASE source.by = "backupRef"  -> {backup[b].path : b \in {b \in {source.name} : Usable(b)}}
    [] source.by = "latestFrom" -> {backup[b].path : b \in Latest(source.name)}
    [] source.by = "path"       -> {source.name}
    [] OTHER                    -> {}

\* resolveSource: every failure is final, also that of the call.
ResolveSource ==
  /\ pc = "source"
  /\ \/ /\ Resolved(obj.spec.source) # {} /\ path' \in Resolved(obj.spec.source)
        /\ pc' = "resources" /\ UNCHANGED <<queue, cur, obj, to, faults>>
     \/ Resolved(obj.spec.source) = {} /\ PatchPhase("Failed") /\ UNCHANGED faults
     \/ Fault /\ PatchPhase("Failed")
  /\ UNCHANGED <<restore, job, caches, world, history, others>>

\* The Database, its DBCluster and the BackupStorage may be found or not at any time.
GetResources ==
  /\ pc = "resources"
  /\ Goto("create") \/ PatchPhase("Failed")
  /\ UNCHANGED <<restore, job, caches, world, history, bounds>>

InUse(n) == Present(job, n) \/ Working(n)

\* generateRunID: the least that is free stands for all that are.  A name in use is drawn
\* only by chance, and then not that of another object.
MayDraw(id) ==
  \/ ~InUse(<<cur, id>>) /\ \A k \in RunIDs : k < id => InUse(<<cur, k>>)
  \/ Present(job, <<cur, id>>) /\ job[<<cur, id>>].uid = obj.uid

\* Create: a job of that name is taken for the own; a failing call may have taken effect.
CreateJob(id) ==
  /\ pc = "create"
  /\ LET n == <<cur, id>>
         me == <<cur, obj.uid>>
         created == [job EXCEPT ![n] = [st |-> "active", uid |-> obj.uid]]
         begun == [pod EXCEPT ![n] = [at |-> "started", spec |-> obj.spec, path |-> path]]
         Create == /\ job' = created /\ pod' = begun
                   /\ started' = started \cup {me} /\ again' = again \cup (started \cap {me}) IN
       /\ MayDraw(id)
       /\ \/ /\ Present(job, n) /\ Patch("Running", n, path)
             /\ UNCHANGED <<job, pod, started, again, faults>>
          \/ ~Present(job, n) /\ Create /\ Patch("Running", n, path) /\ UNCHANGED faults
          \/ /\ ~Present(job, n) /\ Fault /\ PatchPhase("Failed")
             /\ Create \/ UNCHANGED <<job, pod, started, again>>
  /\ UNCHANGED <<restore, caches, backup, files, db, done, others>>

\* MergeFrom: only the fields that differ from the local copy are written.
Merged(o) ==
  [o EXCEPT !.phase = IF to.phase # obj.phase THEN to.phase ELSE @,
            !.hash  = IF obj.spec # obj.hash THEN obj.spec ELSE @,
            !.job   = IF to.job # obj.job THEN to.job ELSE @,
            !.path  = IF to.path # obj.path THEN to.path ELSE @]

\* Status().Patch; a failing call may have taken effect.
PatchStatus ==
  /\ pc = "patch"
  /\ LET patched == [restore EXCEPT ![cur] = Merged(@)] IN
       \/ /\ restore[cur].exists /\ restore' = patched
          /\ Return(to.phase = "Running") /\ UNCHANGED faults
       \/ ~restore[cur].exists /\ Return(TRUE) /\ UNCHANGED <<restore, faults>>
       \/ restore[cur].exists /\ Fault /\ Return(TRUE) /\ restore' \in {restore, patched}
  /\ UNCHANGED <<job, caches, world, history, others>>

Reconcile ==
  \/ AddFinalizer \/ DeleteJob \/ RemoveFinalizer \/ CheckJobStatus \/ ResolveSource
  \/ GetResources \/ (\E id \in RunIDs : CreateJob(id)) \/ PatchStatus

-----------------------------------------------------------------------------
(* The manager: informers and restarts                                     *)

\* Every change of a Restore that reaches the cache enqueues its key; jobs have no owner
\* reference, so their events enqueue nothing.
SyncRestores ==
  /\ seenR # restore /\ seenR' = restore
  /\ queue' = queue \cup {r \in Restores : seenR[r] # restore[r]}
  /\ UNCHANGED <<restore, job, seenJ, world, local, history, bounds>>

SyncJobs ==
  /\ seenJ # job /\ seenJ' = job
  /\ UNCHANGED <<restore, job, seenR, world, queue, local, history, bounds>>

Restart ==
  /\ MoreTrouble /\ crashes < MaxCrashes /\ crashes' = crashes + 1
  /\ seenR' = restore /\ seenJ' = job
  /\ queue' = {r \in Restores : restore[r].exists} /\ Reset
  /\ UNCHANGED <<restore, job, world, history, edits, faults, stale, losses>>

-----------------------------------------------------------------------------
(* The pods: RunRestore                                                    *)

\* The pod ends; its job, if it is still there, has the result.
Ends(n, result) ==
  /\ pod' = [pod EXCEPT ![n] = NoPod]
  /\ IF ~Present(job, n) THEN UNCHANGED <<job, done>>
     ELSE /\ job' = [job EXCEPT ![n].st = result]
          /\ done' = IF result = "failed" THEN done ELSE done \cup {<<n[1], job[n].uid>>}

Reaches(n, stage) == pod' = [pod EXCEPT ![n].at = stage] /\ UNCHANGED <<job, done>>

\* downloadBackup
OpenSource(n) ==
  /\ pod[n].at = "started"
  /\ IF pod[n].path \in files THEN Reaches(n, "opened") ELSE Ends(n, "failed")
  /\ UNCHANGED db

\* mutation: the database is dropped before the dump is asked for
DropAtOnce(n) ==
  /\ pod[n].at = "started" /\ pod[n].spec.onConflict = "drop"
  /\ db' = [db EXCEPT ![Target(n)] = [exists |-> FALSE, data |-> {}]]
  /\ Reaches(n, "dropped")

\* dropAndRecreateDatabase, up to DROP DATABASE IF EXISTS
DropDatabase(n) ==
  /\ pod[n].at = "opened" /\ pod[n].spec.onConflict = "drop"
  /\ db' = [db EXCEPT ![Target(n)] = [exists |-> FALSE, data |-> {}]]
  /\ Reaches(n, "dropped")

\* CREATE DATABASE fails if another pod was faster.
CreateDatabase(n) ==
  /\ pod[n].at = "dropped"
  /\ IF db[Target(n)].exists THEN Ends(n, "failed") /\ UNCHANGED db
     ELSE /\ db' = [db EXCEPT ![Target(n)].exists = TRUE]
          /\ Reaches(n, "ready")

\* isDatabaseEmpty counts the tables of schema public; overwrite asks for nothing.
CheckEmpty(n) ==
  /\ pod[n].at = "opened" /\ pod[n].spec.onConflict # "drop"
  /\ LET d == db[Target(n)] IN
       IF pod[n].spec.onConflict = "overwrite" \/ (d.exists /\ d.data \subseteq {"elsewhere"})
       THEN Reaches(n, "ready") ELSE Ends(n, "failed")
  /\ UNCHANGED db

\* restoreWithPsql: psql goes on after a statement that fails and then reports success.
RunPsql(n) ==
  /\ pod[n].at = "ready"
  /\ LET d == Target(n)
         filled == [db EXCEPT ![d].data = @ \cup {pod[n].path}] IN
       \/ db[d].exists /\ db' \in {db, filled} /\ Ends(n, "succeeded")
       \/ db[d].exists /\ db' = filled /\ Ends(n, "failed")
       \/ ~db[d].exists /\ UNCHANGED db /\ Ends(n, "failed")

\* A pod fails at any point: a call or statement does, or its node.
PodFails(n) == Working(n) /\ Ends(n, "failed") /\ UNCHANGED db

RunRestore(n) ==
  /\ \/ OpenSource(n) \/ DropDatabase(n) \/ CreateDatabase(n) \/ CheckEmpty(n)
     \/ RunPsql(n) \/ PodFails(n)
  /\ UNCHANGED <<restore, caches, backup, files, queue, local, started, again, bounds>>

\* The pod of a deleted job is stopped, some time.
StopPod(n) ==
  /\ Working(n) /\ ~Present(job, n)
  /\ pod' = [pod EXCEPT ![n] = NoPod]
  /\ UNCHANGED <<restore, job, caches, backup, files, db, queue, local, history, bounds>>

\* ttlSecondsAfterFinished
TTLRemove(n) ==
  /\ job[n].st \in {"succeeded", "failed"}
  /\ job' = [job EXCEPT ![n] = NoRecord]
  /\ UNCHANGED <<restore, caches, world, queue, local, history, bounds>>

-----------------------------------------------------------------------------
(* The users of Restores, and the sources                                  *)

Edit == MoreTrouble /\ edits < MaxEdits /\ edits' = edits + 1

\* A name used again counts as an edit.
CreateResource(r) ==
  /\ ~restore[r].exists /\ restore[r].uid < MaxUid
  /\ \E s \in Specs : restore' = [restore EXCEPT ![r] = NewRestore(TRUE, @.uid + 1, s)]
  /\ \/ restore[r].uid = 0 /\ UNCHANGED edits
     \/ restore[r].uid > 0 /\ Edit
  /\ UNCHANGED <<job, caches, world, queue, local, history, faults, crashes, stale, losses>>

EditResource(r) ==
  /\ restore[r].exists /\ ~restore[r].del
  /\ Edit
  /\ \E s \in Specs \ {restore[r].spec} : restore' = [restore EXCEPT ![r].spec = s]
  /\ UNCHANGED <<job, caches, world, queue, local, history, faults, crashes, stale, losses>>

DeleteResource(r) ==
  /\ restore[r].exists /\ ~restore[r].del
  /\ restore' = [restore EXCEPT ![r] = IF @.fin THEN [@ EXCEPT !.del = TRUE] ELSE Absent(@.uid)]
  /\ UNCHANGED <<job, caches, world, queue, local, history, bounds>>

\* A Backup completes, without a path if its job could not annotate itself.
BackupCompletes(b) ==
  /\ backup[b].phase = "Running"
  /\ \E p \in files \cup {NoFile}, t \in {backup[c].at + 1 : c \in Backups} :
       /\ \A c \in Backups : backup[c].at < t
       /\ backup' = [backup EXCEPT ![b] = [phase |-> "Completed", path |-> p, at |-> t]]
  /\ UNCHANGED <<restore, job, caches, pod, files, db, queue, local, history, bounds>>

Loss == MoreTrouble /\ losses < MaxLosses /\ losses' = losses + 1

\* Retention deletes Backups and files, each on its own.
BackupGoes(b) ==
  /\ backup[b].phase # "absent" /\ Loss
  /\ backup' = [backup EXCEPT ![b] = [phase |-> "absent", path |-> NoFile, at |-> 0]]
  /\ UNCHANGED <<restore, job, caches, pod, files, db, queue, local, history, edits, faults, crashes, stale>>

FileGoes(f) ==
  /\ f \in files /\ Loss /\ files' = files \ {f}
  /\ UNCHANGED <<restore, job, caches, pod, backup, db, queue, local, history, edits, faults, crashes, stale>>

Others ==
  \/ \E r \in Restores : CreateResource(r) \/ EditResource(r) \/ DeleteResource(r)
  \/ \E b \in Backups : BackupCompletes(b) \/ BackupGoes(b)
  \/ \E f \in Files : FileGoes(f)

-----------------------------------------------------------------------------
Init ==
  /\ restore = [r \in Restores |-> Absent(0)] /\ seenR = restore
  /\ job = [n \in JobNames |-> NoRecord] /\ seenJ = job
  /\ pod = [n \in JobNames |-> NoPod]
  /\ backup = [b \in Backups |-> [phase |-> "Running", path |-> NoFile, at |-> 0]]
  /\ files = Files
  /\ db \in [Dbs -> [exists : {TRUE}, data : Contents]]
  /\ queue = {} /\ pc = "idle" /\ cur = NoRestore /\ obj = Absent(0)
  /\ path = NoFile /\ to = NoStatus
  /\ started = {} /\ again = {} /\ done = {}
  /\ edits = 0 /\ faults = 0 /\ crashes = 0 /\ stale = 0 /\ losses = 0

Next ==
  \/ \E r \in Restores : Start(r)
  \/ Reconcile \/ SyncRestores \/ SyncJobs \/ Restart \/ Others
  \/ \E n \in JobNames : RunRestore(n) \/ StopPod(n) \/ TTLRemove(n)

Spec == Init /\ [][Next]_vars

\* The worker takes every queued key in its turn and finishes what it started; watches
\* deliver; pods end one way or the other and finished jobs expire.
Fairness ==
  /\ \A r \in Restores : SF_vars(Start(r))
  /\ WF_vars(Reconcile) /\ WF_vars(SyncRestores) /\ WF_vars(SyncJobs)
  /\ \A n \in JobNames : WF_vars(RunRestore(n)) /\ WF_vars(StopPod(n)) /\ WF_vars(TTLRemove(n))

FairSpec == Spec /\ Fairness

-----------------------------------------------------------------------------
(* Properties                                                              *)

Processed(r) == AlreadyProcessed(restore[r])

Calm == stale = 0 /\ faults = 0 /\ crashes = 0

\* A Restore reported Completed had a job of its own that succeeded, whatever was restarted,
\* failed or expired, and however stale the caches.  Excepted is a name that was used before
\* and read late: the job, or the Restore, of then is taken for that of now.
CompletedByOwnJob ==
  \A r \in Restores :
    (restore[r].exists /\ restore[r].phase = "Completed" /\ (stale = 0 \/ restore[r].uid = 1))
      => <<r, restore[r].uid>> \in done

\* A Restore runs once: neither its end, nor the expiry of its job, nor a change of its
\* spec starts a second job, which might drop what was restored.  A restart or a failed
\* call between the creation of the job and the patch of its name does, and so does a
\* cache that shows neither yet.
RunsOnce == Calm => again = {}

\* What a Restore reports Failed between reconciliations works no more (caches that have
\* caught up, no restart and no failed call): users may act on the database again.
FailedHasStopped ==
  Calm =>
    \A r \in Restores :
      (restore[r].exists /\ restore[r].phase = "Failed" /\ cur # r)
        => \A n \in JobNames : n[1] = r => job[n].st # "active"

\* No job outlives the Restore it was created for (the same exceptions).
NoOrphanJob ==
  Calm =>
    \A n \in JobNames :
      job[n].st = "active" => restore[n[1]].exists /\ restore[n[1]].uid = job[n].uid

\* A database loses data only to a pod that was told to drop it and has its dump at hand:
\* a source that is gone by the time the pod starts leaves everything as it was.
DataLostOnlyToADump ==
  [][\A d \in Dbs :
       ~(db[d].data \subseteq db'[d].data)
         => \E n \in JobNames : /\ pod[n].at = "opened" /\ Target(n) = d
                                /\ pod[n].spec.onConflict = "drop"]_vars

\* Every Restore ends up Completed or Failed, whatever restarts and stale reads occur, as
\* long as no call fails; every deleted one goes away, whatever fails.
EventuallySettled ==
  \A r \in Restores :
    /\ (restore[r].exists /\ ~restore[r].del)
         ~> (~restore[r].exists \/ restore[r].del \/ Processed(r) \/ faults > 0)
    /\ restore[r].del ~> ~restore[r].exists

=============================================================================
