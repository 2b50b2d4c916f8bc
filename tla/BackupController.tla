---------------------------- MODULE BackupController ----------------------------
(***************************************************************************)
(* The Backup controller of dbtether (controllers/backup/                  *)
(* backup_controller.go) with everything its correctness depends on: the   *)
(* API server's Backup and Job objects, the informer caches every read of  *)
(* the controller goes through, the work queue, the Kubernetes job         *)
(* controller with the backup pods it runs, the users of the Backup        *)
(* resource, failing API calls and restarts of the operator.               *)
(*                                                                         *)
(* The controller has one worker.  Between two of its API calls anything   *)
(* else may happen, so each call is one action; `pc' is the next call of   *)
(* the reconciliation in progress and obj, hash, to, copy and todo are its *)
(* local variables.                                                        *)
(***************************************************************************)
EXTENDS Integers, FiniteSets

CONSTANTS
  Backups,              \* names of Backup objects (namespace/name)
  RunIDs,               \* the random part of a job name, generateRunID
  Clusters,             \* DBClusters
  ClusterOf,            \* the DBCluster of each Backup's database
  MaxConcurrentBackups, \* the operator's flag; 0 or less selects the default
  BackoffLimit,         \* backoffLimit of the jobs, 3 in the code
  LagAllowed,           \* may the informer caches trail the API server when read?
  NoBackup, NoJob,
  MaxUid,               \* bound: incarnations of one Backup name
  MaxSpec,              \* bound: versions of one incarnation's spec
  MaxFaults,            \* bound: API calls of the controller that fail
  MaxCrashes            \* bound: restarts of the operator

JobNames == Backups \X RunIDs

ASSUME BackupsAssumption == NoBackup \notin Backups /\ NoJob \notin JobNames
ASSUME ClusterAssumption == ClusterOf \in [Backups -> Clusters]
ASSUME LimitAssumption == MaxConcurrentBackups \in Int /\ BackoffLimit \in Nat \ {0}
ASSUME BoundAssumption ==
  /\ LagAllowed \in BOOLEAN
  /\ MaxUid \in Nat /\ MaxSpec \in Nat \ {0} /\ MaxFaults \in Nat /\ MaxCrashes \in Nat

VARIABLES
  backup,     \* the Backup objects in the API server
  jobs,       \* the Job objects in the API server
  dumps,      \* history: the dump files that reached the storage
  seenB,      \* the informer cache of Backups
  seenJ,      \* the informer cache of Jobs
  queue,      \* the controller's work queue (rate limited and delayed keys too)
  pc,         \* the next API call of the worker, "idle" between reconciliations
  cur,        \* req.NamespacedName
  obj,        \* the local copy of the Backup
  hash,       \* specHash: the version of the spec it was computed from
  to,         \* the status about to be patched
  copy,       \* the job to evaluate after that patch
  todo,       \* the jobs handleDeletion still has to delete
  faults,     \* API calls that failed so far
  crashes     \* restarts so far

local == <<pc, cur, obj, hash, to, copy, todo>>
api == <<backup, jobs, dumps>>
cache == <<seenB, seenJ>>
vars == <<api, cache, queue, local, faults, crashes>>

Phases == {"", "Pending", "Running", "Completed", "Failed"}
Terminal == {"Completed", "Failed"}

\* A spec is the number of its version; a hash the version it belongs to, 0 for none.
BackupRecord ==
  [exists : BOOLEAN, uid : 0..MaxUid, fin : BOOLEAN, del : BOOLEAN, spec : 0..MaxSpec,
   phase : Phases, hash : 0..MaxSpec, job : JobNames \cup {NoJob},
   path : JobNames \cup {NoJob}]

\* An object as it is created, with nothing in its metadata or status yet.
Fresh(e, u, s) == [exists |-> e, uid |-> u, fin |-> FALSE, del |-> FALSE, spec |-> s,
                   phase |-> "", hash |-> 0, job |-> NoJob, path |-> NoJob]
Absent(u) == Fresh(FALSE, u, 0)
NewBackup(u) == Fresh(TRUE, u, 1)

\* st: "active" while pods run, "uploaded" when the pod has stored its dump and has
\* not exited; nfail is status.failed; ann: the job carries the result annotations.
JobRecord == [st : {"none", "active", "uploaded", "succeeded", "failed"},
              nfail : 0..(BackoffLimit + 1), ann : BOOLEAN,
              uid : 0..MaxUid, spec : 0..MaxSpec]

\* The job j with another status and annotation.
With(j, st, nfail, ann) ==
  [st |-> st, nfail |-> nfail, ann |-> ann, uid |-> j.uid, spec |-> j.spec]

NoRecord == [st |-> "none", nfail |-> 0, ann |-> FALSE, uid |-> 0, spec |-> 0]
NewJob(o) == [st |-> "active", nfail |-> 0, ann |-> FALSE, uid |-> o.uid, spec |-> o.spec]

Present(js, n) == js[n].st # "none"
Live(js, n) == js[n].st \in {"active", "uploaded"}

\* client.MatchingLabels{LabelBackupName, LabelBackupNamespace}
JobsOf(js, b) == {n \in JobNames : n[1] = b /\ Present(js, n)}

Status == [phase : Phases, job : JobNames \cup {NoJob}, path : JobNames \cup {NoJob}]
NoStatus == [phase |-> "", job |-> NoJob, path |-> NoJob]

Snapshot == [name : JobNames \cup {NoJob}, job : JobRecord]
NoSnapshot == [name |-> NoJob, job |-> NoRecord]
SnapshotOf(n) == [name |-> n, job |-> seenJ[n]]

Dump == [job : JobNames, uid : 0..MaxUid, spec : 0..MaxSpec]

Steps == {"idle", "finalizer", "cleanup", "delete", "check", "labels", "find",
          "resources", "throttle", "create", "patch"}

TypeOK ==
  /\ backup \in [Backups -> BackupRecord]
  /\ jobs \in [JobNames -> JobRecord]
  /\ dumps \subseteq Dump
  /\ seenB \in [Backups -> BackupRecord]
  /\ seenJ \in [JobNames -> JobRecord]
  /\ queue \subseteq Backups
  /\ pc \in Steps
  /\ cur \in Backups \cup {NoBackup}
  /\ (pc # "idle") => (cur \in Backups)
  /\ obj \in BackupRecord
  /\ hash \in 0..MaxSpec
  /\ to \in Status
  /\ copy \in Snapshot
  /\ todo \subseteq JobNames
  /\ faults \in 0..MaxFaults
  /\ crashes \in 0..MaxCrashes

-----------------------------------------------------------------------------
(* How a reconciliation ends and how it goes on                            *)

\* With LagAllowed = FALSE a cached read waits until the caches have caught up.
CaughtUp == seenB = backup /\ seenJ = jobs
MayRead == LagAllowed \/ CaughtUp

Fault == faults < MaxFaults /\ faults' = faults + 1

\* Return to the work queue; a key that is retried or delayed stays in it.
Return(requeue) ==
  /\ queue' = IF requeue THEN queue \cup {cur} ELSE queue
  /\ pc' = "idle" /\ cur' = NoBackup /\ obj' = Absent(0) /\ hash' = 0
  /\ to' = NoStatus /\ copy' = NoSnapshot /\ todo' = {}

Goto(step) ==
  /\ pc' = step
  /\ UNCHANGED <<queue, cur, obj, hash, to, copy, todo>>

\* o is the local Backup the status is computed from, c the job to evaluate next.
PatchThen(o, phase, job, path, c) ==
  /\ pc' = "patch" /\ obj' = o /\ copy' = c
  /\ to' = [phase |-> phase, job |-> job, path |-> path]
  /\ UNCHANGED <<queue, cur, hash, todo>>

\* updateStatus: a new phase, the job name kept.
PatchPhase(o, phase) == PatchThen(o, phase, o.job, o.path, NoSnapshot)

\* mutation: every job that has ended counts as a success
JobVerdictAnyEnd(j) == IF j.st \in {"succeeded", "failed"} THEN "Completed" ELSE "Running"

\* evaluateJobStatus's verdict on a job
JobVerdict(j) ==
  IF j.st = "succeeded" THEN "Completed"
  ELSE IF j.nfail > 0 /\ j.nfail >= BackoffLimit THEN "Failed"
  ELSE "Running"

\* updateStatusCompleted keeps status.jobName and takes the path the job was annotated with.
Evaluate(o, c) ==
  CASE JobVerdict(c.job) = "Running"   -> Return(TRUE)
    [] JobVerdict(c.job) = "Failed"    -> PatchPhase(o, "Failed")
    [] JobVerdict(c.job) = "Completed" ->
         PatchThen(o, "Completed", o.job, IF c.job.ann THEN c.name ELSE o.path, NoSnapshot)

-----------------------------------------------------------------------------
(* Reconcile                                                               *)

\* mutation: a failed Backup is looked at again
AlreadyCompleted(o) == o.phase = "Completed" /\ o.hash = o.spec

\* isAlreadyProcessed, with the hash of the spec in the local copy
AlreadyProcessed(o) == o.phase \in Terminal /\ o.hash = o.spec

\* mutation: jobs are created without waiting for the finalizer
FirstStepNoFinalizer(o) ==
  IF ~o.exists THEN "idle"
  ELSE IF o.del THEN "cleanup"
  ELSE IF AlreadyProcessed(o) THEN "idle"
  ELSE IF o.job # NoJob THEN "check"
  ELSE "find"

\* The early returns of Reconcile, in their order.
FirstStep(o) ==
  IF ~o.exists THEN "idle"
  ELSE IF o.del THEN IF o.fin THEN "cleanup" ELSE "idle"
  ELSE IF ~o.fin THEN "finalizer"
  ELSE IF AlreadyProcessed(o) THEN "idle"
  ELSE IF o.job # NoJob THEN "check"
  ELSE "find"

\* A worker takes a key off the queue and gets the object from the cache.
Start(b) ==
  /\ pc = "idle" /\ b \in queue /\ MayRead
  /\ queue' = queue \ {b}
  /\ pc' = FirstStep(seenB[b])
  /\ IF FirstStep(seenB[b]) = "idle"
     THEN UNCHANGED <<cur, obj, hash>>
     ELSE cur' = b /\ obj' = seenB[b] /\ hash' = seenB[b].spec
  /\ UNCHANGED <<api, cache, to, copy, todo, faults, crashes>>

\* ensureFinalizer: Update fails with a conflict unless obj is the current version;
\* any failure ends the reconciliation with neither an error nor a requeue.
AddFinalizer ==
  /\ pc = "finalizer"
  /\ \/ /\ backup[cur] = obj
        /\ backup' = [backup EXCEPT ![cur].fin = TRUE]
        /\ Return(TRUE) /\ UNCHANGED faults
     \/ /\ backup[cur] # obj
        /\ Return(FALSE) /\ UNCHANGED <<backup, faults>>
     \/ Fault /\ Return(FALSE) /\ UNCHANGED backup
  /\ UNCHANGED <<jobs, dumps, cache, crashes>>

\* mutations: only running jobs are deleted; only the job named in the status is
ListRunning ==
  /\ pc = "cleanup" /\ MayRead
  /\ pc' = "delete" /\ todo' = {n \in JobsOf(seenJ, cur) : Live(seenJ, n)}
  /\ UNCHANGED <<api, cache, queue, cur, obj, hash, to, copy, faults, crashes>>

ListStatusJob ==
  /\ pc = "cleanup" /\ MayRead
  /\ pc' = "delete" /\ todo' = {obj.job} \ {NoJob}
  /\ UNCHANGED <<api, cache, queue, cur, obj, hash, to, copy, faults, crashes>>

\* handleDeletion, deleteBackupJob: list the jobs, delete them one by one up to the
\* first error, and go on to the finalizer whether or not there was one.
ListForCleanup ==
  /\ pc = "cleanup" /\ MayRead
  /\ pc' = "delete" /\ todo' = JobsOf(seenJ, cur)
  /\ UNCHANGED <<api, cache, queue, cur, obj, hash, to, copy, faults, crashes>>

DeleteJob ==
  /\ pc = "delete" /\ todo # {}
  /\ \/ \E n \in todo : /\ jobs' = [jobs EXCEPT ![n] = NoRecord]
                        /\ todo' = todo \ {n}
                        /\ UNCHANGED faults
     \/ Fault /\ todo' = {} /\ UNCHANGED jobs
  /\ UNCHANGED <<backup, dumps, cache, queue, pc, cur, obj, hash, to, copy, crashes>>

\* mutation: a failed Update is not retried
RemoveFinalizerOnce ==
  /\ pc = "delete" /\ todo = {}
  /\ \/ /\ backup[cur] = obj
        /\ backup' = [backup EXCEPT ![cur] = Absent(obj.uid)] /\ UNCHANGED faults
     \/ backup[cur] # obj /\ UNCHANGED <<backup, faults>>
     \/ Fault /\ UNCHANGED backup
  /\ Return(FALSE)
  /\ UNCHANGED <<jobs, dumps, cache, crashes>>

RemoveFinalizer ==
  /\ pc = "delete" /\ todo = {}
  /\ \/ /\ backup[cur] = obj
        /\ backup' = [backup EXCEPT ![cur] = Absent(obj.uid)]
        /\ Return(FALSE) /\ UNCHANGED faults
     \/ /\ backup[cur] # obj
        /\ Return(TRUE) /\ UNCHANGED <<backup, faults>>
     \/ Fault /\ Return(TRUE) /\ UNCHANGED backup
  /\ UNCHANGED <<jobs, dumps, cache, crashes>>

\* checkJobStatus: the job named in the status, or else one with the labels
CheckJobStatus ==
  /\ pc = "check" /\ MayRead
  /\ IF Present(seenJ, obj.job) THEN Evaluate(obj, SnapshotOf(obj.job)) ELSE Goto("labels")
  /\ UNCHANGED <<api, cache, faults, crashes>>

\* mutation: a job that is gone is waited for
FindJobByLabelsWaits ==
  /\ pc = "labels" /\ MayRead
  /\ \/ JobsOf(seenJ, cur) = {} /\ Return(TRUE)
     \/ \E n \in JobsOf(seenJ, cur) : Evaluate(obj, SnapshotOf(n))
  /\ UNCHANGED <<api, cache, faults, crashes>>

\* findJobByLabels: Items[0] of the cached list is any of its members.
FindJobByLabels ==
  /\ pc = "labels" /\ MayRead
  /\ \/ JobsOf(seenJ, cur) = {} /\ PatchPhase(obj, "Failed")
     \/ \E n \in JobsOf(seenJ, cur) :
          IF obj.job = NoJob THEN PatchThen(obj, "Running", n, obj.path, SnapshotOf(n))
          ELSE Evaluate(obj, SnapshotOf(n))
  /\ UNCHANGED <<api, cache, faults, crashes>>

\* mutation: existing jobs are not looked for
FindNoJob ==
  /\ pc = "find" /\ MayRead /\ Goto("resources")
  /\ UNCHANGED <<api, cache, faults, crashes>>

\* createBackupJobIfAllowed, first step
FindExistingJob ==
  /\ pc = "find" /\ MayRead
  /\ \/ JobsOf(seenJ, cur) = {} /\ Goto("resources")
     \/ \E n \in JobsOf(seenJ, cur) :
          PatchThen(obj, "Running", n, obj.path, SnapshotOf(n))
  /\ UNCHANGED <<api, cache, faults, crashes>>

\* The Database, DBCluster and BackupStorage may be found ready or not at any time.
GetResources ==
  /\ pc = "resources"
  /\ Goto("throttle") \/ PatchPhase(obj, "Failed")
  /\ UNCHANGED <<api, cache, faults, crashes>>

MaxConcurrent == IF MaxConcurrentBackups <= 0 THEN 3 ELSE MaxConcurrentBackups

\* countActiveJobsForCluster: Succeeded = 0 and Failed = 0
ActiveJobs(js, c) ==
  {n \in JobNames : /\ ClusterOf[n[1]] = c /\ Present(js, n)
                    /\ js[n].st # "succeeded" /\ js[n].nfail = 0}

\* mutations: one job too many is let through; the phase is one the CRD does not have
CheckThrottlingOffByOne ==
  /\ pc = "throttle" /\ MayRead
  /\ IF Cardinality(ActiveJobs(seenJ, ClusterOf[cur])) > MaxConcurrent
     THEN PatchPhase(obj, "Pending") ELSE Goto("create")
  /\ UNCHANGED <<api, cache, faults, crashes>>

CheckThrottlingNewPhase ==
  /\ pc = "throttle" /\ MayRead
  /\ IF Cardinality(ActiveJobs(seenJ, ClusterOf[cur])) >= MaxConcurrent
     THEN PatchPhase(obj, "Throttled") ELSE Goto("create")
  /\ UNCHANGED <<api, cache, faults, crashes>>

CheckThrottling ==
  /\ pc = "throttle" /\ MayRead
  /\ IF Cardinality(ActiveJobs(seenJ, ClusterOf[cur])) >= MaxConcurrent
     THEN PatchPhase(obj, "Pending") ELSE Goto("create")
  /\ UNCHANGED <<api, cache, faults, crashes>>

\* createBackupJob and handleJobCreationError; a failing call may have taken effect.
CreateJob(r) ==
  /\ pc = "create"
  /\ LET n == <<cur, r>>
         created == [jobs EXCEPT ![n] = NewJob(obj)] IN
       \/ Present(jobs, n) /\ Goto("labels") /\ UNCHANGED <<jobs, faults>>
       \/ /\ ~Present(jobs, n) /\ jobs' = created
          /\ PatchThen(obj, "Running", n, obj.path, NoSnapshot) /\ UNCHANGED faults
       \/ /\ ~Present(jobs, n) /\ Fault /\ jobs' \in {jobs, created}
          /\ PatchPhase(obj, "Failed")
  /\ UNCHANGED <<backup, dumps, cache, crashes>>

\* MergeFrom: only the fields that differ from the local copy are written.
Merged(api1) ==
  [api1 EXCEPT !.phase = IF to.phase # obj.phase THEN to.phase ELSE @,
               !.hash  = IF hash # obj.hash THEN hash ELSE @,
               !.job   = IF to.job # obj.job THEN to.job ELSE @,
               !.path  = IF to.path # obj.path THEN to.path ELSE @]

\* updateStatusWithJobAndRunID: the result after a patch that succeeded
RequeueAfterPatch(phase) == phase \in {"Running", "Pending"}

\* checkThrottling drops the error of its patch, every other caller returns it.
RequeueAfterError(phase) == phase # "Pending"

\* Status().Patch and what its caller does next; a failing call may have taken effect.
PatchStatus ==
  /\ pc = "patch"
  /\ LET patched == [backup EXCEPT ![cur] = Merged(@)] IN
       \/ /\ backup[cur].exists /\ backup' = patched /\ UNCHANGED faults
          /\ IF copy # NoSnapshot THEN Evaluate(patched[cur], copy)
             ELSE Return(RequeueAfterPatch(to.phase))
       \/ /\ ~backup[cur].exists /\ UNCHANGED <<backup, faults>>
          /\ Return(RequeueAfterError(to.phase))
       \/ /\ backup[cur].exists /\ Fault /\ backup' \in {backup, patched}
          /\ Return(RequeueAfterError(to.phase))
  /\ UNCHANGED <<jobs, dumps, cache, crashes>>

Reconcile ==
  \/ AddFinalizer \/ ListForCleanup \/ DeleteJob \/ RemoveFinalizer
  \/ CheckJobStatus \/ FindJobByLabels \/ FindExistingJob \/ GetResources
  \/ CheckThrottling \/ (\E r \in RunIDs : CreateJob(r)) \/ PatchStatus

-----------------------------------------------------------------------------
(* The manager: informers and restarts                                     *)

\* Every change of a Backup that reaches the cache enqueues its key.
SyncBackups ==
  /\ seenB # backup /\ seenB' = backup
  /\ queue' = queue \cup {b \in Backups : seenB[b] # backup[b]}
  /\ UNCHANGED <<api, seenJ, local, faults, crashes>>

\* Jobs have no owner reference: their events enqueue nothing.
SyncJobs ==
  /\ seenJ # jobs /\ seenJ' = jobs
  /\ UNCHANGED <<api, seenB, queue, local, faults, crashes>>

\* A new process lists every object and reconciles every Backup.
Restart ==
  /\ crashes < MaxCrashes /\ crashes' = crashes + 1
  /\ seenB' = backup /\ seenJ' = jobs
  /\ queue' = {b \in Backups : backup[b].exists}
  /\ pc' = "idle" /\ cur' = NoBackup /\ obj' = Absent(0) /\ hash' = 0
  /\ to' = NoStatus /\ copy' = NoSnapshot /\ todo' = {}
  /\ UNCHANGED <<api, faults>>

-----------------------------------------------------------------------------
(* Users of Backup resources                                               *)

CreateBackup(b) ==
  /\ ~backup[b].exists /\ backup[b].uid < MaxUid
  /\ backup' = [backup EXCEPT ![b] = NewBackup(backup[b].uid + 1)]
  /\ UNCHANGED <<jobs, dumps, cache, queue, local, faults, crashes>>

EditBackup(b) ==
  /\ backup[b].exists /\ ~backup[b].del /\ backup[b].spec < MaxSpec
  /\ backup' = [backup EXCEPT ![b].spec = @ + 1]
  /\ UNCHANGED <<jobs, dumps, cache, queue, local, faults, crashes>>

DeleteBackup(b) ==
  /\ backup[b].exists /\ ~backup[b].del
  /\ backup' = [backup EXCEPT ![b] = IF @.fin THEN [@ EXCEPT !.del = TRUE] ELSE Absent(@.uid)]
  /\ UNCHANGED <<jobs, dumps, cache, queue, local, faults, crashes>>

Users == \E b \in Backups : CreateBackup(b) \/ EditBackup(b) \/ DeleteBackup(b)

-----------------------------------------------------------------------------
(* The Kubernetes job controller and the backup pods                       *)

\* A pod fails and is replaced.
PodFails(n) ==
  /\ Live(jobs, n) /\ jobs[n].nfail < BackoffLimit
  /\ jobs' = [jobs EXCEPT ![n] = With(@, "active", @.nfail + 1, @.ann)]
  /\ UNCHANGED <<backup, dumps, cache, queue, local, faults, crashes>>

\* RunBackup stores the dump, then updateJobAnnotations may fail without consequence.
Upload(n) ==
  /\ jobs[n].st = "active"
  /\ \E a \in {TRUE, jobs[n].ann} :
       jobs' = [jobs EXCEPT ![n] = With(@, "uploaded", @.nfail, a)]
  /\ dumps' = dumps \cup {[job |-> n, uid |-> jobs[n].uid, spec |-> jobs[n].spec]}
  /\ UNCHANGED <<backup, cache, queue, local, faults, crashes>>

JobSucceeds(n) ==
  /\ jobs[n].st = "uploaded"
  /\ jobs' = [jobs EXCEPT ![n].st = "succeeded"]
  /\ UNCHANGED <<backup, dumps, cache, queue, local, faults, crashes>>

\* The job is given up: restarts of a pod's container count against the backoff limit
\* too, so this happens after any number of failed pods, the last one included.
JobFails(n) ==
  /\ Live(jobs, n)
  /\ jobs' = [jobs EXCEPT ![n] = With(@, "failed", @.nfail + 1, @.ann)]
  /\ UNCHANGED <<backup, dumps, cache, queue, local, faults, crashes>>

\* ttlSecondsAfterFinished
TTLRemove(n) ==
  /\ jobs[n].st \in {"succeeded", "failed"}
  /\ jobs' = [jobs EXCEPT ![n] = NoRecord]
  /\ UNCHANGED <<backup, dumps, cache, queue, local, faults, crashes>>

JobController ==
  \E n \in JobNames :
    PodFails(n) \/ Upload(n) \/ JobSucceeds(n) \/ JobFails(n) \/ TTLRemove(n)

-----------------------------------------------------------------------------
Init ==
  /\ backup = [b \in Backups |-> Absent(0)] /\ seenB = backup
  /\ jobs = [n \in JobNames |-> NoRecord] /\ seenJ = jobs
  /\ dumps = {} /\ queue = {}
  /\ pc = "idle" /\ cur = NoBackup /\ obj = Absent(0) /\ hash = 0
  /\ to = NoStatus /\ copy = NoSnapshot /\ todo = {}
  /\ faults = 0 /\ crashes = 0

Next ==
  \/ \E b \in Backups : Start(b)
  \/ Reconcile \/ SyncBackups \/ SyncJobs \/ Restart \/ Users \/ JobController

Spec == Init /\ [][Next]_vars

\* The worker takes every queued key in its turn and finishes what it started; watches
\* deliver; a job's pods end one way or the other and its TTL expires.
Fairness ==
  /\ \A b \in Backups : SF_vars(Start(b))
  /\ WF_vars(Reconcile) /\ WF_vars(SyncBackups) /\ WF_vars(SyncJobs)
  /\ \A n \in JobNames : /\ WF_vars(Upload(n) \/ JobSucceeds(n) \/ JobFails(n))
                         /\ WF_vars(TTLRemove(n))

FairSpec == Spec /\ Fairness

-----------------------------------------------------------------------------
(* Properties                                                              *)

Processed(b) == backup[b].phase \in Terminal /\ backup[b].hash = backup[b].spec

DumpOf(n) == \E d \in dumps : d.job = n

\* A Backup reported Completed has a dump in the storage made by one of its jobs, and
\* the path it reports is that of a dump: however stale the caches, and whatever calls
\* fail, evaluateJobStatus never turns a job without a dump into a success.
StatusBackedByDump ==
  \A b \in Backups :
    /\ backup[b].phase = "Completed" => \E r \in RunIDs : DumpOf(<<b, r>>)
    /\ backup[b].path # NoJob => DumpOf(backup[b].path)

\* While the Backup a job was created for exists, it carries the finalizer: its deletion
\* cannot bypass handleDeletion's cleanup of the job.
JobImpliesFinalizer ==
  \A n \in JobNames :
    (Present(jobs, n) /\ backup[n[1]].exists /\ backup[n[1]].uid = jobs[n].uid)
      => backup[n[1]].fin

\* Every Backup ends up processed or deleted, whatever restarts and stale reads occur,
\* as long as no call fails.
EventuallySettled ==
  \A b \in Backups :
    (backup[b].exists /\ ~backup[b].del)
      ~> (~backup[b].exists \/ backup[b].del \/ Processed(b) \/ faults > 0)

\* A deleted Backup goes away: failed calls in handleDeletion are retried.
DeletionCompletes ==
  \A b \in Backups : (backup[b].del ~> ~backup[b].exists)

\* Two jobs never dump for the same Backup at the same time (reads from caches that
\* have caught up): restarts and failed patches between the creation of a job and the
\* patch of its name are caught by findExistingJob.
AtMostOneLiveJob ==
  \A m, n \in JobNames :
    (m[1] = n[1] /\ Live(jobs, m) /\ Live(jobs, n)) => m = n

\* A terminal phase stands until the spec changes or the object goes (caches that have
\* caught up).
TerminalSticky ==
  [][\A b \in Backups :
       (Processed(b) /\ backup'[b].exists /\ backup'[b].spec = backup[b].spec)
         => backup'[b].phase = backup[b].phase]_vars

\* No more jobs of a DBCluster whose pods have not failed are running at once than the
\* limit allows (caches that have caught up): the single worker makes checkThrottling
\* and the creation that follows it atomic with respect to other creations.
ThrottleHonoured ==
  \A c \in Clusters :
    Cardinality({n \in ActiveJobs(jobs, c) : Live(jobs, n)}) <= MaxConcurrent

\* Completed is earned by the Backup itself, never by a job of an earlier object of the
\* same name, unless a call failed (caches that have caught up).
CompletedByOwnDump ==
  \A b \in Backups :
    (backup[b].phase = "Completed" /\ faults = 0)
      => \E d \in dumps : d.job[1] = b /\ d.uid = backup[b].uid

\* No job outlives the Backup it was created for, unless a call failed (caches that have
\* caught up).
NoOrphanJob ==
  \A n \in JobNames :
    (Live(jobs, n) /\ faults = 0) => backup[n[1]].exists /\ backup[n[1]].uid = jobs[n].uid

=============================================================================
