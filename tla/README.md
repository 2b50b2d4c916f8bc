# dbtether: specifications and proofs

dbtether is a Kubernetes operator for PostgreSQL. It turns `DBCluster`, `Database`,
`DatabaseUser`, `Backup`, `BackupSchedule`, `BackupStorage` and `Restore` objects into
databases, roles, secrets and backup jobs. This directory holds TLA+ models of its
controllers, the TLC configurations that check them, and TLAPS proofs about them.
Line numbers refer to the sources under `src/`.

## The system

One process (`main.go`, `runController`) runs seven controllers of controller-runtime. Each
has one worker goroutine and a work queue, so one controller never runs two reconciliations
at once, but different controllers interleave freely. Every read goes through informer
caches that trail the API server; writes go to the API server directly. The same binary,
started as a Kubernetes Job, dumps or restores a database (`runBackupJob`, `runRestoreJob`).

| Component | State | Operations | Interacts with |
|---|---|---|---|
| DBCluster controller | status phase, observedGeneration | health check, report, removal from the cache | ClientCache, Secrets |
| ClientCache | map of cluster name to pool, a mutex | Get, Remove, Close | the three controllers below it, PostgreSQL |
| Database controller | finalizer, status | create or adopt a database, extensions, drop or release | ClientCache, DBCluster status, ownership comment in PostgreSQL |
| DatabaseUser controller | finalizer, status, Secrets | role, password, grants, rotation, drop | ClientCache, Database status, Secrets, PostgreSQL roles |
| Backup controller | finalizer, status | throttle, job creation, job evaluation, cleanup | Jobs, Database, DBCluster, BackupStorage |
| Backup job | dump in the storage, annotation on its own Job | dump, upload, annotate | PostgreSQL, storage, the Job object |
| Restore controller | finalizer, status | resolve a source, create a job, evaluate it | Backup status, Jobs |
| Restore job | the target database | check, drop, create, restore | storage, PostgreSQL |
| BackupSchedule controller | status (last backup, counts), debounce annotation | create a Backup per slot, retention in a goroutine | Backups, storage |
| Retention | none (a function of the file list) | choose the files to keep | storage |
| BackupStorage controller | status phase | validate the spec | Secrets |

### What is hard about it

* Interleaving: the informer caches lag, so a controller may not see the job it has just
  created; three controllers share the connection cache; retention runs in goroutines that
  no controller waits for.
* Failure: every API call may fail, or take effect and still report an error; the operator
  may restart between any two calls. Only the objects in the API server, PostgreSQL and the
  storage survive.
* Forgetting: a reconciliation that returns neither an error nor a delay is not repeated
  until an event arrives, so a dropped error can lose an object.
* Identity: objects are deleted and created again under the same name, and some links go by
  name (labels of jobs, keys of the cache, ownership comments).
* Limits and times: concurrent backups per cluster, pod failures against `backoffLimit`, the
  TTL of finished jobs, retention windows, pending timeouts.

`hazards` in `PROJECT.json` lists each of these at the line where it bites.

### What makes each component correct

* Backup controller: Completed means a dump exists; one live job per Backup; the limit per
  cluster; a terminal phase stands; nothing is forgotten; a deleted Backup goes away and
  leaves no job.
* ClientCache and DBCluster controller: a client that is found is open and belongs to the
  cluster; closing waits for users; nobody blocks for good; no pool leaks; Connected is said
  of the current spec.
* Database controller: one owner per PostgreSQL database; only the owner drops or releases
  it; deletion completes.
* DatabaseUser controller: Secret and role agree once Ready; access is what the spec says; the
  Secrets of others are left alone; nothing is left behind.
* Restore controller and job: a restore runs once; the target is dropped only when the
  source can be read; Completed means all was restored.
* BackupSchedule controller: at most one Backup per slot; a schedule never stops; cleanup
  keeps what the policy keeps.
* Retention: keeps the union of what each rule keeps, never touches another database.

## Modules

| Module | Models | Lines |
|---|---|---|
| `BackupController` | `controllers/backup/backup_controller.go`, the upload and annotation of the job (`main.go`), the Kubernetes job controller | state machine and properties |
| `BackupControllerProofs` | | theorems about it |
| `ClientCache` | `ClientCache` in `pkg/postgres/client.go`, the whole of `controllers/dbcluster_controller.go`, the use of the cache by the other controllers | state machine and properties |
| `ClientCacheProofs` | | theorems about it |
| `DatabaseOwnership` | the whole of `controllers/database_controller.go`, the statements on databases and their owners in `pkg/postgres/client.go`, what a restore job does to a database (`pkg/backup/restore.go`) | state machine and properties |
| `DatabaseOwnershipProofs` | | theorems about it |
| `DatabaseUser` | the whole of `controllers/databaseuser_controller.go`, the statements on roles, grants and privileges in `pkg/postgres/client.go`, the password generator as a choice | state machine and properties |
| `DatabaseUserProofs` | | its types, and that the Secrets of others are left alone |
| `DatabaseUserOutcomeProofs` | | theorems about what a reconciliation leaves in PostgreSQL and in the Secrets |
| `RestoreController` | the whole of `controllers/backup/restore_controller.go`, the restore job (`pkg/backup/restore.go`) | state machine and properties |
| `RestoreControllerProofs` | | theorems about it |
| `BackupSchedule` | the whole of `controllers/backup/schedule_controller.go`, `pkg/backup/retention.go` | state machine and properties |
| `ScheduleSlots` | | abstract specification: what a BackupSchedule promises |
| `ScheduleSlotsProofs` | | what the promise means |
| `BackupScheduleProofs` | | that `BackupSchedule` implements `ScheduleSlots` |
| `MCBackupController`, `MCClientCache`, `MCDatabaseOwnership`, `MCDatabaseUser`, `MCRestoreController`, `MCBackupSchedule` | | instances for TLC |

Operators whose comment begins with "mutation" or "Mutant" are deliberately wrong versions of
a definition. Each property names one that it catches, so that no property holds for want
of anything to catch.

### BackupController

One action per API call of the reconciler. `pc` names the next call; `obj`, `hash`, `to`,
`copy` and `todo` are the locals of the reconciliation in progress. What happens between two
calls without touching shared state belongs to the action of the call before.

| Action | Code |
|---|---|
| `Start` (with `FirstStep`) | `Reconcile`: Get, and the branch on deletion, finalizer, processed, jobName |
| `AddFinalizer` | `ensureFinalizer` |
| `ListForCleanup`, `DeleteJob`, `RemoveFinalizer` | `handleDeletion`, `deleteBackupJob` |
| `CheckJobStatus`, `FindJobByLabels` (with `Evaluate`) | `checkJobStatus`, `findJobByLabels`, `evaluateJobStatus` |
| `FindExistingJob`, `GetResources`, `CheckThrottling`, `CreateJob` | `createBackupJobIfAllowed` and what it calls |
| `PatchStatus` | `updateStatusWithJobAndRunID`, `updateStatusCompleted`, with the result each caller returns |
| `Restart` | the process stops; cache and queue are rebuilt from the API server |
| `SyncBackups`, `SyncJobs` | watch events: the cache becomes current, the key of a changed Backup is queued |
| `Upload`, `PodFails`, `JobSucceeds`, `JobFails`, `TTLRemove` | the pod of a job and the Kubernetes controllers of jobs and of their TTL |
| `CreateBackup`, `EditBackup`, `DeleteBackup` | users |

How the surroundings are abstracted:

* An informer cache is a copy of the objects at an earlier moment; a sync replaces it as a
  whole. Get and List on a cache never fail. With `LagAllowed = FALSE` the worker reads only
  caches that are current.
* An Update carries a resourceVersion: it conflicts if the object in the API server is no
  longer the one read. A status patch carries none: it overwrites the fields it names.
* A call that fails may or may not have taken effect.
* Delays are abstracted: a key that is to be queued after some seconds is in `queue` at once.
  controller-runtime's ten-hour resync is left out, so "forgotten" means until a resync or a
  restart, and is stated as a safety property.
* A run identifier is used again only when the job that bore it is gone. Whether the Backup's
  references resolve (`GetResources`) is a choice.
* Pods may fail up to `backoffLimit` times; a job may fail at any count, as container restarts
  count as failures too; a finished job's TTL may run out at any time.
* Users do not remove finalizers themselves. A pod that uploads after its job was deleted is
  left out.

### ClientCache

A worker is one controller's goroutine. `lock` is held across steps only in `Remove`, where
`pgxpool.Close` waits under the mutex for acquired connections (`RemoveStarts`,
`RemoveEnds`); the other critical sections do nothing slow and are single steps (`Lookup`,
`Store`). The worker `Health` is the DBCluster controller: `Begin` takes a key from its
queue, `Use` and `UseEnds` are its second ping, `Report` its status patch. Of the others the
model keeps how they come to the cache and that they run a query on what they get; one query
stands for all those of a reconciliation.

`cluster` is the informer cache the controllers share. A spec number stands for an endpoint.
`via` in the status is history: which spec's pool the report rests on. `NewClient` does not
connect, as `pgxpool.NewWithConfig` does not wait for a connection. `ClientCache.Close` has no
caller and is not modelled.

### DatabaseOwnership

Several Database objects may name one PostgreSQL database; a comment on the database says
which of them owns it. One action per API call and SQL statement of the one worker. `pc`
names the next call, `obj` is the local copy of the Database, `to` the status about to be
patched and where the reconciliation goes from there.

| Action | Code |
|---|---|
| `Start` (with `FirstStep`) | `Reconcile`: Get, and the branch on deletion and finalizer |
| `AddFinalizer` | `ensureFinalizer` |
| `GetCluster` | `getReadyCluster`, `getPostgresClient`, `ensureCreatingStatus` up to its patch |
| `DatabaseExists`, `CreateDatabase`, `GetDatabaseOwner`, `CommentOnDatabase` | the statements of `EnsureDatabaseWithOwner` and `CreateDatabaseWithOwner` |
| `EnsureExtensions` | `ensureExtensions` and the choice of the last status |
| `PatchStatus` (with `PatchPhase`, `PatchPending`, `Merged`) | `setStatus`, `setStatusWithRequeue`: the pending timeout, the merge patch against the local copy |
| `ReleaseDatabase`, `RemoveFinalizer` | `handleDeletion`: `DropDatabase` or `ClearDatabaseOwner`, then the Update |
| `SyncDatabases`, `Restart` | watch events; the process stops |
| `CreateResource`, `EditResource`, `DeleteResource` | users; the name and the policy can be edited |
| `ClusterGoes`, `ClusterReturns` | the DBCluster's phase, written by its own controller |
| `RestoreDrops`, `RestoreCreates` | `dropAndRecreateDatabase` of restore jobs, two statements |

How the surroundings are abstracted:

* Databases refer to one DBCluster. Its changes queue no Database key, as `SetupWithManager`
  watches Databases only.
* `owner` is what `parseOwnerComment` gets out of the comment. `mine` says whether the operator's
  role owns the database: COMMENT and DROP fail otherwise, and both errors are dropped. Some
  databases exist from the beginning (`LegacyPG`, `NewPG`).
* A merge patch writes only the fields in which the new status differs from the local copy,
  so with a stale copy a field can keep a value the controller meant to change (`Merged`).
* The pending timeout is a choice once `pendingSince` is set.
* `lost` is history, read by no action: it records when another Database or a restore takes a
  database from its owner, which the properties except.
* Failures of `RevokePublicConnect` are logged only, and nothing depends on it; it is left out,
  like `ownershipTracked`, which steers no branch but that of a warning.

### DatabaseUser

The password of a user is kept in a PostgreSQL role and in a Secret, which no transaction
spans. `obj` is the local copy of the DatabaseUser, `held` that of its Secret; `plan` says which
of the branches of `ensureSecrets` is taken, `password` is what it returns, `rest` the databases
whose Secret is still to be written.

| Action | Code |
|---|---|
| `Start` (with `FirstStep`) | `Reconcile`: Get, the early return of a Ready user, deletion, finalizer |
| `AddFinalizer` | `ensureFinalizer` |
| `FetchDatabases` | `validateSpec`, `validateAndFetchDatabases`, `getPostgresClient` |
| `ReadSecret` (`SecretMissing`, `SecretOwned`, `SecretForeign`) | the Get and the branches of `ensureSecrets`: create, rotate, update, adopt, merge, refuse |
| `AlterPassword`, `CreateSecret`, `WriteSecret`, `WriteDatabaseSecret`, `DeleteOldSecret` | the ALTER USER and the writes those branches make, in their order |
| `EnsureUser`, `SyncDatabaseAccess`, `ApplyPrivileges` | `ensureUserInPostgres`, access, privileges |
| `DropUser`, `RemoveFinalizer` | `handleDeletion`, `dropUserFromPostgres` |
| `PatchStatus` (with `StatusChanged`, `Updated`, `Merged`) | `setStatus`: no patch without a change, and the merge patch |
| `SyncUsers`, `SyncSecrets`, `Delayed`, `Restart` | watch events, delays, the process stops |
| `CreateResource`, `EditResource`, `DeleteResource`, `Meddle` | users, and whoever else creates or deletes Secrets |
| `CollectGarbage`, `ComeAndGo`, `ComeBack`, `PasswordAges` | the garbage collector, Databases and DBCluster, time |

Secrets are updated with a resourceVersion and conflict when they are not the ones read; a
statement that fails may have taken effect. A method of the PostgreSQL client is one step; where it
runs a statement per database, its failure may leave any subset done. A Secret is one entry per
template (which keys it writes), and an entry a role, databases and a password. `GetDatabases` and
the DBCluster are read as they are: no property tells a late read of theirs from an earlier
step. `mixed` is history: users whose role or template was edited, or whose role another user
has, to whom the properties about credentials do not apply. A spec's `secretName` is assumed to be
none that `getSecretNameForDatabase` makes.

### RestoreController

The worker and the pods of the jobs run side by side, the pods statement by statement.

| Action | Code |
|---|---|
| `Start` (with `FirstStep`, `AlreadyProcessed`) | `Reconcile` and its early returns |
| `AddFinalizer`, `DeleteJob`, `RemoveFinalizer` | `ensureFinalizer`, `handleDeletion` |
| `CheckJobStatus` | `checkJobStatus`, `evaluateJobStatus` |
| `ResolveSource` (with `Resolved`, `Latest`), `GetResources`, `CreateJob` | `resolveSource`, the lookups, the creation of the job |
| `PatchStatus` (with `Merged`) | `updateStatus`, `updateStatusCompleted`, `updateStatusWithJob` |
| `OpenSource`, `DropDatabase`, `CreateDatabase`, `CheckEmpty`, `RunPsql` | `RunRestore` and what it calls, in order |
| `PodFails`, `StopPod`, `TTLRemove` | failures of pods, deletion, the TTL of finished jobs |
| `SyncRestores`, `SyncJobs`, `Restart` | watch events (only Restores enqueue a key), the process stops |
| `BackupCompletes`, `BackupGoes`, `FileGoes` | the sources, changed by the Backup controller, users and retention |

A database is the set of what it holds: tables in schema public, data elsewhere, and the dumps
restored into it. A run identifier is drawn again while a job has it only as a collision with
the Restore's own job. A pod goes on after its job was deleted until `StopPod`. `started`, `again`
and `done` are history. Reads of the cache either are current or count as stale reads.

### BackupSchedule

One schedule. Time is a clock of ticks, a cron expression the set of its slots. Deletion
timestamps, the debounce annotation (`cleaned`) and the status are fields of `sched`; the
Backups of the schedule are a function of the slot, as their names are.

| Action | Code |
|---|---|
| `Start` (with `Decide`, `CalculateNextRun`, `Spawn`) | `Reconcile`, `calculateNextRun`, `scheduleNextRun` with its `go` statement |
| `AddFinalizer` | `ensureScheduleFinalizer` |
| `Lookup`, `CreateBackup` | `handleScheduledBackup`, `createBackup` |
| `PatchStatus` (with `AfterBackup`, `Merged`) | `updateStatusWithRequeue`, `updateStatusAfterBackup` |
| `ListForDeletion`, `DeleteBackup`, `RemoveFinalizer` | `handleDeletion` |
| `Refetch`, `Mark` | `updateRetentionCleanupAnnotation` |
| `ListFiles` (with `ApplyRetention`, `CalculateKeepSet`, `KeepLast`, `KeepFirst`), `DeleteFile` | `prepareRetentionCleanup`, `retention.go` |
| `ListBackups`, `CleanupBackupCRDs` (with `ToDelete`) | `cleanupBackupCRDs` |
| `FallBehind`, `CatchUp`, `Restart`, `Tick` | caches that stand still for a while, the process stops, time |
| `BackupEnds`, `BackupGoes` | the Backup controller, its job, the garbage collector |
| `CreateResource`, `EditResource`, `DeleteResource`, `LoseBackup`, `OtherDump` | users |

The cleanup goroutines are `clean`; each keeps the policy of the copy it was started with. Files
are ordered by `id` where the code compares timestamps; Backups of equal creation time by slot.
Days, weeks and months are numbers of ticks. `TimeAssumption` says that a cron expression always
has a next slot: the library returns the zero time for one that has none within five years,
which is left out.

`ScheduleSlots` is the abstract specification: Backups are made for slots that have come, after the
schedule was created, in increasing order, so never two for one. `BackupSchedule` implements it under the
mapping `Promise` (`made` is a history variable, `clock <- now`, `born <- sched.born`): `KeepsPromise` is
checked by `schedule_live` and proved in `BackupScheduleProofs`. `disturbed`, which releases from the order, is mapped to more than one trouble of
any kind or a schedule created anew under its name, so what is shown is: one arbitrary fault is
tolerated.

## Model checking

`tlc -config X.cfg M`. All runs switch deadlock checking off: these systems rest when every
object is settled, or when a bound is reached.

| Run | Shows | Bounds |
|---|---|---|
| `backup_live` | `TypeOK`; Completed means a dump (`StatusBackedByDump`); a job's Backup has the finalizer (`JobImpliesFinalizer`); deletions complete despite a failed call (`DeletionCompletes`); every Backup settles unless a call fails (`EventuallySettled`) | 1 Backup, stale caches, 1 spec, 1 failed call, 1 restart, fairness |
| `backup_fresh` | one live job (`AtMostOneLiveJob`); terminal phases stand (`TerminalSticky`); without failed calls, completion by one's own dump (`CompletedByOwnDump`) and no orphan (`NoOrphanJob`) | 1 Backup recreated once, 2 run identifiers, current caches, 2 specs, 1 failed call, 1 restart |
| `backup_throttle` | never more jobs without failed pods than the limit (`ThrottleHonoured`) | 2 Backups of one cluster, limit 1, current caches |
| `database_shared` | `TypeOK`; a Ready Database owns the database its status names (`ReadyOwnsDatabase`); one that is gone owns nothing (`DeletedOwnsNothing`) | 2 Databases, 2 names, current caches, 1 edit, 1 restart |
| `database_live` | the finalizer comes first (`FinalizerFirst`); `ReadyOwnsDatabase` with stale caches; a Database becomes Ready unless a call fails or a restore interferes (`EventuallyReady`); deletions complete (`DeletionCompletes`) | 1 Database recreated once, 1 name, stale caches, 1 failed call, 1 outage, 1 restore, fairness |
| `cache_shared` | `TypeOK`; clients in the map are open (`CachedIsOpen`); closing waits for users (`RemoveDrains`); no round blocks for good (`RoundEnds`) | 2 controllers, 1 cluster, 2 specs, 4 rounds, 1 outage, fairness |
| `user_live` | `TypeOK`; the Secret of a Ready user opens its role (`CredentialsWork`); its access is that of its spec (`AccessAsSpecified`); no role or second Secret is left (`NothingLeftBehind`); a user becomes Ready, a deleted one goes (`EventuallySettled`) | 1 user, 1 role, 2 databases, 2 Secret names, 1 trouble of any kind (edit, Secret created or deleted by others, failed call, restart, outage), current and late caches, fairness |
| `user_shared` | the Secrets of one user agree (`DatabaseSecretsAgree`); the Secrets of others are left alone (`ForeignSecretKept`) | 2 interchangeable users, 2 roles, 1 Secret name, adoption, rotation, perDatabase, 1 edit, current caches |
| `restore_live` | `TypeOK`; Completed means that an own job succeeded (`CompletedByOwnJob`); one job per Restore (`RunsOnce`); Failed means that nothing works any more (`FailedHasStopped`); no job outlives its Restore (`NoOrphanJob`); data is lost only to a pod that has its dump (`DataLostOnlyToADump`); every Restore settles (`EventuallySettled`) | 1 Restore recreated once, 2 run identifiers, 1 Backup, 1 file, 1 database, 3 specs (each source, each conflict policy), 1 trouble of any kind (edit, failed call, restart, stale read, lost source), fairness |
| `schedule_live` | `TypeOK`; the promise of `ScheduleSlots` (`KeepsPromise`); every slot that has come is handled, a deleted schedule goes (`KeepsGoing`); retention deletes no file (`ProtectedFilesStay`) and no Backup (`NewestBackupsStay`) that the policy keeps | 1 schedule recreated once, clock up to 3, slots {2, 3, 5} or {2, 4, 6}, 4 specs, 2 cleanup goroutines, 3 files, 1 trouble of any kind (edit, failed call, restart, stale period, deleted Backup, foreign dump, overlapping cleanup), fairness |

Why these bounds: each property relates one Backup to its jobs, or two workers to one pool,
and each hazard needs one fault in one window, which a bound of 1 places in every window. Two
incarnations and two specs are the least that can be confused; two Backups and a limit of 1
the least that can exceed it. The theorems below remove the bounds for the properties they
name.

Where a run bounds "troubles of any kind", each kind is bounded by 1 and so is their sum: every
single fault in every window, but no two together. In `user_live`, `restore_live` and
`schedule_live` the second fault multiplies the states beyond what a run may take; the theorems have no
such bound, but for what a property itself excepts (the promise of `ScheduleSlots` excepts a second trouble).

Runs that disagree with what the repository says, each the shortest history TLC found:

| Run | The repository says | The code does |
|---|---|---|
| `database_refused` | "Database is ready for use" (`docs/crds/database.md:148`) | deletion does not ask who owns the database: deleting a second Database of the same name drops it under the first, which stays Ready |
| `schedule_prefix` | "Retention operates on all `.sql.gz` files in the database's S3 path" (`docs/crds/backupschedule.md:101`) | files are listed by the prefix `cluster/database` without a separator (`retention.go:103`): the retention of `app` deletes dumps of `app2` |

Other divergences, read in the code and kept by the models, without a run of their own:

Backup controller and client cache:

* "Changed spec → new backup runs" (`docs/crds/backup.md:121`), but `status.jobName` still names the old job
  (`backup_controller.go:94`), which is evaluated again and its result recorded under the new spec.
* The check of existing jobs prevents duplicates (`backup_controller.go:124`), but it reads a
  cache: when the key comes up again before the new job and status have reached it, a second job
  starts. `AtMostOneLiveJob` is claimed for current caches.
* At most 3 concurrent backups per cluster (`backup.md:127`), but a job with a failed pod is no
  longer counted though another pod is running (`backup_controller.go:293`).
* Two controllers that miss the cache together create two pools, and the one overwritten is
  never closed (`client.go:99`). `Get` ignores the configuration on a hit (`client.go:83`): after the endpoint
  changed the old server answers, and Connected is reported for the new spec
  (`docs/crds/dbcluster.md:120,127`).
* `spec.ttlAfterCompletion` only sets the TTL of the Job, where the documentation says the
  Backup object is deleted.
* Throttled Backups are retried after 30 s (`backup.md:129`), but when the Pending patch fails
  both its error and the delay are dropped (`backup_controller.go:199`). This is one
  reason why `EventuallySettled` excepts failed calls.
* Failed means the backup failed (`backup.md:106`), but `>= backoffLimit`
  (`backup_controller.go:561`) comes one pod too early: the last pod can still succeed.

Database controller:

* A Database looks again after 20 s for a DBCluster that is not connected and after 60 s when a call
  failed, where `database.md:173-178` says 10 s and 30 s; a failure to create an extension
  asks for no retry (`database_controller.go:127`): only the event of its own status patch brings
  the Database back, once, as a second identical failure changes nothing.
* The finalizer "prevents orphaned databases" (`database.md`), but a failed DROP is logged and
  the finalizer removed, and nothing is dropped while the DBCluster is absent; this is why
  `DeletedOwnsNothing` excepts failures and outages. A renamed Database leaves its old
  PostgreSQL database behind with its comment.
* With a stale cache `handleDeletion` may run again for a Database created meanwhile under the
  same name, and drop its PostgreSQL database; it becomes Ready again with an empty one.
* `ownershipTracked` is assigned before `setStatus` copies the base of its patch and is never
  stored.

DatabaseUser controller:

* "automatic credential rotation" (`README.md:40`), but the early return of a Ready user whose Secret
  exists (`databaseuser_controller.go:49`) comes first: the password of a user that stays
  Ready is never rotated, only that of one reconciled for another reason.
* `onConflict: Adopt` and `Merge` run ALTER USER before the role is created: for a new user they fail until
  the role exists for another reason.
* perDatabase mode looks for the primary Secret, which it does not write
  (`databaseuser_controller.go:489`): every reconciliation makes a new password and writes all Secrets,
  whose events start the next one, and it asks for no owner of the Secrets it overwrites. A user switched
  from primary to perDatabase keeps its primary Secret and gets no others.
* An edited `secretTemplate` makes the password be read under a key that is not there; an edited
  username leaves the old role behind; a narrowed preset leaves the table grants
  (`client.go:543` revokes those on the schema only); a failed `ApplyPrivileges` is noted and not
  repeated. A database removed from the spec keeps its schema grants, so that the later
  DROP USER fails and the role stays. `CredentialsWork`, `AccessAsSpecified` and `NothingLeftBehind` name these
  exceptions.
* `pendingSince` is set on the copy the patch is computed against: no wait times out.
* With caches that lag, an old Secret taken for the current one overwrites the role's password, and a merge
  patch computed from an old phase leaves Ready standing with a new observedGeneration.
* Two users of one role overwrite each other's password, and deleting one drops the role.

Restore controller and job:

* No lookup precedes the creation of a job: after a restart or failed patch in between a second job
  runs. `RunsOnce` is claimed for the histories without them.
* A job that has not reached the cache is taken for a deleted one: Failed, for good, while its pod
  works. A job removed by its TTL before the next poll is Failed, too.
* An edited spec evaluates the old job again. Every failure to read a source or resource, and a
  source that is still running, is final. A failed Update of the finalizer asks for no requeue.
* Deletion deletes the job the status names, not one whose name was not recorded; the pod of a
  deleted job goes on for a while.
* psql goes on after a failed statement and reports success (no ON_ERROR_STOP). The database is taken for
  empty when schema public has no tables. A CREATE that fails after the DROP leaves no database.
  `ttlAfterCompletion` and `databaseRef.namespace` of a Restore are not used.
* A name used again and read late: the job of the former Restore is taken for the own one
  (`CompletedByOwnJob` excepts it).

BackupSchedule controller and retention:

* After a Backup no requeue is asked for; the event of the own status patch wakes the
  controller. A second identical failure to create a Backup changes nothing and stops the
  schedule until it is touched (`schedule_controller.go:140`): `KeepsGoing` is claimed for one.
* `lastBackupTime` is the time of the patch, not the slot's: slots between them are skipped.
* The annotation that is to "prevent parallel runs" (`schedule_controller.go:230`) is read and patched
  in two steps without a lock: two cleanups do run in parallel. A cleanup uses the policy it
  was started with, also after an edit, suspension or deletion.
* A policy that sets no rule deletes all files; keepDaily alone deletes the newest one once it
  is outside the window; a window of N days is cut at the time of day. keepLast counts
  failed and running Backups. "keeps first backup of each day" (`retention.go:154`): it is the newest.
* A Backup of the slot's name made by a user counts as the slot's, and one that is
  being deleted still blocks it. Its name is `{schedule-name}-{time of the slot}`, where
  `docs/crds/backupschedule.md:138` says `{runID}`.
* The status is patched by name: the patch of a deleted schedule may land on its successor.

### Fairness

`BackupController!FairSpec`: strong fairness of starting each queued key (the queue is first
in, first out, but a key can be taken out and put back for ever); weak fairness of the
worker's next call, of watch events, of the progress of a job and of its TTL. Users, failures
and restarts are not fair. `ClientCache!FairSpec`: weak fairness of each worker's step: goroutines
are scheduled, Go's mutex does not starve a waiter, a query ends or times out.
`DatabaseOwnership!FairSpec`: as for the Backup controller, and weak fairness of
`ClusterReturns`: an outage ends.
`DatabaseUser!FairSpec` and `RestoreController!FairSpec`: the same, and weak fairness of delays, garbage
collection, the age of passwords, the end of outages, and of pods and the TTL of finished jobs.
`BackupSchedule!FairSpec`: the one key needs only weak fairness of `Start`; weak fairness of the worker's
next call and of `CatchUp`. Time need not pass and cleanups need not end for its properties.

## Proofs

`tlapm M.tla`. No theorem bounds the number of objects, faults, restarts or rounds.

* `BackupControllerProofs!TypeCorrect`. `TypeInv` adds to `TypeOK` that a running job's
  failures are within `backoffLimit` and that a job about to be looked up has a name.
* `BackupControllerProofs!StatusBacked` : `[]StatusBackedByDump`. A Completed status is
  written by a patch computed from a cached copy of a job, so `BackedInv` says that what the
  API server, the caches, the local copies and the pending patch claim is backed by a dump; it
  is inductive because dumps are never removed.
* `BackupControllerProofs!FinalizerBeforeJob` : `[]JobImpliesFinalizer`. `FinalizerInv` says
  that past `ensureFinalizer` the incarnation being reconciled has the finalizer in the API
  server or is gone; only `RemoveFinalizer` takes it off, and `OnlyCreateJobAdds` shows that
  no other step adds a job.
* `BackupControllerProofs!OneLiveJob` : with `LagAllowed = FALSE`, `[]AtMostOneLiveJob`. `SingleInv`
  says that between `findExistingJob` and the creation no job of the Backup exists
  (`JoblessStep`): the worker is alone and only it creates jobs. Without the
  assumption it is false (see the divergences above).
* The other four theorems assume `LagAllowed = FALSE`, too. `HeldInv` is their base: a worker past
  `ensureFinalizer` holds an object that cannot go without it, and past the branch on `Processed` that object is
  not processed until the worker's own patch. `TerminalStays` : `TerminalSticky`, an action property,
  follows from it by cases on what a step may do to a Backup (`BackupSteps`).
* `BackupControllerProofs!JobsGoWithBackup` : `[]NoOrphanJob`. `OwnJobs`, as long as no call fails:
  every job there is, running or finished, is of the object that exists, and `handleDeletion` has all of
  them on its list until they are gone.
* `BackupControllerProofs!CompletedIsOwn` : `[]CompletedByOwnDump`. `OwnDumps`: a job that uploaded has a
  dump of the incarnation it was created for, and a success about to be reported rests on a job of
  the Backup at hand (`PatchCause` lists how a worker comes to patch); `OwnJobs` makes that job
  the present incarnation's.
* `BackupControllerProofs!LimitHonoured` : `[]ThrottleHonoured`. `ThrottleInv`: the jobs are finitely many, and between
  `checkThrottling` and the creation there are fewer active ones in the cluster than the limit; others
  only lower the number.
* `ClientCacheProofs!TypeCorrect`, and `CachedOpen` : `[]CachedIsOpen`. `CacheInv` says who holds the
  mutex (`LockInv`), that a pool in the map is its cluster's and open unless it is the one being
  closed (`MapInv`), and that a new pool is its creator's alone until stored (`NewInv`): were it
  shared, another's Remove could close it before it is stored.
* `ClientCacheProofs!DrainedOnRemove` : `[]RemoveDrains`, inductive relative to `CacheInv`.

* `DatabaseOwnershipProofs!TypeCorrect`. `TypeInv` adds that an object that exists names a database.
* `DatabaseOwnershipProofs!FinalizerComesFirst` : `[]FinalizerFirst`. `FinInv` relates the cache to
  the API server (`CacheOld`): it shows an earlier incarnation, or the same one with no more
  of a deletion, and a finalizer it shows is still there unless the object is to be deleted. `WorkerInv`
  says that past `ensureFinalizer` the object holds the finalizer, and that `handleDeletion`
  works only while the cached object and the present one, if they have the finalizer, are to be deleted. The
  hard step is `RemoveFinalizer`: its Update succeeds only on the object it read, which is then
  not one that another reconciliation relies on.
* `DatabaseOwnershipProofs!ReadyOwns` : with `LagAllowed = FALSE`, `[]ReadyOwnsDatabase`. `OwnInv` says
  that the status in the worker's copy is the one in the API server (`StatusKnown`), that
  `handleDeletion` works for an object whose deletion was asked for (`Dying`), and, while no
  call has failed, that a worker about to report Ready owns the database it named and every
  Ready Database owns the one in its status (`ClaimsTrue`). `OwnedKept` is the core: no step
  takes a database from its owner without an entry in the history `lost`, except the owner's own
  `ReleaseDatabase`. What a later adoption, a deletion or a restore takes is excepted through
  `lost`; `GetDatabaseOwner` and `CommentOnDatabase`, once the worker owns the database again,
  remove the entry. The assumption on the cache is sufficient; whether it is needed is not settled
  by the proof (`database_live` checks the property with stale caches for one Database).
* `DatabaseOwnershipProofs!DeletedLeavesNothing` : `[]DeletedOwnsNothing`, with stale caches, too. `GoneInv`, as long as
  no call failed, the DBCluster stayed and no spec was edited: whoever a comment names is there with its
  finalizer and asks for that very database, the cache and the local copy know the name, and
  `handleDeletion` removes the finalizer only once the comment is no longer its own. It rests on `FinInv`.

* `RestoreControllerProofs!TypeCorrect`. `TypeInv` adds that a job about to be looked up has a name, that a
  present job was started for somebody and that a pod beyond its start has a dump.
* `RestoreControllerProofs!LossNeedsADump` : `[]DataLostOnlyToADump`. `TypeInv` suffices: of all
  steps only `DropDatabase` takes data away, and `OpenSource` comes before it.
* `RestoreControllerProofs!CompletedIsTrue` : `[]CompletedByOwnJob`, and `OneJob` : `[]RunsOnce`, by one
  inductive invariant `SafeInv`. `Uids` says that caches and local copies are of no later
  incarnation than the API server; `Names` that a status names a job with the name of its Restore;
  `Same` that, as long as every read was current, the Restore being reconciled stays the same and the
  job its status names is its own; `Succeeded` that a success seen, or about to be reported,
  happened; `Once` that in a calm history a Restore that was started names its job or is about to, and
  one about to be started was not. `StepFacts` lists once for each action what it may do to a Restore, to a
  job and to the worker; each part has a lemma that uses only that.
* `RestoreControllerProofs!FailedStopped` : `[]FailedHasStopped`, and `JobsGoWithRestore` : `[]NoOrphanJob`, from the
  same `SafeInv`. Its part `Live` says that in a calm history a running job is the one its Restore names or is
  about to name, that such a Restore has its finalizer and is not Failed, that `handleDeletion` gets to the
  finalizer only with the job gone, and that Failed is about to be written only where none runs.

* `DatabaseUserProofs!TypeCorrect`. `TypeInv` adds to `TypeOK` that the generation of a user counts no more
  than its creation, its deletion and the edits made (`GenBound`), and that from the lookup of the Secret on the spec
  lists a database (`ListsDbs`), so that the Secret named in the status is one.
* `DatabaseUserProofs!ForeignKept` : `[]ForeignSecretKept`. Ownership is checked when the Secret is
  read and used some calls later: `PlanInv` says that what the worker is about to do with its copy was decided
  for that copy and that user. The Update then conflicts unless the copy is the Secret, and the deletion of
  the old Secret looks at its own read.

* `DatabaseUserOutcomeProofs`. `ObjectInv` is the base of its four theorems: the copies in the cache and
  in the worker are older versions of the object (`CopyInv`), who shares a role or changed one is in `mixed`
  (`MixInv`, `SameInv`), and the role at hand is not that of another Ready user outside `mixed` (`ApartInv`).
  * `AccessGiven` : `[]AccessAsSpecified`, from `AccessInv`: at the grants the role connects to the databases
    of the local copy, at the patch to Ready it has the privileges as well, and no step takes
    them from a user that says Ready for its spec.
  * `LeavesNothing` : `[]NothingLeftBehind`. Roles: `HeirInv` says that a role no spec retains, and each database it
    reaches, has a user that exists or is being reconciled or deleted (`Owns`), so that DROP USER finds no
    privileges of others. Secrets: `UidInv`, `WorkInv` and `SeenInv` (the cache has the Secrets the worker has not
    written yet) carry `NameInv`: the one Secret of a user is that in its status, or the new one, once the
    old one is deleted.
  * `SecretsAgree` : `[]DatabaseSecretsAgree`, from `PairInv`: the Secrets written so far hold the new password
    (`WrittenInv`), the role gets it after the last (`PasswordInv`), hence both agree for every Ready user that is
    not at hand (`AgreeInv`).
  * `CredentialsOpen` : `Lags = {FALSE}` implies `[]CredentialsWork`, with any number of failures, restarts, rotations and
    Secrets created or deleted by others. ALTER USER and the write of the Secret are two calls, in one order for
    a new Secret and in the other for an update. What makes it safe is who gets there (`AnewInv`): a
    user that says Ready for its spec is reconciled only when it has no Secret, so that between the two calls
    it has none to contradict the role; every other is not Ready until the patch, and by then `PrimaryInv` and
    `PasswordInv` give both sides the same password. `HeldInv` says that the Secret the update overwrites is the one
    that was read, `EntryInv` that what is read from it is a password.

* `ScheduleSlotsProofs!PromiseMeans`, for any set of slots that are natural numbers: as long as the
  schedule is not disturbed no slot gets two Backups (`OncePerSlot`), and none gets one before it has come or from
  before the schedule was created (`OnTime`). The invariant is that the slots in `made`
  increase.
* `BackupScheduleProofs!TypeCorrect`. `TypeInv` adds that the slot the worker goes for is the one computed from its
  local copy and has come, and that no status to be patched is of a later time (`WorkInv`).
* `BackupScheduleProofs!KeepsItsPromise` : `Spec => KeepsPromise`, the refinement of `ScheduleSlots`. Only
  `CreateBackup` makes a slot; the proof shows that the slot is beyond all before it, and a single trouble
  leaves one of two reasons. If no call failed, nothing was restarted and no cache stood still, `lastBackupTime` in the
  local copy is the schedule's and no slot was made after it but the one about to be patched (`OrderInv`). If
  one of these happened, then nobody edited the schedule and no Backup was taken away (`Calm`), and the Backups themselves
  show what was made: a slot beyond `lastBackupTime` still has its Backup, as a cleanup deletes only what
  a newer one follows (`CalmInv`, `NewerOne`), and `createBackup` stops at the one that is there. `SyncInv`, `CopyInv`
  and `OnceInv` say how old copies may be.
* `BackupScheduleProofs!SlotsOnceInTime`: by `PromiseMeans` under the mapping, no slot gets two Backups and none
  gets one too early.

The assumptions are the `ASSUME`s of the controllers' modules: names that stand for "none" are not
members, bounds are natural numbers, `backoffLimit` is positive, the names of Secrets in specs are none the
controller makes, there is a spec for a schedule, and the ranges of time and of files are not empty.

What stays with TLC, and why:

* Liveness (`EventuallySettled`, `DeletionCompletes`, `EventuallyReady`, `RoundEnds`, `KeepsGoing`): it needs fairness and
  ENABLED, which are outside the prover's reach.
* `CredentialsWork` while caches lag: there it is claimed without failures, restarts, meddling and
  rotation and for at most one edit, the bound of `user_live`; whether it holds for more edits is open.
* `ProtectedFilesStay`: `CalculateKeepSet` picks files from a sorted sequence, and what it keeps for every list is an
  induction over data.
* `NewestBackupsStay` is not proved yet: it needs an invariant that counts, for every Backup on the list of
  some cleanup, the newer ones that are left.

## Plan

Done: `BackupController`, `ClientCache`, `DatabaseOwnership`, `DatabaseUser`, `RestoreController` and `BackupSchedule`,
each with proofs of every safety property its runs check but for the three just named; the abstract specification
`ScheduleSlots` and the proof that it is implemented. Left, in this order:

1. `NewestBackupsStay` as a theorem; lemmas about `CalculateKeepSet` that need no induction: that it
   keeps only files of the list, and more of them with a longer `keepLast`.
2. An abstract specification for another component, the connection cache or the ownership of databases, and
   that it is implemented.
3. A composition of schedule, backup, storage and restore: a path a Completed Backup names exists until
   retention removes it. Each of the modules now takes the others' part as nondeterministic steps
   (`BackupEnds`, `BackupCompletes`, `FileGoes`, `RestoreDrops`).

## Not modelled

Pure I/O and text: storage clients, dump and restore commands, path templates, log messages,
metrics, flags, leader election (the models have one process). The characters of a generated
password: one is a value that is in use nowhere else. Generated deep copies, CRD manifests, Helm chart, mocks.
BackupStorage's controller validates its spec and patches the result, with no state between two
reconciliations; its phase is an input of the controllers that use it. Of `DatabaseUser`:
`verifyIsolation`, whose result is only logged, and additional grants, which go the way of the presets.
