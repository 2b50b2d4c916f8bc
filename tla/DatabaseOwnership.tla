---------------------------- MODULE DatabaseOwnership ----------------------------
(***************************************************************************)
(* The Database controller (controllers/database_controller.go) and the    *)
(* PostgreSQL statements it runs (EnsureDatabaseWithOwner,                  *)
(* ClearDatabaseOwner and DropDatabase of pkg/postgres/client.go) for       *)
(* Database objects that may name the same PostgreSQL database.             *)
(*                                                                         *)
(* A comment on the PostgreSQL database names the Database that owns it.    *)
(* The controller has one worker; each of its API calls and SQL statements  *)
(* is one action, between which users edit and delete Databases, the        *)
(* DBCluster comes and goes, restore jobs recreate databases and the        *)
(* operator restarts.                                                       *)
(***************************************************************************)
EXTENDS Naturals

CONSTANTS
  Databases,    \* names of Database objects (namespace/name)
  Names,        \* names of PostgreSQL databases
  LagAllowed,   \* may the informer cache trail the API server when read?
  NoDatabase, NoName,
  MaxUid,       \* bound: incarnations of one Database name
  MaxEdits,     \* bound: changes users make to specs
  MaxFaults,    \* bound: API calls and statements that fail
  MaxCrashes,   \* bound: restarts of the operator
  MaxOutages,   \* bound: times the DBCluster stops being Connected
  MaxRestores   \* bound: restore jobs with onConflict=drop

ASSUME NamesAssumption == NoDatabase \notin Databases /\ NoName \notin Names
ASSUME BoundAssumption ==
  /\ LagAllowed \in BOOLEAN
  /\ MaxUid \in Nat /\ MaxEdits \in Nat /\ MaxFaults \in Nat
  /\ MaxCrashes \in Nat /\ MaxOutages \in Nat /\ MaxRestores \in Nat

VARIABLES
  db,         \* the Database objects in the API server
  seen,       \* the informer cache of Databases
  cluster,    \* the DBCluster they refer to, as its cache shows it
  pg,         \* the PostgreSQL databases
  recreate,   \* the databases restore jobs have dropped and not yet created
  queue,      \* the controller's work queue (rate limited and delayed keys too)
  pc,         \* the next call of the worker, "idle" between reconciliations
  cur,        \* req.NamespacedName
  obj,        \* the local copy of the Database
  to,         \* the status about to be patched, and what follows
  lost,       \* history: <<d, n>> if n was taken from d by another Database or a restore
  edits, faults, crashes, outages, restores

local == <<pc, cur, obj, to>>
bounds == <<edits, faults, crashes, outages, restores>>
vars == <<db, seen, cluster, pg, recreate, queue, local, lost, bounds>>

Phases == {"", "Pending", "Waiting", "Creating", "Ready", "Failed", "Deleting"}
Policies == {"Delete", "Retain"}

\* name is the PostgreSQL name in the spec, dbname the one in the status; force the
\* annotation force-adopt; pend says that status.pendingSince is set.
DatabaseRecord ==
  [exists : BOOLEAN, uid : 0..MaxUid, fin : BOOLEAN, del : BOOLEAN,
   name : Names \cup {NoName}, policy : Policies, force : BOOLEAN,
   phase : Phases, pend : BOOLEAN, dbname : Names \cup {NoName}]

Fresh(e, u, n, p, f) ==
  [exists |-> e, uid |-> u, fin |-> FALSE, del |-> FALSE, name |-> n, policy |-> p,
   force |-> f, phase |-> "", pend |-> FALSE, dbname |-> NoName]
Absent(u) == Fresh(FALSE, u, NoName, "Retain", FALSE)

\* owner is the Database the comment names, NoDatabase without one of the operator's
\* format; mine says that the operator's role owns the database, as COMMENT and DROP
\* demand.
PGRecord == [exists : BOOLEAN, owner : Databases \cup {NoDatabase}, mine : BOOLEAN]
NoPG == [exists |-> FALSE, owner |-> NoDatabase, mine |-> TRUE]
NewPG == [exists |-> TRUE, owner |-> NoDatabase, mine |-> TRUE]
LegacyPG == [exists |-> TRUE, owner |-> NoDatabase, mine |-> FALSE]

Steps == {"idle", "finalizer", "cluster", "exists", "create", "owner", "comment",
          "extend", "release", "unfinalize", "patch"}

\* After the patch the reconciliation goes on at next, or ends with a requeue or not.
Target == [phase : Phases, pend : BOOLEAN, next : {"idle", "exists", "release"},
           requeue : BOOLEAN]
NoTarget == [phase |-> "", pend |-> FALSE, next |-> "idle", requeue |-> FALSE]

TypeOK ==
  /\ db \in [Databases -> DatabaseRecord]
  /\ seen \in [Databases -> DatabaseRecord]
  /\ cluster \in {"absent", "waiting", "connected"}
  /\ pg \in [Names -> PGRecord]
  /\ recreate \subseteq Names
  /\ queue \subseteq Databases
  /\ pc \in Steps
  /\ cur \in Databases \cup {NoDatabase}
  /\ (pc # "idle") => (cur \in Databases /\ obj.name \in Names)
  /\ obj \in DatabaseRecord
  /\ to \in Target
  /\ lost \subseteq Databases \X Names
  /\ edits \in 0..MaxEdits /\ faults \in 0..MaxFaults /\ crashes \in 0..MaxCrashes
  /\ outages \in 0..MaxOutages /\ restores \in 0..MaxRestores

-----------------------------------------------------------------------------
(* How a reconciliation ends and how it goes on                            *)

MayRead == LagAllowed \/ seen = db

Fault == faults < MaxFaults /\ faults' = faults + 1

Reset == pc' = "idle" /\ cur' = NoDatabase /\ obj' = Absent(0) /\ to' = NoTarget

Return(requeue) ==
  /\ queue' = IF requeue THEN queue \cup {cur} ELSE queue
  /\ Reset

Goto(step) == pc' = step /\ UNCHANGED <<queue, cur, obj, to>>

PatchThen(phase, pend, next, requeue) ==
  /\ pc' = "patch"
  /\ to' = [phase |-> phase, pend |-> pend, next |-> next, requeue |-> requeue]
  /\ UNCHANGED <<queue, cur, obj>>

\* setStatus: any phase but the two pending ones clears pendingSince
PatchPhase(phase, requeue) == PatchThen(phase, FALSE, "idle", requeue)

\* handleDatabaseError: IsTransientError holds of every error
FailAndRetry == PatchPhase("Failed", TRUE)

\* mutation: a pending Database is not looked at again
PatchPendingOnce(phase) == PatchThen(phase, TRUE, "idle", FALSE)

\* setStatus: the clock may have passed the ten minutes, if it was running
PatchPending(phase) ==
  \E p \in {phase} \cup (IF obj.pend THEN {"Failed"} ELSE {}) :
    PatchThen(p, TRUE, "idle", TRUE)

\* The owner of n loses it to the Database being reconciled, if that is another one.
Loses(n) == ({pg[n].owner} \ {NoDatabase, cur}) \X {n}

-----------------------------------------------------------------------------
(* Reconcile                                                               *)

\* mutation: the finalizer is not waited for
FirstStepNoFinalizer(o) ==
  IF ~o.exists THEN "idle"
  ELSE IF o.del THEN IF o.fin THEN "patch" ELSE "idle"
  ELSE "cluster"

FirstStep(o) ==
  IF ~o.exists THEN "idle"
  ELSE IF o.del THEN IF o.fin THEN "patch" ELSE "idle"
  ELSE IF o.fin THEN "cluster" ELSE "finalizer"

\* A worker takes a key off the queue and gets the object from the cache; handleDeletion
\* begins with a patch of the phase.
Start(d) ==
  /\ pc = "idle" /\ d \in queue /\ MayRead
  /\ queue' = queue \ {d}
  /\ pc' = FirstStep(seen[d])
  /\ IF FirstStep(seen[d]) = "idle" THEN UNCHANGED <<cur, obj>>
     ELSE cur' = d /\ obj' = seen[d]
  /\ to' = IF FirstStep(seen[d]) = "patch"
           THEN [phase |-> "Deleting", pend |-> FALSE, next |-> "release", requeue |-> TRUE]
           ELSE to
  /\ UNCHANGED <<db, seen, cluster, pg, recreate, lost, bounds>>

\* ensureFinalizer: Update conflicts unless obj is the current version; errors are retried.
AddFinalizer ==
  /\ pc = "finalizer"
  /\ \/ /\ db[cur] = obj /\ db' = [db EXCEPT ![cur].fin = TRUE]
        /\ Return(FALSE) /\ UNCHANGED faults
     \/ /\ db[cur] # obj /\ Return(TRUE) /\ UNCHANGED <<db, faults>>
     \/ Fault /\ Return(TRUE) /\ UNCHANGED db
  /\ UNCHANGED <<seen, cluster, pg, recreate, lost, edits, crashes, outages, restores>>

\* getReadyCluster, getPostgresClient and ensureCreatingStatus up to their patch
GetCluster ==
  /\ pc = "cluster"
  /\ \/ cluster = "absent" /\ PatchPending("Pending") /\ UNCHANGED faults
     \/ cluster = "waiting" /\ PatchPending("Waiting") /\ UNCHANGED faults
     \/ /\ cluster = "connected" /\ UNCHANGED faults
        /\ IF obj.phase \in {"", "Pending", "Waiting"}
           THEN PatchThen("Creating", FALSE, "exists", TRUE)
           ELSE Goto("exists")
     \/ cluster = "connected" /\ Fault /\ FailAndRetry
  /\ UNCHANGED <<db, seen, cluster, pg, recreate, lost, edits, crashes, outages, restores>>

\* EnsureDatabaseWithOwner: DatabaseExists
DatabaseExists ==
  /\ pc = "exists"
  /\ \/ Goto(IF pg[obj.name].exists THEN "owner" ELSE "create") /\ UNCHANGED faults
     \/ Fault /\ FailAndRetry
  /\ UNCHANGED <<db, seen, cluster, pg, recreate, lost, edits, crashes, outages, restores>>

\* CreateDatabaseWithOwner: CREATE DATABASE fails on one that exists; a statement that
\* fails may have taken effect.
CreateDatabase ==
  /\ pc = "create"
  /\ LET created == [pg EXCEPT ![obj.name] = NewPG] IN
       \/ /\ ~pg[obj.name].exists /\ pg' = created
          /\ Goto("comment") /\ UNCHANGED faults
       \/ /\ pg[obj.name].exists /\ FailAndRetry /\ UNCHANGED <<pg, faults>>
       \/ /\ ~pg[obj.name].exists /\ Fault /\ pg' \in {pg, created}
          /\ FailAndRetry
  /\ UNCHANGED <<db, seen, cluster, recreate, lost, edits, crashes, outages, restores>>

\* mutations: another owner's database is taken for one's own; an unowned database is
\* not claimed
GetAnyOwner ==
  /\ pc = "owner" /\ pg[obj.name].exists
  /\ Goto(IF pg[obj.name].owner = NoDatabase \/ obj.force THEN "comment" ELSE "extend")
  /\ UNCHANGED <<db, seen, cluster, pg, recreate, lost, bounds>>

GetOwnerNoClaim ==
  /\ pc = "owner"
  /\ IF pg[obj.name].exists /\ pg[obj.name].owner \in {NoDatabase, cur}
     THEN Goto("extend") /\ lost' = lost \ {<<cur, obj.name>>}
     ELSE FailAndRetry /\ UNCHANGED lost
  /\ UNCHANGED <<db, seen, cluster, pg, recreate, bounds>>

\* EnsureDatabaseWithOwner on GetDatabaseOwner's answer: nothing to claim, a database to
\* claim, one of another owner, or an error (no row, if it is gone by now).
GetDatabaseOwner ==
  /\ pc = "owner"
  /\ LET p == pg[obj.name] IN
       \/ ~p.exists /\ FailAndRetry /\ UNCHANGED <<lost, faults>>
       \/ /\ p.exists /\ (p.owner = NoDatabase \/ obj.force)
          /\ Goto("comment") /\ UNCHANGED <<lost, faults>>
       \/ /\ p.exists /\ p.owner = cur /\ ~obj.force
          /\ Goto("extend") /\ lost' = lost \ {<<cur, obj.name>>} /\ UNCHANGED faults
       \/ /\ p.exists /\ p.owner \notin {cur, NoDatabase} /\ ~obj.force
          /\ FailAndRetry /\ UNCHANGED <<lost, faults>>
       \/ Fault /\ FailAndRetry /\ UNCHANGED lost
  /\ UNCHANGED <<db, seen, cluster, pg, recreate, edits, crashes, outages, restores>>

\* COMMENT ON DATABASE, of a new and of a claimed database; its errors are ignored.
CommentOnDatabase ==
  /\ pc = "comment" /\ Goto("extend")
  /\ LET n == obj.name
         commented == [pg EXCEPT ![n].owner = cur]
         taken == (lost \cup Loses(n)) \ {<<cur, n>>} IN
       \/ /\ pg[n].exists /\ pg[n].mine
          /\ pg' = commented /\ lost' = taken /\ UNCHANGED faults
       \/ ~(pg[n].exists /\ pg[n].mine) /\ UNCHANGED <<pg, lost, faults>>
       \/ /\ pg[n].exists /\ pg[n].mine /\ Fault
          /\ \/ pg' = commented /\ lost' = taken
             \/ UNCHANGED <<pg, lost>>
  /\ UNCHANGED <<db, seen, cluster, recreate, edits, crashes, outages, restores>>

\* mutation: a phase the CRD does not have
EnsureExtensionsNewPhase ==
  /\ pc = "extend" /\ PatchPhase("Error", FALSE)
  /\ UNCHANGED <<db, seen, cluster, pg, recreate, lost, bounds>>

\* EnsureExtensions, if there are any, and the last patch; a failure asks for no retry.
EnsureExtensions ==
  /\ pc = "extend"
  /\ \/ PatchPhase("Ready", FALSE) /\ UNCHANGED faults
     \/ ~pg[obj.name].exists /\ PatchPhase("Failed", FALSE) /\ UNCHANGED faults
     \/ pg[obj.name].exists /\ Fault /\ PatchPhase("Failed", FALSE)
  /\ UNCHANGED <<db, seen, cluster, pg, recreate, lost, edits, crashes, outages, restores>>

\* dropDatabaseIfPossible and clearDatabaseOwnerIfPossible on a database
Released(p) ==
  IF ~p.mine \/ ~p.exists THEN p
  ELSE IF obj.policy = "Delete" THEN NoPG ELSE [p EXCEPT !.owner = NoDatabase]

\* handleDeletion: without a DBCluster nothing is done; errors are logged.
ReleaseDatabase ==
  /\ pc = "release" /\ Goto("unfinalize")
  /\ LET n == obj.name
         released == [pg EXCEPT ![n] = Released(@)] IN
       \/ cluster = "absent" /\ UNCHANGED <<pg, lost, faults>>
       \/ /\ cluster # "absent" /\ pg' = released /\ lost' = lost \cup Loses(n)
          /\ UNCHANGED faults
       \/ /\ cluster # "absent" /\ Fault
          /\ \/ pg' = released /\ lost' = lost \cup Loses(n)
             \/ UNCHANGED <<pg, lost>>
  /\ UNCHANGED <<db, seen, cluster, recreate, edits, crashes, outages, restores>>

\* Update deletes the object if its deletion was asked for: with a stale cache it may
\* be a later one, which was not.
RemoveFinalizer ==
  /\ pc = "unfinalize"
  /\ \/ /\ db[cur] = obj
        /\ db' = [db EXCEPT ![cur] = IF obj.del THEN Absent(@.uid) ELSE [@ EXCEPT !.fin = FALSE]]
        /\ Return(FALSE) /\ UNCHANGED faults
     \/ db[cur] # obj /\ Return(TRUE) /\ UNCHANGED <<db, faults>>
     \/ Fault /\ Return(TRUE) /\ UNCHANGED db
  /\ UNCHANGED <<seen, cluster, pg, recreate, lost, edits, crashes, outages, restores>>

\* MergeFrom: only the fields that differ from the local copy are written.
Merged(o) ==
  [o EXCEPT !.phase = IF to.phase # obj.phase THEN to.phase ELSE @,
            !.pend = IF to.pend # obj.pend THEN to.pend ELSE @,
            !.dbname = IF obj.name # obj.dbname THEN obj.name ELSE @]

\* mutation: a failed patch is not retried
PatchStatusOnce ==
  /\ pc = "patch"
  /\ LET patched == [db EXCEPT ![cur] = Merged(@)] IN
       \/ /\ db[cur].exists /\ db' = patched /\ UNCHANGED faults
          /\ IF to.next = "idle" THEN Return(to.requeue)
             ELSE pc' = to.next /\ obj' = patched[cur] /\ to' = NoTarget /\ UNCHANGED <<queue, cur>>
       \/ db[cur].exists /\ Fault /\ db' \in {db, patched} /\ Return(FALSE)
  /\ UNCHANGED <<seen, cluster, pg, recreate, lost, edits, crashes, outages, restores>>

\* setStatus; the local copy becomes the object the API server answers with. Every
\* caller returns its error.
PatchStatus ==
  /\ pc = "patch"
  /\ LET patched == [db EXCEPT ![cur] = Merged(@)] IN
       \/ /\ db[cur].exists /\ db' = patched /\ UNCHANGED faults
          /\ IF to.next = "idle" THEN Return(to.requeue)
             ELSE pc' = to.next /\ obj' = patched[cur] /\ to' = NoTarget /\ UNCHANGED <<queue, cur>>
       \/ ~db[cur].exists /\ Return(TRUE) /\ UNCHANGED <<db, faults>>
       \/ db[cur].exists /\ Fault /\ db' \in {db, patched} /\ Return(TRUE)
  /\ UNCHANGED <<seen, cluster, pg, recreate, lost, edits, crashes, outages, restores>>

Reconcile ==
  \/ AddFinalizer \/ GetCluster \/ DatabaseExists \/ CreateDatabase \/ GetDatabaseOwner
  \/ CommentOnDatabase \/ EnsureExtensions \/ ReleaseDatabase \/ RemoveFinalizer
  \/ PatchStatus

-----------------------------------------------------------------------------
(* The manager, the users, the DBCluster and the restore jobs              *)

\* Every change of a Database that reaches the cache enqueues its key.
SyncDatabases ==
  /\ seen # db /\ seen' = db
  /\ queue' = queue \cup {d \in Databases : seen[d] # db[d]}
  /\ UNCHANGED <<db, cluster, pg, recreate, local, lost, bounds>>

\* A new process lists every object and reconciles every Database.
Restart ==
  /\ crashes < MaxCrashes /\ crashes' = crashes + 1
  /\ seen' = db /\ queue' = {d \in Databases : db[d].exists} /\ Reset
  /\ UNCHANGED <<db, cluster, pg, recreate, lost, edits, faults, outages, restores>>

CreateResource(d) ==
  /\ ~db[d].exists /\ db[d].uid < MaxUid
  /\ \E n \in Names, p \in Policies, f \in BOOLEAN :
       db' = [db EXCEPT ![d] = Fresh(TRUE, @.uid + 1, n, p, f)]
  /\ UNCHANGED <<seen, cluster, pg, recreate, queue, local, lost, bounds>>

\* spec.databaseName and spec.deletionPolicy are not immutable.
EditResource(d) ==
  /\ db[d].exists /\ edits < MaxEdits /\ edits' = edits + 1
  /\ \E n \in Names, p \in Policies :
       /\ <<n, p>> # <<db[d].name, db[d].policy>>
       /\ db' = [db EXCEPT ![d] = [@ EXCEPT !.name = n, !.policy = p]]
  /\ UNCHANGED <<seen, cluster, pg, recreate, queue, local, lost,
                 faults, crashes, outages, restores>>

DeleteResource(d) ==
  /\ db[d].exists /\ ~db[d].del
  /\ db' = [db EXCEPT ![d] = IF @.fin THEN [@ EXCEPT !.del = TRUE] ELSE Absent(@.uid)]
  /\ UNCHANGED <<seen, cluster, pg, recreate, queue, local, lost, bounds>>

Users == \E d \in Databases : CreateResource(d) \/ EditResource(d) \/ DeleteResource(d)

\* The DBCluster's changes enqueue no Database.
ClusterGoes ==
  /\ cluster = "connected" /\ outages < MaxOutages /\ outages' = outages + 1
  /\ cluster' \in {"absent", "waiting"}
  /\ UNCHANGED <<db, seen, pg, recreate, queue, local, lost, edits, faults, crashes, restores>>

ClusterReturns ==
  /\ cluster # "connected" /\ cluster' = "connected"
  /\ UNCHANGED <<db, seen, pg, recreate, queue, local, lost, bounds>>

\* dropAndRecreateDatabase of a restore job: the new database has no comment.
RestoreDrops(n) ==
  /\ restores < MaxRestores /\ restores' = restores + 1
  /\ pg[n].exists /\ pg[n].mine
  /\ pg' = [pg EXCEPT ![n] = NoPG] /\ recreate' = recreate \cup {n}
  /\ lost' = lost \cup (Databases \X {n})
  /\ UNCHANGED <<db, seen, cluster, queue, local, edits, faults, crashes, outages>>

RestoreCreates(n) ==
  /\ n \in recreate /\ recreate' = recreate \ {n}
  /\ pg' = [pg EXCEPT ![n] = IF @.exists THEN @ ELSE NewPG]
  /\ UNCHANGED <<db, seen, cluster, queue, local, lost, bounds>>

RestoreJobs == \E n \in Names : RestoreDrops(n) \/ RestoreCreates(n)

-----------------------------------------------------------------------------
Init ==
  /\ db = [d \in Databases |-> Absent(0)] /\ seen = db
  /\ cluster = "connected"
  /\ pg \in [Names -> {NoPG, NewPG, LegacyPG}] /\ recreate = {}
  /\ queue = {} /\ lost = {}
  /\ pc = "idle" /\ cur = NoDatabase /\ obj = Absent(0) /\ to = NoTarget
  /\ edits = 0 /\ faults = 0 /\ crashes = 0 /\ outages = 0 /\ restores = 0

Next ==
  \/ \E d \in Databases : Start(d)
  \/ Reconcile \/ SyncDatabases \/ Restart
  \/ Users \/ ClusterGoes \/ ClusterReturns \/ RestoreJobs

Spec == Init /\ [][Next]_vars

\* The worker takes every queued key in its turn and finishes what it started; watches
\* deliver; an outage of the DBCluster ends.
Fairness ==
  /\ \A d \in Databases : SF_vars(Start(d))
  /\ WF_vars(Reconcile) /\ WF_vars(SyncDatabases) /\ WF_vars(ClusterReturns)

FairSpec == Spec /\ Fairness

-----------------------------------------------------------------------------
(* Properties                                                              *)

\* A Ready Database owns the PostgreSQL database its status names: it exists, and the
\* comment names it if the operator may write one.  Excepted are a database that another
\* Database's adoption or deletion, or a restore, took since, and failed calls.
ReadyOwnsDatabase ==
  \A d \in Databases :
    (/\ db[d].exists /\ ~db[d].del /\ db[d].phase = "Ready"
     /\ <<d, db[d].dbname>> \notin lost /\ faults = 0)
      => LET p == pg[db[d].dbname] IN p.exists /\ (p.mine => p.owner = d)

\* A Database has the finalizer before the controller does anything for it: deleting it
\* goes through handleDeletion as soon as there may be something to drop or to release.
FinalizerFirst ==
  \A d \in Databases :
    (db[d].exists /\ db[d].phase \notin {"", "Deleting"}) => db[d].fin

\* A Database that is gone owns nothing: its PostgreSQL database was dropped or released
\* for others to adopt, unless a call failed, the DBCluster was away or the Database
\* named another one before.
DeletedOwnsNothing ==
  \A n \in Names :
    (pg[n].owner # NoDatabase /\ faults = 0 /\ outages = 0 /\ edits = 0)
      => db[pg[n].owner].exists

\* A Database alone with its PostgreSQL name becomes Ready, whatever outages, restarts and
\* stale reads occur, as long as no call fails and no restore interferes.
EventuallyReady ==
  \A d \in Databases :
    (db[d].exists /\ ~db[d].del)
      ~> (\/ ~db[d].exists \/ db[d].del \/ faults > 0 \/ restores > 0
          \/ (db[d].phase = "Ready" /\ db[d].dbname = db[d].name))

\* A deleted Database goes away, whatever fails.
DeletionCompletes ==
  \A d \in Databases : (db[d].exists /\ db[d].del) ~> ~db[d].exists

-----------------------------------------------------------------------------
(* What the repository says of the controller and it does not do           *)

\* docs/crds/database.md:148: "`Ready` | Database is ready for use"
ReadyIsUsable ==
  \A d \in Databases :
    (db[d].exists /\ db[d].phase = "Ready" /\ faults = 0 /\ restores = 0)
      => pg[db[d].dbname].exists

=============================================================================
