------------------------ MODULE DatabaseOwnershipProofs ------------------------
(***************************************************************************)
(* Safety of DatabaseOwnership for any number of Databases, PostgreSQL     *)
(* names, edits, faults, restarts, outages and restores.                   *)
(***************************************************************************)
EXTENDS DatabaseOwnership, TLAPS

-----------------------------------------------------------------------------
(* Type correctness                                                        *)

\* The parts of TypeOK that different steps disturb.
ApiOK == db \in [Databases -> DatabaseRecord] /\ seen \in [Databases -> DatabaseRecord]
ServerOK == /\ cluster \in {"absent", "waiting", "connected"}
            /\ pg \in [Names -> PGRecord]
            /\ recreate \subseteq Names
            /\ lost \subseteq Databases \X Names
LocalOK == /\ queue \subseteq Databases
           /\ pc \in Steps
           /\ cur \in Databases \cup {NoDatabase}
           /\ (pc # "idle") => (cur \in Databases /\ obj.name \in Names)
           /\ obj \in DatabaseRecord
           /\ to \in Target
CountOK == /\ edits \in 0..MaxEdits /\ faults \in 0..MaxFaults /\ crashes \in 0..MaxCrashes
           /\ outages \in 0..MaxOutages /\ restores \in 0..MaxRestores

\* An object that exists names a database: what makes TypeOK inductive.
Named(o) == o.exists => o.name \in Names
NameInv == \A d \in Databases : Named(db[d]) /\ Named(seen[d])
TypeInv == TypeOK /\ NameInv

LEMMA TypeParts == TypeInv <=> ApiOK /\ ServerOK /\ LocalOK /\ CountOK /\ NameInv
BY DEF TypeInv, TypeOK, ApiOK, ServerOK, LocalOK, CountOK

LEMMA TypePartsNext == ApiOK' /\ ServerOK' /\ LocalOK' /\ CountOK' /\ NameInv' => TypeInv'
BY DEF TypeInv, TypeOK, ApiOK, ServerOK, LocalOK, CountOK

LEMMA Defaults ==
  /\ \A u \in 0..MaxUid : Absent(u) \in DatabaseRecord /\ Named(Absent(u))
  /\ NoTarget \in Target
  /\ NoPG \in PGRecord /\ NewPG \in PGRecord /\ LegacyPG \in PGRecord
<1>1. \A u \in 0..MaxUid : Absent(u) \in DatabaseRecord /\ Named(Absent(u))
  BY DEF Absent, Fresh, DatabaseRecord, Phases, Policies, Named
<1>2. NoTarget \in Target
  BY DEF NoTarget, Target, Phases
<1>3. NoPG \in PGRecord /\ NewPG \in PGRecord /\ LegacyPG \in PGRecord
  BY DEF NoPG, NewPG, LegacyPG, PGRecord
<1> QED BY <1>1, <1>2, <1>3

LEMMA FreshType ==
  ASSUME NEW u \in 0..MaxUid, NEW n \in Names, NEW p \in Policies, NEW f \in BOOLEAN
  PROVE  Fresh(TRUE, u, n, p, f) \in DatabaseRecord /\ Named(Fresh(TRUE, u, n, p, f))
BY DEF Fresh, DatabaseRecord, Phases, Named

LEMMA FaultCount == ASSUME TypeInv, Fault PROVE faults' \in 0..MaxFaults
BY BoundAssumption DEF TypeInv, TypeOK, Fault

\* The ways a step of the worker ends keep its local variables typed.
LEMMA ResetType == ASSUME Reset, queue' \subseteq Databases PROVE LocalOK'
<1>1. Absent(0) \in DatabaseRecord
  BY Defaults, BoundAssumption
<1> QED BY <1>1, Defaults DEF Reset, LocalOK, Steps

LEMMA ReturnType ==
  ASSUME TypeInv, NEW q \in BOOLEAN, cur \in Databases, Return(q) PROVE LocalOK'
<1>1. queue' \subseteq Databases
  BY DEF Return, TypeInv, TypeOK
<1> QED BY <1>1, ResetType DEF Return

LEMMA GotoType ==
  ASSUME TypeInv, NEW step \in Steps, pc # "idle", Goto(step) PROVE LocalOK'
BY DEF TypeInv, TypeOK, LocalOK, Goto

LEMMA PatchThenType ==
  ASSUME TypeInv, pc # "idle", NEW phase \in Phases, NEW pend \in BOOLEAN,
         NEW next \in {"idle", "exists", "release"}, NEW q \in BOOLEAN,
         PatchThen(phase, pend, next, q)
  PROVE  LocalOK'
<1>1. to' \in Target
  BY DEF PatchThen, Target
<1> QED BY <1>1 DEF TypeInv, TypeOK, LocalOK, PatchThen, Steps

LEMMA PatchPhaseType ==
  ASSUME TypeInv, pc # "idle", NEW phase \in Phases, NEW q \in BOOLEAN, PatchPhase(phase, q)
  PROVE  LocalOK'
BY PatchThenType DEF PatchPhase

LEMMA FailType == ASSUME TypeInv, pc # "idle", FailAndRetry PROVE LocalOK'
BY PatchPhaseType DEF FailAndRetry, Phases

LEMMA PendingType ==
  ASSUME TypeInv, pc # "idle", NEW phase \in Phases, PatchPending(phase) PROVE LocalOK'
<1> PICK p \in {phase} \cup (IF obj.pend THEN {"Failed"} ELSE {}) :
      PatchThen(p, TRUE, "idle", TRUE)
  BY DEF PatchPending
<1>1. p \in Phases
  BY DEF Phases
<1> QED BY <1>1, PatchThenType

LEMMA MergedType ==
  ASSUME TypeInv, NEW o \in DatabaseRecord, cur \in Databases, pc = "patch"
  PROVE  /\ Merged(o) \in DatabaseRecord
         /\ Merged(o).exists = o.exists /\ Merged(o).uid = o.uid /\ Merged(o).fin = o.fin
         /\ Merged(o).del = o.del /\ Merged(o).name = o.name
         /\ Merged(o).phase = IF to.phase # obj.phase THEN to.phase ELSE o.phase
         /\ Merged(o).dbname = IF obj.name # obj.dbname THEN obj.name ELSE o.dbname
<1>1. /\ to.phase \in Phases /\ to.pend \in BOOLEAN /\ obj.name \in Names
  BY DEF TypeInv, TypeOK, Target
<1> QED BY <1>1 DEF Merged, DatabaseRecord

LEMMA LosesType == ASSUME TypeInv, NEW n \in Names PROVE Loses(n) \subseteq Databases \X Names
BY DEF TypeInv, TypeOK, Loses, PGRecord

-----------------------------------------------------------------------------
(* One lemma per group of actions                                          *)

LEMMA InitType == Init => TypeInv
<1> SUFFICES ASSUME Init PROVE TypeInv
  OBVIOUS
<1>0. 0 \in 0..MaxUid
  BY BoundAssumption
<1>1. ApiOK /\ NameInv
  BY <1>0, Defaults DEF Init, ApiOK, NameInv
<1>2. ServerOK
  BY Defaults DEF Init, ServerOK
<1>3. LocalOK
  BY <1>0, Defaults DEF Init, LocalOK, Steps
<1>4. CountOK
  BY BoundAssumption DEF Init, CountOK
<1> QED BY <1>1, <1>2, <1>3, <1>4, TypeParts

LEMMA StartType ==
  ASSUME TypeInv, NEW d \in Databases, Start(d) PROVE TypeInv'
<1> DEFINE step == FirstStep(seen[d])
<1>1. step \in Steps
  BY DEF FirstStep, Steps
<1>2. seen[d] \in DatabaseRecord /\ (step # "idle" => seen[d].name \in Names)
  BY DEF TypeInv, TypeOK, NameInv, Named, FirstStep
<1>3. to' \in Target
  BY DEF Start, TypeInv, TypeOK, Target, Phases
<1>4. LocalOK'
  BY <1>1, <1>2, <1>3 DEF Start, TypeInv, TypeOK, LocalOK
<1>5. ApiOK' /\ ServerOK' /\ CountOK' /\ NameInv'
  BY TypeParts DEF Start, ApiOK, ServerOK, CountOK, NameInv, bounds
<1> QED BY <1>4, <1>5, TypePartsNext

\* Every step of the worker has a current Database.
LEMMA Busy ==
  ASSUME TypeInv, Reconcile
  PROVE  /\ pc # "idle" /\ cur \in Databases /\ obj \in DatabaseRecord
         /\ obj.name \in Names /\ db[cur] \in DatabaseRecord
         /\ seen' = seen /\ cluster' = cluster /\ recreate' = recreate
         /\ UNCHANGED <<edits, crashes, outages, restores>>
<1>1. pc # "idle"
  BY DEF Reconcile, AddFinalizer, GetCluster, DatabaseExists, CreateDatabase,
         GetDatabaseOwner, CommentOnDatabase, EnsureExtensions, ReleaseDatabase,
         RemoveFinalizer, PatchStatus
<1>2. /\ seen' = seen /\ cluster' = cluster /\ recreate' = recreate
      /\ UNCHANGED <<edits, crashes, outages, restores>>
  BY DEF Reconcile, AddFinalizer, GetCluster, DatabaseExists, CreateDatabase,
         GetDatabaseOwner, CommentOnDatabase, EnsureExtensions, ReleaseDatabase,
         RemoveFinalizer, PatchStatus
<1> QED BY <1>1, <1>2 DEF TypeInv, TypeOK

\* The steps that read or write PostgreSQL leave the API server alone, and the others
\* PostgreSQL.
Queries == \/ GetCluster \/ DatabaseExists \/ CreateDatabase \/ GetDatabaseOwner
           \/ CommentOnDatabase \/ EnsureExtensions \/ ReleaseDatabase
Writes == AddFinalizer \/ RemoveFinalizer \/ PatchStatus

LEMMA QueriesOrWrites ==
  /\ Reconcile <=> Queries \/ Writes
  /\ Queries => UNCHANGED db
  /\ Writes => UNCHANGED <<pg, lost>>
BY DEF Reconcile, Queries, Writes, AddFinalizer, GetCluster, DatabaseExists,
       CreateDatabase, GetDatabaseOwner, CommentOnDatabase, EnsureExtensions,
       ReleaseDatabase, RemoveFinalizer, PatchStatus

LEMMA QueriesLocal ==
  ASSUME TypeInv, Queries PROVE LocalOK' /\ faults' \in 0..MaxFaults
<1>0. pc # "idle" /\ faults \in 0..MaxFaults
  BY DEF Queries, GetCluster, DatabaseExists, CreateDatabase, GetDatabaseOwner,
         CommentOnDatabase, EnsureExtensions, ReleaseDatabase, TypeInv, TypeOK
<1>1. faults' \in 0..MaxFaults
  BY <1>0, FaultCount DEF Queries, GetCluster, DatabaseExists, CreateDatabase,
     GetDatabaseOwner, CommentOnDatabase, EnsureExtensions, ReleaseDatabase
<1>2. CASE GetCluster
  BY <1>0, <1>1, <1>2, PendingType, PatchThenType, GotoType, FailType DEF GetCluster, Phases, Steps
<1>3. CASE DatabaseExists \/ CreateDatabase \/ GetDatabaseOwner
  BY <1>0, <1>1, <1>3, GotoType, FailType
     DEF DatabaseExists, CreateDatabase, GetDatabaseOwner, Steps
<1>4. CASE CommentOnDatabase \/ ReleaseDatabase
  BY <1>0, <1>1, <1>4, GotoType DEF CommentOnDatabase, ReleaseDatabase, Steps
<1>5. CASE EnsureExtensions
  BY <1>0, <1>1, <1>5, PatchPhaseType DEF EnsureExtensions, Phases
<1> QED BY <1>2, <1>3, <1>4, <1>5 DEF Queries

LEMMA ReleasedType ==
  ASSUME TypeInv, NEW p \in PGRecord
  PROVE  Released(p) \in PGRecord /\ [p EXCEPT !.owner = NoDatabase] \in PGRecord
BY Defaults DEF Released, PGRecord

LEMMA QueriesServer ==
  ASSUME TypeInv, Queries PROVE pg' \in [Names -> PGRecord] /\ lost' \subseteq Databases \X Names
<1>0. /\ obj.name \in Names /\ cur \in Databases /\ pg \in [Names -> PGRecord]
      /\ pg[obj.name] \in PGRecord /\ lost \subseteq Databases \X Names
  BY Busy, QueriesOrWrites DEF TypeInv, TypeOK
<1>1. CASE GetCluster \/ DatabaseExists \/ EnsureExtensions \/ GetDatabaseOwner
  BY <1>0, <1>1 DEF GetCluster, DatabaseExists, EnsureExtensions, GetDatabaseOwner
<1>2. CASE CreateDatabase
  BY <1>0, <1>2, Defaults DEF CreateDatabase
<1>3. CASE CommentOnDatabase
  <2>1. [pg EXCEPT ![obj.name].owner = cur] \in [Names -> PGRecord]
    <3>1. [pg[obj.name] EXCEPT !.owner = cur] \in PGRecord
      BY <1>0 DEF PGRecord
    <3> QED BY <1>0, <3>1
  <2> QED BY <1>0, <1>3, <2>1, LosesType DEF CommentOnDatabase
<1>4. CASE ReleaseDatabase
  <2>1. [pg EXCEPT ![obj.name] = Released(@)] \in [Names -> PGRecord]
    BY <1>0, ReleasedType
  <2> QED BY <1>0, <1>4, <2>1, LosesType DEF ReleaseDatabase
<1> QED BY <1>1, <1>2, <1>3, <1>4 DEF Queries

\* What the worker's writes make of the current object; o is its new state.
LEMMA WritesDb ==
  ASSUME TypeInv, Writes
  PROVE  /\ db' \in [Databases -> DatabaseRecord]
         /\ Named(db[cur]) => Named(db'[cur])
         /\ \A d \in Databases : d # cur => db'[d] = db[d]
<1>0. /\ cur \in Databases /\ db \in [Databases -> DatabaseRecord]
      /\ db[cur] \in DatabaseRecord /\ pc # "idle"
  BY Busy, QueriesOrWrites DEF TypeInv, TypeOK
<1>1. CASE AddFinalizer
  <2>1. [db[cur] EXCEPT !.fin = TRUE] \in DatabaseRecord
        /\ (Named(db[cur]) => Named([db[cur] EXCEPT !.fin = TRUE]))
    BY <1>0 DEF DatabaseRecord, Named
  <2> QED BY <1>0, <1>1, <2>1 DEF AddFinalizer
<1>2. CASE RemoveFinalizer
  <2>1. [db[cur] EXCEPT !.fin = FALSE] \in DatabaseRecord
        /\ (Named(db[cur]) => Named([db[cur] EXCEPT !.fin = FALSE]))
    BY <1>0 DEF DatabaseRecord, Named
  <2>2. db[cur].uid \in 0..MaxUid
    BY <1>0 DEF DatabaseRecord
  <2>3. Absent(db[cur].uid) \in DatabaseRecord /\ Named(Absent(db[cur].uid))
    BY <2>2, Defaults
  <2> QED BY <1>0, <1>2, <2>1, <2>3 DEF RemoveFinalizer
<1>3. CASE PatchStatus
  <2>1. Merged(db[cur]) \in DatabaseRecord /\ (Named(db[cur]) => Named(Merged(db[cur])))
    BY <1>0, <1>3, MergedType DEF PatchStatus, Named
  <2> QED BY <1>0, <1>3, <2>1 DEF PatchStatus
<1> QED BY <1>1, <1>2, <1>3 DEF Writes

LEMMA WritesLocal ==
  ASSUME TypeInv, Writes PROVE LocalOK' /\ faults' \in 0..MaxFaults
<1>0. /\ cur \in Databases /\ pc # "idle" /\ faults \in 0..MaxFaults
  BY Busy, QueriesOrWrites DEF TypeInv, TypeOK
<1>1. faults' \in 0..MaxFaults
  BY <1>0, FaultCount DEF Writes, AddFinalizer, RemoveFinalizer, PatchStatus
<1>2. CASE AddFinalizer \/ RemoveFinalizer
  BY <1>0, <1>1, <1>2, ReturnType DEF AddFinalizer, RemoveFinalizer
<1>3. CASE PatchStatus
  <2>0. to \in Target /\ to.requeue \in BOOLEAN /\ to.next \in {"idle", "exists", "release"}
    BY DEF TypeInv, TypeOK, Target
  <2>1. ASSUME NEW q \in BOOLEAN, Return(q) PROVE LocalOK'
    BY <1>0, <2>1, ReturnType
  <2>2. ASSUME db[cur].exists, to.next # "idle", pc' = to.next, to' = NoTarget,
               obj' = [db EXCEPT ![cur] = Merged(@)][cur], UNCHANGED <<queue, cur>>
        PROVE  LocalOK'
    <3>1. db[cur] \in DatabaseRecord /\ db[cur].name \in Names
      BY <1>0, <2>2 DEF TypeInv, TypeOK, NameInv, Named
    <3>2. obj' = Merged(db[cur])
      BY <1>0, <2>2 DEF TypeInv, TypeOK
    <3>3. obj' \in DatabaseRecord /\ obj'.name \in Names
      BY <1>0, <1>3, <3>1, <3>2, MergedType DEF PatchStatus
    <3> QED BY <1>0, <2>0, <2>2, <3>3, Defaults DEF TypeInv, TypeOK, LocalOK, Steps
  <2> QED BY <1>1, <1>3, <2>0, <2>1, <2>2 DEF PatchStatus
<1> QED BY <1>2, <1>3 DEF Writes

LEMMA ReconcileType ==
  ASSUME TypeInv, Reconcile PROVE TypeInv'
<1> USE TypeParts
<1>1. CASE Queries
  <2>1. ApiOK' /\ ServerOK' /\ LocalOK' /\ CountOK' /\ NameInv'
    BY <1>1, Busy, QueriesOrWrites, QueriesLocal, QueriesServer
       DEF ApiOK, ServerOK, CountOK, NameInv
  <2> QED BY <2>1, TypePartsNext
<1>2. CASE Writes
  <2>1. NameInv'
    BY <1>2, Busy, QueriesOrWrites, WritesDb DEF NameInv
  <2>2. ApiOK' /\ ServerOK' /\ LocalOK' /\ CountOK'
    BY <1>2, Busy, QueriesOrWrites, WritesDb, WritesLocal DEF ApiOK, ServerOK, CountOK
  <2> QED BY <2>1, <2>2, TypePartsNext
<1> QED BY <1>1, <1>2, QueriesOrWrites

LEMMA ManagerType ==
  ASSUME TypeInv, SyncDatabases \/ Restart PROVE TypeInv'
<1> USE TypeParts
<1>1. ApiOK' /\ NameInv' /\ ServerOK'
  BY DEF SyncDatabases, Restart, ApiOK, NameInv, ServerOK
<1>2. CountOK'
  BY BoundAssumption DEF SyncDatabases, Restart, CountOK, bounds
<1>3. LocalOK'
  <2>1. CASE SyncDatabases
    BY <2>1 DEF SyncDatabases, local, LocalOK
  <2>2. CASE Restart
    BY <2>2, ResetType DEF Restart
  <2> QED BY <2>1, <2>2
<1> QED BY <1>1, <1>2, <1>3, TypePartsNext

\* What users make of an object.
LEMMA UsersDb ==
  ASSUME TypeInv, NEW d \in Databases,
         CreateResource(d) \/ EditResource(d) \/ DeleteResource(d)
  PROVE  /\ db' \in [Databases -> DatabaseRecord] /\ Named(db'[d])
         /\ \A e \in Databases : e # d => db'[e] = db[e]
<1>0. db \in [Databases -> DatabaseRecord] /\ db[d] \in DatabaseRecord /\ Named(db[d])
  BY DEF TypeInv, TypeOK, NameInv
<1>1. CASE CreateResource(d)
  <2>1. db[d].uid + 1 \in 0..MaxUid
    <3>1. db[d].uid \in 0..MaxUid
      BY <1>0 DEF DatabaseRecord
    <3> QED BY <1>1, <3>1, BoundAssumption DEF CreateResource
  <2> PICK n \in Names, p \in Policies, f \in BOOLEAN :
        db' = [db EXCEPT ![d] = Fresh(TRUE, @.uid + 1, n, p, f)]
    BY <1>1 DEF CreateResource
  <2>2. /\ Fresh(TRUE, db[d].uid + 1, n, p, f) \in DatabaseRecord
        /\ Named(Fresh(TRUE, db[d].uid + 1, n, p, f))
    BY <2>1, FreshType
  <2> QED BY <1>0, <2>2
<1>2. CASE EditResource(d)
  <2> PICK n \in Names, p \in Policies :
        db' = [db EXCEPT ![d] = [@ EXCEPT !.name = n, !.policy = p]]
    BY <1>2 DEF EditResource
  <2> DEFINE o == [db[d] EXCEPT !.name = n, !.policy = p]
  <2>1. o \in DatabaseRecord /\ Named(o)
    BY <1>0 DEF DatabaseRecord, Named
  <2> QED BY <1>0, <2>1
<1>3. CASE DeleteResource(d)
  <2> DEFINE o == [db[d] EXCEPT !.del = TRUE]
  <2>1. o \in DatabaseRecord /\ Named(o)
    BY <1>0 DEF DatabaseRecord, Named
  <2>2. db[d].uid \in 0..MaxUid
    BY <1>0 DEF DatabaseRecord
  <2>3. Absent(db[d].uid) \in DatabaseRecord /\ Named(Absent(db[d].uid))
    BY <2>2, Defaults
  <2> QED BY <1>0, <1>3, <2>1, <2>3 DEF DeleteResource
<1> QED BY <1>1, <1>2, <1>3

LEMMA UsersType ==
  ASSUME TypeInv, Users PROVE TypeInv'
<1> USE TypeParts
<1> PICK d \in Databases : CreateResource(d) \/ EditResource(d) \/ DeleteResource(d)
  BY DEF Users
<1>1. UNCHANGED <<seen, cluster, pg, recreate, queue, local, lost, faults, crashes,
                  outages, restores>>
  BY DEF CreateResource, EditResource, DeleteResource, bounds
<1>2. ApiOK' /\ NameInv'
  BY <1>1, UsersDb DEF ApiOK, NameInv
<1>3. edits' \in 0..MaxEdits
  <2>1. edits' = edits \/ (edits < MaxEdits /\ edits' = edits + 1)
    BY DEF CreateResource, EditResource, DeleteResource, bounds
  <2>2. edits \in 0..MaxEdits
    BY DEF CountOK
  <2> QED BY <2>1, <2>2, BoundAssumption
<1>4. ServerOK' /\ LocalOK' /\ CountOK'
  BY <1>1, <1>3 DEF ServerOK, LocalOK, CountOK, local
<1> QED BY <1>2, <1>4, TypePartsNext

LEMMA SurroundingsType ==
  ASSUME TypeInv, ClusterGoes \/ ClusterReturns \/ RestoreJobs PROVE TypeInv'
<1> USE TypeParts
<1>1. ApiOK' /\ NameInv' /\ LocalOK'
  BY DEF ClusterGoes, ClusterReturns, RestoreJobs, RestoreDrops, RestoreCreates, local,
         ApiOK, NameInv, LocalOK
<1>2. ServerOK'
  BY Defaults DEF ClusterGoes, ClusterReturns, RestoreJobs, RestoreDrops, RestoreCreates,
                  ServerOK
<1>3. CountOK'
  BY BoundAssumption DEF ClusterGoes, ClusterReturns, RestoreJobs, RestoreDrops,
                         RestoreCreates, bounds, CountOK
<1> QED BY <1>1, <1>2, <1>3, TypePartsNext

LEMMA TypeStep == TypeInv /\ [Next]_vars => TypeInv'
<1> SUFFICES ASSUME TypeInv, [Next]_vars PROVE TypeInv'
  OBVIOUS
<1>1. CASE UNCHANGED vars
  <2>1. ApiOK' /\ ServerOK' /\ LocalOK' /\ CountOK' /\ NameInv'
    BY <1>1, TypeParts DEF vars, local, bounds, ApiOK, ServerOK, LocalOK, CountOK, NameInv
  <2> QED BY <2>1, TypePartsNext
<1> QED BY <1>1, StartType, ReconcileType, ManagerType, UsersType, SurroundingsType DEF Next

LEMMA TypeInvariant == Spec => []TypeInv
BY InitType, TypeStep, PTL DEF Spec

\* Every variable keeps its type, whatever users, failed calls, restarts and restores do.
THEOREM TypeCorrect == Spec => []TypeOK
<1>1. TypeInv => TypeOK
  BY DEF TypeInv
<1> QED BY <1>1, TypeInvariant, PTL

-----------------------------------------------------------------------------
(* The finalizer comes first                                               *)

WorkSteps == {"cluster", "exists", "create", "owner", "comment", "extend"}

\* The worker is past ensureFinalizer, or in handleDeletion.
Working == pc \in WorkSteps \/ (pc = "patch" /\ to.next # "release")
Releasing == pc \in {"release", "unfinalize"} \/ (pc = "patch" /\ to.next = "release")

\* The order of incarnations, and what is needed of it.
Leq(u, v) == u \in Nat /\ v \in Nat /\ u <= v

LEMMA LeqFacts ==
  /\ \A u \in Nat : Leq(u, u) /\ u # u + 1
  /\ \A u, v : Leq(u, v) /\ Leq(v, u) => u = v
  /\ \A u, v : Leq(u, v) => Leq(u, v + 1) /\ u # v + 1
  /\ \A u, v, w : Leq(u, v) /\ Leq(v, w) => Leq(u, w)
BY DEF Leq

Held(o) == o.exists /\ o.fin
Doomed(o) == Held(o) => o.del

\* The cache is an earlier state of the API server: a later incarnation, or the same with
\* no less of a deletion; and the finalizer it shows is still there unless it also shows
\* the deletion.
CacheOld ==
  \A d \in Databases :
    /\ Leq(seen[d].uid, db[d].uid)
    /\ (seen[d].exists /\ seen[d].del /\ seen[d].uid = db[d].uid /\ db[d].exists) => db[d].del
    /\ (seen[d].exists /\ seen[d].del) => Doomed(db[d])
    /\ (Held(seen[d]) /\ ~seen[d].del) => Held(db[d])

WorkerInv ==
  /\ Working => Held(db[cur])
  /\ Releasing => Doomed(db[cur]) /\ Doomed(seen[cur])
  /\ pc \in {"release", "unfinalize"} => Doomed(obj)
  /\ pc = "finalizer" => (obj.exists /\ ~obj.del /\ Leq(obj.uid, seen[cur].uid))
  /\ (pc = "patch" /\ to.next = "release") => to.phase = "Deleting"

FinInv == CacheOld /\ WorkerInv /\ FinalizerFirst

LEMMA AbsentFields ==
  \A u : ~Absent(u).exists /\ ~Absent(u).fin /\ Absent(u).uid = u
BY DEF Absent, Fresh

LEMMA InitFin == Init => FinInv
<1> SUFFICES ASSUME Init PROVE FinInv
  OBVIOUS
<1>1. \A d \in Databases : db[d] = Absent(0) /\ seen[d] = Absent(0)
  BY DEF Init
<1>2. Leq(0, 0)
  BY LeqFacts
<1>3. CacheOld
  BY <1>1, <1>2, AbsentFields DEF CacheOld, Held, Doomed
<1>4. FinalizerFirst
  BY <1>1, AbsentFields DEF FinalizerFirst
<1>5. WorkerInv
  BY DEF Init, WorkerInv, Working, Releasing, WorkSteps
<1> QED BY <1>3, <1>4, <1>5 DEF FinInv

LEMMA StartFin ==
  ASSUME TypeInv, FinInv, NEW d \in Databases, Start(d) PROVE FinInv'
<1> DEFINE o == seen[d]
           step == FirstStep(o)
<1>1. CacheOld' /\ FinalizerFirst'
  BY DEF Start, FinInv, CacheOld, FinalizerFirst, Held, Doomed
<1>2. UNCHANGED <<db, seen>> /\ pc' = step /\ (step # "idle" => cur' = d /\ obj' = o)
  BY DEF Start
<1>3. Leq(o.uid, o.uid)
  BY LeqFacts DEF FinInv, CacheOld, Leq
<1>4. step = "patch" => (Held(o) /\ o.del /\ to'.next = "release" /\ to'.phase = "Deleting")
  BY DEF FirstStep, Start, Held
<1>5. step = "cluster" => (Held(o) /\ ~o.del)
  BY DEF FirstStep, Held
<1>6. step = "finalizer" => (o.exists /\ ~o.del)
  BY DEF FirstStep
<1>7. step \in {"idle", "patch", "cluster", "finalizer"}
  BY DEF FirstStep
<1>8. CASE step = "patch"
  BY <1>1, <1>2, <1>4, <1>8 DEF WorkerInv, Working, Releasing, WorkSteps, Doomed, Held, FinInv, CacheOld
<1>9. CASE step = "cluster"
  BY <1>1, <1>2, <1>5, <1>9 DEF WorkerInv, Working, Releasing, WorkSteps, FinInv, CacheOld
<1>10. CASE step = "finalizer"
  BY <1>1, <1>2, <1>3, <1>6, <1>10 DEF FinInv, WorkerInv, Working, Releasing, WorkSteps
<1>11. CASE step = "idle"
  BY <1>1, <1>2, <1>11 DEF FinInv, WorkerInv, Working, Releasing, WorkSteps
<1> QED BY <1>1, <1>7, <1>8, <1>9, <1>10, <1>11 DEF FinInv

\* The queries keep the worker where it was: past the finalizer, or in handleDeletion.
LEMMA QueriesMove ==
  ASSUME TypeInv, Queries
  PROVE  /\ cur' = cur /\ obj' = obj
         /\ \/ pc \in WorkSteps /\ pc' \in WorkSteps
            \/ pc \in WorkSteps /\ pc' = "patch" /\ to'.next # "release"
            \/ pc = "release" /\ pc' = "unfinalize"
<1> USE DEF WorkSteps, Goto, PatchPhase, PatchThen, FailAndRetry
<1>1. CASE GetCluster
  <2> pc = "cluster"
    BY <1>1 DEF GetCluster
  <2>1. CASE PatchPending("Pending") \/ PatchPending("Waiting")
    <3>1. pc' = "patch" /\ to'.next # "release" /\ UNCHANGED <<cur, obj>>
      BY <2>1 DEF PatchPending
    <3> QED BY <3>1
  <2>2. CASE Goto("exists") \/ FailAndRetry
    BY <2>2
  <2>3. CASE PatchThen("Creating", FALSE, "exists", TRUE)
    BY <2>3
  <2>4. \/ PatchPending("Pending") \/ PatchPending("Waiting") \/ Goto("exists")
        \/ FailAndRetry \/ PatchThen("Creating", FALSE, "exists", TRUE)
    <3> HIDE DEF Goto, FailAndRetry, PatchThen
    <3> QED BY <1>1 DEF GetCluster
  <2> QED BY <2>1, <2>2, <2>3, <2>4
<1>2. CASE DatabaseExists
  BY <1>2 DEF DatabaseExists
<1>3. CASE CreateDatabase
  BY <1>3 DEF CreateDatabase
<1>4. CASE GetDatabaseOwner
  BY <1>4 DEF GetDatabaseOwner
<1>5. CASE CommentOnDatabase
  BY <1>5 DEF CommentOnDatabase
<1>6. CASE EnsureExtensions
  BY <1>6 DEF EnsureExtensions
<1>7. CASE ReleaseDatabase
  BY <1>7 DEF ReleaseDatabase
<1> QED BY <1>1, <1>2, <1>3, <1>4, <1>5, <1>6, <1>7 DEF Queries

LEMMA QueriesFin ==
  ASSUME TypeInv, FinInv, Queries PROVE FinInv'
<1>1. UNCHANGED <<db, seen>>
  BY Busy, QueriesOrWrites
<1>2. CacheOld' /\ FinalizerFirst'
  BY <1>1 DEF FinInv, CacheOld, FinalizerFirst, Held, Doomed
<1>3. WorkerInv'
  BY <1>1, QueriesMove DEF FinInv, WorkerInv, Working, Releasing, WorkSteps, Held, Doomed
<1> QED BY <1>2, <1>3 DEF FinInv

\* A step that ends the reconciliation leaves nothing of it.
LEMMA IdleFin ==
  ASSUME Reset, CacheOld', FinalizerFirst' PROVE FinInv'
BY DEF Reset, FinInv, WorkerInv, Working, Releasing, WorkSteps

LEMMA AddFinalizerFin ==
  ASSUME TypeInv, FinInv, AddFinalizer PROVE FinInv'
<1>0. /\ cur \in Databases /\ seen' = seen /\ db \in [Databases -> DatabaseRecord]
      /\ seen[cur] \in DatabaseRecord /\ Reset
  BY Busy DEF AddFinalizer, Reconcile, Return, TypeInv, TypeOK
<1>1. CASE UNCHANGED db
  <2>1. CacheOld' /\ FinalizerFirst'
    BY <1>0, <1>1 DEF FinInv, CacheOld, FinalizerFirst, Held, Doomed
  <2> QED BY <1>0, <2>1, IdleFin
<1>2. CASE db[cur] = obj /\ db' = [db EXCEPT ![cur].fin = TRUE]
  <2> DEFINE o == db[cur]
  <2>1. /\ db'[cur].exists = o.exists /\ db'[cur].uid = o.uid /\ db'[cur].del = o.del
        /\ db'[cur].fin = TRUE
    BY <1>0, <1>2 DEF DatabaseRecord
  <2>2. \A d \in Databases : d # cur => db'[d] = db[d]
    BY <1>0, <1>2
  <2>3. o.exists /\ ~o.del /\ Leq(o.uid, seen[cur].uid) /\ Leq(seen[cur].uid, o.uid)
    BY <1>0, <1>2 DEF AddFinalizer, FinInv, WorkerInv, CacheOld
  <2>4. o.uid = seen[cur].uid
    BY <2>3, LeqFacts
  <2>5. ~(seen[cur].exists /\ seen[cur].del)
    BY <1>0, <2>3, <2>4 DEF FinInv, CacheOld
  <2>6. CacheOld'
    BY <1>0, <2>1, <2>2, <2>3, <2>5 DEF FinInv, CacheOld, Held, Doomed
  <2>7. FinalizerFirst'
    BY <1>0, <2>1, <2>2 DEF FinInv, FinalizerFirst
  <2> QED BY <1>0, <2>6, <2>7, IdleFin
<1> QED BY <1>1, <1>2 DEF AddFinalizer

LEMMA RemoveFinalizerFin ==
  ASSUME TypeInv, FinInv, RemoveFinalizer PROVE FinInv'
<1>0. /\ cur \in Databases /\ seen' = seen /\ db \in [Databases -> DatabaseRecord]
      /\ db[cur] \in DatabaseRecord /\ Reset
  BY Busy DEF RemoveFinalizer, Reconcile, Return, TypeInv, TypeOK
<1>1. CASE UNCHANGED db
  <2>1. CacheOld' /\ FinalizerFirst'
    BY <1>0, <1>1 DEF FinInv, CacheOld, FinalizerFirst, Held, Doomed
  <2> QED BY <1>0, <2>1, IdleFin
<1>2. CASE db[cur] = obj /\ db' = [db EXCEPT ![cur] = IF obj.del THEN Absent(@.uid)
                                                     ELSE [@ EXCEPT !.fin = FALSE]]
  <2> DEFINE o == db[cur]
  <2>1. /\ db'[cur].uid = o.uid /\ db'[cur].fin = FALSE
        /\ db'[cur].exists => (~o.del /\ o.exists /\ db'[cur].phase = o.phase)
    <3>1. CASE obj.del
      <4>1. db'[cur] = Absent(o.uid)
        BY <1>0, <1>2, <3>1
      <4> QED BY <4>1, AbsentFields
    <3>2. CASE ~obj.del
      <4>1. db'[cur] = [o EXCEPT !.fin = FALSE]
        BY <1>0, <1>2, <3>2
      <4> QED BY <1>0, <1>2, <3>2, <4>1 DEF DatabaseRecord
    <3> QED BY <3>1, <3>2
  <2>2. \A d \in Databases : d # cur => db'[d] = db[d]
    BY <1>0, <1>2
  <2>3. Doomed(o) /\ Doomed(seen[cur])
    BY DEF RemoveFinalizer, FinInv, WorkerInv, Releasing
  <2>4. db'[cur].exists => ~o.fin
    BY <2>1, <2>3 DEF Doomed, Held
  <2>5. (seen[cur].exists /\ seen[cur].del /\ seen[cur].uid = o.uid) => ~db'[cur].exists
    BY <1>0, <2>1 DEF FinInv, CacheOld
  <2>6. CacheOld'
    <3> SUFFICES ASSUME NEW d \in Databases
                 PROVE  /\ Leq(seen[d].uid, db'[d].uid)
                        /\ (seen[d].exists /\ seen[d].del /\ seen[d].uid = db'[d].uid
                            /\ db'[d].exists) => db'[d].del
                        /\ (seen[d].exists /\ seen[d].del) => Doomed(db'[d])
                        /\ (Held(seen[d]) /\ ~seen[d].del) => Held(db'[d])
      BY <1>0 DEF CacheOld, Held, Doomed
    <3>1. CASE d # cur
      BY <2>2, <3>1 DEF FinInv, CacheOld
    <3>2. CASE d = cur
      BY <2>1, <2>3, <2>5, <3>2 DEF FinInv, CacheOld, Held, Doomed
    <3> QED BY <3>1, <3>2
  <2>7. FinalizerFirst'
    BY <1>0, <2>1, <2>2, <2>4 DEF FinInv, FinalizerFirst
  <2> QED BY <1>0, <2>6, <2>7, IdleFin
<1> QED BY <1>1, <1>2 DEF RemoveFinalizer

\* A status patch changes neither the metadata nor, in handleDeletion, the phase to one
\* that needs the finalizer.
LEMMA PatchStatusFin ==
  ASSUME TypeInv, FinInv, PatchStatus PROVE FinInv'
<1>0. /\ cur \in Databases /\ seen' = seen /\ db \in [Databases -> DatabaseRecord]
      /\ db[cur] \in DatabaseRecord /\ pc = "patch"
  BY Busy DEF PatchStatus, Reconcile, TypeInv, TypeOK
<1> DEFINE o == db[cur]
<1>1. /\ Merged(o).exists = o.exists /\ Merged(o).uid = o.uid /\ Merged(o).fin = o.fin
      /\ Merged(o).del = o.del /\ Merged(o).phase \in {to.phase, o.phase}
  BY <1>0, MergedType
<1>2. db' = db \/ db' = [db EXCEPT ![cur] = Merged(o)]
  BY DEF PatchStatus
<1>3. \A d \in Databases :
        /\ db'[d].exists = db[d].exists /\ db'[d].uid = db[d].uid
        /\ db'[d].fin = db[d].fin /\ db'[d].del = db[d].del
        /\ db'[d].phase = db[d].phase \/ (d = cur /\ db'[d].phase = to.phase)
  BY <1>0, <1>1, <1>2
<1>4. \A d \in Databases : Held(db'[d]) = Held(db[d]) /\ Doomed(db'[d]) = Doomed(db[d])
  BY <1>3 DEF Held, Doomed
<1>5. CacheOld'
  BY <1>0, <1>3 DEF FinInv, CacheOld, Held, Doomed
<1>6. FinalizerFirst'
  <2>1. CASE to.next = "release"
    <3>1. to.phase = "Deleting"
      BY <1>0, <2>1 DEF FinInv, WorkerInv
    <3> QED BY <1>3, <3>1 DEF FinInv, FinalizerFirst
  <2>2. CASE to.next # "release"
    <3>1. o.fin
      BY <1>0, <2>2 DEF FinInv, WorkerInv, Working, Held
    <3> QED BY <1>3, <3>1 DEF FinInv, FinalizerFirst
  <2> QED BY <2>1, <2>2
<1>7. CASE Reset
  BY <1>5, <1>6, <1>7, IdleFin
<1>8. CASE /\ to.next # "idle" /\ pc' = to.next /\ cur' = cur
           /\ obj' = [db EXCEPT ![cur] = Merged(@)][cur] /\ db' = [db EXCEPT ![cur] = Merged(@)]
  <2>1. obj' = db'[cur]
    BY <1>8
  <2>2. to.next \in {"exists", "release"}
    BY <1>8 DEF TypeInv, TypeOK, Target
  <2>3. CASE to.next = "exists"
    <3>1. Held(db'[cur])
      BY <1>0, <1>4, <2>3 DEF FinInv, WorkerInv, Working
    <3> QED BY <1>5, <1>6, <1>8, <2>3, <3>1
            DEF FinInv, WorkerInv, Working, Releasing, WorkSteps, Held
  <2>4. CASE to.next = "release"
    <3>1. Doomed(db'[cur]) /\ Doomed(seen[cur])
      BY <1>0, <1>4, <2>4 DEF FinInv, WorkerInv, Releasing
    <3> QED BY <1>0, <1>5, <1>6, <1>8, <2>1, <2>4, <3>1
            DEF FinInv, WorkerInv, Working, Releasing, WorkSteps, Held, Doomed
  <2> QED BY <2>2, <2>3, <2>4
<1> QED BY <1>7, <1>8 DEF PatchStatus, Return

LEMMA ManagerFin ==
  ASSUME TypeInv, FinInv, SyncDatabases \/ Restart PROVE FinInv'
<1>0. /\ db' = db /\ seen' = db /\ db \in [Databases -> DatabaseRecord]
  BY DEF SyncDatabases, Restart, TypeInv, TypeOK
<1>1. \A d \in Databases : Leq(db[d].uid, db[d].uid)
  BY LeqFacts DEF FinInv, CacheOld, Leq
<1>2. CacheOld' /\ FinalizerFirst'
  BY <1>0, <1>1 DEF CacheOld, FinInv, FinalizerFirst, Held, Doomed
<1>3. CASE Restart
  BY <1>2, <1>3, IdleFin DEF Restart
<1>4. CASE SyncDatabases
  <2>1. pc' = pc /\ cur' = cur /\ obj' = obj /\ to' = to
    BY <1>4 DEF SyncDatabases, local
  <2>2. pc = "finalizer" => Leq(obj.uid, db[cur].uid)
    <3> SUFFICES ASSUME pc = "finalizer" PROVE Leq(obj.uid, db[cur].uid)
      OBVIOUS
    <3>1. cur \in Databases
      BY DEF TypeInv, TypeOK
    <3>2. Leq(obj.uid, seen[cur].uid) /\ Leq(seen[cur].uid, db[cur].uid)
      BY <3>1 DEF FinInv, WorkerInv, CacheOld
    <3> QED BY <3>2, LeqFacts
  <2>3. WorkerInv'
    BY <1>0, <2>1, <2>2 DEF FinInv, WorkerInv, Working, Releasing, Held, Doomed
  <2> QED BY <1>2, <2>3 DEF FinInv
<1> QED BY <1>3, <1>4

\* Users create objects without finalizer, and delete those that have one only by mark.
LEMMA UsersFin ==
  ASSUME TypeInv, FinInv, Users PROVE FinInv'
<1> PICK d \in Databases : CreateResource(d) \/ EditResource(d) \/ DeleteResource(d)
  BY DEF Users
<1>0. /\ UNCHANGED <<seen, local>> /\ db \in [Databases -> DatabaseRecord]
      /\ db[d] \in DatabaseRecord /\ seen[d] \in DatabaseRecord
  BY DEF CreateResource, EditResource, DeleteResource, TypeInv, TypeOK
<1>1. \A e \in Databases : e # d => db'[e] = db[e]
  BY UsersDb
<1>2. \/ /\ ~db[d].exists /\ db'[d].uid = db[d].uid + 1 /\ ~db'[d].fin
         /\ db'[d].phase = ""
      \/ /\ db'[d].exists = db[d].exists /\ db'[d].uid = db[d].uid
         /\ db'[d].fin = db[d].fin /\ db'[d].phase = db[d].phase /\ (db[d].del => db'[d].del)
      \/ /\ ~db'[d].exists /\ ~Held(db[d]) /\ db'[d].uid = db[d].uid
  <2>1. CASE CreateResource(d)
    <3> PICK n \in Names, p \in Policies, f \in BOOLEAN :
          db' = [db EXCEPT ![d] = Fresh(TRUE, @.uid + 1, n, p, f)]
      BY <2>1 DEF CreateResource
    <3>1. db'[d] = Fresh(TRUE, db[d].uid + 1, n, p, f)
      BY <1>0
    <3>2. ~db'[d].fin /\ db'[d].uid = db[d].uid + 1 /\ db'[d].phase = ""
      <4> DEFINE u == db[d].uid + 1
      <4>3. db'[d] = Fresh(TRUE, u, n, p, f)
        BY <3>1
      <4> HIDE DEF u
      <4>1. ~Fresh(TRUE, u, n, p, f).fin /\ Fresh(TRUE, u, n, p, f).phase = ""
        BY DEF Fresh
      <4>2. Fresh(TRUE, u, n, p, f).uid = u
        BY DEF Fresh
      <4>4. ~db'[d].fin /\ db'[d].uid = u /\ db'[d].phase = ""
        BY <4>1, <4>2, <4>3, Zenon
      <4> QED BY <4>4 DEF u
    <3>3. ~db[d].exists
      BY <2>1 DEF CreateResource
    <3> QED BY <3>2, <3>3, Zenon
  <2>2. CASE EditResource(d)
    <3> PICK n \in Names, p \in Policies :
          db' = [db EXCEPT ![d] = [@ EXCEPT !.name = n, !.policy = p]]
      BY <2>2 DEF EditResource
    <3>1. db'[d] = [db[d] EXCEPT !.name = n, !.policy = p]
      BY <1>0
    <3> QED BY <1>0, <3>1 DEF DatabaseRecord
  <2>3. CASE DeleteResource(d)
    <3>1. CASE db[d].fin
      <4>1. db'[d] = [db[d] EXCEPT !.del = TRUE]
        BY <1>0, <2>3, <3>1 DEF DeleteResource
      <4> QED BY <1>0, <4>1 DEF DatabaseRecord
    <3>2. CASE ~db[d].fin
      <4>1. db'[d] = Absent(db[d].uid)
        BY <1>0, <2>3, <3>2 DEF DeleteResource
      <4> QED BY <3>2, <4>1, AbsentFields DEF Held
    <3> QED BY <3>1, <3>2
  <2> QED BY <2>1, <2>2, <2>3
<1>3. Leq(seen[d].uid, db[d].uid)
  BY DEF FinInv, CacheOld
<1>4. /\ Leq(seen[d].uid, db'[d].uid)
      /\ (seen[d].uid = db'[d].uid /\ db'[d].exists) => (db[d].exists /\ db'[d].uid = db[d].uid)
  <2>1. CASE db'[d].uid = db[d].uid /\ (db'[d].exists => db[d].exists)
    BY <1>3, <2>1, Zenon
  <2>2. CASE db'[d].uid = db[d].uid + 1
    <3>1. Leq(seen[d].uid, db[d].uid + 1) /\ seen[d].uid # db[d].uid + 1
      BY <1>3, LeqFacts, Zenon
    <3> QED BY <2>2, <3>1, Zenon
  <2> QED BY <1>2, <2>1, <2>2, Zenon
<1>5. /\ Held(db[d]) => Held(db'[d])
      /\ Doomed(db[d]) => Doomed(db'[d])
  BY <1>2 DEF Held, Doomed
<1>6. (db[d].exists /\ db'[d].exists /\ db'[d].uid = db[d].uid /\ db[d].del) => db'[d].del
  BY <1>2, LeqFacts
<1>7. CacheOld'
  <2> SUFFICES ASSUME NEW e \in Databases
               PROVE  /\ Leq(seen[e].uid, db'[e].uid)
                      /\ (seen[e].exists /\ seen[e].del /\ seen[e].uid = db'[e].uid
                          /\ db'[e].exists) => db'[e].del
                      /\ (seen[e].exists /\ seen[e].del) => Doomed(db'[e])
                      /\ (Held(seen[e]) /\ ~seen[e].del) => Held(db'[e])
    BY <1>0 DEF CacheOld, Held, Doomed
  <2>1. CASE e # d
    BY <1>1, <2>1 DEF FinInv, CacheOld
  <2>2. CASE e = d
    BY <1>4, <1>5, <1>6, <2>2 DEF FinInv, CacheOld
  <2> QED BY <2>1, <2>2
<1>8. FinalizerFirst'
  BY <1>1, <1>2 DEF FinInv, FinalizerFirst, Held
<1>9. WorkerInv'
  <2>1. pc' = pc /\ cur' = cur /\ obj' = obj /\ to' = to
    BY <1>0 DEF local
  <2>2. (Working \/ Releasing) => cur \in Databases
    BY DEF Working, Releasing, WorkSteps, TypeInv, TypeOK
  <2>3. /\ Working => Held(db'[cur])
        /\ Releasing => Doomed(db'[cur])
    BY <1>1, <1>5, <2>2 DEF FinInv, WorkerInv
  <2> QED BY <1>0, <2>1, <2>3 DEF FinInv, WorkerInv, Working, Releasing, Held, Doomed
<1> QED BY <1>7, <1>8, <1>9 DEF FinInv

LEMMA OthersFin ==
  ASSUME FinInv, ClusterGoes \/ ClusterReturns \/ RestoreJobs \/ UNCHANGED vars
  PROVE  FinInv'
<1>1. UNCHANGED <<db, seen, local>>
  BY DEF ClusterGoes, ClusterReturns, RestoreJobs, RestoreDrops, RestoreCreates, vars
<1> QED BY <1>1 DEF local, FinInv, CacheOld, WorkerInv, FinalizerFirst, Working, Releasing,
                    Held, Doomed

LEMMA FinStep == TypeInv /\ FinInv /\ [Next]_vars => FinInv'
<1>1. TypeInv /\ FinInv /\ Reconcile => FinInv'
  BY QueriesOrWrites, QueriesFin, AddFinalizerFin, RemoveFinalizerFin, PatchStatusFin DEF Writes
<1> QED BY <1>1, StartFin, ManagerFin, UsersFin, OthersFin DEF Next

LEMMA FinInvariant == Spec => []FinInv
BY InitFin, TypeInvariant, FinStep, PTL DEF Spec

\* The controller acts for a Database only once its finalizer is in the API server, however
\* stale the cache: its deletion cannot bypass handleDeletion.
THEOREM FinalizerComesFirst == Spec => []FinalizerFirst
<1>1. FinInv => FinalizerFirst
  BY DEF FinInv
<1> QED BY <1>1, FinInvariant, PTL

-----------------------------------------------------------------------------
(* A Ready Database owns its PostgreSQL database                           *)

\* d owns n as far as comments can tell, or has lost it to another Database or a restore.
Owned(d, n) == <<d, n>> \in lost \/ (pg[n].exists /\ (pg[n].mine => pg[n].owner = d))

\* The worker is about to say that its Database is Ready.
Claiming == pc = "extend" \/ (pc = "patch" /\ to.phase = "Ready")

\* What the local copy says of the status is what the API server has: the controller is the
\* only one to write it.
StatusKnown == Working => (db[cur].phase = obj.phase /\ db[cur].dbname = obj.dbname)

\* handleDeletion works for an object whose deletion was asked for.
Dying == Releasing => (db[cur].exists /\ db[cur].del /\ db[cur].fin)

Ready(o) == o.exists /\ ~o.del /\ o.phase = "Ready"
Backed(d, n) == n \in Names /\ Owned(d, n)

AllBacked == \A d \in Databases : Ready(db[d]) => Backed(d, db[d].dbname)

ClaimsTrue ==
  /\ pc = "comment" => (pg[obj.name].exists \/ <<cur, obj.name>> \in lost)
  /\ Claiming => Owned(cur, obj.name)
  /\ AllBacked

OwnInv == StatusKnown /\ Dying /\ (faults = 0 => ClaimsTrue)

LEMMA UsersOthers == Users => UNCHANGED <<seen, pg, lost, local, faults>>
<1> SUFFICES ASSUME NEW d \in Databases, CreateResource(d) \/ EditResource(d) \/ DeleteResource(d)
             PROVE  UNCHANGED <<seen, pg, lost, local, faults>>
  BY DEF Users
<1>1. CASE CreateResource(d)
  BY <1>1 DEF CreateResource, bounds
<1>2. CASE EditResource(d)
  BY <1>2, Zenon DEF EditResource
<1>3. CASE DeleteResource(d)
  BY <1>3 DEF DeleteResource, bounds
<1> QED BY <1>1, <1>2, <1>3

LEMMA FaultsGrow == ASSUME TypeInv, [Next]_vars, faults' = 0 PROVE faults = 0
<1>1. faults' = faults \/ faults' = faults + 1
  <2>1. CASE Queries
    <3>1. CASE GetCluster
      BY <3>1, Zenon DEF GetCluster, Fault
    <3>4. CASE DatabaseExists \/ EnsureExtensions
      BY <3>4, Zenon DEF DatabaseExists, EnsureExtensions, Fault
    <3>2. CASE CreateDatabase \/ GetDatabaseOwner
      BY <3>2 DEF CreateDatabase, GetDatabaseOwner, Fault
    <3>3. CASE CommentOnDatabase \/ ReleaseDatabase
      BY <3>3 DEF CommentOnDatabase, ReleaseDatabase, Fault
    <3> QED BY <2>1, <3>1, <3>2, <3>3, <3>4 DEF Queries
  <2>2. CASE Writes
    BY <2>2 DEF Writes, AddFinalizer, RemoveFinalizer, PatchStatus, Fault
  <2>3. CASE ~Reconcile
    BY <2>3, UsersOthers DEF Next, vars, bounds, Start, SyncDatabases, Restart, ClusterGoes,
       ClusterReturns, RestoreJobs, RestoreDrops, RestoreCreates
  <2> QED BY <2>1, <2>2, <2>3, QueriesOrWrites
<1>2. faults \in Nat
  BY BoundAssumption DEF TypeInv, TypeOK
<1> QED BY <1>1, <1>2

\* Ownership ends only by what lost records, and by the owner's own handleDeletion.
LEMMA OwnedKept ==
  ASSUME TypeInv, [Next]_vars, NEW d \in Databases, NEW n \in Names, Owned(d, n),
         ~(pc = "release" /\ d = cur)
  PROVE  Owned(d, n)'
<1>0. pg \in [Names -> PGRecord] /\ pg[n] \in PGRecord /\ d # NoDatabase
  BY NamesAssumption DEF TypeInv, TypeOK
<1>1. CASE UNCHANGED <<pg, lost>>
  BY <1>1 DEF Owned
<1>2. CASE CreateDatabase
  <2>1. obj.name \in Names
    BY <1>2, Busy DEF Reconcile
  <2>2. lost' = lost /\ (pg' = pg \/ (~pg[obj.name].exists /\ pg' = [pg EXCEPT ![obj.name] = NewPG]))
    BY <1>2 DEF CreateDatabase
  <2> QED BY <1>0, <2>1, <2>2 DEF Owned
<1>3. CASE GetDatabaseOwner
  <2>1. pg' = pg /\ (lost' = lost \/ (lost' = lost \ {<<cur, obj.name>>} /\ pg[obj.name].exists
                                      /\ pg[obj.name].owner = cur))
    BY <1>3 DEF GetDatabaseOwner
  <2> QED BY <2>1 DEF Owned
<1>4. CASE CommentOnDatabase
  <2>1. obj.name \in Names /\ cur \in Databases
    BY <1>4, Busy DEF Reconcile
  <2> DEFINE m == obj.name
  <2>2. \/ UNCHANGED <<pg, lost>>
        \/ /\ pg[m].exists /\ pg[m].mine /\ pg' = [pg EXCEPT ![m].owner = cur]
           /\ lost' = (lost \cup Loses(m)) \ {<<cur, m>>}
    BY <1>4 DEF CommentOnDatabase
  <2>3. CASE pg' = [pg EXCEPT ![m].owner = cur] /\ n = m /\ d = cur /\ pg[m].exists
    <3>1. pg'[n].exists /\ pg'[n].owner = d
      BY <1>0, <2>3 DEF PGRecord
    <3> QED BY <3>1 DEF Owned
  <2>4. CASE /\ n = m /\ d # cur /\ pg[m].mine
             /\ lost' = (lost \cup Loses(m)) \ {<<cur, m>>}
    <3>1. <<d, n>> \in lost \/ <<d, n>> \in Loses(m)
      BY <1>0, <2>4 DEF Owned, Loses
    <3> QED BY <2>4, <3>1 DEF Owned
  <2>5. CASE /\ n # m /\ pg' = [pg EXCEPT ![m].owner = cur]
             /\ lost' = (lost \cup Loses(m)) \ {<<cur, m>>}
    <3>1. pg'[n] = pg[n]
      BY <1>0, <2>5
    <3> QED BY <2>5, <3>1 DEF Owned
  <2> QED BY <1>1, <2>2, <2>3, <2>4, <2>5
<1>5. CASE ReleaseDatabase
  <2>1. obj.name \in Names /\ pc = "release" /\ d # cur
    BY <1>5, Busy DEF Reconcile, ReleaseDatabase
  <2> DEFINE m == obj.name
  <2>2. \/ UNCHANGED <<pg, lost>>
        \/ pg' = [pg EXCEPT ![m] = Released(@)] /\ lost' = lost \cup Loses(m)
    BY <1>5 DEF ReleaseDatabase
  <2>3. CASE n # m /\ pg' = [pg EXCEPT ![m] = Released(@)] /\ lost' = lost \cup Loses(m)
    <3>1. pg'[n] = pg[n]
      BY <1>0, <2>3
    <3> QED BY <2>3, <3>1 DEF Owned
  <2>4. CASE n = m /\ pg[m].mine /\ lost' = lost \cup Loses(m)
    <3>1. <<d, n>> \in lost \/ <<d, n>> \in Loses(m)
      BY <1>0, <2>1, <2>4 DEF Owned, Loses
    <3> QED BY <2>4, <3>1 DEF Owned
  <2>5. CASE n = m /\ ~pg[m].mine /\ pg' = [pg EXCEPT ![m] = Released(@)]
             /\ lost' = lost \cup Loses(m)
    <3>1. Released(pg[n]) = pg[n]
      BY <2>5 DEF Released
    <3>2. pg'[n] = pg[n]
      BY <1>0, <2>5, <3>1
    <3> QED BY <2>5, <3>2 DEF Owned
  <2> QED BY <1>1, <2>2, <2>3, <2>4, <2>5
<1>6. CASE RestoreJobs
  <2> PICK m \in Names : RestoreDrops(m) \/ RestoreCreates(m)
    BY <1>6 DEF RestoreJobs
  <2>1. CASE RestoreDrops(m)
    <3>1. CASE n = m
      BY <2>1, <3>1 DEF RestoreDrops, Owned
    <3>2. CASE n # m
      <4>1. pg'[n] = pg[n] /\ lost \subseteq lost'
        BY <1>0, <2>1, <3>2 DEF RestoreDrops
      <4> QED BY <4>1 DEF Owned
    <3> QED BY <3>1, <3>2
  <2>2. CASE RestoreCreates(m)
    <3>1. lost' = lost /\ (pg[n].exists => pg'[n] = pg[n])
      BY <1>0, <2>2 DEF RestoreCreates
    <3> QED BY <3>1 DEF Owned
  <2> QED BY <2>1, <2>2
<1>7. \/ UNCHANGED <<pg, lost>> \/ CreateDatabase \/ GetDatabaseOwner
      \/ CommentOnDatabase \/ ReleaseDatabase \/ RestoreJobs
  <2>1. CASE Queries
    <3>1. GetCluster \/ DatabaseExists \/ EnsureExtensions => UNCHANGED <<pg, lost>>
      BY Zenon DEF GetCluster, DatabaseExists, EnsureExtensions
    <3> QED BY <2>1, <3>1 DEF Queries
  <2>2. CASE ~Reconcile
    BY <2>2, UsersOthers DEF Next, vars, Start, SyncDatabases, Restart, ClusterGoes,
                             ClusterReturns
  <2> QED BY <2>1, <2>2, QueriesOrWrites
<1> QED BY <1>1, <1>2, <1>3, <1>4, <1>5, <1>6, <1>7

\* So what a Ready Database names stays its own.
LEMMA ReadyKept ==
  ASSUME TypeInv, OwnInv, [Next]_vars, faults' = 0,
         NEW d \in Databases, Ready(db[d]), NEW n, n = db[d].dbname
  PROVE  Backed(d, n)'
<1>1. Backed(d, n)
  BY FaultsGrow DEF OwnInv, ClaimsTrue, AllBacked
<1>2. ~(pc = "release" /\ d = cur)
  BY DEF OwnInv, Dying, Releasing, Ready
<1> QED BY <1>1, <1>2, OwnedKept DEF Backed

\* It is enough to look at the Databases that the step made Ready or renamed in the status.
LEMMA StillBacked ==
  ASSUME TypeInv, OwnInv, [Next]_vars, faults' = 0,
         \A d \in Databases :
           Ready(db'[d]) => \/ Ready(db[d]) /\ db'[d].dbname = db[d].dbname
                            \/ Backed(d, db[d].dbname)'
  PROVE  AllBacked'
<1> SUFFICES ASSUME NEW d \in Databases, Ready(db[d]), db'[d].dbname = db[d].dbname
             PROVE  Backed(d, db[d].dbname)'
  BY DEF AllBacked, Ready
<1>1. \A m : m = db[d].dbname => Backed(d, m)'
  BY ReadyKept
<1> QED BY <1>1 DEF Backed, Owned

LEMMA IdleOwn ==
  ASSUME Reset,
         faults' = 0 => AllBacked'
  PROVE  OwnInv'
<1>1. pc' = "idle"
  BY DEF Reset
<1> QED BY <1>1 DEF OwnInv, StatusKnown, Dying, ClaimsTrue, Claiming, Working, Releasing,
                    WorkSteps

LEMMA InitOwn == Init => OwnInv
<1> SUFFICES ASSUME Init PROVE OwnInv
  OBVIOUS
<1>1. AllBacked
  <2> SUFFICES ASSUME NEW d \in Databases PROVE ~db[d].exists
    BY DEF AllBacked, Ready
  <2>1. db[d] = Absent(0)
    BY DEF Init
  <2> QED BY <2>1, AbsentFields
<1>2. pc = "idle"
  BY DEF Init
<1> QED BY <1>1, <1>2 DEF OwnInv, StatusKnown, Dying, ClaimsTrue, Claiming, Working,
                          Releasing, WorkSteps

\* The cache is current: what the worker starts with is what the API server has.
LEMMA StartOwn ==
  ASSUME LagAllowed = FALSE, TypeInv, OwnInv, NEW d \in Databases, Start(d) PROVE OwnInv'
<1> DEFINE o == db[d]
           step == FirstStep(o)
<1>1. /\ seen[d] = o /\ UNCHANGED <<db, pg, lost, faults>>
      /\ pc' = step /\ (step # "idle" => cur' = d /\ obj' = o)
  BY DEF Start, MayRead, bounds
<1>2. step = "patch" => (o.exists /\ o.fin /\ o.del /\ to'.next = "release" /\ to'.phase = "Deleting")
  BY <1>1 DEF FirstStep, Start
<1>3. step \in {"idle", "patch", "cluster", "finalizer"}
  BY DEF FirstStep
<1>4. StatusKnown'
  BY <1>1, <1>2, <1>3 DEF StatusKnown, Working, WorkSteps
<1>5. Dying'
  BY <1>1, <1>2, <1>3 DEF Dying, Releasing
<1>6. faults' = 0 => ClaimsTrue'
  BY <1>1, <1>2, <1>3 DEF OwnInv, ClaimsTrue, AllBacked, Claiming, Ready, Backed, Owned
<1> QED BY <1>4, <1>5, <1>6 DEF OwnInv

LEMMA FaultCounts == TypeInv /\ Fault => faults' # 0
<1> SUFFICES ASSUME TypeInv, Fault PROVE faults' # 0
  OBVIOUS
<1>1. faults \in Nat
  BY BoundAssumption DEF TypeInv, TypeOK
<1> QED BY <1>1 DEF Fault

\* Which statements let the worker claim: those that find the comment, or write it, or
\* cannot write it.
LEMMA QueriesClaim ==
  ASSUME TypeInv, OwnInv, Queries, faults' = 0
  PROVE  /\ pc' = "comment" => (pg'[obj.name].exists \/ <<cur, obj.name>> \in lost')
         /\ Claiming' => Owned(cur, obj.name)'
<1> DEFINE n == obj.name
<1>0. /\ n \in Names /\ cur \in Databases /\ pg \in [Names -> PGRecord]
      /\ pg[n] \in PGRecord /\ obj' = obj /\ cur' = cur /\ ~Fault
  BY Busy, QueriesOrWrites, QueriesMove, FaultCounts DEF TypeInv, TypeOK
<1>1. faults = 0 /\ ClaimsTrue
  BY FaultsGrow, QueriesOrWrites DEF OwnInv, Next
<1>2. CASE GetCluster
  <2>1. pc' # "comment" /\ ~Claiming'
    <3>1. PatchPending("Pending") \/ PatchPending("Waiting") => pc' = "patch" /\ to'.phase # "Ready"
      BY DEF PatchPending, PatchThen
    <3>2. PatchThen("Creating", FALSE, "exists", TRUE) => pc' = "patch" /\ to'.phase # "Ready"
      BY DEF PatchThen
    <3>3. Goto("exists") => pc' = "exists"
      BY DEF Goto
    <3>4. \/ PatchPending("Pending") \/ PatchPending("Waiting") \/ Goto("exists")
          \/ PatchThen("Creating", FALSE, "exists", TRUE)
      BY <1>0, <1>2, Zenon DEF GetCluster
    <3> QED BY <3>1, <3>2, <3>3, <3>4 DEF Claiming
  <2> QED BY <2>1
<1>3. CASE DatabaseExists
  BY <1>0, <1>3 DEF DatabaseExists, Goto, Claiming
<1>4. CASE CreateDatabase
  <2>1. CASE pc' = "comment"
    <3>1. pg' = [pg EXCEPT ![n] = NewPG]
      BY <1>0, <1>4, <2>1 DEF CreateDatabase, FailAndRetry, PatchPhase, PatchThen
    <3>2. pg'[n].exists
      BY <1>0, <3>1 DEF NewPG
    <3> QED BY <2>1, <3>2 DEF Claiming
  <2>2. CASE pc' # "comment"
    BY <1>0, <1>4, <2>2 DEF CreateDatabase, FailAndRetry, PatchPhase, PatchThen, Goto, Claiming
  <2> QED BY <2>1, <2>2
<1>5. CASE GetDatabaseOwner
  BY <1>0, <1>5 DEF GetDatabaseOwner, FailAndRetry, PatchPhase, PatchThen, Goto, Claiming, Owned
<1>6. CASE CommentOnDatabase
  <2>1. pc' = "extend" /\ (pg[n].exists \/ <<cur, n>> \in lost)
    BY <1>1, <1>6 DEF CommentOnDatabase, Goto, ClaimsTrue
  <2>2. Owned(cur, n)'
    <3>1. CASE pg[n].exists /\ pg[n].mine
      <4>1. pg' = [pg EXCEPT ![n].owner = cur]
        BY <1>0, <1>6, <3>1 DEF CommentOnDatabase
      <4>2. pg'[n].exists /\ pg'[n].owner = cur
        BY <1>0, <3>1, <4>1 DEF PGRecord
      <4> QED BY <1>0, <4>2 DEF Owned
    <3>2. CASE ~(pg[n].exists /\ pg[n].mine)
      <4>1. UNCHANGED <<pg, lost>>
        BY <1>6, <3>2 DEF CommentOnDatabase
      <4> QED BY <1>0, <2>1, <3>2, <4>1 DEF Owned
    <3> QED BY <3>1, <3>2
  <2> QED BY <2>1, <2>2
<1>7. CASE EnsureExtensions
  <2>1. UNCHANGED <<pg, lost>> /\ pc = "extend" /\ pc' = "patch"
    BY <1>7 DEF EnsureExtensions, PatchPhase, PatchThen
  <2> QED BY <1>0, <1>1, <2>1 DEF ClaimsTrue, Claiming, Owned
<1>8. CASE ReleaseDatabase
  BY <1>8 DEF ReleaseDatabase, Goto, Claiming
<1> QED BY <1>2, <1>3, <1>4, <1>5, <1>6, <1>7, <1>8 DEF Queries

LEMMA QueriesOwn ==
  ASSUME TypeInv, OwnInv, Queries PROVE OwnInv'
<1>0. db' = db /\ [Next]_vars
  BY QueriesOrWrites DEF Next
<1>1. StatusKnown' /\ Dying'
  BY <1>0, QueriesMove DEF OwnInv, StatusKnown, Dying, Working, Releasing, WorkSteps
<1>2. ASSUME faults' = 0 PROVE ClaimsTrue'
  <2>1. AllBacked'
    BY <1>0, <1>2, StillBacked
  <2>2. obj' = obj /\ cur' = cur
    BY QueriesMove
  <2>3. (pc = "comment" => (pg[obj.name].exists \/ <<cur, obj.name>> \in lost))'
    BY <1>2, <2>2, QueriesClaim
  <2>4. (Claiming => Owned(cur, obj.name))'
    BY <1>2, <2>2, QueriesClaim
  <2> QED BY <2>1, <2>3, <2>4 DEF ClaimsTrue
<1> QED BY <1>1, <1>2 DEF OwnInv

LEMMA FinalizersOwn ==
  ASSUME TypeInv, OwnInv, AddFinalizer \/ RemoveFinalizer PROVE OwnInv'
<1>0. Reset /\ [Next]_vars /\ cur \in Databases /\ db \in [Databases -> DatabaseRecord]
  BY Busy DEF AddFinalizer, RemoveFinalizer, Return, Reconcile, Next, TypeInv, TypeOK
<1>1. \A d \in Databases : d # cur => db'[d] = db[d]
  BY WritesDb DEF Writes
<1>2. Ready(db'[cur]) => Ready(db[cur]) /\ db'[cur].dbname = db[cur].dbname
  <2>0. db[cur] \in DatabaseRecord
    BY <1>0
  <2>1. CASE db' = db
    BY <2>1
  <2>2. CASE db' = [db EXCEPT ![cur].fin = TRUE]
    <3>1. db'[cur] = [db[cur] EXCEPT !.fin = TRUE]
      BY <1>0, <2>2
    <3> QED BY <2>0, <3>1 DEF Ready, DatabaseRecord
  <2>3. CASE db' = [db EXCEPT ![cur] = IF obj.del THEN Absent(@.uid) ELSE [@ EXCEPT !.fin = FALSE]]
    <3>1. CASE obj.del
      <4>1. db'[cur] = Absent(db[cur].uid)
        BY <1>0, <2>3, <3>1
      <4> QED BY <4>1, AbsentFields DEF Ready
    <3>2. CASE ~obj.del
      <4>1. db'[cur] = [db[cur] EXCEPT !.fin = FALSE]
        BY <1>0, <2>3, <3>2
      <4> QED BY <2>0, <4>1 DEF Ready, DatabaseRecord
    <3> QED BY <3>1, <3>2
  <2> QED BY <2>1, <2>2, <2>3 DEF AddFinalizer, RemoveFinalizer
<1>3. ASSUME faults' = 0 PROVE AllBacked'
  BY <1>0, <1>1, <1>2, <1>3, StillBacked
<1> QED BY <1>0, <1>3, IdleOwn

\* The patch says Ready of the database that the worker has just made sure of.
LEMMA PatchStatusOwn ==
  ASSUME TypeInv, OwnInv, PatchStatus PROVE OwnInv'
<1> DEFINE o == db[cur]
<1>0. /\ [Next]_vars /\ pc = "patch" /\ cur \in Databases /\ obj.name \in Names
      /\ db \in [Databases -> DatabaseRecord] /\ o \in DatabaseRecord
      /\ UNCHANGED <<pg, lost>>
  BY Busy, QueriesOrWrites DEF PatchStatus, Reconcile, Writes, Next, TypeInv, TypeOK
<1>1. /\ Merged(o).exists = o.exists /\ Merged(o).fin = o.fin /\ Merged(o).del = o.del
      /\ Working => (Merged(o).phase = to.phase /\ Merged(o).dbname = obj.name)
  BY <1>0, MergedType DEF OwnInv, StatusKnown
<1>2. db' = db \/ db' = [db EXCEPT ![cur] = Merged(o)]
  BY DEF PatchStatus
<1>3. \A d \in Databases : db'[d] = db[d] \/ (d = cur /\ db'[d] = Merged(o))
  BY <1>0, <1>2
<1>4. ASSUME faults' = 0 PROVE AllBacked'
  <2>1. ASSUME Ready(Merged(o)) PROVE Owned(cur, obj.name) /\ Merged(o).dbname = obj.name
    <3>1. Working /\ ~Releasing
      BY <1>0, <1>1, <2>1 DEF OwnInv, Dying, Working, Releasing, Ready
    <3>2. to.phase = "Ready"
      BY <1>1, <2>1, <3>1 DEF Ready
    <3> QED BY <1>0, <1>1, <1>4, <3>1, <3>2, FaultsGrow DEF OwnInv, ClaimsTrue, Claiming
  <2>2. \A d \in Databases :
          Ready(db'[d]) => \/ Ready(db[d]) /\ db'[d].dbname = db[d].dbname
                           \/ Backed(d, db[d].dbname)'
    <3> SUFFICES ASSUME NEW d \in Databases, Ready(db'[d]), d = cur, db'[d] = Merged(o)
                 PROVE  Backed(d, db[d].dbname)'
      BY <1>3
    <3>1. db'[d].dbname = obj.name /\ Owned(cur, obj.name)
      BY <2>1
    <3> QED BY <1>0, <3>1 DEF Backed, Owned
  <2> QED BY <1>0, <1>4, <2>2, StillBacked
<1>5. CASE Reset
  BY <1>4, <1>5, IdleOwn
<1>6. CASE /\ to.next # "idle" /\ pc' = to.next /\ cur' = cur /\ to' = NoTarget
           /\ obj' = [db EXCEPT ![cur] = Merged(@)][cur] /\ db' = [db EXCEPT ![cur] = Merged(@)]
  <2>1. obj' = db'[cur] /\ db'[cur] = Merged(o)
    BY <1>0, <1>6
  <2>2. pc' \in {"exists", "release"}
    BY <1>6 DEF TypeInv, TypeOK, Target
  <2>3. pc' = "release" => Releasing
    BY <1>0, <1>6 DEF Releasing
  <2>4. StatusKnown'
    BY <1>6, <2>1 DEF StatusKnown
  <2>5. Dying'
    BY <1>1, <1>6, <2>1, <2>2, <2>3 DEF OwnInv, Dying, Releasing
  <2>6. faults' = 0 => ClaimsTrue'
    BY <1>4, <2>2 DEF ClaimsTrue, Claiming
  <2> QED BY <2>4, <2>5, <2>6 DEF OwnInv
<1> QED BY <1>5, <1>6 DEF PatchStatus, Return

LEMMA ManagerOwn ==
  ASSUME TypeInv, OwnInv, SyncDatabases \/ Restart PROVE OwnInv'
<1>0. UNCHANGED <<db, pg, lost, faults>> /\ [Next]_vars
  BY DEF SyncDatabases, Restart, bounds, Next
<1>1. ASSUME faults' = 0 PROVE AllBacked'
  BY <1>0, <1>1, StillBacked
<1>2. CASE Restart
  BY <1>1, <1>2, IdleOwn DEF Restart
<1>3. CASE SyncDatabases
  BY <1>0, <1>3 DEF SyncDatabases, local, OwnInv, StatusKnown, Dying, ClaimsTrue, Claiming,
                    AllBacked, Working, Releasing, Ready, Backed, Owned
<1> QED BY <1>2, <1>3

\* What a user makes of an object: a new one, the same but for its spec or the mark of its
\* deletion, or nothing if it has no finalizer.
LEMMA UsersObject ==
  ASSUME TypeInv, NEW d \in Databases,
         CreateResource(d) \/ EditResource(d) \/ DeleteResource(d)
  PROVE  \/ ~db[d].exists /\ db'[d].phase # "Ready"
         \/ /\ db'[d].exists = db[d].exists /\ db'[d].fin = db[d].fin
            /\ (db[d].del => db'[d].del)
            /\ db'[d].phase = db[d].phase /\ db'[d].dbname = db[d].dbname
         \/ ~db'[d].exists /\ ~Held(db[d])
<1>0. db \in [Databases -> DatabaseRecord] /\ db[d] \in DatabaseRecord
  BY DEF TypeInv, TypeOK
<1>1. CASE CreateResource(d)
  <2> PICK n \in Names, p \in Policies, f \in BOOLEAN :
        db' = [db EXCEPT ![d] = Fresh(TRUE, @.uid + 1, n, p, f)]
    BY <1>1 DEF CreateResource
  <2>1. db'[d] = Fresh(TRUE, db[d].uid + 1, n, p, f)
    BY <1>0
  <2>2. db'[d].phase # "Ready"
    <3> DEFINE u == db[d].uid + 1
    <3>1. db'[d] = Fresh(TRUE, u, n, p, f)
      BY <2>1
    <3> HIDE DEF u
    <3>2. Fresh(TRUE, u, n, p, f).phase # "Ready"
      BY Zenon DEF Fresh
    <3> QED BY <3>1, <3>2, Zenon
  <2>3. ~db[d].exists
    BY <1>1 DEF CreateResource
  <2> QED BY <2>2, <2>3, Zenon
<1>2. CASE EditResource(d)
  <2> PICK n \in Names, p \in Policies :
        db' = [db EXCEPT ![d] = [@ EXCEPT !.name = n, !.policy = p]]
    BY <1>2 DEF EditResource
  <2>1. db'[d] = [db[d] EXCEPT !.name = n, !.policy = p]
    BY <1>0
  <2> QED BY <1>0, <2>1 DEF DatabaseRecord
<1>3. CASE DeleteResource(d)
  <2>1. CASE db[d].fin
    <3>1. db'[d] = [db[d] EXCEPT !.del = TRUE]
      BY <1>0, <1>3, <2>1 DEF DeleteResource
    <3> QED BY <1>0, <3>1 DEF DatabaseRecord
  <2>2. CASE ~db[d].fin
    <3>1. db'[d] = Absent(db[d].uid)
      BY <1>0, <1>3, <2>2 DEF DeleteResource
    <3> QED BY <2>2, <3>1, AbsentFields DEF Held
  <2> QED BY <2>1, <2>2
<1> QED BY <1>1, <1>2, <1>3

LEMMA UsersOwn ==
  ASSUME TypeInv, FinInv, OwnInv, Users PROVE OwnInv'
<1> PICK d \in Databases : CreateResource(d) \/ EditResource(d) \/ DeleteResource(d)
  BY DEF Users
<1>0. UNCHANGED <<pg, lost, pc, cur, obj, to, faults>> /\ [Next]_vars
  BY UsersOthers DEF local, Next
<1>1. \A e \in Databases : e # d => db'[e] = db[e]
  BY UsersDb
<1>2. Ready(db'[d]) => Ready(db[d]) /\ db'[d].dbname = db[d].dbname
  BY UsersObject DEF Ready
<1>3. (Working \/ Releasing) => cur \in Databases
  BY DEF Working, Releasing, WorkSteps, TypeInv, TypeOK
<1>4. Working' = Working /\ Releasing' = Releasing
  BY <1>0 DEF Working, Releasing
<1>5. StatusKnown'
  <2> SUFFICES ASSUME Working PROVE db'[cur].phase = obj.phase /\ db'[cur].dbname = obj.dbname
    BY <1>0, <1>4 DEF StatusKnown
  <2>1. Held(db[cur]) /\ db[cur].phase = obj.phase /\ db[cur].dbname = obj.dbname
    BY DEF FinInv, WorkerInv, OwnInv, StatusKnown
  <2>2. db'[cur] = db[cur] \/ cur = d
    BY <1>1, <1>3
  <2> QED BY <2>1, <2>2, UsersObject DEF Held
<1>6. Dying'
  <2> SUFFICES ASSUME Releasing PROVE db'[cur].exists /\ db'[cur].del /\ db'[cur].fin
    BY <1>0, <1>4 DEF Dying
  <2>1. db[cur].exists /\ db[cur].del /\ db[cur].fin
    BY DEF OwnInv, Dying
  <2>2. db'[cur] = db[cur] \/ cur = d
    BY <1>1, <1>3
  <2> QED BY <2>1, <2>2, UsersObject DEF Held
<1>7. ASSUME faults' = 0 PROVE ClaimsTrue'
  <2>1. AllBacked'
    BY <1>0, <1>1, <1>2, <1>7, StillBacked
  <2> QED BY <1>0, <1>7, <2>1 DEF OwnInv, ClaimsTrue, Claiming, Owned
<1> QED BY <1>5, <1>6, <1>7 DEF OwnInv

\* A restore that drops the database under the worker is recorded in lost.
LEMMA OthersOwn ==
  ASSUME TypeInv, OwnInv, ClusterGoes \/ ClusterReturns \/ RestoreJobs \/ UNCHANGED vars
  PROVE  OwnInv'
<1>0. /\ UNCHANGED <<db, pc, cur, obj, to, faults>> /\ [Next]_vars
      /\ UNCHANGED <<pg, lost>> \/ RestoreJobs
  BY DEF ClusterGoes, ClusterReturns, RestoreJobs, RestoreDrops, RestoreCreates, vars, local,
         bounds, Next
<1>1. StatusKnown' /\ Dying'
  BY <1>0 DEF OwnInv, StatusKnown, Dying, Working, Releasing
<1>2. ASSUME faults' = 0 PROVE ClaimsTrue'
  <2>0. ClaimsTrue
    BY <1>0, <1>2 DEF OwnInv
  <2>1. AllBacked'
    BY <1>0, <1>2, StillBacked
  <2>2. pc = "comment" => (pg'[obj.name].exists \/ <<cur, obj.name>> \in lost')
    <3> SUFFICES ASSUME pc = "comment", RestoreJobs
                 PROVE  pg'[obj.name].exists \/ <<cur, obj.name>> \in lost'
      BY <1>0, <2>0 DEF ClaimsTrue
    <3>1. cur \in Databases /\ obj.name \in Names /\ pg \in [Names -> PGRecord]
      BY DEF TypeInv, TypeOK
    <3> DEFINE n == obj.name
    <3>2. pg[n].exists \/ <<cur, n>> \in lost
      BY <2>0 DEF ClaimsTrue
    <3> PICK m \in Names : RestoreDrops(m) \/ RestoreCreates(m)
      BY DEF RestoreJobs
    <3>3. CASE RestoreDrops(m) /\ m = n
      BY <3>1, <3>3 DEF RestoreDrops
    <3>4. CASE RestoreDrops(m) /\ m # n
      BY <3>1, <3>2, <3>4 DEF RestoreDrops
    <3>5. CASE RestoreCreates(m)
      BY <3>1, <3>2, <3>5 DEF RestoreCreates
    <3> QED BY <3>3, <3>4, <3>5
  <2>3. Claiming => Owned(cur, obj.name)'
    <3> SUFFICES ASSUME Claiming PROVE Owned(cur, obj.name)'
      OBVIOUS
    <3>1. /\ cur \in Databases /\ obj.name \in Names /\ pc # "release"
          /\ Owned(cur, obj.name)
      BY <2>0 DEF TypeInv, TypeOK, ClaimsTrue, Claiming
    <3>2. \A d \in Databases, n \in Names : Owned(d, n) => Owned(d, n)'
      BY <1>0, <3>1, OwnedKept
    <3> QED BY <1>0, <3>1, <3>2 DEF Owned
  <2>4. Claiming' = Claiming
    BY <1>0 DEF Claiming
  <2> QED BY <1>0, <2>1, <2>2, <2>3, <2>4 DEF ClaimsTrue
<1> QED BY <1>1, <1>2 DEF OwnInv

LEMMA OwnStep ==
  ASSUME LagAllowed = FALSE PROVE TypeInv /\ FinInv /\ OwnInv /\ [Next]_vars => OwnInv'
<1>1. TypeInv /\ OwnInv /\ Reconcile => OwnInv'
  BY QueriesOrWrites, QueriesOwn, FinalizersOwn, PatchStatusOwn DEF Writes
<1> QED BY <1>1, StartOwn, ManagerOwn, UsersOwn, OthersOwn DEF Next

\* With caches that have caught up at each read, a Ready Database owns the PostgreSQL database
\* its status names, whoever else named it, adopted it or was deleted: no order of the
\* statements of EnsureDatabaseWithOwner and of the status patch says otherwise.
THEOREM ReadyOwns == LagAllowed = FALSE /\ Spec => []ReadyOwnsDatabase
<1>1. OwnInv => ReadyOwnsDatabase
  BY DEF OwnInv, ClaimsTrue, AllBacked, Ready, Backed, Owned, ReadyOwnsDatabase
<1>2. CASE LagAllowed = FALSE
  <2>1. TypeInv /\ FinInv /\ OwnInv /\ [Next]_vars => OwnInv'
    BY <1>2, OwnStep
  <2> QED BY <1>1, <2>1, InitOwn, TypeInvariant, FinInvariant, PTL DEF Spec
<1> QED BY <1>2

-----------------------------------------------------------------------------
(* A deleted Database owns nothing                                         *)

Quiet == faults = 0 /\ outages = 0 /\ edits = 0

\* What a comment names is there, has its finalizer and asks for that database.
OwnersHeld ==
  \A n \in Names :
    pg[n].owner # NoDatabase =>
      /\ pg[n].exists /\ pg[n].mine
      /\ Held(db[pg[n].owner]) /\ db[pg[n].owner].name = n

\* A cache that shows a Database with its finalizer shows the name it asks for, and so does
\* the local copy; handleDeletion gets to the finalizer only with the database released.
NamesKnown == \A d \in Databases : (Held(seen[d]) /\ ~seen[d].del) => db[d].name = seen[d].name
NameAtHand == Working => db[cur].name = obj.name
Freed == pc = "unfinalize" => pg[obj.name].owner # cur

GoneInv == Quiet => cluster = "connected" /\ OwnersHeld /\ NamesKnown /\ NameAtHand /\ Freed

LEMMA QuietBefore ==
  ASSUME TypeInv, Next, Quiet'
  PROVE  Quiet /\ ~Fault /\ UNCHANGED edits /\ (cluster = "connected" => cluster' = "connected")
<1>1. faults = 0 /\ ~Fault
  BY FaultsGrow, FaultCounts DEF Quiet
<1>2. edits \in Nat /\ outages \in Nat
  BY BoundAssumption DEF TypeInv, TypeOK
<1>3. edits = 0 /\ UNCHANGED edits
  <2>1. UNCHANGED edits \/ edits' = edits + 1
    <3>1. CASE Users
      BY <3>1, Zenon DEF Users, CreateResource, EditResource, DeleteResource, bounds
    <3>2. CASE Reconcile
      BY <3>2, Busy
    <3>3. CASE ~Users /\ ~Reconcile
      BY <3>3 DEF Next, bounds, Start, SyncDatabases, Restart, ClusterGoes, ClusterReturns, RestoreJobs,
                  RestoreDrops, RestoreCreates
    <3> QED BY <3>1, <3>2, <3>3
  <2> QED BY <1>2, <2>1 DEF Quiet
<1>4. outages = 0 /\ (cluster = "connected" => cluster' = "connected")
  <2>1. UNCHANGED <<outages, cluster>> \/ outages' = outages + 1 \/ (ClusterReturns /\ UNCHANGED outages)
    <3>1. CASE Users
      BY <3>1, Zenon DEF Users, CreateResource, EditResource, DeleteResource, bounds
    <3>2. CASE Reconcile
      BY <3>2, Busy
    <3>3. CASE ~Users /\ ~Reconcile
      BY <3>3 DEF Next, bounds, Start, SyncDatabases, Restart, ClusterGoes, ClusterReturns, RestoreJobs,
                  RestoreDrops, RestoreCreates
    <3> QED BY <3>1, <3>2, <3>3
  <2> QED BY <1>2, <2>1 DEF Quiet, ClusterReturns
<1> QED BY <1>1, <1>3, <1>4 DEF Quiet

\* A comment goes away, or stays, or is the one the worker writes.
Commented(n) ==
  /\ pc = "comment" /\ n = obj.name /\ pg'[n].exists /\ pg'[n].mine /\ pg'[n].owner = cur
  /\ UNCHANGED db

LEMMA PgSteps ==
  ASSUME TypeInv, Next, NEW n \in Names
  PROVE  pg'[n] = pg[n] \/ pg'[n].owner = NoDatabase \/ Commented(n)
<1>0. pg \in [Names -> PGRecord] /\ pg[n] \in PGRecord
  BY DEF TypeInv, TypeOK
<1>1. CASE UNCHANGED pg
  BY <1>1
<1>2. CASE CreateDatabase
  <2>1. obj.name \in Names /\ (UNCHANGED pg \/ pg' = [pg EXCEPT ![obj.name] = NewPG])
    BY <1>2, Busy DEF Reconcile, CreateDatabase
  <2> QED BY <1>0, <2>1 DEF NewPG
<1>3. CASE CommentOnDatabase
  <2> DEFINE m == obj.name
             e == [pg[m] EXCEPT !.owner = cur]
  <2>1. m \in Names /\ pc = "comment" /\ pg[m] \in PGRecord /\ UNCHANGED db
    BY <1>3, <1>0, Busy DEF Reconcile, CommentOnDatabase
  <2>2. UNCHANGED pg \/ (pg[m].exists /\ pg[m].mine /\ pg' = [pg EXCEPT ![m] = e])
    BY <1>3 DEF CommentOnDatabase
  <2>3. e.owner = cur /\ e.exists = pg[m].exists /\ e.mine = pg[m].mine
    BY <2>1 DEF PGRecord
  <2> HIDE DEF e
  <2>4. pg'[n] = pg[n] \/ (n = m /\ pg'[n] = e /\ pg[m].exists /\ pg[m].mine)
    BY <1>0, <2>1, <2>2
  <2> QED BY <2>1, <2>3, <2>4 DEF Commented
<1>4. CASE ReleaseDatabase
  <2> DEFINE m == obj.name
             e == [pg[m] EXCEPT !.owner = NoDatabase]
  <2>1. m \in Names /\ pg[m] \in PGRecord
    BY <1>4, <1>0, Busy DEF Reconcile
  <2>2. UNCHANGED pg \/ pg' = [pg EXCEPT ![m] = Released(pg[m])]
    BY <1>4 DEF ReleaseDatabase
  <2>3. e.owner = NoDatabase /\ NoPG.owner = NoDatabase
    BY <2>1 DEF PGRecord, NoPG
  <2>4. Released(pg[m]) = pg[m] \/ Released(pg[m]) = NoPG \/ Released(pg[m]) = e
    BY DEF Released
  <2> HIDE DEF e
  <2> QED BY <1>0, <2>1, <2>2, <2>3, <2>4
<1>5. CASE RestoreJobs
  <2> PICK m \in Names : RestoreDrops(m) \/ RestoreCreates(m)
    BY <1>5 DEF RestoreJobs
  <2>1. \/ pg' = [pg EXCEPT ![m] = NoPG]
        \/ pg' = [pg EXCEPT ![m] = IF pg[m].exists THEN pg[m] ELSE NewPG]
    BY DEF RestoreDrops, RestoreCreates
  <2> QED BY <1>0, <2>1 DEF NoPG, NewPG
<1>6. UNCHANGED pg \/ CreateDatabase \/ CommentOnDatabase \/ ReleaseDatabase \/ RestoreJobs
  <2>1. CASE Queries
    <3>1. GetCluster \/ DatabaseExists \/ EnsureExtensions \/ GetDatabaseOwner => UNCHANGED pg
      BY Zenon DEF GetCluster, DatabaseExists, EnsureExtensions, GetDatabaseOwner
    <3> QED BY <2>1, <3>1 DEF Queries
  <2>2. CASE ~Reconcile
    BY <2>2, UsersOthers DEF Next, Start, SyncDatabases, Restart, ClusterGoes, ClusterReturns
  <2> QED BY <2>1, <2>2, QueriesOrWrites
<1> QED BY <1>1, <1>2, <1>3, <1>4, <1>5, <1>6

\* A Database with its finalizer keeps it and, unless users edit it, its name, until the
\* worker takes the finalizer off.
Unfinalized(d) == pc = "unfinalize" /\ cur = d /\ db[d] = obj /\ UNCHANGED pg /\ ~Held(db'[d])

LEMMA HeldSteps ==
  ASSUME TypeInv, Next, UNCHANGED edits, NEW d \in Databases, Held(db[d])
  PROVE  (Held(db'[d]) /\ db'[d].name = db[d].name) \/ Unfinalized(d)
<1>0. db \in [Databases -> DatabaseRecord] /\ db[d] \in DatabaseRecord
  BY DEF TypeInv, TypeOK
<1>1. CASE UNCHANGED db
  BY <1>1
<1>2. CASE AddFinalizer
  <2> DEFINE e == [db[cur] EXCEPT !.fin = TRUE]
  <2>1. cur \in Databases /\ db[cur] \in DatabaseRecord
    BY <1>2, Busy DEF Reconcile
  <2>2. UNCHANGED db \/ db' = [db EXCEPT ![cur] = e]
    BY <1>2 DEF AddFinalizer
  <2>3. e.exists = db[cur].exists /\ e.fin /\ e.name = db[cur].name
    BY <2>1 DEF DatabaseRecord
  <2> HIDE DEF e
  <2>4. db'[d] = db[d] \/ (d = cur /\ db'[d] = e)
    BY <1>0, <2>1, <2>2
  <2> QED BY <2>3, <2>4 DEF Held
<1>3. CASE RemoveFinalizer
  <2> DEFINE e == [db[cur] EXCEPT !.fin = FALSE]
             a == Absent(db[cur].uid)
  <2>1. cur \in Databases /\ db[cur] \in DatabaseRecord /\ pc = "unfinalize"
    BY <1>3, Busy DEF Reconcile, RemoveFinalizer
  <2>2. UNCHANGED db \/ (db[cur] = obj /\ db' = [db EXCEPT ![cur] = IF obj.del THEN a ELSE e])
    BY <1>3 DEF RemoveFinalizer
  <2>3. ~e.fin /\ ~a.fin
    BY <2>1, AbsentFields DEF DatabaseRecord
  <2> HIDE DEF e, a
  <2>4. db'[d] = db[d] \/ (d = cur /\ db[d] = obj /\ (db'[d] = a \/ db'[d] = e))
    BY <1>0, <2>1, <2>2
  <2>5. UNCHANGED pg
    BY <1>3, QueriesOrWrites DEF Writes
  <2> QED BY <2>1, <2>3, <2>4, <2>5 DEF Held, Unfinalized
<1>4. CASE PatchStatus
  <2>1. cur \in Databases /\ db[cur] \in DatabaseRecord
    BY <1>4, Busy DEF Reconcile
  <2>2. UNCHANGED db \/ db' = [db EXCEPT ![cur] = Merged(db[cur])]
    BY <1>4 DEF PatchStatus
  <2>3. /\ Merged(db[cur]).exists = db[cur].exists /\ Merged(db[cur]).fin = db[cur].fin
        /\ Merged(db[cur]).name = db[cur].name
    BY <2>1 DEF Merged, DatabaseRecord
  <2>4. db'[d] = db[d] \/ (d = cur /\ db'[d] = Merged(db[cur]))
    BY <1>0, <2>1, <2>2
  <2> QED BY <2>3, <2>4 DEF Held
<1>5. CASE Users
  <2> PICK e \in Databases : CreateResource(e) \/ EditResource(e) \/ DeleteResource(e)
    BY <1>5 DEF Users
  <2>1. CASE e # d
    <3>1. db'[d] = db[d]
      BY <2>1, UsersDb
    <3> QED BY <3>1
  <2>2. CASE e = d
    <3>1. ~CreateResource(d)
      BY DEF CreateResource, Held
    <3>2. ~EditResource(d)
      <4>1. edits \in Nat
        BY BoundAssumption DEF TypeInv, TypeOK
      <4>2. EditResource(d) => edits' = edits + 1
        BY Zenon DEF EditResource
      <4> QED BY <4>1, <4>2
    <3>3. DeleteResource(d)
      BY <2>2, <3>1, <3>2
    <3>4. db'[d] = [db[d] EXCEPT !.del = TRUE]
      BY <1>0, <3>3 DEF DeleteResource, Held
    <3> QED BY <1>0, <3>4 DEF Held, DatabaseRecord
  <2> QED BY <2>1, <2>2
<1>6. UNCHANGED db \/ AddFinalizer \/ RemoveFinalizer \/ PatchStatus \/ Users
  BY QueriesOrWrites DEF Next, Writes, Start, SyncDatabases, Restart, ClusterGoes, ClusterReturns,
                         RestoreJobs, RestoreDrops, RestoreCreates
<1> QED BY <1>1, <1>2, <1>3, <1>4, <1>5, <1>6

LEMMA OwnersHeldStep ==
  ASSUME TypeInv, FinInv, GoneInv, Next, Quiet' PROVE OwnersHeld'
<1>0. OwnersHeld /\ NameAtHand /\ Freed /\ UNCHANGED edits
  BY QuietBefore DEF GoneInv
<1> SUFFICES ASSUME NEW n \in Names, pg'[n].owner # NoDatabase
             PROVE  /\ pg'[n].exists /\ pg'[n].mine
                    /\ Held(db'[pg'[n].owner]) /\ db'[pg'[n].owner].name = n
  BY DEF OwnersHeld, Held
<1>1. CASE Commented(n)
  <2>1. Working /\ Held(db[cur])
    BY <1>1 DEF Commented, Working, WorkSteps, FinInv, WorkerInv
  <2> QED BY <1>0, <1>1, <2>1 DEF Commented, NameAtHand
<1>2. CASE pg'[n] = pg[n]
  <2> DEFINE o == pg[n].owner
  <2>1. o \in Databases
    BY <1>2 DEF TypeInv, TypeOK, PGRecord
  <2>2. pg[n].exists /\ pg[n].mine /\ Held(db[o]) /\ db[o].name = n
    BY <1>0, <1>2 DEF OwnersHeld
  <2>3. ~Unfinalized(o)
    BY <1>0, <2>2 DEF Unfinalized, Freed
  <2>4. Held(db'[o]) /\ db'[o].name = db[o].name
    BY <1>0, <2>1, <2>2, <2>3, HeldSteps
  <2> QED BY <1>2, <2>2, <2>4
<1> QED BY <1>1, <1>2, PgSteps

LEMMA NamesKnownStep ==
  ASSUME TypeInv, FinInv, GoneInv, Next, Quiet' PROVE NamesKnown'
<1>0. NamesKnown /\ UNCHANGED edits
  BY QuietBefore DEF GoneInv
<1>1. UNCHANGED seen \/ (seen' = db /\ UNCHANGED db)
  BY Busy, UsersOthers DEF Next, Start, SyncDatabases, Restart, ClusterGoes, ClusterReturns,
                           RestoreJobs, RestoreDrops, RestoreCreates
<1>2. FinInv'
  BY FinStep
<1>3. CASE UNCHANGED seen
  <2> SUFFICES ASSUME NEW d \in Databases, Held(seen[d]), ~seen[d].del PROVE db'[d].name = seen[d].name
    BY <1>3 DEF NamesKnown, Held
  <2>1. Held(db[d]) /\ db[d].name = seen[d].name
    BY <1>0 DEF NamesKnown, FinInv, CacheOld
  <2>2. Held(db'[d])
    BY <1>2, <1>3 DEF FinInv, CacheOld, Held
  <2> QED BY <1>0, <2>1, <2>2, HeldSteps DEF Unfinalized
<1> QED BY <1>1, <1>3 DEF NamesKnown, Held

LEMMA NameAtHandStep ==
  ASSUME TypeInv, FinInv, GoneInv, Next, Quiet' PROVE NameAtHand'
<1>0. NamesKnown /\ NameAtHand /\ UNCHANGED edits
  BY QuietBefore DEF GoneInv
<1> SUFFICES ASSUME Working' PROVE db'[cur'].name = obj'.name
  BY DEF NameAtHand
<1>1. CASE \E d \in Databases : Start(d)
  <2> PICK d \in Databases : Start(d)
    BY <1>1
  <2>1. UNCHANGED db /\ pc' = FirstStep(seen[d])
    BY DEF Start
  <2>2. FirstStep(seen[d]) \in {"idle", "patch", "finalizer", "cluster"}
    BY DEF FirstStep
  <2>3. FirstStep(seen[d]) = "cluster"
    BY <2>1, <2>2 DEF Start, Working, WorkSteps
  <2>4. Held(seen[d]) /\ ~seen[d].del /\ cur' = d /\ obj' = seen[d]
    BY <2>3 DEF Start, FirstStep, Held
  <2> QED BY <1>0, <2>1, <2>4 DEF NamesKnown
<1>2. CASE Queries
  BY <1>0, <1>2, QueriesMove, QueriesOrWrites DEF NameAtHand, Working, WorkSteps
<1>3. CASE AddFinalizer \/ RemoveFinalizer \/ Restart
  BY <1>3 DEF AddFinalizer, RemoveFinalizer, Restart, Return, Reset, Working, WorkSteps
<1>4. CASE PatchStatus
  <2>1. cur \in Databases /\ db \in [Databases -> DatabaseRecord]
    BY <1>4, Busy DEF Reconcile, TypeInv, TypeOK
  <2>2. cur' = cur /\ obj' = db'[cur]
    BY <1>4 DEF PatchStatus, Return, Reset, Working, WorkSteps
  <2> QED BY <2>2
<1>5. CASE UNCHANGED local
  <2>1. Working /\ UNCHANGED <<cur, obj>> /\ cur \in Databases
    BY <1>5 DEF local, Working, WorkSteps, TypeInv, TypeOK
  <2>2. Held(db[cur]) /\ db[cur].name = obj.name
    BY <1>0, <2>1 DEF FinInv, WorkerInv, NameAtHand
  <2>3. ~Unfinalized(cur)
    <3>1. FinInv'
      BY FinStep
    <3> QED BY <2>1, <3>1 DEF FinInv, WorkerInv, Unfinalized
  <2> QED BY <1>0, <2>1, <2>2, <2>3, HeldSteps
<1>6. \/ UNCHANGED local \/ Queries \/ AddFinalizer \/ RemoveFinalizer \/ PatchStatus \/ Restart
      \/ \E d \in Databases : Start(d)
  BY QueriesOrWrites, UsersOthers
     DEF Next, Writes, SyncDatabases, ClusterGoes, ClusterReturns, RestoreJobs, RestoreDrops, RestoreCreates
<1> QED BY <1>1, <1>2, <1>3, <1>4, <1>5, <1>6

LEMMA FreedStep ==
  ASSUME TypeInv, GoneInv, Next, Quiet' PROVE Freed'
<1>0. OwnersHeld /\ Freed /\ cluster = "connected" /\ ~Fault
  BY QuietBefore DEF GoneInv
<1> SUFFICES ASSUME pc' = "unfinalize" PROVE pg'[obj'.name].owner # cur'
  BY DEF Freed
<1>1. CASE ReleaseDatabase
  <2> DEFINE m == obj.name
             e == [pg[m] EXCEPT !.owner = NoDatabase]
  <2>1. /\ m \in Names /\ cur \in Databases /\ pg \in [Names -> PGRecord] /\ pg[m] \in PGRecord
        /\ UNCHANGED <<cur, obj>>
    BY <1>1, Busy DEF Reconcile, ReleaseDatabase, Goto, TypeInv, TypeOK
  <2>2. pg'[m] = Released(pg[m])
    BY <1>0, <1>1, <2>1 DEF ReleaseDatabase
  <2>3. e.owner = NoDatabase /\ NoPG.owner = NoDatabase
    BY <2>1 DEF PGRecord, NoPG
  <2>4. \/ Released(pg[m]) = pg[m] /\ (~pg[m].mine \/ ~pg[m].exists)
        \/ Released(pg[m]) = NoPG \/ Released(pg[m]) = e
    BY DEF Released
  <2> HIDE DEF e
  <2>5. pg'[m].owner = NoDatabase
    BY <1>0, <2>1, <2>2, <2>3, <2>4 DEF OwnersHeld
  <2> QED BY <2>1, <2>5, NamesAssumption
<1>2. CASE UNCHANGED local
  <2>1. pc = "unfinalize" /\ UNCHANGED <<cur, obj>> /\ cur \in Databases /\ obj.name \in Names
    BY <1>2 DEF local, TypeInv, TypeOK
  <2>2. pg'[obj.name] = pg[obj.name] \/ pg'[obj.name].owner = NoDatabase
    BY <2>1, PgSteps DEF Commented
  <2> QED BY <1>0, <2>1, <2>2, NamesAssumption DEF Freed
<1>3. UNCHANGED local \/ ReleaseDatabase
  <2>1. CASE Queries
    <3>1. pc = "release"
      BY <2>1, QueriesMove DEF WorkSteps
    <3> QED BY <2>1, <3>1 DEF Queries, GetCluster, DatabaseExists, CreateDatabase, GetDatabaseOwner,
                             CommentOnDatabase, EnsureExtensions
  <2>2. CASE Writes
    <3>1. CASE AddFinalizer \/ RemoveFinalizer
      BY <3>1 DEF AddFinalizer, RemoveFinalizer, Return, Reset
    <3>2. CASE PatchStatus
      BY <3>2 DEF PatchStatus, Return, Reset, TypeInv, TypeOK, Target
    <3> QED BY <2>2, <3>1, <3>2 DEF Writes
  <2>3. CASE \E d \in Databases : Start(d)
    BY <2>3 DEF Start, FirstStep
  <2>4. CASE Restart
    BY <2>4 DEF Restart, Reset
  <2> QED BY <2>1, <2>2, <2>3, <2>4, QueriesOrWrites, UsersOthers
          DEF Next, SyncDatabases, ClusterGoes, ClusterReturns, RestoreJobs, RestoreDrops, RestoreCreates
<1> QED BY <1>1, <1>2, <1>3

LEMMA GoneStep == TypeInv /\ FinInv /\ GoneInv /\ [Next]_vars => GoneInv'
<1>1. ASSUME TypeInv, FinInv, GoneInv, Next PROVE GoneInv'
  <2> SUFFICES ASSUME Quiet' PROVE GoneInv'
    BY DEF GoneInv
  <2>1. cluster' = "connected"
    BY <1>1, QuietBefore DEF GoneInv
  <2> QED BY <1>1, <2>1, OwnersHeldStep, NamesKnownStep, NameAtHandStep, FreedStep DEF GoneInv
<1>2. ASSUME GoneInv, UNCHANGED vars PROVE GoneInv'
  BY <1>2 DEF vars, local, bounds, GoneInv, Quiet, OwnersHeld, NamesKnown, NameAtHand, Freed, Held, Working
<1> QED BY <1>1, <1>2

LEMMA InitGone == Init => GoneInv
<1> SUFFICES ASSUME Init PROVE GoneInv
  OBVIOUS
<1>1. \A d \in Databases : seen[d] = Absent(0)
  BY DEF Init
<1>2. \A n \in Names : pg[n] \in {NoPG, NewPG, LegacyPG}
  BY DEF Init
<1>3. OwnersHeld
  BY <1>2 DEF OwnersHeld, NoPG, NewPG, LegacyPG
<1>4. NamesKnown
  BY <1>1, AbsentFields DEF NamesKnown, Held
<1> QED BY <1>3, <1>4 DEF Init, GoneInv, NameAtHand, Freed, Working, WorkSteps

\* Unless a call failed, the DBCluster was away or a Database named another database before,
\* no PostgreSQL database is left with the comment of a Database that is gone, however stale
\* the caches were, and whatever was restarted, restored or adopted meanwhile.
THEOREM DeletedLeavesNothing == Spec => []DeletedOwnsNothing
<1>1. GoneInv => DeletedOwnsNothing
  BY DEF GoneInv, Quiet, OwnersHeld, Held, DeletedOwnsNothing
<1> QED BY <1>1, InitGone, GoneStep, TypeInvariant, FinInvariant, PTL DEF Spec

=============================================================================
