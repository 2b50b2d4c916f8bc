--------------------------- MODULE DatabaseUserProofs ---------------------------
(***************************************************************************)
(* Safety of DatabaseUser for every set of users, roles, databases,        *)
(* Secrets and specs, caches that lag or do not, and any number of faults. *)
(***************************************************************************)
EXTENDS DatabaseUser, TLAPS

-----------------------------------------------------------------------------
(* Type correctness                                                        *)

\* The type invariant with what makes it inductive: an edit leaves room for the generations to
\* come, and from the lookup of the Secret on the spec lists a database.
Listing == {"secret", "alter", "create", "write", "perDatabase", "old", "role", "access", "grant"}
GenBound ==
  \A u \in Users : user[u].gen <= edits + (IF user[u].del THEN 2 ELSE 1)
ListsDbs == pc \in Listing => obj.spec.dbs # {}
TypeInv == TypeOK /\ GenBound /\ ListsDbs

\* The parts of TypeInv that different actions disturb.
UserOK == user \in [Users -> UserRecord] /\ GenBound
SecretOK == secret \in [Names -> SecretRecord]
CacheOK == /\ lagging \in BOOLEAN
           /\ seenUser \in [Users -> UserRecord] /\ seenSecret \in [Names -> SecretRecord]
RoleOK == role \in [Roles -> RoleRecord]
OutsideOK == ready \subseteq Dbs /\ cluster \in {"absent", "waiting", "connected"} /\ aged \subseteq Users
WorkerOK == /\ queue \subseteq Users /\ later \subseteq Users
            /\ pc \in Steps /\ cur \in Users \cup {NoUser} /\ (pc # "idle" => cur \in Users)
            /\ obj \in UserRecord /\ held \in SecretRecord /\ plan \in Plans
            /\ password \in Passwords \cup {NoPassword} /\ rest \subseteq Dbs /\ to \in Target
            /\ ListsDbs
CountOK == /\ edits \in 0..MaxEdits /\ meddles \in 0..MaxMeddles /\ faults \in 0..MaxFaults
           /\ crashes \in 0..MaxCrashes /\ outages \in 0..MaxOutages

LEMMA TypeParts ==
  TypeInv <=> /\ UserOK /\ SecretOK /\ CacheOK /\ RoleOK /\ OutsideOK /\ WorkerOK
              /\ mixed \subseteq Users /\ CountOK
BY DEF TypeInv, TypeOK, UserOK, SecretOK, CacheOK, RoleOK, OutsideOK, WorkerOK, CountOK

LEMMA TypePartsNext ==
  ASSUME UserOK', SecretOK', CacheOK', RoleOK', OutsideOK', WorkerOK', mixed' \subseteq Users, CountOK'
  PROVE  TypeInv'
BY DEF TypeInv, TypeOK, UserOK, SecretOK, CacheOK, RoleOK, OutsideOK, WorkerOK, CountOK, GenBound,
       ListsDbs

\* What an action leaves unchanged keeps its type.
LEMMA Kept ==
  ASSUME TypeInv
  PROVE  /\ UNCHANGED <<user, edits>> => UserOK'
         /\ UNCHANGED secret => SecretOK'
         /\ UNCHANGED caches => CacheOK'
         /\ UNCHANGED role => RoleOK'
         /\ UNCHANGED outside => OutsideOK'
         /\ UNCHANGED <<queue, later, local>> => WorkerOK'
         /\ UNCHANGED mixed => mixed' \subseteq Users
         /\ UNCHANGED bounds => CountOK'
<1> USE TypeParts
<1>1. UNCHANGED <<user, edits>> => UserOK'
  BY DEF UserOK, GenBound
<1>2. UNCHANGED secret => SecretOK'
  BY DEF SecretOK
<1>3. UNCHANGED caches => CacheOK'
  BY DEF CacheOK, caches
<1>4. UNCHANGED role => RoleOK'
  BY DEF RoleOK
<1>5. UNCHANGED outside => OutsideOK'
  BY DEF OutsideOK, outside
<1>6. UNCHANGED <<queue, later, local>> => WorkerOK'
  BY DEF WorkerOK, local, work, ListsDbs
<1>7. UNCHANGED mixed => mixed' \subseteq Users
  OBVIOUS
<1>8. UNCHANGED bounds => CountOK'
  BY DEF CountOK, bounds
<1> QED BY <1>1, <1>2, <1>3, <1>4, <1>5, <1>6, <1>7, <1>8

-----------------------------------------------------------------------------
(* The records                                                             *)

LEMMA SpecType == AnySpec \in Specs /\ Specs \subseteq UserSpec
BY NamesAssumption DEF AnySpec

LEMMA FreshType ==
  ASSUME NEW e \in BOOLEAN, NEW u \in 0..MaxUid, NEW s \in Specs
  PROVE  NewUser(e, u, s) \in UserRecord /\ NewUser(e, u, s).gen <= 1 /\ ~NewUser(e, u, s).del
<1>1. s \in UserSpec
  BY SpecType
<1>2. 0 \in 0..(MaxEdits + 2) /\ 1 \in 0..(MaxEdits + 2)
  BY BoundAssumption
<1>3. (IF e THEN 1 ELSE 0) \in 0..(MaxEdits + 2) /\ (IF e THEN 1 ELSE 0) <= 1
  BY <1>2
<1> DEFINE g == IF e THEN 1 ELSE 0
           empty == ""
<1>4. NewUser(e, u, s) =
        [exists |-> e, uid |-> u, fin |-> FALSE, del |-> FALSE, gen |-> g,
         spec |-> s, phase |-> empty, reason |-> empty, observed |-> 0, hasCluster |-> FALSE,
         granted |-> {}, secretName |-> NoSecret, dated |-> FALSE]
  BY Zenon DEF NewUser
<1>5. empty \in Phases /\ empty \in Reasons
  BY Zenon DEF Phases, Reasons
<1> HIDE DEF g, empty
<1>6. g \in 0..(MaxEdits + 2) /\ g <= 1
  BY <1>3 DEF g
<1>7. NewUser(e, u, s) \in UserRecord
  BY <1>1, <1>2, <1>4, <1>5, <1>6 DEF UserRecord
<1>8. NewUser(e, u, s).gen = g /\ ~NewUser(e, u, s).del
  BY <1>4
<1> QED BY <1>6, <1>7, <1>8

LEMMA AbsentType ==
  ASSUME NEW u \in 0..MaxUid PROVE Absent(u) \in UserRecord /\ Absent(u).gen <= 1
BY SpecType, FreshType DEF Absent

LEMMA Defaults ==
  /\ 0 \in 0..MaxUid /\ Absent(0) \in UserRecord
  /\ NoEntry \in Entry /\ EmptyData \in [Templates -> Entry]
  /\ NoSuchSecret \in SecretRecord /\ ForeignSecret \in SecretRecord
  /\ NoSuchRole \in RoleRecord /\ NoTarget \in Target
<1>1. 0 \in 0..MaxUid
  BY BoundAssumption
<1>2. NoEntry \in Entry
  BY DEF NoEntry, Entry
<1>3. EmptyData \in [Templates -> Entry]
  BY <1>2 DEF EmptyData
<1>4. NoSuchSecret \in SecretRecord
  BY <1>1, <1>3 DEF NoSuchSecret, SecretRecord
<1>5. ForeignSecret \in SecretRecord
  BY <1>4 DEF ForeignSecret, SecretRecord
<1>6. NoSuchRole \in RoleRecord
  BY DEF NoSuchRole, RoleRecord
<1>7. NoTarget \in Target
  BY Zenon DEF NoTarget, Target, Phases, Reasons
<1> QED BY <1>1, <1>2, <1>3, <1>4, <1>5, <1>6, <1>7, AbsentType

LEMMA Constants ==
  /\ {"Pending", "Ready", "Failed"} \subseteq Phases
  /\ {"spec", "waiting", "connection", "secret", "role", "access", "done"} \subseteq Reasons
BY DEF Phases, Reasons

LEMMA FailedType ==
  ASSUME NEW r \in Reasons, NEW n \in Names \cup {NoSecret}
  PROVE  Failed(r) \in Target /\ FailedWithBase(r, n) \in Target
<1>1. "Failed" \in Phases
  BY Constants
<1>2. Failed(r) \in Target
  BY <1>1, Defaults DEF Failed, Target
<1> QED BY <1>2 DEF FailedWithBase, Target

LEMMA ObjType ==
  ASSUME TypeInv
  PROVE  /\ obj \in UserRecord /\ obj.spec \in UserSpec /\ obj.uid \in 0..MaxUid
         /\ obj.spec.role \in Roles /\ obj.spec.dbs \subseteq Dbs /\ obj.spec.rights \subseteq Rights
         /\ obj.spec.secret \in SecretNames /\ obj.spec.template \in Templates
         /\ obj.granted \subseteq Dbs /\ obj.secretName \in Names \cup {NoSecret}
<1>1. obj \in UserRecord
  BY DEF TypeInv, TypeOK
<1>2. obj.spec \in UserSpec /\ obj.uid \in 0..MaxUid /\ obj.granted \subseteq Dbs
      /\ obj.secretName \in Names \cup {NoSecret}
  BY <1>1 DEF UserRecord
<1> QED BY <1>1, <1>2 DEF UserSpec

LEMMA SecretUsedType == ASSUME TypeInv, pc \in Listing PROVE SecretUsed \in Names /\ SecretUsed \in Names \cup {NoSecret}
<1>1. cur \in Users /\ obj.spec.dbs # {} /\ obj.spec.dbs \subseteq Dbs
  BY ObjType DEF TypeInv, TypeOK, ListsDbs, Listing
<1>2. (CHOOSE d \in obj.spec.dbs : TRUE) \in Dbs
  BY <1>1
<1> QED BY <1>1, <1>2, ObjType DEF SecretUsed, Names

LEMMA FaultCount == ASSUME TypeInv, Fault PROVE faults' \in 0..MaxFaults
BY BoundAssumption DEF TypeInv, TypeOK, Fault

-----------------------------------------------------------------------------
(* How a reconciliation ends and goes on                                   *)

LEMMA EndType ==
  ASSUME TypeInv, pc # "idle", Retry \/ (\E requeue \in BOOLEAN : Return(requeue))
  PROVE  WorkerOK'
BY Defaults DEF TypeInv, TypeOK, WorkerOK, Retry, Return, Reset, ResetWork, Steps, Plans, ListsDbs, Listing

LEMMA GotoType ==
  ASSUME TypeInv, pc # "idle", NEW step \in Steps, Goto(step), step \in Listing => obj.spec.dbs # {}
  PROVE  WorkerOK'
BY DEF TypeInv, TypeOK, WorkerOK, Goto, ListsDbs, work

LEMMA PatchType ==
  ASSUME TypeInv, pc # "idle", NEW update \in Target, Patch(update) PROVE WorkerOK'
BY DEF TypeInv, TypeOK, WorkerOK, Patch, ListsDbs, Steps, work, Listing

LEMMA FailSecretType == ASSUME TypeInv, pc # "idle", FailSecret PROVE WorkerOK'
BY Constants, FailedType, PatchType DEF FailSecret

-----------------------------------------------------------------------------
(* The worker                                                              *)

LEMMA ReconcileFrame ==
  ASSUME TypeInv, Reconcile
  PROVE  cur \in Users /\ pc # "idle" /\ CacheOK' /\ mixed' \subseteq Users /\ CountOK' /\ UNCHANGED edits
<1>1. pc # "idle"
  BY DEF Reconcile, AddFinalizer, FetchDatabases, ReadSecret, AlterPassword, CreateSecret, WriteSecret,
         WriteDatabaseSecret, DeleteOldSecret, EnsureUser, SyncDatabaseAccess, ApplyPrivileges,
         DropUser, RemoveFinalizer, PatchStatus
<1>2. UNCHANGED <<caches, mixed, others>> /\ (Fault \/ UNCHANGED faults)
  BY DEF Reconcile, AddFinalizer, FetchDatabases, ReadSecret, AlterPassword, CreateSecret, WriteSecret,
         WriteDatabaseSecret, DeleteOldSecret, EnsureUser, SyncDatabaseAccess, ApplyPrivileges,
         DropUser, RemoveFinalizer, PatchStatus, others, bounds
<1>3. CountOK'
  BY <1>2, FaultCount, TypeParts DEF CountOK, others
<1> QED BY <1>1, <1>2, <1>3, Kept DEF TypeInv, TypeOK, others

LEMMA UnusedType == Unused \subseteq Passwords
BY DEF Unused

LEMMA TakeType ==
  ASSUME TypeInv, pc = "secret", NEW step \in Steps, NEW how \in Plans, NEW copy \in SecretRecord,
         password' \in Passwords \cup {NoPassword}, Take(step, how, copy)
  PROVE  WorkerOK'
<1>1. /\ queue' \subseteq Users /\ later' \subseteq Users /\ cur' \in Users /\ obj' \in UserRecord
      /\ to' \in Target /\ pc' \in Steps /\ plan' \in Plans /\ held' \in SecretRecord
      /\ obj' = obj
  BY DEF Take, TypeInv, TypeOK
<1>2. rest' \subseteq Dbs
  BY ObjType DEF Take
<1>3. ListsDbs'
  BY <1>1 DEF TypeInv, ListsDbs, Listing
<1> QED BY <1>1, <1>2, <1>3 DEF WorkerOK

LEMMA WriteStepType == \A how : WriteStep(how) \in Steps /\ WriteStep(how) \in Listing
BY DEF WriteStep, Steps, Listing

LEMMA ReadSecretType == ASSUME TypeInv, ReadSecret PROVE WorkerOK'
<1> DEFINE s == seenSecret[obj.spec.secret]
<1>1. pc = "secret" /\ s \in SecretRecord /\ obj.spec.template \in Templates
  BY ObjType DEF ReadSecret, TypeInv, TypeOK, Names
<1>2. s.data[obj.spec.template].password \in Passwords \cup {NoPassword}
  <2>1. s.data \in [Templates -> Entry]
    BY <1>1 DEF SecretRecord
  <2>2. s.data[obj.spec.template] \in Entry
    BY <1>1, <2>1
  <2> QED BY <2>2 DEF Entry
<1> HIDE DEF s
<1>3. {"create", "rotate", "read", "update", "adopt", "merge"} \subseteq Plans /\ {"alter", "old", "write"} \subseteq Steps
  BY DEF Plans, Steps
<1>4. CASE SecretMissing
  BY <1>1, <1>3, <1>4, UnusedType, TakeType, WriteStepType, Defaults DEF SecretMissing
<1>5. CASE SecretOwned(s)
  BY <1>1, <1>2, <1>3, <1>5, UnusedType, TakeType DEF SecretOwned
<1>6. CASE SecretForeign(s)
  <2>1. Patch(FailedWithBase("secret", NoSecret)) => WorkerOK'
    BY <1>1, FailedType, PatchType, Constants
  <2>2. \A how \in Plans : (password' \in Unused /\ Take("alter", how, s)) => WorkerOK'
    BY <1>1, <1>3, UnusedType, TakeType
  <2> QED BY <1>3, <1>6, <2>1, <2>2 DEF SecretForeign
<1> QED BY <1>4, <1>5, <1>6 DEF ReadSecret, s

LEMMA FetchType == ASSUME TypeInv, FetchDatabases PROVE WorkerOK'
<1>1. pc = "fetch"
  BY DEF FetchDatabases
<1>2. Failed("spec") \in Target
  BY FailedType, Constants
<1>3. [NoTarget EXCEPT !.phase = "Pending", !.reason = "waiting", !.requeue = TRUE] \in Target
  BY Defaults, Constants DEF Target
<1>4. [FailedWithBase("connection", NoSecret) EXCEPT !.requeue = TRUE] \in Target
  <2>1. FailedWithBase("connection", NoSecret) \in Target
    BY FailedType, Constants
  <2> QED BY <2>1 DEF Target
<1>5. (obj.spec.dbs # {} /\ Goto("secret")) => WorkerOK'
  BY <1>1, GotoType DEF Steps
<1>6. \A update \in Target : Patch(update) => WorkerOK'
  BY <1>1, PatchType
<1> QED BY <1>2, <1>3, <1>4, <1>5, <1>6 DEF FetchDatabases

LEMMA SecretsType ==
  ASSUME TypeInv, AlterPassword \/ CreateSecret \/ WriteSecret \/ WriteDatabaseSecret \/ DeleteOldSecret
  PROVE  WorkerOK'
<1>1. pc \in Listing /\ pc # "idle" /\ obj.spec.dbs # {}
  BY DEF AlterPassword, CreateSecret, WriteSecret, WriteDatabaseSecret, DeleteOldSecret, TypeInv,
         ListsDbs, Listing
<1>2. \A step \in Steps : Goto(step) => WorkerOK'
  BY <1>1, GotoType
<1>3. FailSecret => WorkerOK'
  BY <1>1, FailSecretType
<1>4. {"old", "role"} \subseteq Steps
  BY DEF Steps
<1>5. CASE AlterPassword
  BY <1>2, <1>3, <1>5, WriteStepType DEF AlterPassword
<1>6. CASE CreateSecret
  BY <1>2, <1>3, <1>4, <1>6 DEF CreateSecret
<1>7. CASE WriteSecret
  BY <1>2, <1>3, <1>4, <1>7 DEF WriteSecret
<1>8. CASE WriteDatabaseSecret
  <2>1. FailSecret \/ \E d \in rest : /\ rest' = rest \ {d} /\ pc' = IF rest = {d} THEN "old" ELSE pc
                                      /\ UNCHANGED <<queue, later, cur, obj, held, plan, password, to>>
    BY <1>8 DEF WriteDatabaseSecret
  <2>2. ASSUME NEW d \in rest, rest' = rest \ {d}, pc' = IF rest = {d} THEN "old" ELSE pc,
               UNCHANGED <<queue, later, cur, obj, held, plan, password, to>>
        PROVE  WorkerOK'
    BY <1>1, <1>4, <2>2 DEF WorkerOK, TypeInv, TypeOK, ListsDbs
  <2> QED BY <1>3, <2>1, <2>2
<1>9. CASE DeleteOldSecret
  BY <1>2, <1>4, <1>9 DEF DeleteOldSecret
<1> QED BY <1>5, <1>6, <1>7, <1>8, <1>9

LEMMA RolesType ==
  ASSUME TypeInv, EnsureUser \/ SyncDatabaseAccess \/ ApplyPrivileges \/ DropUser PROVE WorkerOK'
<1>1. pc # "idle" /\ {"access", "grant", "unfinalize"} \subseteq Steps
  BY DEF EnsureUser, SyncDatabaseAccess, ApplyPrivileges, DropUser, Steps
<1>2. \A update \in Target : Patch(update) => WorkerOK'
  BY <1>1, PatchType
<1>3. CASE EnsureUser \/ SyncDatabaseAccess
  <2>1. pc \in Listing /\ obj.spec.dbs # {}
    BY <1>3 DEF EnsureUser, SyncDatabaseAccess, Listing, TypeInv, ListsDbs
  <2>2. FailedWithBase("role", SecretUsed) \in Target /\ FailedWithBase("access", SecretUsed) \in Target
    BY <2>1, SecretUsedType, FailedType, Constants
  <2>3. \A step \in Steps : Goto(step) => WorkerOK'
    BY <1>1, <2>1, GotoType
  <2> QED BY <1>1, <1>2, <1>3, <2>2, <2>3 DEF EnsureUser, SyncDatabaseAccess
<1>4. CASE ApplyPrivileges
  <2>1. pc \in Listing
    BY <1>4 DEF ApplyPrivileges, Listing
  <2>2. obj.spec.rotate \in BOOLEAN /\ obj.dated \in BOOLEAN /\ obj.spec.dbs \subseteq Dbs
    BY ObjType DEF UserRecord, UserSpec
  <2>3. Done \in Target
    <3> DEFINE name == SecretUsed
               dated == plan \notin {"read", "update"}
               requeue == obj.spec.rotate /\ obj.dated
    <3>1. name \in Names \cup {NoSecret} /\ dated \in BOOLEAN /\ requeue \in BOOLEAN
      BY <2>1, <2>2, SecretUsedType
    <3>2. Done = [phase |-> "Ready", reason |-> "done", base |-> TRUE, granted |-> obj.spec.dbs,
                  secretName |-> name, dated |-> dated, requeue |-> requeue]
      BY DEF Done
    <3> HIDE DEF name, dated, requeue
    <3> QED BY <2>2, <3>1, <3>2, Constants DEF Target
  <2> QED BY <1>2, <1>4, <2>3 DEF ApplyPrivileges
<1>5. CASE DropUser
  <2>1. Goto("unfinalize") => WorkerOK'
    BY <1>1, GotoType DEF Listing
  <2> QED BY <1>5, <2>1 DEF DropUser
<1> QED BY <1>3, <1>4, <1>5

LEMMA EndsType ==
  ASSUME TypeInv, AddFinalizer \/ RemoveFinalizer \/ PatchStatus PROVE WorkerOK'
<1>1. pc # "idle" /\ to.requeue \in BOOLEAN
  BY DEF AddFinalizer, RemoveFinalizer, PatchStatus, TypeInv, TypeOK, Target
<1> QED BY <1>1, EndType DEF AddFinalizer, RemoveFinalizer, PatchStatus

-----------------------------------------------------------------------------
(* What the worker writes                                                  *)

LEMMA UpdatedType == ASSUME TypeInv PROVE Updated \in UserRecord
<1>1. to \in Target /\ obj \in UserRecord
  BY DEF TypeInv, TypeOK
<1>2. /\ to.phase \in Phases /\ to.reason \in Reasons /\ obj.gen \in 0..(MaxEdits + 2)
      /\ to.base \in BOOLEAN /\ obj.hasCluster \in BOOLEAN /\ to.dated \in BOOLEAN /\ obj.dated \in BOOLEAN
      /\ to.secretName \in Names \cup {NoSecret} /\ obj.secretName \in Names \cup {NoSecret}
      /\ to.granted \subseteq Dbs /\ obj.granted \subseteq Dbs
  BY <1>1 DEF Target, UserRecord
<1> DEFINE known == obj.hasCluster \/ to.base
           name == IF to.secretName = NoSecret THEN obj.secretName ELSE to.secretName
           granted == IF to.granted = {} THEN obj.granted ELSE to.granted
           dated == obj.dated \/ to.dated \/ to.phase = "Ready"
<1>3. known \in BOOLEAN /\ name \in Names \cup {NoSecret} /\ granted \subseteq Dbs /\ dated \in BOOLEAN
  BY <1>2
<1>4. Updated = [obj EXCEPT !.phase = to.phase, !.reason = to.reason, !.observed = obj.gen,
                            !.hasCluster = known, !.secretName = name, !.granted = granted, !.dated = dated]
  BY DEF Updated
<1> HIDE DEF known, name, granted, dated
<1> QED BY <1>1, <1>2, <1>3, <1>4 DEF UserRecord

LEMMA MergedType ==
  ASSUME TypeInv, NEW o \in UserRecord
  PROVE  Merged(o) \in UserRecord /\ Merged(o).gen = o.gen /\ Merged(o).del = o.del
<1> DEFINE new == Updated
<1>1. new \in UserRecord
  BY UpdatedType
<1> HIDE DEF new
<1> DEFINE phase == IF new.phase # obj.phase THEN new.phase ELSE o.phase
           reason == IF new.reason # obj.reason THEN new.reason ELSE o.reason
           observed == IF new.observed # obj.observed THEN new.observed ELSE o.observed
           known == IF new.hasCluster # obj.hasCluster THEN new.hasCluster ELSE o.hasCluster
           name == IF new.secretName # obj.secretName THEN new.secretName ELSE o.secretName
           granted == IF new.granted # obj.granted THEN new.granted ELSE o.granted
           dated == IF new.dated # obj.dated THEN new.dated ELSE o.dated
<1>2. /\ phase \in Phases /\ reason \in Reasons /\ observed \in 0..(MaxEdits + 2) /\ known \in BOOLEAN
      /\ name \in Names \cup {NoSecret} /\ granted \subseteq Dbs /\ dated \in BOOLEAN
  BY <1>1 DEF UserRecord
<1>3. Merged(o) = [o EXCEPT !.phase = phase, !.reason = reason, !.observed = observed, !.hasCluster = known,
                            !.secretName = name, !.granted = granted, !.dated = dated]
  BY DEF Merged, new
<1> HIDE DEF phase, reason, observed, known, name, granted, dated
<1> QED BY <1>2, <1>3 DEF UserRecord

LEMMA OneUser ==
  ASSUME TypeInv, NEW u \in Users, NEW e \in UserRecord, user' = [user EXCEPT ![u] = e], UNCHANGED edits,
         (e.gen <= user[u].gen /\ (user[u].del => e.del)) \/ e.gen <= 1
  PROVE  UserOK'
<1>1. user \in [Users -> UserRecord] /\ GenBound /\ edits \in Nat
  BY BoundAssumption DEF TypeInv, TypeOK
<1>2. user' \in [Users -> UserRecord]
  BY <1>1
<1>3. e.gen \in Nat /\ user[u].gen \in Nat
  BY <1>1 DEF UserRecord
<1>4. \A v \in Users : user'[v] = IF v = u THEN e ELSE user[v]
  BY <1>1
<1>5. GenBound'
  BY <1>1, <1>3, <1>4 DEF GenBound
<1> QED BY <1>2, <1>5 DEF UserOK

LEMMA ReconcileUser == ASSUME TypeInv, Reconcile PROVE UserOK'
<1>1. cur \in Users /\ UNCHANGED edits /\ user[cur] \in UserRecord
  BY ReconcileFrame DEF TypeInv, TypeOK
<1>2. CASE UNCHANGED user
  BY <1>1, <1>2, Kept
<1>3. CASE AddFinalizer
  <2> DEFINE e == [user[cur] EXCEPT !.fin = TRUE]
  <2>1. e \in UserRecord /\ e.gen = user[cur].gen /\ e.del = user[cur].del
    BY <1>1 DEF UserRecord
  <2>3. e.gen \in Nat
    BY <2>1, BoundAssumption DEF UserRecord
  <2>2. UNCHANGED user \/ user' = [user EXCEPT ![cur] = e]
    BY <1>3 DEF AddFinalizer
  <2> HIDE DEF e
  <2> QED BY <1>1, <1>2, <2>1, <2>2, <2>3, OneUser
<1>4. CASE RemoveFinalizer
  <2>1. Absent(user[cur].uid) \in UserRecord /\ Absent(user[cur].uid).gen <= 1
    BY <1>1, AbsentType DEF UserRecord
  <2>2. UNCHANGED user \/ user' = [user EXCEPT ![cur] = Absent(user[cur].uid)]
    BY <1>4 DEF RemoveFinalizer
  <2> QED BY <1>1, <1>2, <2>1, <2>2, OneUser
<1>5. CASE PatchStatus
  <2> DEFINE e == Merged(user[cur])
  <2>1. e \in UserRecord /\ e.gen = user[cur].gen /\ e.del = user[cur].del
    BY <1>1, MergedType
  <2>3. e.gen \in Nat
    BY <2>1 DEF UserRecord
  <2>2. UNCHANGED user \/ user' = [user EXCEPT ![cur] = e]
    BY <1>5 DEF PatchStatus
  <2> HIDE DEF e
  <2> QED BY <1>1, <1>2, <2>1, <2>2, <2>3, OneUser
<1> QED BY <1>2, <1>3, <1>4, <1>5
        DEF Reconcile, FetchDatabases, ReadSecret, AlterPassword, CreateSecret, WriteSecret, WriteDatabaseSecret,
            DeleteOldSecret, EnsureUser, SyncDatabaseAccess, ApplyPrivileges, DropUser

LEMMA DataType ==
  ASSUME TypeInv, NEW dbs \in SUBSET Dbs
  PROVE  NewEntry(dbs) \in Entry /\ DataFor(dbs) \in [Templates -> Entry]
<1>1. NewEntry(dbs) \in Entry
  BY ObjType DEF NewEntry, Entry, TypeInv, TypeOK
<1> QED BY <1>1, Defaults, ObjType DEF DataFor

LEMMA OwnType ==
  ASSUME TypeInv, cur \in Users, NEW data \in [Templates -> Entry] PROVE OwnSecret(data) \in SecretRecord
BY ObjType DEF OwnSecret, SecretRecord

LEMMA WrittenType == ASSUME TypeInv, cur \in Users PROVE Written \in SecretRecord
<1> DEFINE t == obj.spec.template
           e == NewEntry(obj.spec.dbs)
           kept == [e EXCEPT !.password = held.data[t].password]
<1>1. t \in Templates /\ e \in Entry /\ DataFor(obj.spec.dbs) \in [Templates -> Entry]
  BY ObjType, DataType
<1>2. held \in SecretRecord /\ held.data \in [Templates -> Entry] /\ held.data[t] \in Entry
  BY <1>1 DEF TypeInv, TypeOK, SecretRecord
<1>3. kept \in Entry
  <2> HIDE DEF e
  <2> QED BY <1>1, <1>2 DEF Entry
<1> DEFINE new == [held.data EXCEPT ![t] = e]
           same == [held.data EXCEPT ![t] = kept]
<1>4. new \in [Templates -> Entry] /\ same \in [Templates -> Entry]
  <2> HIDE DEF e, kept, t
  <2> QED BY <1>1, <1>2, <1>3
<1>5. Written \in {OwnSecret(DataFor(obj.spec.dbs)), OwnSecret(new), [held EXCEPT !.data = new],
                   [held EXCEPT !.data = same]}
  BY DEF Written
<1> HIDE DEF new, same
<1>6. [held EXCEPT !.data = new] \in SecretRecord /\ [held EXCEPT !.data = same] \in SecretRecord
  BY <1>2, <1>4 DEF SecretRecord
<1> QED BY <1>1, <1>4, <1>5, <1>6, OwnType

LEMMA OneSecret ==
  ASSUME TypeInv, NEW n \in Names, NEW s \in SecretRecord, secret' \in {secret, [secret EXCEPT ![n] = s]}
  PROVE  SecretOK'
BY DEF TypeInv, TypeOK, SecretOK

LEMMA ReconcileSecret == ASSUME TypeInv, Reconcile PROVE SecretOK'
<1>1. cur \in Users /\ obj.spec.secret \in Names /\ obj.spec.dbs \subseteq Dbs
  BY ReconcileFrame, ObjType DEF Names
<1>2. CASE UNCHANGED secret
  BY <1>2, Kept
<1>3. CASE CreateSecret
  <2>1. OwnSecret(DataFor(obj.spec.dbs)) \in SecretRecord
    BY <1>1, DataType, OwnType
  <2> QED BY <1>1, <1>2, <1>3, <2>1, OneSecret DEF CreateSecret
<1>4. CASE WriteSecret
  <2>1. Written \in SecretRecord
    BY <1>1, WrittenType
  <2> QED BY <1>1, <1>2, <1>4, <2>1, OneSecret DEF WriteSecret
<1>5. CASE WriteDatabaseSecret
  <2> PICK d \in rest :
        LET s == IF seenSecret[<<cur, d>>].exists THEN [seenSecret[<<cur, d>>] EXCEPT !.data = DataFor({d})]
                 ELSE OwnSecret(DataFor({d}))
        IN  secret' \in {secret, [secret EXCEPT ![<<cur, d>>] = s]}
    BY <1>5 DEF WriteDatabaseSecret
  <2> DEFINE n == <<cur, d>>
             data == DataFor({d})
             s == IF seenSecret[n].exists THEN [seenSecret[n] EXCEPT !.data = data] ELSE OwnSecret(data)
  <2>1. d \in Dbs /\ n \in Names
    BY <1>1 DEF TypeInv, TypeOK, Names
  <2>2. data \in [Templates -> Entry]
    BY <2>1, DataType
  <2> HIDE DEF data
  <2>3. seenSecret[n] \in SecretRecord
    BY <2>1 DEF TypeInv, TypeOK
  <2> HIDE DEF n
  <2>4. s \in SecretRecord
    BY <1>1, <2>2, <2>3, OwnType DEF SecretRecord
  <2>5. secret' \in {secret, [secret EXCEPT ![n] = s]}
    BY DEF n, s, data
  <2> HIDE DEF s
  <2> QED BY <2>1, <2>4, <2>5, OneSecret
<1>6. CASE DeleteOldSecret
  <2>1. UNCHANGED secret \/ (obj.secretName # NoSecret /\ secret' = [secret EXCEPT ![obj.secretName] = NoSuchSecret])
    BY <1>6 DEF DeleteOldSecret
  <2> QED BY <1>2, <2>1, ObjType, Defaults, OneSecret
<1> QED BY <1>2, <1>3, <1>4, <1>5, <1>6
        DEF Reconcile, AddFinalizer, FetchDatabases, ReadSecret, AlterPassword,
            EnsureUser, SyncDatabaseAccess, ApplyPrivileges, DropUser, RemoveFinalizer, PatchStatus

LEMMA OneRole ==
  ASSUME TypeInv, NEW x \in RoleRecord, role' \in {role, [role EXCEPT ![obj.spec.role] = x]} PROVE RoleOK'
BY ObjType DEF TypeInv, TypeOK, RoleOK

LEMMA RoleTypes ==
  ASSUME NEW x \in RoleRecord, NEW p \in Passwords \cup {NoPassword}, NEW dbs \in SUBSET Dbs, NEW rights \in SUBSET Rights
  PROVE  /\ CreatedUser(p) \in RoleRecord /\ PasswordSet(x, p) \in RoleRecord
         /\ Granting(x, dbs, rights) \in RoleRecord /\ Revoked(x, dbs) \in RoleRecord
         /\ Dropped(x) \in RoleRecord /\ [x EXCEPT !.connect = dbs] \in RoleRecord
<1>1. CreatedUser(p) \in RoleRecord
  BY Defaults DEF CreatedUser, RoleRecord
<1>2. PasswordSet(x, p) \in RoleRecord
  BY DEF PasswordSet, RoleRecord
<1>3. Granting(x, dbs, rights) \in RoleRecord
  <2> DEFINE all == x.rights \cup (dbs \X rights)
  <2>1. all \subseteq Dbs \X Rights
    BY DEF RoleRecord
  <2>2. Granting(x, dbs, rights) = [x EXCEPT !.rights = all]
    BY DEF Granting
  <2> HIDE DEF all
  <2> QED BY <2>1, <2>2 DEF RoleRecord
<1>4. Revoked(x, dbs) \in RoleRecord
  <2> DEFINE c == x.connect \ dbs
             r == x.rights \ (dbs \X Rights)
  <2>1. c \subseteq Dbs /\ r \subseteq Dbs \X Rights
    BY DEF RoleRecord
  <2>2. Revoked(x, dbs) = [x EXCEPT !.connect = c, !.rights = r]
    BY DEF Revoked
  <2> HIDE DEF c, r
  <2> QED BY <2>1, <2>2 DEF RoleRecord
<1>5. Dropped(x) \in RoleRecord
  BY Defaults DEF Dropped
<1>6. [x EXCEPT !.connect = dbs] \in RoleRecord
  BY DEF RoleRecord
<1> QED BY <1>1, <1>2, <1>3, <1>4, <1>5, <1>6

LEMMA ReconcileRole == ASSUME TypeInv, Reconcile PROVE RoleOK'
<1> DEFINE r == obj.spec.role
<1>1. /\ r \in Roles /\ role[r] \in RoleRecord /\ password \in Passwords \cup {NoPassword}
      /\ obj.spec.dbs \subseteq Dbs /\ obj.spec.rights \subseteq Rights
  BY ObjType DEF TypeInv, TypeOK
<1>2. CASE UNCHANGED role
  BY <1>2, Kept
<1>3. CASE AlterPassword
  <2>1. role' \in {role, [role EXCEPT ![r] = PasswordSet(role[r], password)]}
    BY <1>3 DEF AlterPassword
  <2> QED BY <1>1, <2>1, RoleTypes, OneRole
<1>4. CASE EnsureUser
  <2>1. \/ UNCHANGED role \/ role' = [role EXCEPT ![r] = PasswordSet(role[r], password)]
        \/ role' = [role EXCEPT ![r] = CreatedUser(password)]
    BY <1>4 DEF EnsureUser
  <2> QED BY <1>1, <1>2, <2>1, RoleTypes, OneRole
<1>5. CASE SyncDatabaseAccess
  <2>1. role[r].connect \cup obj.spec.dbs \subseteq Dbs
    BY <1>1 DEF RoleRecord
  <2>2. \E c \in SUBSET Dbs : role' = [role EXCEPT ![r].connect = c]
    BY <1>1, <1>5, <2>1 DEF SyncDatabaseAccess
  <2>3. PICK c \in SUBSET Dbs : role' = [role EXCEPT ![r] = [role[r] EXCEPT !.connect = c]]
    BY <2>2
  <2> QED BY <1>1, <2>3, RoleTypes, OneRole
<1>6. CASE ApplyPrivileges
  <2>1. PICK dbs \in SUBSET obj.spec.dbs :
          role' = [role EXCEPT ![r] = Granting(role[r], dbs, obj.spec.rights)]
    BY <1>6 DEF ApplyPrivileges
  <2> QED BY <1>1, <2>1, RoleTypes, OneRole
<1>7. CASE DropUser
  <2>1. DatabasesToRevoke \subseteq Dbs
    BY <1>1, ObjType DEF DatabasesToRevoke
  <2>2. \/ UNCHANGED role
        \/ \E dbs \in SUBSET Dbs : role' \in {[role EXCEPT ![r] = Revoked(role[r], dbs)],
                                              [role EXCEPT ![r] = Dropped(Revoked(role[r], dbs))]}
    BY <1>7, <2>1 DEF DropUser
  <2>3. \A dbs \in SUBSET Dbs : Revoked(role[r], dbs) \in RoleRecord /\ Dropped(Revoked(role[r], dbs)) \in RoleRecord
    BY <1>1, RoleTypes
  <2> HIDE DEF r
  <2> QED BY <1>2, <2>2, <2>3, OneRole DEF r
<1> QED BY <1>2, <1>3, <1>4, <1>5, <1>6, <1>7
        DEF Reconcile, AddFinalizer, FetchDatabases, ReadSecret, CreateSecret, WriteSecret,
            WriteDatabaseSecret, DeleteOldSecret, RemoveFinalizer, PatchStatus

LEMMA ReconcileType == ASSUME TypeInv, Reconcile PROVE TypeInv'
<1>1. WorkerOK'
  BY FetchType, ReadSecretType, SecretsType, RolesType, EndsType DEF Reconcile
<1>2. OutsideOK'
  BY ReconcileFrame, Kept, TypeParts
     DEF Reconcile, AddFinalizer, FetchDatabases, ReadSecret, AlterPassword, CreateSecret, WriteSecret,
         WriteDatabaseSecret, DeleteOldSecret, EnsureUser, SyncDatabaseAccess, ApplyPrivileges,
         DropUser, RemoveFinalizer, PatchStatus, outside, OutsideOK
<1> QED BY <1>1, <1>2, ReconcileFrame, ReconcileUser, ReconcileSecret, ReconcileRole, TypePartsNext

-----------------------------------------------------------------------------
(* The other actions                                                       *)

LEMMA InitType == Init => TypeInv
<1> SUFFICES ASSUME Init PROVE TypeInv
  OBVIOUS
<1>1. UserOK /\ CacheOK
  <2> DEFINE a == Absent(0)
  <2>1. a.gen \in Nat /\ a.gen <= 1 /\ a.del \in BOOLEAN
    <3>1. a \in UserRecord /\ a.gen <= 1
      BY Defaults, AbsentType
    <3> HIDE DEF a
    <3> QED BY <3>1, BoundAssumption DEF UserRecord
  <2>2. edits = 0 /\ \A u \in Users : user[u] = a
    BY DEF Init
  <2> HIDE DEF a
  <2>4. GenBound
    <3>1. a.gen <= 0 + (IF a.del THEN 2 ELSE 1)
      BY <2>1
    <3>2. \A u \in Users : user[u].gen <= edits + (IF user[u].del THEN 2 ELSE 1)
      BY <2>2, <3>1, Zenon
    <3> QED BY <3>2, Zenon DEF GenBound
  <2>3. user \in [Users -> UserRecord] /\ secret \in [Names -> SecretRecord] /\ lagging \in BOOLEAN
    BY Defaults, BoundAssumption DEF Init
  <2> QED BY <2>3, <2>4 DEF Init, UserOK, CacheOK
<1>2. SecretOK /\ RoleOK /\ OutsideOK /\ mixed \subseteq Users
  BY Defaults DEF Init, SecretOK, RoleOK, OutsideOK
<1>3. WorkerOK
  BY Defaults DEF Init, WorkerOK, ListsDbs, Listing, Steps, Plans
<1>4. CountOK
  BY BoundAssumption DEF Init, CountOK
<1> QED BY <1>1, <1>2, <1>3, <1>4, TypeParts

LEMMA FirstStepType ==
  \A o : FirstStep(o) \in {"idle", "unfinalize", "drop", "fetch", "finalizer"}
BY DEF FirstStep

LEMMA StartType == ASSUME TypeInv, NEW u \in Users, Start(u) PROVE TypeInv'
<1>1. pc' \in Steps /\ pc' \notin Listing
  BY FirstStepType DEF Start, Steps, Listing
<1>2. seenUser[u] \in UserRecord
  BY DEF TypeInv, TypeOK
<1>3. (pc' = "idle" /\ UNCHANGED <<cur, obj>>) \/ (cur' = u /\ obj' = seenUser[u])
  BY DEF Start
<1>4. queue' \subseteq Users /\ UNCHANGED <<later, work, to>>
  BY DEF Start, TypeInv, TypeOK
<1>5. WorkerOK'
  BY <1>1, <1>2, <1>3, <1>4 DEF TypeInv, TypeOK, WorkerOK, ListsDbs, work
<1> QED BY <1>5, Kept, TypePartsNext DEF Start, bounds

LEMMA ManagerType ==
  ASSUME TypeInv, SyncUsers \/ SyncSecrets \/ Restart \/ (\E u \in Users : Delayed(u)) PROVE TypeInv'
<1>1. CASE SyncUsers
  <2>1. CacheOK' /\ WorkerOK'
    BY <1>1 DEF SyncUsers, TypeInv, TypeOK, CacheOK, WorkerOK, ListsDbs, local, work
  <2> QED BY <1>1, <2>1, Kept, TypePartsNext DEF SyncUsers, bounds
<1>2. CASE SyncSecrets
  <2>1. \A n \in Names : seenSecret[n].owner \in Users \cup {NoUser} /\ secret[n].owner \in Users \cup {NoUser}
    BY DEF TypeInv, TypeOK, SecretRecord
  <2>2. CacheOK'
    BY <1>2 DEF SyncSecrets, TypeInv, TypeOK, CacheOK
  <2>3. queue' \subseteq Users
    BY <1>2, <2>1 DEF SyncSecrets, TypeInv, TypeOK
  <2>4. WorkerOK'
    BY <1>2, <2>3 DEF SyncSecrets, TypeInv, TypeOK, WorkerOK, ListsDbs, local, work
  <2> QED BY <1>2, <2>2, <2>4, Kept, TypePartsNext DEF SyncSecrets, bounds
<1>3. CASE Restart
  <2>1. CacheOK'
    BY <1>3 DEF Restart, TypeInv, TypeOK, CacheOK
  <2>2. WorkerOK'
    BY <1>3, Defaults DEF Restart, Reset, ResetWork, WorkerOK, ListsDbs, Listing, Steps, Plans
  <2>3. CountOK'
    BY <1>3, BoundAssumption, TypeParts DEF Restart, CountOK
  <2> QED BY <1>3, <2>1, <2>2, <2>3, Kept, TypePartsNext DEF Restart
<1>4. CASE \E u \in Users : Delayed(u)
  <2>1. WorkerOK'
    BY <1>4 DEF Delayed, TypeInv, TypeOK, WorkerOK, ListsDbs, local, work
  <2> QED BY <1>4, <2>1, Kept, TypePartsNext DEF Delayed, bounds
<1> QED BY <1>1, <1>2, <1>3, <1>4

LEMMA MixType == ASSUME TypeInv, NEW u \in Users, NEW s PROVE Mix(u, s) \subseteq Users
BY DEF Mix, SharesRole, TypeInv, TypeOK

LEMMA PeopleType ==
  ASSUME TypeInv, NEW u \in Users, CreateResource(u) \/ EditResource(u) \/ DeleteResource(u) PROVE TypeInv'
<1>1. user \in [Users -> UserRecord] /\ user[u] \in UserRecord /\ GenBound /\ edits \in 0..MaxEdits
  BY DEF TypeInv, TypeOK
<1>2. /\ user[u].uid \in 0..MaxUid /\ user[u].gen \in 0..(MaxEdits + 2) /\ user[u].del \in BOOLEAN
      /\ user[u].gen <= edits + (IF user[u].del THEN 2 ELSE 1)
  BY <1>1 DEF UserRecord, GenBound
<1>3. CASE CreateResource(u)
  <2> PICK s \in Specs : user' = [user EXCEPT ![u] = NewUser(TRUE, user[u].uid + 1, s)] /\ mixed' = Mix(u, s)
    BY <1>3 DEF CreateResource
  <2>1. user[u].uid + 1 \in 0..MaxUid
    BY <1>2, <1>3, BoundAssumption DEF CreateResource
  <2>2. UserOK'
    BY <1>1, <1>3, <2>1, FreshType, OneUser DEF CreateResource, bounds
  <2> QED BY <1>3, <2>2, MixType, Kept, TypePartsNext DEF CreateResource, bounds
<1>4. CASE EditResource(u)
  <2>0. \E s \in Specs :
          /\ user' = [user EXCEPT ![u] = [user[u] EXCEPT !.spec = s, !.gen = user[u].gen + 1]]
          /\ \E own \in SUBSET {u} : mixed' = Mix(u, s) \cup own
    <3> PICK s \in Specs \ {user[u].spec} :
          /\ user' = [user EXCEPT ![u] = [user[u] EXCEPT !.spec = s, !.gen = user[u].gen + 1]]
          /\ mixed' = Mix(u, s) \cup
               (IF <<s.role, s.template>> = <<user[u].spec.role, user[u].spec.template>> THEN {} ELSE {u})
      BY <1>4, Zenon DEF EditResource
    <3> QED OBVIOUS
  <2> PICK s \in Specs :
        /\ user' = [user EXCEPT ![u] = [user[u] EXCEPT !.spec = s, !.gen = user[u].gen + 1]]
        /\ \E own \in SUBSET {u} : mixed' = Mix(u, s) \cup own
    BY <2>0
  <2>11. edits < MaxEdits /\ edits' = edits + 1
    BY <1>4, Zenon DEF EditResource
  <2>1. edits' = edits + 1 /\ edits' \in 0..MaxEdits
    BY <1>1, <2>11, BoundAssumption
  <2> DEFINE e == [user[u] EXCEPT !.spec = s, !.gen = user[u].gen + 1]
  <2>2. user[u].gen + 1 \in 0..(MaxEdits + 2) /\ s \in UserSpec
    BY <1>1, <1>2, <2>1, SpecType, BoundAssumption
  <2>3. e \in UserRecord /\ e.gen = user[u].gen + 1 /\ e.del = user[u].del
    BY <1>1, <2>2 DEF UserRecord
  <2>4. user' = [user EXCEPT ![u] = e]
    OBVIOUS
  <2> HIDE DEF e
  <2>5. \A v \in Users : user'[v] = IF v = u THEN e ELSE user[v]
    BY <1>1, <2>4
  <2>6. \A v \in Users : user[v].gen \in Nat
    BY <1>1 DEF UserRecord
  <2>7. GenBound'
    BY <1>1, <1>2, <2>1, <2>3, <2>5, <2>6 DEF GenBound
  <2>8. UserOK'
    BY <1>1, <2>3, <2>4, <2>7 DEF UserOK
  <2>9. CountOK'
    BY <1>4, <2>1, TypeParts DEF EditResource, CountOK
  <2>10. mixed' \subseteq Users
    BY MixType
  <2> QED BY <1>4, <2>8, <2>9, <2>10, Kept, TypePartsNext DEF EditResource
<1>5. CASE DeleteResource(u)
  <2> DEFINE e == [user[u] EXCEPT !.del = TRUE, !.gen = user[u].gen + 1]
  <2>1. user[u].gen + 1 \in 0..(MaxEdits + 2)
    BY <1>1, <1>2, <1>5, BoundAssumption DEF DeleteResource
  <2>2. e \in UserRecord /\ e.gen = user[u].gen + 1 /\ e.del
    BY <1>1, <2>1 DEF UserRecord
  <2>3. user' = [user EXCEPT ![u] = e] \/ user' = [user EXCEPT ![u] = Absent(user[u].uid)]
    <3>1. user' = [user EXCEPT ![u] = IF user[u].fin THEN e ELSE Absent(user[u].uid)]
      BY <1>5, Zenon DEF DeleteResource
    <3> HIDE DEF e
    <3> QED BY <3>1
  <2> HIDE DEF e
  <2>4. ~user[u].del /\ UNCHANGED edits
    BY <1>5, Zenon DEF DeleteResource, bounds
  <2>5. UserOK'
    <3>1. CASE user' = [user EXCEPT ![u] = e]
      <4>1. \A v \in Users : user'[v] = IF v = u THEN e ELSE user[v]
        BY <1>1, <3>1
      <4>2. \A v \in Users : user[v].gen \in 0..(MaxEdits + 2)
        BY <1>1 DEF UserRecord
      <4>3. user[u].gen <= edits + 1
        BY <1>2, <2>4
      <4>4. GenBound'
        BY <1>1, <2>2, <2>4, <4>1, <4>2, <4>3, BoundAssumption DEF GenBound
      <4> QED BY <1>1, <2>2, <3>1, <4>4 DEF UserOK
    <3>2. CASE user' = [user EXCEPT ![u] = Absent(user[u].uid)]
      <4>1. Absent(user[u].uid) \in UserRecord /\ Absent(user[u].uid).gen <= 1
        BY <1>2, AbsentType
      <4> QED BY <2>4, <3>2, <4>1, OneUser
    <3> QED BY <2>3, <3>1, <3>2
  <2> QED BY <1>5, <2>5, Kept, TypePartsNext DEF DeleteResource, bounds
<1> QED BY <1>3, <1>4, <1>5

LEMMA WorldType ==
  ASSUME TypeInv,
         \/ \E n \in SecretNames : Meddle(n)
         \/ CollectGarbage \/ ComeAndGo \/ ComeBack \/ (\E u \in Users : PasswordAges(u))
  PROVE  TypeInv'
<1>1. CASE \E n \in SecretNames : Meddle(n)
  <2> PICK n \in SecretNames : Meddle(n)
    BY <1>1
  <2>1. SecretOK'
    BY Defaults, OneSecret DEF Meddle, Names
  <2>2. CountOK'
    BY BoundAssumption, TypeParts DEF Meddle, CountOK
  <2> QED BY <2>1, <2>2, Kept, TypePartsNext DEF Meddle
<1>2. CASE CollectGarbage
  <2>1. SecretOK'
    BY <1>2, Defaults, OneSecret DEF CollectGarbage
  <2> QED BY <1>2, <2>1, Kept, TypePartsNext DEF CollectGarbage, bounds
<1>3. CASE ComeAndGo
  <2>1. OutsideOK'
    BY <1>3 DEF ComeAndGo, TypeInv, TypeOK, OutsideOK
  <2>2. CountOK'
    BY <1>3, BoundAssumption, TypeParts DEF ComeAndGo, CountOK
  <2> QED BY <1>3, <2>1, <2>2, Kept, TypePartsNext DEF ComeAndGo
<1>4. CASE ComeBack
  <2>1. OutsideOK'
    BY <1>4 DEF ComeBack, TypeInv, TypeOK, OutsideOK
  <2> QED BY <1>4, <2>1, Kept, TypePartsNext DEF ComeBack, bounds
<1>5. CASE \E u \in Users : PasswordAges(u)
  <2>1. OutsideOK'
    BY <1>5 DEF PasswordAges, TypeInv, TypeOK, OutsideOK
  <2> QED BY <1>5, <2>1, Kept, TypePartsNext DEF PasswordAges, bounds
<1> QED BY <1>1, <1>2, <1>3, <1>4, <1>5

LEMMA TypeStep == ASSUME TypeInv, [Next]_vars PROVE TypeInv'
<1>1. CASE UNCHANGED vars
  BY <1>1, Kept, TypePartsNext DEF vars, bounds
<1> QED BY <1>1, StartType, ReconcileType, ManagerType, PeopleType, WorldType DEF Next, People

LEMMA TypeInvariant == Spec => []TypeInv
<1>1. TypeInv /\ [Next]_vars => TypeInv'
  BY TypeStep
<1> QED BY <1>1, InitType, PTL DEF Spec

\* The DatabaseUser controller and everything it reads and writes keep their types, for any
\* number of users, edits, faults and restarts.
THEOREM TypeCorrect == Spec => []TypeOK
<1>1. TypeInv => TypeOK
  BY DEF TypeInv
<1> QED BY <1>1, TypeInvariant, PTL

-----------------------------------------------------------------------------
(* What the worker makes of a Secret                                       *)

\* What the worker makes of a Secret it read was decided for that copy and that user: a copy
\* to update or rotate is the user's own, one to take over is taken on the spec's word, and
\* a Secret to create does not get to the Update.
Takes == obj.spec.onConflict \in {"Adopt", "Merge"}
PlanInv ==
  /\ DOMAIN secret = Names
  /\ pc \in {"alter", "write"} =>
       /\ plan \in {"update", "rotate"} => OwnedBy(held, cur, obj.uid)
       /\ plan \in {"adopt", "merge"} => Takes
       /\ plan \in {"create", "update", "rotate", "adopt", "merge"}
  /\ pc = "write" => plan # "create"

-----------------------------------------------------------------------------
(* The plan is decided in ReadSecret and stays                              *)

LEMMA InitPlan == Init => PlanInv
BY DEF Init, PlanInv

\* Only AlterPassword, WriteSecret and ReadSecret lead to, or stay at, the steps in question.
Elsewhere == pc' \notin {"alter", "write"}
LEMMA ElsewhereKeeps ==
  ASSUME PlanInv, Elsewhere, DOMAIN secret' = DOMAIN secret
  PROVE  PlanInv'
BY DEF PlanInv, Elsewhere

LEMMA WorkerKeeps == ASSUME PlanInv, UNCHANGED local, DOMAIN secret' = DOMAIN secret PROVE PlanInv'
BY DEF PlanInv, local, work, Takes, OwnedBy

LEMMA FirstSteps == ASSUME NEW o PROVE FirstStep(o) \notin {"alter", "write"}
BY DEF FirstStep

\* How an action of the worker ends when it goes neither to AlterPassword nor to WriteSecret.
LEMMA Endings ==
  /\ Retry => Elsewhere
  /\ \A requeue \in BOOLEAN : Return(requeue) => Elsewhere
  /\ \A update : Patch(update) => Elsewhere
  /\ FailSecret => Elsewhere
BY DEF Retry, Return, Reset, Patch, FailSecret, Elsewhere

LEMMA ReadSecretPlan == ASSUME PlanInv, ReadSecret PROVE PlanInv'
<1> DEFINE s == seenSecret[obj.spec.secret]
<1>1. DOMAIN secret' = Names /\ UNCHANGED secret
  BY DEF ReadSecret, PlanInv
<1>2. CASE SecretMissing
  BY <1>1, <1>2 DEF SecretMissing, Take, WriteStep, PlanInv
<1>3. CASE SecretOwned(s)
  BY <1>1, <1>3 DEF SecretOwned, Take, PlanInv, OwnedBy
<1>4. CASE SecretForeign(s)
  <2>1. CASE obj.spec.onConflict = "Adopt"
    BY <1>1, <1>4, <2>1 DEF SecretForeign, Take, PlanInv, Takes
  <2>2. CASE obj.spec.onConflict = "Merge"
    BY <1>1, <1>4, <2>2 DEF SecretForeign, Take, PlanInv, Takes
  <2>3. CASE ~Takes
    BY <1>1, <1>4, <2>3 DEF SecretForeign, Patch, PlanInv, Takes
  <2> QED BY <2>1, <2>2, <2>3 DEF Takes
<1> QED BY <1>2, <1>3, <1>4 DEF ReadSecret

LEMMA AlterPlan == ASSUME PlanInv, AlterPassword PROVE PlanInv'
<1>1. pc = "alter" /\ UNCHANGED secret
  BY DEF AlterPassword
<1>2. CASE Goto(WriteStep(plan))
  BY <1>1, <1>2 DEF Goto, WriteStep, PlanInv, work, Takes, OwnedBy
<1>3. CASE FailSecret
  BY <1>1, <1>3, Endings, ElsewhereKeeps
<1> QED BY <1>2, <1>3 DEF AlterPassword

\* The other actions that write a Secret.
LEMMA WritersPlan ==
  ASSUME PlanInv, CreateSecret \/ WriteSecret \/ WriteDatabaseSecret \/ DeleteOldSecret
  PROVE  PlanInv'
<1>1. CASE CreateSecret
  BY <1>1, Endings, ElsewhereKeeps DEF CreateSecret, Goto, Elsewhere
<1>2. CASE WriteSecret
  BY <1>2, Endings, ElsewhereKeeps DEF WriteSecret, Goto, Elsewhere
<1>3. CASE WriteDatabaseSecret
  BY <1>3, Endings, ElsewhereKeeps DEF WriteDatabaseSecret, Elsewhere
<1>4. CASE DeleteOldSecret
  BY <1>4, ElsewhereKeeps DEF DeleteOldSecret, Goto, Elsewhere
<1> QED BY <1>1, <1>2, <1>3, <1>4

\* The actions of a reconciliation that leave the Secrets alone.
LEMMA QuietPlan ==
  ASSUME PlanInv,
         \/ AddFinalizer \/ FetchDatabases \/ EnsureUser \/ SyncDatabaseAccess
         \/ ApplyPrivileges \/ DropUser \/ RemoveFinalizer \/ PatchStatus
  PROVE  PlanInv' /\ UNCHANGED secret
<1>1. CASE AddFinalizer
  BY <1>1, Endings, ElsewhereKeeps DEF AddFinalizer
<1>2. CASE FetchDatabases
  BY <1>2, Endings, ElsewhereKeeps DEF FetchDatabases, Goto, Elsewhere
<1>3. CASE EnsureUser
  BY <1>3, Endings, ElsewhereKeeps DEF EnsureUser, Goto, Elsewhere
<1>4. CASE SyncDatabaseAccess
  BY <1>4, Endings, ElsewhereKeeps DEF SyncDatabaseAccess, Goto, Elsewhere
<1>5. CASE ApplyPrivileges
  BY <1>5, Endings, ElsewhereKeeps DEF ApplyPrivileges
<1>6. CASE DropUser
  BY <1>6, ElsewhereKeeps DEF DropUser, Goto, Elsewhere
<1>7. CASE RemoveFinalizer
  BY <1>7, Endings, ElsewhereKeeps DEF RemoveFinalizer
<1>8. CASE PatchStatus
  BY <1>8, ElsewhereKeeps DEF PatchStatus, Retry, Return, Reset, Elsewhere
<1> QED BY <1>1, <1>2, <1>3, <1>4, <1>5, <1>6, <1>7, <1>8

LEMMA StartPlan == ASSUME PlanInv, NEW u \in Users, Start(u) PROVE PlanInv' /\ UNCHANGED secret
BY FirstSteps, ElsewhereKeeps DEF Start, Elsewhere

LEMMA RestartPlan == ASSUME PlanInv, Restart PROVE PlanInv' /\ UNCHANGED secret
BY ElsewhereKeeps DEF Restart, Reset, Elsewhere

\* What others do, and the watches.
Surroundings ==
  \/ \E u \in Users : Delayed(u) \/ PasswordAges(u)
  \/ SyncUsers \/ SyncSecrets \/ People \/ CollectGarbage \/ ComeAndGo \/ ComeBack
LEMMA SurroundingsPlan == ASSUME PlanInv, Surroundings PROVE PlanInv' /\ UNCHANGED local
<1>1. UNCHANGED local
  BY DEF Surroundings, Delayed, PasswordAges, SyncUsers, SyncSecrets, People, CreateResource, EditResource,
         DeleteResource, Meddle, CollectGarbage, ComeAndGo, ComeBack
<1>2. DOMAIN secret' = DOMAIN secret
  BY DEF Surroundings, Delayed, PasswordAges, SyncUsers, SyncSecrets, People, CreateResource, EditResource,
         DeleteResource, Meddle, CollectGarbage, ComeAndGo, ComeBack
<1> QED BY <1>1, <1>2, WorkerKeeps

LEMMA PlanStep == ASSUME PlanInv, [Next]_vars PROVE PlanInv'
<1>1. ASSUME NEW u \in Users, Start(u) PROVE PlanInv'
  BY <1>1, StartPlan
<1>2. CASE Reconcile
  BY <1>2, ReadSecretPlan, AlterPlan, WritersPlan, QuietPlan DEF Reconcile
<1>3. CASE Restart
  BY <1>3, RestartPlan
<1>4. CASE Surroundings
  BY <1>4, SurroundingsPlan
<1>5. CASE UNCHANGED vars
  BY <1>5, WorkerKeeps DEF vars
<1> QED BY <1>1, <1>2, <1>3, <1>4, <1>5 DEF Next, Surroundings

-----------------------------------------------------------------------------
(* The Secrets of others                                                   *)

Unasked(n) == ~OwnedBy(secret[n], cur, obj.uid) /\ ~(Takes /\ n = obj.spec.secret)
Known(n) == secret[n].exists /\ seenSecret[n] = secret[n]

\* Each action of the worker leaves a Secret alone that is none of its business.
LEMMA WritersKeep ==
  ASSUME TypeInv, PlanInv, NEW n \in SecretNames, Known(n), Unasked(n),
         CreateSecret \/ WriteSecret \/ WriteDatabaseSecret \/ DeleteOldSecret
  PROVE  secret'[n] = secret[n]
<1>1. n \in DOMAIN secret
  BY DEF PlanInv, Names
<1>2. CASE CreateSecret
  <2>1. n # obj.spec.secret \/ UNCHANGED secret
    BY <1>2 DEF CreateSecret, Known
  <2> QED BY <1>1, <1>2, <2>1 DEF CreateSecret
<1>3. CASE WriteSecret
  <2>1. secret[obj.spec.secret] = held \/ UNCHANGED secret
    BY <1>3 DEF WriteSecret
  <2>2. OwnedBy(held, cur, obj.uid) \/ Takes
    BY <1>3 DEF WriteSecret, PlanInv
  <2>3. n # obj.spec.secret \/ UNCHANGED secret
    BY <2>1, <2>2 DEF Unasked
  <2> QED BY <1>1, <1>3, <2>3 DEF WriteSecret
<1>4. CASE WriteDatabaseSecret
  <2>1. PICK d \in rest :
          UNCHANGED secret \/ \E s : secret' \in {secret, [secret EXCEPT ![<<cur, d>>] = s]}
    BY <1>4 DEF WriteDatabaseSecret
  <2>2. n # <<cur, d>>
    BY <1>4, NamesAssumption DEF WriteDatabaseSecret, TypeInv, TypeOK
  <2> QED BY <1>1, <2>1, <2>2
<1>5. CASE DeleteOldSecret
  <2>1. UNCHANGED secret \/ n # obj.secretName
    BY <1>5 DEF DeleteOldSecret, Known, Unasked
  <2> QED BY <1>1, <1>5, <2>1 DEF DeleteOldSecret
<1> QED BY <1>2, <1>3, <1>4, <1>5

LEMMA ForeignStep ==
  ASSUME TypeInv, PlanInv, [Next]_vars, NEW n \in SecretNames, Known(n), local' # local, secret'[n] # secret[n]
  PROVE  ~Unasked(n)
<1>1. CASE \E u \in Users : Start(u)
  BY <1>1, StartPlan
<1>2. CASE Reconcile
  BY <1>2, WritersKeep, QuietPlan DEF Reconcile, ReadSecret, AlterPassword
<1>3. CASE Restart
  BY <1>3, RestartPlan
<1>4. CASE Surroundings
  BY <1>4, SurroundingsPlan
<1>5. CASE UNCHANGED vars
  BY <1>5 DEF vars
<1> QED BY <1>1, <1>2, <1>3, <1>4, <1>5 DEF Next, Surroundings

\* No reconciliation changes or deletes a Secret that is another's, unless the spec says
\* Adopt or Merge: neither under the name of its spec nor under that of its status.
THEOREM ForeignKept == Spec => ForeignSecretKept
<1>1. PlanInv /\ [Next]_vars => PlanInv'
  BY PlanStep
<1>2. TypeInv /\ PlanInv /\ [Next]_vars =>
        [\A n \in SecretNames :
           (secret[n].exists /\ secret'[n] # secret[n] /\ local' # local /\ seenSecret[n] = secret[n])
             => \/ OwnedBy(secret[n], cur, obj.uid)
                \/ obj.spec.onConflict \in {"Adopt", "Merge"} /\ n = obj.spec.secret]_vars
  BY ForeignStep DEF Known, Unasked, Takes
<1> QED BY <1>1, <1>2, InitPlan, TypeInvariant, PTL DEF Spec, ForeignSecretKept

=============================================================================
