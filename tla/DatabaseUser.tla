---------------------------- MODULE DatabaseUser ----------------------------
(***************************************************************************)
(* The DatabaseUser controller (controllers/databaseuser_controller.go)    *)
(* and the PostgreSQL statements it runs (the user management methods of   *)
(* pkg/postgres/client.go).                                                *)
(*                                                                         *)
(* The password of a user lives in two places no transaction spans: the    *)
(* PostgreSQL role and a Kubernetes Secret.  The controller has one        *)
(* worker; each of its API calls and each method of the PostgreSQL client  *)
(* is one action, between which users edit and delete DatabaseUsers and    *)
(* Secrets, databases and the DBCluster come and go, passwords grow old    *)
(* and the operator restarts.                                              *)
(***************************************************************************)
EXTENDS Naturals

CONSTANTS
  Users,        \* names of DatabaseUser objects, all of one namespace
  Roles,        \* PostgreSQL role names
  Dbs,          \* databases, each a Database object of the one DBCluster
  SecretNames,  \* names of Secrets a spec may give
  Templates,    \* key templates of Secrets, with disjoint keys
  Passwords,    \* what GeneratePassword returns
  Specs,        \* the specs users write
  Lags,         \* which caches are considered: current when read (FALSE) or late (TRUE)
  NoUser, NoRole, NoSecret, NoPassword,
  MaxUid,       \* bound: incarnations of one DatabaseUser name
  MaxEdits,     \* bound: changes users make to specs
  MaxMeddles,   \* bound: Secrets that others create or delete
  MaxFaults,    \* bound: API calls and statements that fail
  MaxCrashes,   \* bound: restarts of the operator
  MaxOutages,   \* bound: times a database or the DBCluster goes away
  MaxTroubles   \* bound: all of these together

Rights == {"select", "write"}

\* DatabaseUserSpec.  dbs are the databases listed, whose order is abstracted, {} in a spec
\* that validateSpec refuses; rights what the presets stand for; rotate that rotation is set.
UserSpec ==
  [role : Roles, dbs : SUBSET Dbs, rights : SUBSET Rights, secret : SecretNames,
   template : Templates, onConflict : {"Fail", "Adopt", "Merge"},
   generation : {"primary", "perDatabase"}, policy : {"Delete", "Retain"}, rotate : BOOLEAN]

ASSUME NamesAssumption ==
  /\ NoUser \notin Users /\ NoRole \notin Roles /\ NoPassword \notin Passwords
  /\ NoSecret \notin SecretNames \cup (Users \X Dbs)
  /\ SecretNames \cap (Users \X Dbs) = {}   \* no spec gives a name getSecretNameForDatabase makes
  /\ Specs \subseteq UserSpec /\ Specs # {}
ASSUME BoundAssumption ==
  /\ Lags \subseteq BOOLEAN
  /\ MaxTroubles \in Nat /\ MaxUid \in Nat /\ MaxEdits \in Nat /\ MaxMeddles \in Nat
  /\ MaxFaults \in Nat /\ MaxCrashes \in Nat /\ MaxOutages \in Nat

VARIABLES
  lagging,    \* may the informer caches trail the API server when they are read?
  user,       \* the DatabaseUser objects in the API server
  secret,     \* the Secrets in the API server
  seenUser,   \* the informer cache of DatabaseUsers
  seenSecret, \* the informer cache of Secrets
  role,       \* the PostgreSQL roles
  ready,      \* the databases whose Database is Ready, as the cache shows them
  cluster,    \* the DBCluster, as the cache shows it
  aged,       \* users whose passwordUpdatedAt is older than rotation.days
  queue,      \* the controller's work queue
  later,      \* keys added after a delay
  pc,         \* the next call of the worker, "idle" between reconciliations
  cur,        \* req.NamespacedName
  obj,        \* the local copy of the DatabaseUser
  held,       \* the local copy of the Secret
  plan,       \* what ensureSecrets does
  password,   \* the password it returns
  rest,       \* databases whose Secret is still to be written
  to,         \* the status about to be patched
  mixed,      \* history: users whose role or template changed or whose role another uses
  edits, meddles, faults, crashes, outages

caches == <<lagging, seenUser, seenSecret>>
work == <<held, plan, password, rest>>
local == <<pc, cur, obj, work, to>>
outside == <<ready, cluster, aged>>
bounds == <<edits, meddles, faults, crashes, outages>>
others == <<edits, meddles, crashes, outages>>
vars == <<user, secret, caches, role, outside, queue, later, local, mixed, bounds>>

Names == SecretNames \cup (Users \X Dbs)   \* those of getSecretNameForDatabase are pairs
Phases == {"", "Pending", "Ready", "Failed"}
Reasons == {"", "spec", "waiting", "connection", "secret", "role", "access", "done"}

\* reason stands for the message; hasCluster says that status.clusterName is set, dated
\* that status.passwordUpdatedAt is; granted are the databases of the status.
UserRecord ==
  [exists : BOOLEAN, uid : 0..MaxUid, fin : BOOLEAN, del : BOOLEAN,
   gen : 0..(MaxEdits + 2), spec : UserSpec, phase : Phases, reason : Reasons,
   observed : 0..(MaxEdits + 2), hasCluster : BOOLEAN, granted : SUBSET Dbs,
   secretName : Names \cup {NoSecret}, dated : BOOLEAN]

NewUser(e, u, s) ==
  [exists |-> e, uid |-> u, fin |-> FALSE, del |-> FALSE, gen |-> IF e THEN 1 ELSE 0,
   spec |-> s, phase |-> "", reason |-> "", observed |-> 0, hasCluster |-> FALSE,
   granted |-> {}, secretName |-> NoSecret, dated |-> FALSE]
AnySpec == CHOOSE s \in Specs : TRUE
Absent(u) == NewUser(FALSE, u, AnySpec)

\* What a Secret says under the keys of one template.
Entry == [role : Roles \cup {NoRole}, dbs : SUBSET Dbs, password : Passwords \cup {NoPassword}]
NoEntry == [role |-> NoRole, dbs |-> {}, password |-> NoPassword]

SecretRecord ==
  [exists : BOOLEAN, owner : Users \cup {NoUser}, uid : 0..MaxUid,
   data : [Templates -> Entry]]
EmptyData == [t \in Templates |-> NoEntry]
NoSuchSecret == [exists |-> FALSE, owner |-> NoUser, uid |-> 0, data |-> EmptyData]
ForeignSecret == [NoSuchSecret EXCEPT !.exists = TRUE]

\* connect are the databases the role was granted CONNECT on, rights its privileges in
\* them and the default privileges granted to it.
RoleRecord ==
  [exists : BOOLEAN, password : Passwords \cup {NoPassword}, connect : SUBSET Dbs,
   rights : SUBSET (Dbs \X Rights)]
NoSuchRole == [exists |-> FALSE, password |-> NoPassword, connect |-> {}, rights |-> {}]

Steps == {"idle", "finalizer", "fetch", "secret", "alter", "create", "write", "perDatabase",
          "old", "role", "access", "grant", "drop", "unfinalize", "patch"}
Plans == {"none", "read", "update", "create", "rotate", "adopt", "merge"}

\* statusUpdate: base says that clusterName and username are given, dated PasswordUpdated.
Target == [phase : Phases, reason : Reasons, base : BOOLEAN, granted : SUBSET Dbs,
           secretName : Names \cup {NoSecret}, dated : BOOLEAN, requeue : BOOLEAN]
NoTarget == [phase |-> "", reason |-> "", base |-> FALSE, granted |-> {},
             secretName |-> NoSecret, dated |-> FALSE, requeue |-> FALSE]

TypeOK ==
  /\ lagging \in BOOLEAN
  /\ user \in [Users -> UserRecord] /\ seenUser \in [Users -> UserRecord]
  /\ secret \in [Names -> SecretRecord] /\ seenSecret \in [Names -> SecretRecord]
  /\ role \in [Roles -> RoleRecord]
  /\ ready \subseteq Dbs /\ cluster \in {"absent", "waiting", "connected"}
  /\ aged \subseteq Users
  /\ queue \subseteq Users /\ later \subseteq Users
  /\ pc \in Steps /\ cur \in Users \cup {NoUser} /\ (pc # "idle" => cur \in Users)
  /\ obj \in UserRecord /\ held \in SecretRecord /\ plan \in Plans
  /\ password \in Passwords \cup {NoPassword} /\ rest \subseteq Dbs
  /\ to \in Target /\ mixed \subseteq Users
  /\ edits \in 0..MaxEdits /\ meddles \in 0..MaxMeddles /\ faults \in 0..MaxFaults
  /\ crashes \in 0..MaxCrashes /\ outages \in 0..MaxOutages

-----------------------------------------------------------------------------
(* What the methods of the PostgreSQL client make of a role                *)

CreatedUser(p) == [NoSuchRole EXCEPT !.exists = TRUE, !.password = p]
PasswordSet(x, p) == [x EXCEPT !.password = p]

\* ApplyPrivileges: the grants on the schema are made anew, those on tables, and the default
\* privileges, only added to.
Granting(x, dbs, rights) == [x EXCEPT !.rights = @ \cup (dbs \X rights)]

\* RevokePrivilegesInDatabase
Revoked(x, dbs) == [x EXCEPT !.connect = @ \ dbs, !.rights = @ \ (dbs \X Rights)]

\* DROP USER fails while the role is granted anything in a database.
Dropped(x) == IF x.connect = {} /\ x.rights = {} THEN NoSuchRole ELSE x

-----------------------------------------------------------------------------
(* How a reconciliation ends and how it goes on                            *)

MayRead == lagging \/ (seenUser = user /\ seenSecret = secret)

MoreTrouble == edits + meddles + faults + crashes + outages < MaxTroubles

Fault == MoreTrouble /\ faults < MaxFaults /\ faults' = faults + 1

ResetWork == held' = NoSuchSecret /\ plan' = "none" /\ password' = NoPassword /\ rest' = {}

Reset ==
  /\ pc' = "idle" /\ cur' = NoUser /\ obj' = Absent(0) /\ to' = NoTarget
  /\ ResetWork

\* An error is retried, the result of a reconciliation may ask for a delay.
Retry == queue' = queue \cup {cur} /\ Reset /\ UNCHANGED later
Return(requeue) ==
  /\ later' = IF requeue THEN later \cup {cur} ELSE later
  /\ Reset /\ UNCHANGED queue

Goto(step) == pc' = step /\ UNCHANGED <<queue, later, cur, obj, work, to>>

Patch(update) == pc' = "patch" /\ to' = update /\ UNCHANGED <<queue, later, cur, obj, work>>

Failed(reason) == [NoTarget EXCEPT !.phase = "Failed", !.reason = reason]

\* the baseStatus of reconcileUser
FailedWithBase(reason, name) ==
  [Failed(reason) EXCEPT !.base = TRUE, !.secretName = name]

-----------------------------------------------------------------------------
(* Reconcile                                                               *)

\* isSecretOwnedByUser
OwnedBy(s, u, id) == s.exists /\ s.owner = u /\ s.uid = id

FirstStep(o) ==
  IF ~o.exists THEN "idle"
  ELSE IF o.phase = "Ready" /\ o.observed = o.gen /\ seenSecret[o.spec.secret].exists THEN "idle"
  ELSE IF o.del THEN IF ~o.fin THEN "idle"
                     ELSE IF o.spec.policy = "Retain" THEN "unfinalize" ELSE "drop"
  ELSE IF o.fin THEN "fetch" ELSE "finalizer"

\* A worker takes a key off the queue and gets the object from the cache.
Start(u) ==
  /\ pc = "idle" /\ u \in queue /\ MayRead
  /\ queue' = queue \ {u}
  /\ pc' = FirstStep(seenUser[u])
  /\ IF FirstStep(seenUser[u]) = "idle" THEN UNCHANGED <<cur, obj>>
     ELSE cur' = u /\ obj' = seenUser[u]
  /\ UNCHANGED <<user, secret, caches, role, outside, later, work, to, mixed, bounds>>

\* ensureFinalizer: Update conflicts unless obj is the current version.
AddFinalizer ==
  /\ pc = "finalizer"
  /\ \/ /\ user[cur] = obj /\ user' = [user EXCEPT ![cur].fin = TRUE]
        /\ Return(FALSE) /\ UNCHANGED faults
     \/ user[cur] # obj /\ Retry /\ UNCHANGED <<user, faults>>
     \/ Fault /\ Retry /\ UNCHANGED user
  /\ UNCHANGED <<secret, caches, role, outside, mixed, others>>

\* mutation: nothing comes back to databases that are waited for
FetchDatabasesOnce ==
  /\ pc = "fetch"
  /\ IF obj.spec.dbs \subseteq ready /\ cluster = "connected" THEN Goto("secret")
     ELSE Patch([NoTarget EXCEPT !.phase = "Pending", !.reason = "waiting"])
  /\ UNCHANGED <<user, secret, caches, role, outside, mixed, bounds>>

\* validateSpec, validateAndFetchDatabases and getPostgresClient.  pendingSince is set on
\* the copy the patch is computed against, so it is never stored and no wait times out.
FetchDatabases ==
  /\ pc = "fetch"
  /\ LET valid == obj.spec.dbs # {}
         there == obj.spec.dbs \subseteq ready /\ cluster = "connected" IN
       \/ ~valid /\ Patch(Failed("spec")) /\ UNCHANGED faults
       \/ /\ valid /\ ~there /\ UNCHANGED faults
          /\ Patch([NoTarget EXCEPT !.phase = "Pending", !.reason = "waiting", !.requeue = TRUE])
       \/ valid /\ there /\ Goto("secret") /\ UNCHANGED faults
       \/ /\ valid /\ there /\ Fault
          /\ Patch([FailedWithBase("connection", NoSecret) EXCEPT !.requeue = TRUE])
  /\ UNCHANGED <<user, secret, caches, role, outside, mixed, others>>

-----------------------------------------------------------------------------
(* ensureSecrets                                                           *)

\* GeneratePassword: one that is in use nowhere.
Unused ==
  LET used == {role[r].password : r \in Roles} \cup {password}
              \cup {secret[n].data[t].password : n \in Names, t \in Templates}
              \cup {seenSecret[n].data[t].password : n \in Names, t \in Templates}
      free == Passwords \ used
  IN  {p \in free : p = CHOOSE q \in free : TRUE}

Take(step, how, copy) ==
  /\ pc' = step /\ plan' = how /\ held' = copy
  /\ rest' = IF obj.spec.generation = "perDatabase" /\ how \in {"create", "rotate"}
             THEN obj.spec.dbs ELSE {}
  /\ UNCHANGED <<queue, later, cur, obj, to>>

WriteStep(how) ==
  IF how \in {"create", "rotate"} /\ obj.spec.generation = "perDatabase" THEN "perDatabase"
  ELSE IF how = "create" THEN "create" ELSE "write"

\* The Secret of the spec's name is not there: a password is generated, set in PostgreSQL
\* first if the user was Ready.
SecretMissing ==
  /\ ~seenSecret[obj.spec.secret].exists
  /\ password' \in Unused
  /\ Take(IF obj.phase = "Ready" THEN "alter" ELSE WriteStep("create"), "create", NoSuchSecret)

MustRotate == obj.spec.rotate /\ obj.dated /\ cur \in aged

\* updateSecretDatabases compares the databases under the template's keys.
SecretOwned(s) ==
  /\ OwnedBy(s, cur, obj.uid)
  /\ \/ MustRotate /\ password' \in Unused /\ Take("alter", "rotate", s)
     \/ /\ ~MustRotate /\ password' = s.data[obj.spec.template].password
        /\ IF s.data[obj.spec.template].dbs = obj.spec.dbs THEN Take("old", "read", s)
           ELSE Take("write", "update", s)

\* mutation: onConflict is not asked for
SecretForeignTaken(s) ==
  /\ s.exists /\ ~OwnedBy(s, cur, obj.uid)
  /\ password' \in Unused /\ Take("write", "adopt", s)

\* adoptSecret and mergeSecret alter the role first.
SecretForeign(s) ==
  /\ s.exists /\ ~OwnedBy(s, cur, obj.uid)
  /\ CASE obj.spec.onConflict = "Adopt" -> password' \in Unused /\ Take("alter", "adopt", s)
       [] obj.spec.onConflict = "Merge" -> password' \in Unused /\ Take("alter", "merge", s)
       [] OTHER -> Patch(FailedWithBase("secret", NoSecret))

ReadSecret ==
  /\ pc = "secret"
  /\ LET s == seenSecret[obj.spec.secret] IN
       SecretMissing \/ SecretOwned(s) \/ SecretForeign(s)
  /\ UNCHANGED <<user, secret, caches, role, outside, mixed, bounds>>

FailSecret == Patch(FailedWithBase("secret", NoSecret))

\* SetPassword before the Secret is written; a statement that fails may have taken effect.
\* SetControllerReference then refuses a Secret with another controller.
AlterPassword ==
  /\ pc = "alter"
  /\ LET r == obj.spec.role
         altered == [role EXCEPT ![r] = PasswordSet(@, password)]
         refused == plan \in {"adopt", "merge"} /\ held.owner \notin {NoUser, cur} IN
       \/ /\ role[r].exists /\ role' = altered /\ UNCHANGED faults
          /\ IF refused THEN FailSecret ELSE Goto(WriteStep(plan))
       \/ ~role[r].exists /\ FailSecret /\ UNCHANGED <<role, faults>>
       \/ role[r].exists /\ Fault /\ role' \in {role, altered} /\ FailSecret
  /\ UNCHANGED <<user, secret, caches, outside, mixed, others>>

NewEntry(dbs) == [role |-> obj.spec.role, dbs |-> dbs, password |-> password]
DataFor(dbs) == [EmptyData EXCEPT ![obj.spec.template] = NewEntry(dbs)]
OwnSecret(data) == [exists |-> TRUE, owner |-> cur, uid |-> obj.uid, data |-> data]

\* createPrimarySecret
CreateSecret ==
  /\ pc = "create"
  /\ LET n == obj.spec.secret
         created == [secret EXCEPT ![n] = OwnSecret(DataFor(obj.spec.dbs))] IN
       \/ ~secret[n].exists /\ secret' = created /\ Goto("old") /\ UNCHANGED faults
       \/ secret[n].exists /\ FailSecret /\ UNCHANGED <<secret, faults>>
       \/ ~secret[n].exists /\ Fault /\ secret' \in {secret, created} /\ FailSecret
  /\ UNCHANGED <<user, caches, role, outside, mixed, others>>

\* What rotatePassword, adoptSecret, mergeSecret and updateSecretDatabases make of the copy
\* they read; the last one leaves the password as it is.
Written ==
  LET t == obj.spec.template
      e == NewEntry(obj.spec.dbs) IN
  CASE plan = "adopt" -> OwnSecret(DataFor(obj.spec.dbs))
    [] plan = "merge" -> OwnSecret([held.data EXCEPT ![t] = e])
    [] plan = "rotate" -> [held EXCEPT !.data = [held.data EXCEPT ![t] = e]]
    [] OTHER -> [held EXCEPT !.data = [held.data EXCEPT
                   ![t] = [e EXCEPT !.password = held.data[t].password]]]

\* Update of the copy read; only updateSecretDatabases' error is ignored.
WriteSecret ==
  /\ pc = "write"
  /\ LET n == obj.spec.secret
         written == [secret EXCEPT ![n] = Written]
         onError == IF plan = "update" THEN Goto("old") ELSE FailSecret IN
       \/ secret[n] = held /\ secret' = written /\ Goto("old") /\ UNCHANGED faults
       \/ secret[n] # held /\ onError /\ UNCHANGED <<secret, faults>>
       \/ secret[n] = held /\ Fault /\ secret' \in {secret, written} /\ onError
  /\ UNCHANGED <<user, caches, role, outside, mixed, others>>

\* mutation: a Secret that exists keeps its password
WriteNewDatabaseSecret ==
  /\ pc = "perDatabase"
  /\ \E d \in rest :
       LET n == <<cur, d>> IN
       /\ secret' = IF secret[n].exists THEN secret
                     ELSE [secret EXCEPT ![n] = OwnSecret(DataFor({d}))]
       /\ rest' = rest \ {d} /\ pc' = IF rest = {d} THEN "old" ELSE pc
  /\ UNCHANGED <<queue, later, cur, obj, held, plan, password, to>>
  /\ UNCHANGED <<user, caches, role, outside, mixed, bounds>>

\* createDatabaseSecret, for one database after the other: the Secret the cache shows is
\* updated, whoever owns it.  rotatePassword ignores its errors.
WriteDatabaseSecret ==
  /\ pc = "perDatabase"
  /\ \E d \in rest :
       LET n == <<cur, d>>
           s == IF seenSecret[n].exists
                THEN [seenSecret[n] EXCEPT !.data = DataFor({d})]
                ELSE OwnSecret(DataFor({d}))
           applied == [secret EXCEPT ![n] = s]
           possible == IF seenSecret[n].exists THEN secret[n] = seenSecret[n]
                       ELSE ~secret[n].exists
           goOn == /\ rest' = rest \ {d} /\ pc' = IF rest = {d} THEN "old" ELSE pc
                   /\ UNCHANGED <<queue, later, cur, obj, held, plan, password, to>>
           onError == IF plan = "rotate" THEN goOn ELSE FailSecret IN
       \/ possible /\ secret' = applied /\ goOn /\ UNCHANGED faults
       \/ ~possible /\ onError /\ UNCHANGED <<secret, faults>>
       \/ possible /\ Fault /\ secret' \in {secret, applied} /\ onError
  /\ UNCHANGED <<user, caches, role, outside, mixed, others>>

\* the name ensureSecrets returns; that of the first database in perDatabase mode
SecretUsed ==
  IF obj.spec.generation = "perDatabase" /\ plan \in {"create", "rotate"}
  THEN <<cur, CHOOSE d \in obj.spec.dbs : TRUE>> ELSE obj.spec.secret

\* deleteOldSecret: the cache says whose it is; an error is ignored.
DeleteOldSecret ==
  /\ pc = "old" /\ Goto("role")
  /\ LET o == obj.secretName
         due == o \notin {NoSecret, SecretUsed} /\ OwnedBy(seenSecret[o], cur, obj.uid) IN
       \/ due /\ secret' = [secret EXCEPT ![o] = NoSuchSecret] /\ UNCHANGED faults
       \/ ~due /\ UNCHANGED <<secret, faults>>
       \/ due /\ Fault /\ UNCHANGED secret
  /\ UNCHANGED <<user, caches, role, outside, mixed, others>>

-----------------------------------------------------------------------------
(* The role                                                                *)

\* mutation: a role that exists keeps its password
EnsureUserExists ==
  /\ pc = "role" /\ Goto("access")
  /\ role' = [role EXCEPT ![obj.spec.role] =
                IF @.exists THEN @ ELSE CreatedUser(password)]
  /\ UNCHANGED <<user, secret, caches, outside, mixed, bounds>>

\* ensureUserInPostgres: UserExists, then SetPassword or CreateUser
EnsureUser ==
  /\ pc = "role"
  /\ LET r == obj.spec.role
         ensured == [role EXCEPT ![r] =
                       IF @.exists THEN PasswordSet(@, password) ELSE CreatedUser(password)] IN
       \/ role' = ensured /\ Goto("access") /\ UNCHANGED faults
       \/ /\ Fault /\ role' \in {role, ensured}
          /\ Patch(FailedWithBase("role", SecretUsed))
  /\ UNCHANGED <<user, secret, caches, outside, mixed, others>>

\* mutation: nothing is revoked
GrantDatabaseAccess ==
  /\ pc = "access" /\ Goto("grant")
  /\ role' = [role EXCEPT ![obj.spec.role].connect = @ \cup obj.spec.dbs]
  /\ UNCHANGED <<user, secret, caches, outside, mixed, bounds>>

\* SyncDatabaseAccess: a REVOKE that fails is ignored, a GRANT that fails ends it.
SyncDatabaseAccess ==
  /\ pc = "access"
  /\ LET r == obj.spec.role
         dbs == obj.spec.dbs
         With(c) == [role EXCEPT ![r].connect = c] IN
       \/ role' = With(dbs) /\ Goto("grant") /\ UNCHANGED faults
       \/ Fault /\ role' = With(role[r].connect \cup dbs) /\ Goto("grant")
       \/ /\ Fault /\ \E g \in SUBSET dbs : role' = With(g)
          /\ Patch(FailedWithBase("access", SecretUsed))
  /\ UNCHANGED <<user, secret, caches, outside, mixed, others>>

\* calculateRequeueAfter
Done ==
  [phase |-> "Ready", reason |-> "done", base |-> TRUE, granted |-> obj.spec.dbs,
   secretName |-> SecretUsed, dated |-> plan \notin {"read", "update"},
   requeue |-> obj.spec.rotate /\ obj.dated]

\* ApplyPrivileges, database by database: one that fails is noted in its status and the
\* user is Ready all the same.
ApplyPrivileges ==
  /\ pc = "grant" /\ Patch(Done)
  /\ LET r == obj.spec.role
         With(dbs) == [role EXCEPT ![r] = Granting(@, dbs, obj.spec.rights)] IN
       \/ role' = With(obj.spec.dbs) /\ UNCHANGED faults
       \/ Fault /\ \E dbs \in SUBSET obj.spec.dbs : role' = With(dbs)
  /\ UNCHANGED <<user, secret, caches, outside, mixed, others>>

-----------------------------------------------------------------------------
(* handleDeletion and setStatus                                            *)

\* mutation: the databases are not looked for
NothingToRevoke == {}

\* getClusterAndDatabasesForDeletion
DatabasesToRevoke == IF obj.hasCluster THEN obj.granted ELSE obj.spec.dbs

\* dropUserFromPostgres: without a DBCluster nothing is done; every error is logged only.
DropUser ==
  /\ pc = "drop" /\ Goto("unfinalize")
  /\ LET r == obj.spec.role
         possible == cluster # "absent" /\ (obj.hasCluster \/ obj.spec.dbs # {}) IN
       \/ /\ possible /\ UNCHANGED faults
          /\ role' = [role EXCEPT ![r] = Dropped(Revoked(@, DatabasesToRevoke))]
       \/ ~possible /\ UNCHANGED <<role, faults>>
       \/ /\ possible /\ Fault
          /\ \E dbs \in SUBSET DatabasesToRevoke :
               role' \in {[role EXCEPT ![r] = Revoked(@, dbs)],
                          [role EXCEPT ![r] = Dropped(Revoked(@, dbs))]}
  /\ UNCHANGED <<user, secret, caches, outside, mixed, others>>

RemoveFinalizer ==
  /\ pc = "unfinalize"
  /\ \/ /\ user[cur] = obj
        /\ user' = [user EXCEPT ![cur] = Absent(@.uid)]
        /\ Return(FALSE) /\ UNCHANGED faults
     \/ user[cur] # obj /\ Retry /\ UNCHANGED <<user, faults>>
     \/ Fault /\ Retry /\ UNCHANGED user
  /\ UNCHANGED <<secret, caches, role, outside, mixed, others>>

StatusChanged ==
  \/ obj.phase # to.phase \/ obj.reason # to.reason \/ obj.observed # obj.gen
  \/ to.base /\ ~obj.hasCluster
  \/ to.secretName \notin {NoSecret, obj.secretName}
  \/ to.dated \/ to.granted # {}

\* applyStatusFields, on the local copy
Updated ==
  [obj EXCEPT !.phase = to.phase, !.reason = to.reason, !.observed = obj.gen,
              !.hasCluster = @ \/ to.base,
              !.secretName = IF to.secretName = NoSecret THEN @ ELSE to.secretName,
              !.granted = IF to.granted = {} THEN @ ELSE to.granted,
              !.dated = @ \/ to.dated \/ to.phase = "Ready"]

\* MergeFrom: only the fields that differ from the local copy are written.
Merged(o) ==
  LET new == Updated IN
  [o EXCEPT !.phase = IF new.phase # obj.phase THEN new.phase ELSE @,
            !.reason = IF new.reason # obj.reason THEN new.reason ELSE @,
            !.observed = IF new.observed # obj.observed THEN new.observed ELSE @,
            !.hasCluster = IF new.hasCluster # obj.hasCluster THEN new.hasCluster ELSE @,
            !.secretName = IF new.secretName # obj.secretName THEN new.secretName ELSE @,
            !.granted = IF new.granted # obj.granted THEN new.granted ELSE @,
            !.dated = IF new.dated # obj.dated THEN new.dated ELSE @]

\* setStatus
PatchStatus ==
  /\ pc = "patch"
  /\ LET patched == [user EXCEPT ![cur] = Merged(@)]
         young == IF to.dated \/ Updated.dated # obj.dated THEN aged \ {cur} ELSE aged IN
       \/ ~StatusChanged /\ Return(to.requeue) /\ UNCHANGED <<user, aged, faults>>
       \/ /\ StatusChanged /\ user[cur].exists
          /\ user' = patched /\ aged' = young
          /\ Return(to.requeue) /\ UNCHANGED faults
       \/ StatusChanged /\ ~user[cur].exists /\ Retry /\ UNCHANGED <<user, aged, faults>>
       \/ /\ StatusChanged /\ user[cur].exists /\ Fault /\ Retry
          /\ \/ user' = patched /\ aged' = young
             \/ UNCHANGED <<user, aged>>
  /\ UNCHANGED <<secret, caches, role, ready, cluster, mixed, others>>

Reconcile ==
  \/ AddFinalizer \/ FetchDatabases \/ ReadSecret \/ AlterPassword \/ CreateSecret
  \/ WriteSecret \/ WriteDatabaseSecret \/ DeleteOldSecret \/ EnsureUser
  \/ SyncDatabaseAccess \/ ApplyPrivileges \/ DropUser \/ RemoveFinalizer \/ PatchStatus

-----------------------------------------------------------------------------
(* The manager                                                             *)

\* Every change of a DatabaseUser that reaches the cache enqueues its key.
SyncUsers ==
  /\ seenUser # user /\ seenUser' = user
  /\ queue' = queue \cup {u \in Users : seenUser[u] # user[u]}
  /\ UNCHANGED <<lagging, user, secret, seenSecret, role, outside, later, local, mixed, bounds>>

\* mutation: the owner of a Secret that has none is enqueued
SyncSecretsOfAnyone ==
  /\ seenSecret # secret /\ seenSecret' = secret
  /\ queue' = queue \cup {secret[n].owner : n \in {m \in Names : seenSecret[m] # secret[m]}}
  /\ UNCHANGED <<lagging, user, secret, seenUser, role, outside, later, local, mixed, bounds>>

\* Owns: a change of a Secret enqueues the DatabaseUser its owner reference names.
SyncSecrets ==
  /\ seenSecret # secret /\ seenSecret' = secret
  /\ LET changed == {n \in Names : seenSecret[n] # secret[n]} IN
       queue' = queue \cup (({seenSecret[n].owner : n \in changed}
                             \cup {secret[n].owner : n \in changed}) \ {NoUser})
  /\ UNCHANGED <<lagging, user, secret, seenUser, role, outside, later, local, mixed, bounds>>

Delayed(u) ==
  /\ u \in later /\ later' = later \ {u} /\ queue' = queue \cup {u}
  /\ UNCHANGED <<user, secret, caches, role, outside, local, mixed, bounds>>

Restart ==
  /\ MoreTrouble /\ crashes < MaxCrashes /\ crashes' = crashes + 1
  /\ seenUser' = user /\ seenSecret' = secret
  /\ queue' = {u \in Users : user[u].exists} /\ later' = {} /\ Reset
  /\ UNCHANGED <<lagging, user, secret, role, outside, mixed,
                 edits, meddles, faults, outages>>

-----------------------------------------------------------------------------
(* The users, the garbage collector, the databases and time                *)

SharesRole(u, s) == {v \in Users \ {u} : user[v].exists /\ user[v].spec.role = s.role}
Mix(u, s) == LET v == SharesRole(u, s) IN IF v = {} THEN mixed ELSE mixed \cup v \cup {u}

CreateResource(u) ==
  /\ ~user[u].exists /\ user[u].uid < MaxUid
  /\ \E s \in Specs :
       /\ user' = [user EXCEPT ![u] = NewUser(TRUE, @.uid + 1, s)]
       /\ mixed' = Mix(u, s)
  /\ UNCHANGED <<secret, caches, role, outside, queue, later, local, bounds>>

EditResource(u) ==
  /\ user[u].exists /\ MoreTrouble /\ edits < MaxEdits /\ edits' = edits + 1
  /\ \E s \in Specs \ {user[u].spec} :
       /\ LET o == user[u] IN user' = [user EXCEPT ![u] = [o EXCEPT !.spec = s, !.gen = o.gen + 1]]
       /\ mixed' = Mix(u, s) \cup
            (IF <<s.role, s.template>> = <<user[u].spec.role, user[u].spec.template>> THEN {} ELSE {u})
  /\ UNCHANGED <<secret, caches, role, outside, queue, later, local,
                 meddles, faults, crashes, outages>>

\* The API server counts the request to delete as a generation.
DeleteResource(u) ==
  /\ user[u].exists /\ ~user[u].del
  /\ LET o == user[u]
         marked == [o EXCEPT !.del = TRUE, !.gen = o.gen + 1] IN
       user' = [user EXCEPT ![u] = IF o.fin THEN marked ELSE Absent(o.uid)]
  /\ UNCHANGED <<secret, caches, role, outside, queue, later, local, mixed, bounds>>

\* Someone else creates a Secret of that name or deletes the one there is.
Meddle(n) ==
  /\ MoreTrouble /\ meddles < MaxMeddles /\ meddles' = meddles + 1
  /\ secret' = [secret EXCEPT ![n] = IF @.exists THEN NoSuchSecret ELSE ForeignSecret]
  /\ UNCHANGED <<user, caches, role, outside, queue, later, local, mixed,
                 edits, faults, crashes, outages>>

People == \/ \E u \in Users : CreateResource(u) \/ EditResource(u) \/ DeleteResource(u)
          \/ \E n \in SecretNames : Meddle(n)

\* Kubernetes deletes the Secrets whose owner is gone.
CollectGarbage ==
  /\ \E n \in Names :
       LET s == secret[n] IN
       /\ s.owner # NoUser /\ ~(user[s.owner].exists /\ user[s.owner].uid = s.uid)
       /\ secret' = [secret EXCEPT ![n] = NoSuchSecret]
  /\ UNCHANGED <<user, caches, role, outside, queue, later, local, mixed, bounds>>

\* Their changes enqueue no DatabaseUser.
ComeAndGo ==
  /\ UNCHANGED <<user, secret, caches, role, aged, queue, later, local, mixed,
                 edits, meddles, faults, crashes>>
  /\ MoreTrouble /\ outages < MaxOutages /\ outages' = outages + 1
  /\ \/ \E d \in ready : ready' = ready \ {d} /\ UNCHANGED cluster
     \/ cluster = "connected" /\ cluster' \in {"absent", "waiting"} /\ UNCHANGED ready

ComeBack ==
  /\ UNCHANGED <<user, secret, caches, role, aged, queue, later, local, mixed, bounds>>
  /\ <<ready, cluster>> # <<Dbs, "connected">>
  /\ ready' = Dbs /\ cluster' = "connected"

\* Only users with a rotation ask for the age of their password.
PasswordAges(u) ==
  /\ user[u].exists /\ user[u].spec.rotate /\ user[u].dated /\ u \notin aged
  /\ aged' = aged \cup {u}
  /\ UNCHANGED <<user, secret, caches, role, ready, cluster, queue, later, local, mixed, bounds>>

-----------------------------------------------------------------------------
Init ==
  /\ lagging \in Lags
  /\ user = [u \in Users |-> Absent(0)] /\ seenUser = user
  /\ secret = [n \in Names |-> NoSuchSecret] /\ seenSecret = secret
  /\ role = [r \in Roles |-> NoSuchRole]
  /\ ready \in {{}, Dbs} /\ cluster = "connected" /\ aged = {}
  /\ queue = {} /\ later = {} /\ mixed = {}
  /\ pc = "idle" /\ cur = NoUser /\ obj = Absent(0) /\ to = NoTarget
  /\ held = NoSuchSecret /\ plan = "none" /\ password = NoPassword /\ rest = {}
  /\ edits = 0 /\ meddles = 0 /\ faults = 0 /\ crashes = 0 /\ outages = 0

Next ==
  \/ \E u \in Users : Start(u) \/ Delayed(u) \/ PasswordAges(u)
  \/ Reconcile \/ SyncUsers \/ SyncSecrets \/ Restart
  \/ People \/ CollectGarbage \/ ComeAndGo \/ ComeBack

Spec == Init /\ [][Next]_vars

\* The worker takes every queued key in its turn and finishes what it started; watches
\* deliver, delays end, garbage is collected, outages end and time passes.
Fairness ==
  /\ \A u \in Users : SF_vars(Start(u)) /\ WF_vars(Delayed(u)) /\ WF_vars(PasswordAges(u))
  /\ WF_vars(Reconcile) /\ WF_vars(SyncUsers) /\ WF_vars(SyncSecrets)
  /\ WF_vars(CollectGarbage) /\ WF_vars(ComeBack)

FairSpec == Spec /\ Fairness

-----------------------------------------------------------------------------
(* Properties                                                              *)

\* Nothing is under way for anybody and the caches have caught up.
Settled ==
  /\ pc = "idle" /\ queue = {} /\ seenUser = user /\ seenSecret = secret

\* u is Ready for the spec it has.
IsReady(u) ==
  /\ user[u].exists /\ ~user[u].del
  /\ user[u].phase = "Ready" /\ user[u].observed = user[u].gen

\* The credentials in the Secret of a Ready user open its role once the controller rests:
\* neither a restart nor a failure between the ALTER USER and the write of the Secret parts
\* them for good.  Excepted are users whose role or template was edited, users that share
\* a role, and, while caches lag, rotation, restarts, failures, Secrets deleted by hand and
\* second edits: an old Secret that is taken for the current one then overwrites the password.
CredentialsWork ==
  (Settled /\ (lagging => faults = 0 /\ crashes = 0 /\ meddles = 0 /\ edits <= 1)) =>
    \A u \in Users :
      LET s == secret[user[u].spec.secret]
          e == s.data[user[u].spec.template] IN
      (/\ IsReady(u) /\ u \notin mixed /\ user[u].spec.generation = "primary"
       /\ (lagging => ~user[u].spec.rotate) /\ OwnedBy(s, u, user[u].uid))
        => /\ e.password # NoPassword /\ e.role = user[u].spec.role
           /\ role[e.role].exists /\ role[e.role].password = e.password

\* With one Secret per database, all of a Ready user's hold the password of its role.
DatabaseSecretsAgree ==
  (pc = "idle" /\ faults = 0 /\ crashes = 0 /\ ~lagging) =>
    \A u \in Users :
      (IsReady(u) /\ u \notin mixed /\ user[u].secretName \notin SecretNames \cup {NoSecret})
        => \A d \in user[u].granted :
             LET s == secret[<<u, d>>] IN
             OwnedBy(s, u, user[u].uid)
               => s.data[user[u].spec.template].password = role[user[u].spec.role].password

\* A Ready user may connect to the databases of its spec and to no others, and has the
\* privileges it asks for there; REVOKEs and GRANTs that failed are not repeated.  Excepted
\* is an edited spec reconciled with a phase read late: a merge patch of that same phase
\* writes none, but the new observedGeneration, under the Ready that is there.
AccessAsSpecified ==
  (Settled /\ faults = 0 /\ (lagging => edits = 0)) =>
    \A u \in Users :
      LET s == user[u].spec IN
      (IsReady(u) /\ u \notin mixed)
        => /\ role[s.role].connect = s.dbs
           /\ s.dbs \X s.rights \subseteq role[s.role].rights

\* A reconciliation leaves the Secrets of others alone, which it may meet under the name of
\* its spec or of its status, unless the spec tells it to take them.  Excepted are Secrets
\* the cache shows as they are no more, which may have been replaced since.
ForeignSecretKept ==
  [][\A n \in SecretNames :
       (secret[n].exists /\ secret'[n] # secret[n] /\ local' # local /\ seenSecret[n] = secret[n])
         => \/ OwnedBy(secret[n], cur, obj.uid)
            \/ obj.spec.onConflict \in {"Adopt", "Merge"} /\ n = obj.spec.secret]_vars

\* Nothing is left behind.  A role belongs to a DatabaseUser that exists: deletion drops it,
\* unless it is to be retained, calls failed, the DBCluster was away, or the spec listed
\* other databases or another role before.  Renaming the Secret leaves no second Secret of
\* the user, unless its old name is not known: the patch of the status failed, was not
\* reached or is read late.
NothingLeftBehind ==
  /\ (faults = 0 /\ crashes = 0 /\ outages = 0 /\ edits = 0) =>
       \A r \in Roles :
         role[r].exists => \/ \E u \in Users : user[u].exists /\ user[u].spec.role = r
                           \/ \E s \in Specs : s.role = r /\ s.policy = "Retain"
  /\ (Settled /\ faults = 0 /\ crashes = 0 /\ ~lagging) =>
       \A u \in Users : \A n \in SecretNames :
         (IsReady(u) /\ user[u].spec.generation = "primary" /\ OwnedBy(secret[n], u, user[u].uid))
           => n = user[u].spec.secret

\* A user whose Secret name is free becomes Ready, whatever is restarted, read late or away
\* for a while, as long as no call fails and nobody takes the Secret's name; a deleted user
\* goes away, whatever fails.
EventuallySettled ==
  \A u \in Users :
    /\ (user[u].exists /\ ~user[u].del /\ user[u].spec.dbs # {})
         ~> (\/ ~user[u].exists \/ user[u].del \/ user[u].spec.dbs = {}
             \/ faults > 0 \/ meddles > 0 \/ IsReady(u))
    /\ (user[u].exists /\ user[u].del) ~> ~user[u].exists

=============================================================================
