----------------------- MODULE DatabaseUserOutcomeProofs -----------------------
(***************************************************************************)
(* What a reconciliation of a DatabaseUser leaves in PostgreSQL and in the *)
(* Secrets, for every set of users, roles, databases, Secrets and specs.   *)
(***************************************************************************)
EXTENDS DatabaseUserProofs

-----------------------------------------------------------------------------
(* The steps                                                               *)

\* The steps of a reconciliation of a DatabaseUser that is not deleted.
Forward == Listing \cup {"fetch", "patch"}

\* The actions that go on with one.
Calls ==
  \/ FetchDatabases \/ ReadSecret \/ AlterPassword \/ CreateSecret \/ WriteSecret
  \/ WriteDatabaseSecret \/ DeleteOldSecret \/ EnsureUser \/ SyncDatabaseAccess \/ ApplyPrivileges

\* The actions of others that leave the DatabaseUsers and the roles alone.
Aside ==
  \/ \E u \in Users : Delayed(u) \/ PasswordAges(u)
  \/ SyncSecrets \/ CollectGarbage \/ ComeAndGo \/ ComeBack \/ UNCHANGED vars
  \/ \E n \in SecretNames : Meddle(n)

LEMMA StepCases ==
  ASSUME [Next]_vars
  PROVE  \/ Calls \/ AddFinalizer \/ DropUser \/ RemoveFinalizer \/ PatchStatus
         \/ \E u \in Users : Start(u) \/ CreateResource(u) \/ EditResource(u) \/ DeleteResource(u)
         \/ SyncUsers \/ Restart \/ Aside
BY DEF Next, Reconcile, People, Calls, Aside

LEMMA AsideFacts ==
  ASSUME TypeInv, Aside
  PROVE  /\ UNCHANGED <<user, seenUser, lagging, role, local, mixed, edits, faults, crashes>>
         /\ outages' \in Nat /\ outages' >= outages
         /\ outages' = outages => (cluster' = cluster \/ cluster' = "connected")
<1>1. UNCHANGED <<user, seenUser, lagging, role, local, mixed, edits, faults, crashes>>
  BY DEF Aside, Delayed, PasswordAges, SyncSecrets, CollectGarbage, ComeAndGo, ComeBack, Meddle, vars,
         bounds, caches
<1>2. outages' = outages \/ outages' = outages + 1
  BY DEF Aside, Delayed, PasswordAges, SyncSecrets, CollectGarbage, ComeAndGo, ComeBack, Meddle, vars, bounds
<1>3. outages' = outages + 1 \/ cluster' = cluster \/ cluster' = "connected"
  BY DEF Aside, Delayed, PasswordAges, SyncSecrets, CollectGarbage, ComeAndGo, ComeBack, Meddle, vars, outside
<1> QED BY <1>1, <1>2, <1>3, BoundAssumption DEF TypeInv, TypeOK

LEMMA CallFacts ==
  ASSUME TypeInv, Calls
  PROVE  /\ cur \in Users /\ pc \in Forward \ {"patch"} /\ pc' \in Forward
         /\ UNCHANGED <<user, caches, cur, obj, outside, mixed, edits, meddles, crashes, outages>>
         /\ faults' \in {faults, faults + 1}
<1>1. pc \in Forward \ {"patch"} /\ pc # "idle"
  BY DEF Calls, FetchDatabases, ReadSecret, AlterPassword, CreateSecret, WriteSecret, WriteDatabaseSecret,
         DeleteOldSecret, EnsureUser, SyncDatabaseAccess, ApplyPrivileges, Forward, Listing
<1>2. /\ UNCHANGED <<user, caches, outside, mixed, edits, meddles, crashes, outages>>
      /\ faults' \in {faults, faults + 1}
  BY DEF Calls, FetchDatabases, ReadSecret, AlterPassword, CreateSecret, WriteSecret, WriteDatabaseSecret,
         DeleteOldSecret, EnsureUser, SyncDatabaseAccess, ApplyPrivileges, bounds, others, Fault
<1>3. pc' \in Forward /\ UNCHANGED <<cur, obj>>
  <2>1. \A update : Patch(update) => pc' \in Forward /\ UNCHANGED <<cur, obj>>
    BY DEF Patch, Forward
  <2>2. \A step \in Forward : Goto(step) => pc' \in Forward /\ UNCHANGED <<cur, obj>>
    BY DEF Goto
  <2>3. FailSecret => pc' \in Forward /\ UNCHANGED <<cur, obj>>
    BY <2>1 DEF FailSecret
  <2>4. \A how, copy : \A step \in Forward : Take(step, how, copy) => pc' \in Forward /\ UNCHANGED <<cur, obj>>
    BY DEF Take
  <2>5. /\ \A how : WriteStep(how) \in Forward
        /\ {"secret", "old", "role", "access", "grant", "write", "alter"} \subseteq Forward
    BY WriteStepType DEF Forward, Listing
  <2>6. CASE FetchDatabases
    BY <2>1, <2>2, <2>5, <2>6 DEF FetchDatabases
  <2>7. CASE ReadSecret
    BY <2>1, <2>4, <2>5, <2>7 DEF ReadSecret, SecretMissing, SecretOwned, SecretForeign
  <2>8. CASE AlterPassword
    BY <2>2, <2>3, <2>5, <2>8 DEF AlterPassword
  <2>9. CASE CreateSecret \/ WriteSecret
    BY <2>2, <2>3, <2>5, <2>9 DEF CreateSecret, WriteSecret
  <2>10. CASE WriteDatabaseSecret
    BY <1>1, <2>3, <2>5, <2>10 DEF WriteDatabaseSecret
  <2>11. CASE DeleteOldSecret \/ EnsureUser \/ SyncDatabaseAccess \/ ApplyPrivileges
    BY <2>1, <2>2, <2>5, <2>11 DEF DeleteOldSecret, EnsureUser, SyncDatabaseAccess, ApplyPrivileges
  <2> QED BY <2>6, <2>7, <2>8, <2>9, <2>10, <2>11 DEF Calls
<1> QED BY <1>1, <1>2, <1>3 DEF TypeInv, TypeOK

\* A reconciliation starts with a copy of what the cache shows.
LEMMA StartFacts ==
  ASSUME TypeInv, NEW u \in Users, Start(u)
  PROVE  /\ pc = "idle"
         /\ UNCHANGED <<user, secret, caches, role, outside, work, to, mixed, bounds>>
         /\ ~lagging => (seenUser = user /\ seenSecret = secret)
         /\ \/ pc' = "idle" /\ UNCHANGED <<cur, obj>>
            \/ /\ cur' = u /\ obj' = seenUser[u] /\ obj'.exists
               /\ \/ pc' = "fetch" /\ obj'.fin /\ ~obj'.del
                  \/ pc' = "finalizer" /\ ~obj'.fin /\ ~obj'.del
                  \/ pc' = "drop" /\ obj'.fin /\ obj'.del
                  \/ pc' = "unfinalize" /\ obj'.fin /\ obj'.del /\ obj'.spec.policy = "Retain"
               /\ ~(/\ obj'.phase = "Ready" /\ obj'.observed = obj'.gen
                    /\ seenSecret[obj'.spec.secret].exists)
<1>1. UNCHANGED <<user, secret, caches, role, outside, work, to, mixed, bounds>> /\ pc = "idle"
  BY DEF Start
<1>2. ~lagging => (seenUser = user /\ seenSecret = secret)
  BY DEF Start, MayRead
<1>3. CASE FirstStep(seenUser[u]) = "idle"
  BY <1>1, <1>2, <1>3 DEF Start
<1>4. CASE FirstStep(seenUser[u]) # "idle"
  <2>1. cur' = u /\ obj' = seenUser[u] /\ pc' = FirstStep(obj')
    BY <1>4 DEF Start
  <2>2. pc' # "idle" /\ seenSecret' = seenSecret
    BY <1>1, <1>4, <2>1 DEF caches
  <2> QED BY <1>1, <1>2, <2>1, <2>2 DEF FirstStep
<1> QED BY <1>3, <1>4

-----------------------------------------------------------------------------
(* How a DatabaseUser changes                                              *)

SameVersion(o, e) ==
  e.exists = o.exists /\ e.uid = o.uid /\ e.del = o.del /\ e.gen = o.gen /\ e.spec = o.spec
SameStatus(o, e) ==
  /\ e.phase = o.phase /\ e.observed = o.observed
  /\ e.secretName = o.secretName /\ e.granted = o.granted

Becomes(u, e) == \A v \in Users : user'[v] = IF v = u THEN e ELSE user[v]
LEMMA OneBecomes ==
  ASSUME TypeInv, NEW u \in Users, NEW e, user' = [user EXCEPT ![u] = e] PROVE Becomes(u, e)
BY DEF TypeInv, TypeOK, Becomes

LEMMA AbsentFacts ==
  ASSUME NEW i \in 0..MaxUid
  PROVE  /\ Absent(i) \in UserRecord /\ ~Absent(i).exists /\ ~Absent(i).fin /\ ~Absent(i).del
         /\ Absent(i).uid = i /\ Absent(i).gen = 0 /\ Absent(i).observed = 0
         /\ Absent(i).granted = {} /\ Absent(i).spec \in Specs /\ Absent(i).phase # "Ready"
<1>1. Absent(i) \in UserRecord
  BY AbsentType
<1>2. Absent(i).phase # "Ready"
  BY Zenon DEF Absent, NewUser
<1> QED BY <1>1, <1>2, SpecType DEF Absent, NewUser

IsNew(e, i, s) ==
  /\ e \in UserRecord /\ e.exists /\ ~e.fin /\ ~e.del /\ e.uid = i /\ e.gen = 1
  /\ e.observed = 0 /\ e.granted = {} /\ e.spec = s /\ e.phase # "Ready"
LEMMA CreatedFacts ==
  ASSUME NEW i \in 0..MaxUid, NEW s \in Specs PROVE IsNew(NewUser(TRUE, i, s), i, s)
<1>1. NewUser(TRUE, i, s) \in UserRecord
  BY FreshType
<1>2. NewUser(TRUE, i, s).phase # "Ready"
  BY Zenon DEF NewUser
<1> QED BY <1>1, <1>2 DEF NewUser, IsNew

\* AddFinalizer: a reconciliation ends here.
LEMMA FinalizerFacts ==
  ASSUME TypeInv, AddFinalizer
  PROVE  /\ pc = "finalizer" /\ pc' = "idle" /\ cur \in Users
         /\ UNCHANGED <<secret, caches, role, outside, mixed, edits, meddles, crashes, outages>>
         /\ faults' \in {faults, faults + 1}
         /\ \/ UNCHANGED user
            \/ \E e \in UserRecord :
                 /\ user[cur] = obj /\ Becomes(cur, e)
                 /\ SameVersion(user[cur], e) /\ SameStatus(user[cur], e) /\ e.fin
<1>1. /\ pc = "finalizer" /\ pc' = "idle" /\ faults' \in {faults, faults + 1}
      /\ UNCHANGED <<secret, caches, role, outside, mixed, edits, meddles, crashes, outages>>
  BY DEF AddFinalizer, Return, Retry, Reset, Fault, others
<1>2. cur \in Users
  BY <1>1 DEF TypeInv, TypeOK
<1> DEFINE e == [user[cur] EXCEPT !.fin = TRUE]
<1>3. user[cur] \in UserRecord
  BY <1>2 DEF TypeInv, TypeOK
<1>4. e \in UserRecord /\ SameVersion(user[cur], e) /\ SameStatus(user[cur], e) /\ e.fin
  BY <1>3 DEF UserRecord, SameVersion, SameStatus
<1>5. UNCHANGED user \/ (user[cur] = obj /\ user' = [user EXCEPT ![cur] = e])
  BY DEF AddFinalizer
<1> HIDE DEF e
<1> QED BY <1>1, <1>2, <1>4, <1>5, OneBecomes

\* RemoveFinalizer: so does it here, and with it the DatabaseUser.
LEMMA RemoverFacts ==
  ASSUME TypeInv, RemoveFinalizer
  PROVE  /\ pc = "unfinalize" /\ pc' = "idle" /\ cur \in Users
         /\ UNCHANGED <<secret, caches, role, outside, mixed, edits, meddles, crashes, outages>>
         /\ faults' \in {faults, faults + 1}
         /\ UNCHANGED user \/ (user[cur] = obj /\ Becomes(cur, Absent(user[cur].uid)))
<1>1. /\ pc = "unfinalize" /\ pc' = "idle" /\ faults' \in {faults, faults + 1}
      /\ UNCHANGED <<secret, caches, role, outside, mixed, edits, meddles, crashes, outages>>
  BY DEF RemoveFinalizer, Return, Retry, Reset, Fault, others
<1>2. cur \in Users
  BY <1>1 DEF TypeInv, TypeOK
<1>3. UNCHANGED user \/ (user[cur] = obj /\ user' = [user EXCEPT ![cur] = Absent(user[cur].uid)])
  BY DEF RemoveFinalizer
<1> QED BY <1>1, <1>2, <1>3, OneBecomes

\* The merge patch writes what the local copy gained, and only where it differs from it.
NewName == IF to.secretName = NoSecret THEN obj.secretName ELSE to.secretName
NewGranted == IF to.granted = {} THEN obj.granted ELSE to.granted
PatchedTo(o, e) ==
  /\ SameVersion(o, e) /\ e.fin = o.fin
  /\ e.phase = IF to.phase # obj.phase THEN to.phase ELSE o.phase
  /\ e.observed = IF obj.gen # obj.observed THEN obj.gen ELSE o.observed
  /\ e.secretName = IF NewName # obj.secretName THEN NewName ELSE o.secretName
  /\ e.granted = IF NewGranted # obj.granted THEN NewGranted ELSE o.granted

LEMMA MergedFacts ==
  ASSUME TypeInv, NEW o \in UserRecord PROVE Merged(o) \in UserRecord /\ PatchedTo(o, Merged(o))
<1> DEFINE new == Updated
<1>1. Merged(o) \in UserRecord
  BY MergedType
<1>2. /\ new.phase = to.phase /\ new.observed = obj.gen
      /\ new.secretName = NewName /\ new.granted = NewGranted
  <2>1. obj \in UserRecord
    BY DEF TypeInv, TypeOK
  <2> DEFINE known == obj.hasCluster \/ to.base
             dated == obj.dated \/ to.dated \/ to.phase = "Ready"
  <2>2. new = [obj EXCEPT !.phase = to.phase, !.reason = to.reason, !.observed = obj.gen,
                          !.hasCluster = known, !.secretName = NewName, !.granted = NewGranted, !.dated = dated]
    BY DEF Updated, NewName, NewGranted
  <2> HIDE DEF known, dated, new
  <2> QED BY <2>1, <2>2 DEF UserRecord
<1> HIDE DEF new
<1> DEFINE phase == IF new.phase # obj.phase THEN new.phase ELSE o.phase
           reason == IF new.reason # obj.reason THEN new.reason ELSE o.reason
           observed == IF new.observed # obj.observed THEN new.observed ELSE o.observed
           known == IF new.hasCluster # obj.hasCluster THEN new.hasCluster ELSE o.hasCluster
           name == IF new.secretName # obj.secretName THEN new.secretName ELSE o.secretName
           granted == IF new.granted # obj.granted THEN new.granted ELSE o.granted
           dated == IF new.dated # obj.dated THEN new.dated ELSE o.dated
<1>3. Merged(o) = [o EXCEPT !.phase = phase, !.reason = reason, !.observed = observed, !.hasCluster = known,
                            !.secretName = name, !.granted = granted, !.dated = dated]
  BY DEF Merged, new
<1>4. /\ phase = IF to.phase # obj.phase THEN to.phase ELSE o.phase
      /\ observed = IF obj.gen # obj.observed THEN obj.gen ELSE o.observed
      /\ name = IF NewName # obj.secretName THEN NewName ELSE o.secretName
      /\ granted = IF NewGranted # obj.granted THEN NewGranted ELSE o.granted
  BY <1>2
<1> HIDE DEF phase, reason, observed, known, name, granted, dated
<1>5. SameVersion(o, Merged(o)) /\ Merged(o).fin = o.fin
  BY <1>3 DEF SameVersion, UserRecord
<1>6. /\ Merged(o).phase = phase /\ Merged(o).observed = observed
      /\ Merged(o).secretName = name /\ Merged(o).granted = granted
  BY <1>3 DEF UserRecord
<1> QED BY <1>1, <1>4, <1>5, <1>6 DEF PatchedTo

LEMMA PatchFacts ==
  ASSUME TypeInv, PatchStatus
  PROVE  /\ pc = "patch" /\ pc' = "idle" /\ cur \in Users
         /\ UNCHANGED <<secret, caches, role, ready, cluster, mixed, edits, meddles, crashes, outages>>
         /\ faults' \in {faults, faults + 1}
         /\ \/ UNCHANGED user /\ (~StatusChanged \/ ~user[cur].exists \/ faults' = faults + 1)
            \/ \E e \in UserRecord : user[cur].exists /\ Becomes(cur, e) /\ PatchedTo(user[cur], e)
<1>1. /\ pc = "patch" /\ pc' = "idle" /\ (faults' = faults \/ faults' = faults + 1)
      /\ UNCHANGED <<secret, caches, role, ready, cluster, mixed, edits, meddles, crashes, outages>>
  BY DEF PatchStatus, Return, Retry, Reset, Fault, others
<1>2. cur \in Users
  BY <1>1 DEF TypeInv, TypeOK
<1>3. user[cur] \in UserRecord
  BY <1>2 DEF TypeInv, TypeOK
<1>4. \/ UNCHANGED user /\ (~StatusChanged \/ ~user[cur].exists \/ faults' = faults + 1)
      \/ user[cur].exists /\ user' = [user EXCEPT ![cur] = Merged(user[cur])]
  BY DEF PatchStatus, Fault
<1> QED BY <1>1, <1>2, <1>3, <1>4, MergedFacts, OneBecomes

\* The users.  What is new about a spec goes into mixed.
Joined(u, s) ==
  /\ mixed \subseteq mixed'
  /\ \A v \in Users \ {u} : (user[v].exists /\ user[v].spec.role = s.role) => {u, v} \subseteq mixed'
LEMMA MixJoins ==
  ASSUME TypeInv, NEW u \in Users, NEW s, mixed' = Mix(u, s) PROVE Joined(u, s)
BY DEF Joined, Mix, SharesRole

LEMMA CreateFacts ==
  ASSUME TypeInv, NEW u \in Users, CreateResource(u)
  PROVE  /\ UNCHANGED <<secret, caches, role, outside, local, bounds>>
         /\ ~user[u].exists
         /\ \E s \in Specs, e \in UserRecord :
              Becomes(u, e) /\ IsNew(e, user[u].uid + 1, s) /\ Joined(u, s)
<1> PICK s \in Specs : user' = [user EXCEPT ![u] = NewUser(TRUE, user[u].uid + 1, s)] /\ mixed' = Mix(u, s)
  BY DEF CreateResource
<1>1. user[u].uid + 1 \in 0..MaxUid
  <2>1. user[u].uid \in 0..MaxUid
    BY DEF TypeInv, TypeOK, UserRecord
  <2> QED BY <2>1, BoundAssumption DEF CreateResource
<1> DEFINE e == NewUser(TRUE, user[u].uid + 1, s)
<1>2. e \in UserRecord /\ IsNew(e, user[u].uid + 1, s)
  <2>1. IsNew(NewUser(TRUE, user[u].uid + 1, s), user[u].uid + 1, s)
    BY <1>1, CreatedFacts
  <2> QED BY <2>1 DEF IsNew
<1>3. user' = [user EXCEPT ![u] = e]
  OBVIOUS
<1> HIDE DEF e
<1>4. Joined(u, s) /\ Becomes(u, e)
  BY <1>3, MixJoins, OneBecomes
<1> QED BY <1>2, <1>4 DEF CreateResource

LEMMA EditFacts ==
  ASSUME TypeInv, NEW u \in Users, EditResource(u)
  PROVE  /\ UNCHANGED <<secret, caches, role, outside, local, faults, crashes, outages>>
         /\ edits' = edits + 1 /\ user[u].exists
         /\ \E e \in UserRecord :
              /\ Becomes(u, e) /\ e.exists /\ e.fin = user[u].fin /\ e.del = user[u].del
              /\ e.uid = user[u].uid /\ e.gen = user[u].gen + 1 /\ e.spec \in Specs
              /\ SameStatus(user[u], e) /\ Joined(u, e.spec)
              /\ u \in mixed' \/ (e.spec.role = user[u].spec.role /\ e.spec.template = user[u].spec.template)
<1>1. edits' = edits + 1 /\ user[u].exists
      /\ UNCHANGED <<secret, caches, role, outside, local, faults, crashes, outages>>
  BY Zenon DEF EditResource
<1>2. PICK s \in Specs :
        /\ user' = [user EXCEPT ![u] = [user[u] EXCEPT !.spec = s, !.gen = user[u].gen + 1]]
        /\ mixed' = Mix(u, s) \cup
             (IF <<s.role, s.template>> = <<user[u].spec.role, user[u].spec.template>> THEN {} ELSE {u})
  <2> PICK s \in Specs \ {user[u].spec} :
        /\ user' = [user EXCEPT ![u] = [user[u] EXCEPT !.spec = s, !.gen = user[u].gen + 1]]
        /\ mixed' = Mix(u, s) \cup
             (IF <<s.role, s.template>> = <<user[u].spec.role, user[u].spec.template>> THEN {} ELSE {u})
    BY Zenon DEF EditResource
  <2> QED OBVIOUS
<1> DEFINE e == [user[u] EXCEPT !.spec = s, !.gen = user[u].gen + 1]
<1>3. user[u] \in UserRecord /\ s \in UserSpec /\ user[u].gen + 1 \in 0..(MaxEdits + 2)
  <2>1. user[u] \in UserRecord /\ edits \in 0..MaxEdits /\ edits < MaxEdits
    BY Zenon DEF TypeInv, TypeOK, EditResource, MoreTrouble
  <2>2. user[u].gen \in 0..(MaxEdits + 2) /\ user[u].gen <= edits + (IF user[u].del THEN 2 ELSE 1)
    BY <2>1 DEF TypeInv, GenBound, UserRecord
  <2> QED BY <2>1, <2>2, SpecType, BoundAssumption
<1>4. /\ e \in UserRecord /\ e.exists = user[u].exists /\ e.fin = user[u].fin /\ e.del = user[u].del
      /\ e.uid = user[u].uid /\ e.gen = user[u].gen + 1 /\ e.spec = s /\ SameStatus(user[u], e)
  BY <1>3 DEF UserRecord, SameStatus
<1>5. user' = [user EXCEPT ![u] = e]
  BY <1>2
<1> HIDE DEF e
<1>6. Joined(u, s)
  BY <1>2 DEF Joined, Mix, SharesRole
<1>7. u \in mixed' \/ (s.role = user[u].spec.role /\ s.template = user[u].spec.template)
  BY <1>2
<1> QED BY <1>1, <1>4, <1>5, <1>6, <1>7, OneBecomes

LEMMA DeleteFacts ==
  ASSUME TypeInv, NEW u \in Users, DeleteResource(u)
  PROVE  /\ UNCHANGED <<secret, caches, role, outside, local, mixed, bounds>>
         /\ user[u].exists /\ ~user[u].del
         /\ \/ ~user[u].fin /\ Becomes(u, Absent(user[u].uid))
            \/ \E e \in UserRecord :
                 /\ Becomes(u, e) /\ user[u].fin /\ e.exists /\ e.fin /\ e.del
                 /\ e.uid = user[u].uid /\ e.gen = user[u].gen + 1 /\ e.spec = user[u].spec
                 /\ SameStatus(user[u], e)
<1>1. UNCHANGED <<secret, caches, role, outside, local, mixed, bounds>> /\ user[u].exists /\ ~user[u].del
  BY Zenon DEF DeleteResource
<1> DEFINE e == [user[u] EXCEPT !.del = TRUE, !.gen = user[u].gen + 1]
<1>2. user' = [user EXCEPT ![u] = IF user[u].fin THEN e ELSE Absent(user[u].uid)]
  BY Zenon DEF DeleteResource
<1>3. user[u] \in UserRecord /\ user[u].gen + 1 \in 0..(MaxEdits + 2)
  <2>1. user[u] \in UserRecord /\ edits \in 0..MaxEdits
    BY DEF TypeInv, TypeOK
  <2>2. user[u].gen \in 0..(MaxEdits + 2) /\ user[u].gen <= edits + (IF user[u].del THEN 2 ELSE 1)
    BY <2>1 DEF TypeInv, GenBound, UserRecord
  <2> QED BY <1>1, <2>1, <2>2, BoundAssumption
<1>4. /\ e \in UserRecord /\ e.exists = user[u].exists /\ e.fin = user[u].fin /\ e.del
      /\ e.uid = user[u].uid /\ e.gen = user[u].gen + 1 /\ e.spec = user[u].spec /\ SameStatus(user[u], e)
  BY <1>3 DEF UserRecord, SameStatus
<1> HIDE DEF e
<1>5. user[u].fin \in BOOLEAN
  BY <1>3 DEF UserRecord
<1> QED BY <1>1, <1>2, <1>4, <1>5, OneBecomes

-----------------------------------------------------------------------------
(* The copies of a DatabaseUser                                            *)

\* o is a copy of a DatabaseUser, v the DatabaseUser of that name as it was then or later, k
\* the edits so far.  One that has the finalizer stays until its deletion has been seen.
Older(o, v, k) ==
  /\ o.uid <= v.uid
  /\ (v.exists /\ o.uid = v.uid) =>
       /\ o.exists /\ (o.fin => v.fin) /\ (o.del => v.del) /\ o.gen <= v.gen
       /\ (o.gen = v.gen \/ k = 0) => o.spec = v.spec
  /\ (o.exists /\ o.fin /\ ~o.del) => (v.exists /\ v.uid = o.uid)

\* The cache trails the API server, the local copy trails both; what the worker is about is
\* decided by the local copy.
CopyInv ==
  /\ \A u \in Users : Older(seenUser[u], user[u], edits)
  /\ pc # "idle" => /\ obj.exists
                    /\ Older(obj, seenUser[cur], edits) /\ Older(obj, user[cur], edits)
  /\ pc \in Forward => obj.fin /\ ~obj.del
  /\ pc \in {"drop", "unfinalize"} => obj.fin /\ obj.del

LEMMA Records ==
  ASSUME TypeInv
  PROVE  /\ obj \in UserRecord /\ \A u \in Users : user[u] \in UserRecord /\ seenUser[u] \in UserRecord
         /\ edits \in Nat /\ faults \in Nat /\ crashes \in Nat /\ outages \in Nat
         /\ pc # "idle" => cur \in Users
BY BoundAssumption DEF TypeInv, TypeOK

LEMMA OlderSelf == ASSUME NEW o \in UserRecord, NEW k PROVE Older(o, o, k)
BY DEF Older, UserRecord

\* How the two get older.
LEMMA OlderStep ==
  ASSUME NEW o \in UserRecord, NEW v \in UserRecord, NEW e \in UserRecord, NEW k \in Nat,
         Older(o, v, k)
  PROVE  /\ (SameVersion(v, e) /\ (v.fin => e.fin)) => Older(o, e, k)
         /\ (~e.exists /\ e.uid = v.uid /\ ~(o.exists /\ o.fin /\ ~o.del)) => Older(o, e, k)
         /\ (~v.exists /\ e.uid = v.uid + 1) => Older(o, e, k)
         /\ (/\ e.exists /\ v.exists /\ e.fin = v.fin /\ (v.del => e.del)
             /\ e.uid = v.uid /\ e.gen = v.gen + 1 /\ e.spec = v.spec) => Older(o, e, k)
         /\ (/\ e.exists /\ v.exists /\ e.fin = v.fin /\ (v.del => e.del)
             /\ e.uid = v.uid /\ e.gen = v.gen + 1) => Older(o, e, k + 1)
<1>1. o.uid \in Nat /\ v.uid \in Nat /\ e.uid \in Nat /\ o.gen \in Nat /\ v.gen \in Nat /\ e.gen \in Nat
  BY BoundAssumption DEF UserRecord
<1>2. (SameVersion(v, e) /\ (v.fin => e.fin)) => Older(o, e, k)
  BY <1>1 DEF Older, SameVersion
<1>3. (~e.exists /\ e.uid = v.uid /\ ~(o.exists /\ o.fin /\ ~o.del)) => Older(o, e, k)
  BY <1>1 DEF Older
<1>4. (~v.exists /\ e.uid = v.uid + 1) => Older(o, e, k)
  BY <1>1 DEF Older
<1>5. (/\ e.exists /\ v.exists /\ e.fin = v.fin /\ (v.del => e.del)
       /\ e.uid = v.uid /\ e.gen = v.gen + 1 /\ e.spec = v.spec) => Older(o, e, k)
  BY <1>1 DEF Older
<1>6. (/\ e.exists /\ v.exists /\ e.fin = v.fin /\ (v.del => e.del)
       /\ e.uid = v.uid /\ e.gen = v.gen + 1) => Older(o, e, k + 1)
  BY <1>1 DEF Older
<1> QED BY <1>2, <1>3, <1>4, <1>5, <1>6

LEMMA OlderEdit ==
  ASSUME NEW o, NEW v, NEW k \in Nat, Older(o, v, k) PROVE Older(o, v, k + 1)
BY DEF Older

\* A change of one DatabaseUser keeps CopyInv if it ages every copy there is.
LEMMA CopyBecomes ==
  ASSUME TypeInv, CopyInv, TypeInv', NEW u \in Users, NEW e \in UserRecord, Becomes(u, e),
         UNCHANGED <<seenUser, local>>, edits' = edits \/ edits' = edits + 1,
         Older(seenUser[u], e, edits'),
         (pc # "idle" /\ cur = u) => Older(obj, e, edits')
  PROVE  CopyInv'
<1>1. \A v \in Users : Older(seenUser'[v], user'[v], edits')
  BY OlderEdit, Records DEF Becomes, CopyInv
<1>2. UNCHANGED <<pc, cur, obj>>
  BY DEF local
<1>3. pc' # "idle" => obj'.exists /\ Older(obj', seenUser'[cur'], edits') /\ Older(obj', user'[cur'], edits')
  BY <1>2, OlderEdit, Records DEF Becomes, CopyInv
<1> QED BY <1>1, <1>2, <1>3 DEF CopyInv

LEMMA IdleCopies ==
  ASSUME pc' = "idle", \A u \in Users : Older(seenUser'[u], user'[u], edits') PROVE CopyInv'
BY DEF CopyInv, Forward, Listing

\* One that ends the reconciliation, too.
LEMMA EndCopies ==
  ASSUME TypeInv, CopyInv, NEW e \in UserRecord, cur \in Users, Becomes(cur, e),
         UNCHANGED <<seenUser, edits>>, pc' = "idle", Older(seenUser[cur], e, edits)
  PROVE  CopyInv'
<1>1. \A v \in Users : Older(seenUser'[v], user'[v], edits')
  BY DEF Becomes, CopyInv
<1> QED BY <1>1, IdleCopies

LEMMA CopyStart == ASSUME TypeInv, CopyInv, NEW u \in Users, Start(u) PROVE CopyInv'
<1>1. UNCHANGED <<user, seenUser, edits>>
  BY StartFacts DEF caches, bounds
<1>2. CASE pc' = "idle"
  BY <1>1, <1>2, IdleCopies DEF CopyInv
<1>3. CASE cur' = u /\ obj' = seenUser[u] /\ obj'.exists
  <2>1. Older(seenUser[u], seenUser[u], edits) /\ Older(seenUser[u], user[u], edits)
    BY Records, OlderSelf DEF CopyInv
  <2>2. Older(obj', seenUser'[cur'], edits') /\ Older(obj', user'[cur'], edits')
    BY <1>1, <1>3, <2>1
  <2>3. /\ pc' \in Forward => obj'.fin /\ ~obj'.del
        /\ pc' \in {"drop", "unfinalize"} => obj'.fin /\ obj'.del
    BY <1>3, StartFacts DEF Forward, Listing
  <2> QED BY <1>1, <1>3, <2>2, <2>3 DEF CopyInv
<1> QED BY <1>2, <1>3, StartFacts

LEMMA CopyStep == ASSUME TypeInv, CopyInv, [Next]_vars, TypeInv' PROVE CopyInv'
<1>1. CASE Calls
  BY <1>1, CallFacts DEF CopyInv, caches, Forward, Listing
<1>2. CASE Aside
  BY <1>2, AsideFacts DEF CopyInv, local
<1>3. CASE DropUser
  BY <1>3 DEF DropUser, Goto, CopyInv, caches, others, Forward, Listing
<1>4. CASE \E u \in Users : Start(u)
  BY <1>4, CopyStart
<1>5. CASE AddFinalizer
  <2>1. pc' = "idle" /\ cur \in Users /\ UNCHANGED <<seenUser, edits>>
    BY <1>5, FinalizerFacts DEF caches
  <2>2. CASE UNCHANGED user
    BY <2>1, <2>2, IdleCopies DEF CopyInv
  <2>3. CASE ~UNCHANGED user
    <3> PICK e \in UserRecord : Becomes(cur, e) /\ SameVersion(user[cur], e) /\ e.fin
      BY <1>5, <2>3, FinalizerFacts
    <3>1. Older(seenUser[cur], e, edits)
      BY <2>1, Records, OlderStep DEF CopyInv
    <3> QED BY <2>1, <3>1, EndCopies
  <2> QED BY <2>2, <2>3
<1>6. CASE PatchStatus
  <2>1. pc' = "idle" /\ cur \in Users /\ UNCHANGED <<seenUser, edits>>
    BY <1>6, PatchFacts DEF caches
  <2>2. CASE UNCHANGED user
    BY <2>1, <2>2, IdleCopies DEF CopyInv
  <2>3. CASE ~UNCHANGED user
    <3> PICK e \in UserRecord : Becomes(cur, e) /\ PatchedTo(user[cur], e)
      BY <1>6, <2>3, PatchFacts
    <3>1. SameVersion(user[cur], e) /\ e.fin = user[cur].fin
      BY DEF PatchedTo
    <3>2. Older(seenUser[cur], e, edits)
      BY <2>1, <3>1, Records, OlderStep DEF CopyInv
    <3> QED BY <2>1, <3>2, EndCopies
  <2> QED BY <2>2, <2>3
<1>7. CASE RemoveFinalizer
  <2>1. pc = "unfinalize" /\ pc' = "idle" /\ cur \in Users /\ UNCHANGED <<seenUser, edits>>
    BY <1>7, RemoverFacts DEF caches
  <2>2. CASE UNCHANGED user
    BY <2>1, <2>2, IdleCopies DEF CopyInv
  <2>3. CASE ~UNCHANGED user
    <3> DEFINE e == Absent(user[cur].uid)
    <3>1. user[cur] = obj /\ Becomes(cur, e)
      BY <1>7, <2>3, RemoverFacts
    <3>2. e \in UserRecord /\ ~e.exists /\ e.uid = user[cur].uid
      <4>1. user[cur].uid \in 0..MaxUid
        BY <2>1, Records DEF UserRecord
      <4> QED BY <4>1, AbsentFacts
    <3> HIDE DEF e
    <3>3. ~(seenUser[cur].exists /\ seenUser[cur].fin /\ ~seenUser[cur].del)
      BY <2>1, <3>1 DEF CopyInv, Older
    <3>4. Older(seenUser[cur], e, edits)
      BY <2>1, <3>2, <3>3, Records, OlderStep DEF CopyInv
    <3> QED BY <2>1, <3>1, <3>2, <3>4, EndCopies
  <2> QED BY <2>2, <2>3
<1>8. CASE \E u \in Users : CreateResource(u)
  <2> PICK u \in Users : CreateResource(u)
    BY <1>8
  <2> PICK s \in Specs, e \in UserRecord : Becomes(u, e) /\ IsNew(e, user[u].uid + 1, s)
    BY CreateFacts
  <2>1. UNCHANGED <<seenUser, local, edits>> /\ ~user[u].exists /\ e.uid = user[u].uid + 1
    BY CreateFacts DEF caches, bounds, IsNew
  <2>2. Older(seenUser[u], e, edits)
    BY <2>1, Records, OlderStep DEF CopyInv
  <2>3. (pc # "idle" /\ cur = u) => Older(obj, e, edits)
    BY <2>1, Records, OlderStep DEF CopyInv
  <2> QED BY <2>1, <2>2, <2>3, CopyBecomes
<1>9. CASE \E u \in Users : EditResource(u)
  <2> PICK u \in Users : EditResource(u)
    BY <1>9
  <2> PICK e \in UserRecord :
        /\ Becomes(u, e) /\ e.exists /\ e.fin = user[u].fin /\ e.del = user[u].del
        /\ e.uid = user[u].uid /\ e.gen = user[u].gen + 1
    BY EditFacts
  <2>1. UNCHANGED <<seenUser, local>> /\ edits' = edits + 1 /\ user[u].exists
    BY EditFacts DEF caches
  <2>2. Older(seenUser[u], e, edits + 1)
    BY <2>1, Records, OlderStep DEF CopyInv
  <2>3. (pc # "idle" /\ cur = u) => Older(obj, e, edits + 1)
    BY <2>1, Records, OlderStep DEF CopyInv
  <2> QED BY <2>1, <2>2, <2>3, CopyBecomes
<1>10. CASE \E u \in Users : DeleteResource(u)
  <2> PICK u \in Users : DeleteResource(u)
    BY <1>10
  <2>1. UNCHANGED <<seenUser, local, edits>> /\ user[u].exists /\ ~user[u].del
    BY DeleteFacts DEF caches, bounds
  <2>2. CASE ~user[u].fin /\ Becomes(u, Absent(user[u].uid))
    <3> DEFINE e == Absent(user[u].uid)
    <3>1. e \in UserRecord /\ ~e.exists /\ e.uid = user[u].uid
      <4>1. user[u].uid \in 0..MaxUid
        BY Records DEF UserRecord
      <4> QED BY <4>1, AbsentFacts
    <3> HIDE DEF e
    <3>2. Older(seenUser[u], e, edits)
      <4>1. ~(seenUser[u].exists /\ seenUser[u].fin /\ ~seenUser[u].del)
        BY <2>1, <2>2 DEF CopyInv, Older
      <4> QED BY <3>1, <4>1, Records, OlderStep DEF CopyInv
    <3>3. (pc # "idle" /\ cur = u) => Older(obj, e, edits)
      <4>1. (pc # "idle" /\ cur = u) => ~(obj.exists /\ obj.fin /\ ~obj.del)
        BY <2>1, <2>2 DEF CopyInv, Older
      <4> QED BY <3>1, <4>1, Records, OlderStep DEF CopyInv
    <3>4. Becomes(u, e)
      BY <2>2 DEF e
    <3> QED BY <2>1, <3>1, <3>2, <3>3, <3>4, CopyBecomes
  <2>3. CASE \E e \in UserRecord :
               /\ Becomes(u, e) /\ user[u].fin /\ e.exists /\ e.fin /\ e.del
               /\ e.uid = user[u].uid /\ e.gen = user[u].gen + 1 /\ e.spec = user[u].spec
    <3> PICK e \in UserRecord :
               /\ Becomes(u, e) /\ user[u].fin /\ e.exists /\ e.fin /\ e.del
               /\ e.uid = user[u].uid /\ e.gen = user[u].gen + 1 /\ e.spec = user[u].spec
      BY <2>3
    <3>1. e.fin = user[u].fin
      BY Records DEF UserRecord
    <3>2. Older(seenUser[u], e, edits)
      BY <2>1, <3>1, Records, OlderStep DEF CopyInv
    <3>3. (pc # "idle" /\ cur = u) => Older(obj, e, edits)
      BY <2>1, <3>1, Records, OlderStep DEF CopyInv
    <3> QED BY <2>1, <3>2, <3>3, CopyBecomes
  <2> QED BY <2>2, <2>3, DeleteFacts
<1>11. CASE SyncUsers
  <2>1. seenUser' = user /\ UNCHANGED <<user, local, edits>>
    BY <1>11 DEF SyncUsers, bounds
  <2>2. \A u \in Users : Older(user[u], user[u], edits)
    BY Records, OlderSelf
  <2> QED BY <2>1, <2>2 DEF CopyInv, local
<1>12. CASE Restart
  <2>1. seenUser' = user /\ UNCHANGED <<user, edits>> /\ pc' = "idle"
    BY <1>12 DEF Restart, Reset
  <2>2. \A u \in Users : Older(user[u], user[u], edits)
    BY Records, OlderSelf
  <2> QED BY <2>1, <2>2, IdleCopies
<1> QED BY <1>1, <1>2, <1>3, <1>4, <1>5, <1>6, <1>7, <1>8, <1>9, <1>10, <1>11, <1>12, StepCases

-----------------------------------------------------------------------------
(* Whose role and whose status                                             *)

SpecInv ==
  /\ \A u \in Users : user[u].spec \in Specs /\ seenUser[u].spec \in Specs
  /\ pc # "idle" => obj.spec \in Specs

\* Who shares a role with another is in mixed, and so is who changed the role or the template
\* since a copy was made.
Share(o, v) == o.exists /\ v.exists /\ o.spec.role = v.spec.role
MixInv ==
  \A u, v \in Users : (u # v /\ (Share(user[u], user[v]) \/ Share(seenUser[u], seenUser[v]))) => u \in mixed
Same(o, v) == o.spec.role = v.spec.role /\ o.spec.template = v.spec.template
SameInv ==
  /\ \A u \in Users :
       (u \notin mixed /\ user[u].exists /\ seenUser[u].uid = user[u].uid) => Same(seenUser[u], user[u])
  /\ (pc # "idle" /\ cur \notin mixed /\ user[cur].exists /\ obj.uid = user[cur].uid) => Same(obj, user[cur])

\* No status is ahead of its spec.  A DatabaseUser that says Ready was known to the worker.
\* While caches are current, the local copy has the status of the object.
IsSaid(u) == user[u].exists /\ user[u].phase = "Ready"
StatusInv ==
  /\ \A u \in Users : user[u].observed <= user[u].gen /\ seenUser[u].observed <= seenUser[u].gen
  /\ pc # "idle" => obj.observed <= obj.gen
  /\ \A u \in Users : IsSaid(u) => seenUser[u].uid = user[u].uid
  /\ (pc # "idle" /\ IsSaid(cur)) => obj.uid = user[cur].uid
  /\ (pc \in Forward /\ ~lagging) => SameStatus(obj, user[cur])

\* The role at hand is not that of another Ready DatabaseUser which shares it with nobody: one
\* that took it over from a former spec has not been reconciled since.
Clear == lagging => edits = 0
ApartInv ==
  (pc # "idle" /\ Clear) =>
    \A u \in Users \ {cur} : (IsSaid(u) /\ user[u].spec.role = obj.spec.role) => u \in mixed

ObjectInv == CopyInv /\ SpecInv /\ MixInv /\ SameInv /\ StatusInv /\ ApartInv

LEMMA ObjectInit == Init => ObjectInv
<1> SUFFICES ASSUME Init PROVE ObjectInv
  OBVIOUS
<1>1. pc = "idle" /\ edits = 0
  BY Zenon DEF Init
<1>2. \A u \in Users : user[u] = Absent(0) /\ seenUser[u] = Absent(0)
  BY Zenon DEF Init
<1>3. Absent(0) \in UserRecord /\ ~Absent(0).exists /\ Absent(0).gen = 0 /\ Absent(0).observed = 0
      /\ Absent(0).spec \in Specs
  BY AbsentFacts, Defaults
<1>4. Older(Absent(0), Absent(0), edits)
  BY <1>3, OlderSelf
<1>5. CopyInv /\ SpecInv
  BY <1>1, <1>2, <1>3, <1>4 DEF CopyInv, SpecInv, Forward, Listing
<1>6. MixInv /\ SameInv /\ StatusInv /\ ApartInv
  BY <1>1, <1>2, <1>3 DEF MixInv, Share, SameInv, StatusInv, IsSaid, ApartInv, Forward, Listing
<1> QED BY <1>5, <1>6 DEF ObjectInv

\* Steps that change no DatabaseUser and begin no reconciliation.
LEMMA ObjectKept ==
  ASSUME ObjectInv, UNCHANGED <<user, seenUser, lagging, mixed, edits>>,
         pc' = "idle" \/ (pc # "idle" /\ UNCHANGED <<cur, obj>>), pc' \in Forward => pc \in Forward
  PROVE  SpecInv' /\ MixInv' /\ SameInv' /\ StatusInv' /\ ApartInv'
<1>1. SpecInv' /\ MixInv' /\ SameInv'
  BY DEF ObjectInv, SpecInv, MixInv, Share, SameInv, Same
<1>2. StatusInv'
  BY DEF ObjectInv, StatusInv, IsSaid, SameStatus, Forward, Listing
<1>3. ApartInv'
  BY DEF ObjectInv, ApartInv, Clear, IsSaid
<1> QED BY <1>1, <1>2, <1>3

LEMMA ObjectStart == ASSUME TypeInv, ObjectInv, NEW u \in Users, Start(u)
                     PROVE  SpecInv' /\ MixInv' /\ SameInv' /\ StatusInv' /\ ApartInv'
<1>1. pc = "idle" /\ UNCHANGED <<user, seenUser, lagging, mixed, edits>> /\ (~lagging => seenUser = user)
  BY StartFacts DEF caches, bounds
<1>2. CASE pc' = "idle"
  BY <1>1, <1>2, ObjectKept DEF Forward, Listing
<1>3. CASE cur' = u /\ obj' = seenUser[u] /\ obj'.exists
  <2>1. SpecInv' /\ MixInv' /\ SameInv'
    BY <1>1, <1>3 DEF ObjectInv, SpecInv, MixInv, Share, SameInv, Same
  <2>2. StatusInv'
    BY <1>1, <1>3 DEF ObjectInv, StatusInv, IsSaid, SameStatus
  <2>3. ASSUME Clear', NEW v \in Users \ {u}, IsSaid(v), user[v].spec.role = obj'.spec.role PROVE v \in mixed
    <3>1. seenUser[v].uid = user[v].uid
      BY <2>3 DEF ObjectInv, StatusInv
    <3>2. seenUser[v].exists /\ seenUser[v].spec = user[v].spec
      <4>1. seenUser = user \/ edits = 0
        BY <1>1, <2>3 DEF Clear
      <4> QED BY <2>3, <3>1, <4>1 DEF ObjectInv, CopyInv, Older, IsSaid
    <3>3. Share(seenUser[v], seenUser[u])
      BY <1>3, <2>3, <3>2 DEF Share
    <3> QED BY <3>3 DEF ObjectInv, MixInv
  <2>4. ApartInv'
    BY <1>1, <1>3, <2>3 DEF ApartInv, IsSaid
  <2> QED BY <2>1, <2>2, <2>4
<1> QED BY <1>2, <1>3, StartFacts

\* The end of a reconciliation that changes its DatabaseUser.
LEMMA ObjectEnd ==
  ASSUME TypeInv, ObjectInv, cur \in Users, NEW e \in UserRecord, Becomes(cur, e), pc' = "idle",
         UNCHANGED <<seenUser, mixed, edits>>,
         e.uid = user[cur].uid, e.exists => user[cur].exists /\ e.spec = user[cur].spec, e.spec \in Specs,
         e.observed <= e.gen,
         e.exists /\ e.phase = "Ready" => seenUser[cur].uid = e.uid
  PROVE  SpecInv' /\ MixInv' /\ SameInv' /\ StatusInv' /\ ApartInv'
<1>1. SpecInv'
  BY DEF ObjectInv, SpecInv, Becomes
<1>2. MixInv'
  BY DEF ObjectInv, MixInv, Share, Becomes
<1>3. SameInv'
  BY DEF ObjectInv, SameInv, Same, Becomes
<1>4. StatusInv'
  BY DEF ObjectInv, StatusInv, IsSaid, Becomes, Forward, Listing
<1>5. ApartInv'
  BY DEF ApartInv
<1> QED BY <1>1, <1>2, <1>3, <1>4, <1>5

LEMMA ForwardFacts ==
  ASSUME TypeInv, CopyInv, pc \in Forward
  PROVE  /\ cur \in Users /\ user[cur].exists /\ user[cur].fin /\ user[cur].uid = obj.uid
         /\ seenUser[cur].exists /\ seenUser[cur].uid = obj.uid
         /\ obj.gen <= user[cur].gen /\ ((obj.gen = user[cur].gen \/ edits = 0) => obj.spec = user[cur].spec)
<1>1. pc # "idle" /\ cur \in Users /\ obj.fin /\ ~obj.del
  BY Records DEF CopyInv, Forward, Listing
<1> QED BY <1>1 DEF CopyInv, Older

LEMMA ObjectEnds ==
  ASSUME TypeInv, ObjectInv, AddFinalizer \/ RemoveFinalizer \/ PatchStatus
  PROVE  SpecInv' /\ MixInv' /\ SameInv' /\ StatusInv' /\ ApartInv'
<1>1. pc' = "idle" /\ cur \in Users /\ UNCHANGED <<seenUser, lagging, mixed, edits>>
  BY FinalizerFacts, RemoverFacts, PatchFacts DEF caches
<1>2. CASE UNCHANGED user
  BY <1>1, <1>2, ObjectKept DEF Forward, Listing
<1>3. CASE AddFinalizer /\ ~UNCHANGED user
  <2> PICK e \in UserRecord : Becomes(cur, e) /\ SameVersion(user[cur], e) /\ SameStatus(user[cur], e)
    BY <1>3, FinalizerFacts
  <2>1. /\ e.uid = user[cur].uid /\ (e.exists => user[cur].exists) /\ e.spec = user[cur].spec /\ e.spec \in Specs
        /\ e.observed <= e.gen
        /\ e.exists /\ e.phase = "Ready" => seenUser[cur].uid = e.uid
    BY <1>1 DEF SameVersion, SameStatus, ObjectInv, SpecInv, StatusInv, IsSaid
  <2> QED BY <1>1, <2>1, ObjectEnd
<1>4. CASE RemoveFinalizer /\ ~UNCHANGED user
  <2> DEFINE e == Absent(user[cur].uid)
  <2>1. user[cur].uid \in 0..MaxUid
    BY <1>1, Records DEF UserRecord
  <2>2. e \in UserRecord /\ ~e.exists /\ e.uid = user[cur].uid /\ e.spec \in Specs /\ e.observed <= e.gen
    BY <2>1, AbsentFacts
  <2>3. Becomes(cur, e)
    BY <1>4, RemoverFacts
  <2> HIDE DEF e
  <2> QED BY <1>1, <2>2, <2>3, ObjectEnd
<1>5. CASE PatchStatus /\ ~UNCHANGED user
  <2> PICK e \in UserRecord : Becomes(cur, e) /\ PatchedTo(user[cur], e)
    BY <1>5, PatchFacts
  <2>1. pc \in Forward
    BY <1>5, PatchFacts DEF Forward
  <2>2. SameVersion(user[cur], e) /\ e.observed \in {obj.gen, user[cur].observed}
    BY DEF PatchedTo
  <2>3. /\ e.uid = user[cur].uid /\ (e.exists => user[cur].exists) /\ e.spec = user[cur].spec /\ e.spec \in Specs
        /\ seenUser[cur].uid = e.uid
    BY <2>1, <2>2, ForwardFacts DEF SameVersion, ObjectInv, SpecInv
  <2>4. e.observed <= e.gen
    BY <2>1, <2>2, ForwardFacts DEF SameVersion, ObjectInv, StatusInv
  <2> QED BY <1>1, <2>3, <2>4, ObjectEnd
<1> QED BY <1>2, <1>3, <1>4, <1>5

\* What the users do to a DatabaseUser.
LEMMA ObjectPeople ==
  ASSUME TypeInv, ObjectInv, NEW u \in Users, NEW e \in UserRecord, Becomes(u, e),
         UNCHANGED <<seenUser, lagging, local>>, mixed \subseteq mixed',
         edits' = edits \/ edits' = edits + 1,
         e.uid >= user[u].uid, e.spec \in Specs, e.observed <= e.gen,
         (e.exists /\ e.phase = "Ready") => IsSaid(u) /\ e.uid = user[u].uid,
         (e.exists /\ e.uid = user[u].uid) =>
             user[u].exists /\ (u \in mixed' \/ Same(user[u], e)),
         ~user[u].exists => e.uid = user[u].uid + 1,
         e.exists => Joined(u, e.spec) \/ (e.spec = user[u].spec /\ user[u].exists),
         (u \in mixed \/ e.spec.role = user[u].spec.role \/ e.phase # "Ready" \/ u \in mixed'),
         (pc \in Forward /\ cur = u) => SameStatus(user[u], e)
  PROVE  SpecInv' /\ MixInv' /\ SameInv' /\ StatusInv' /\ ApartInv'
<1>0. UNCHANGED <<pc, cur, obj>>
  BY DEF local
<1>1. SpecInv'
  BY <1>0 DEF ObjectInv, SpecInv, Becomes
<1>2. MixInv'
  <2> SUFFICES ASSUME NEW v \in Users, NEW w \in Users, v # w,
                      Share(user'[v], user'[w]) \/ Share(seenUser[v], seenUser[w])
               PROVE  v \in mixed'
    BY DEF MixInv
  <2>1. CASE Share(seenUser[v], seenUser[w])
    BY <2>1 DEF ObjectInv, MixInv
  <2>2. CASE Share(user'[v], user'[w])
    <3>1. CASE v # u /\ w # u
      BY <2>2, <3>1 DEF ObjectInv, MixInv, Becomes
    <3>2. CASE e.exists /\ Joined(u, e.spec)
      BY <2>2, <3>1, <3>2 DEF Joined, Becomes, Share
    <3>3. CASE e.exists /\ e.spec = user[u].spec /\ user[u].exists
      <4>1. Share(user[v], user[w])
        BY <2>2, <3>3 DEF Becomes, Share
      <4> QED BY <4>1 DEF ObjectInv, MixInv
    <3> QED BY <2>2, <3>1, <3>2, <3>3 DEF Becomes, Share
  <2> QED BY <2>1, <2>2
<1>3. SameInv'
  <2>1. e.uid \in Nat /\ user[u].uid \in Nat /\ obj.uid \in Nat /\ seenUser[u].uid \in Nat
    BY Records, BoundAssumption DEF UserRecord
  <2>2. seenUser[u].uid <= user[u].uid /\ ((pc # "idle" /\ cur = u) => obj.uid <= user[u].uid)
    BY DEF ObjectInv, CopyInv, Older
  <2>3. \A v \in Users : (v \notin mixed' /\ user'[v].exists /\ seenUser[v].uid = user'[v].uid)
                          => Same(seenUser[v], user'[v])
    BY <2>1, <2>2 DEF ObjectInv, SameInv, Same, Becomes
  <2>4. (pc # "idle" /\ cur \notin mixed' /\ user'[cur].exists /\ obj.uid = user'[cur].uid) => Same(obj, user'[cur])
    BY <2>1, <2>2, Records DEF ObjectInv, SameInv, Same, Becomes
  <2> QED BY <1>0, <2>3, <2>4 DEF SameInv
<1>4. StatusInv'
  <2>1. /\ \A v \in Users : user'[v].observed <= user'[v].gen /\ seenUser[v].observed <= seenUser[v].gen
        /\ pc # "idle" => obj.observed <= obj.gen
    BY DEF ObjectInv, StatusInv, Becomes
  <2>2. \A v \in Users : IsSaid(v)' => IsSaid(v) /\ user'[v].uid = user[v].uid
    BY DEF IsSaid, Becomes
  <2>3. (pc' # "idle" /\ IsSaid(cur)') => obj.uid = user'[cur].uid
    BY <1>0, <2>2, Records DEF ObjectInv, StatusInv, IsSaid
  <2>4. (pc \in Forward /\ ~lagging) => SameStatus(obj, user'[cur])
    <3>1. pc \in Forward => cur \in Users
      BY Records DEF Forward, Listing
    <3> QED BY <3>1 DEF ObjectInv, StatusInv, Becomes, SameStatus
  <2> QED BY <1>0, <2>1, <2>2, <2>3, <2>4 DEF ObjectInv, StatusInv
<1>5. ApartInv'
  <2>1. Clear' => Clear
    BY Records DEF Clear
  <2>2. \A v \in Users : IsSaid(v)' => IsSaid(v) /\ (user'[v].spec.role = user[v].spec.role \/ v \in mixed')
    BY DEF IsSaid, Becomes
  <2> QED BY <1>0, <2>1, <2>2 DEF ObjectInv, ApartInv
<1> QED BY <1>1, <1>2, <1>3, <1>4, <1>5

LEMMA ObjectUsers ==
  ASSUME TypeInv, ObjectInv, NEW u \in Users, CreateResource(u) \/ EditResource(u) \/ DeleteResource(u)
  PROVE  SpecInv' /\ MixInv' /\ SameInv' /\ StatusInv' /\ ApartInv'
<1>0. user[u].uid \in 0..MaxUid /\ user[u].uid \in Nat /\ user[u].gen \in Nat /\ user[u].observed \in Nat
  BY Records, BoundAssumption DEF UserRecord
<1>1. (pc \in Forward /\ cur = u) => user[u].exists /\ user[u].fin
  BY ForwardFacts DEF ObjectInv
<1>2. user[u].observed <= user[u].gen /\ user[u].spec \in Specs
  BY DEF ObjectInv, StatusInv, SpecInv
<1>3. CASE CreateResource(u)
  <2> PICK s \in Specs, e \in UserRecord : Becomes(u, e) /\ IsNew(e, user[u].uid + 1, s) /\ Joined(u, s)
    BY <1>3, CreateFacts
  <2>1. UNCHANGED <<seenUser, lagging, local, edits>> /\ ~user[u].exists
    BY <1>3, CreateFacts DEF caches, bounds
  <2>2. /\ e.exists /\ e.uid = user[u].uid + 1 /\ e.spec = s /\ e.phase # "Ready" /\ e.observed <= e.gen
        /\ e.uid >= user[u].uid /\ e.uid # user[u].uid
    BY <1>0 DEF IsNew
  <2>3. mixed \subseteq mixed'
    BY DEF Joined
  <2> QED BY <1>1, <2>1, <2>2, <2>3, ObjectPeople
<1>4. CASE EditResource(u)
  <2> PICK e \in UserRecord :
              /\ Becomes(u, e) /\ e.exists /\ e.fin = user[u].fin /\ e.del = user[u].del
              /\ e.uid = user[u].uid /\ e.gen = user[u].gen + 1 /\ e.spec \in Specs
              /\ SameStatus(user[u], e) /\ Joined(u, e.spec)
              /\ u \in mixed' \/ (e.spec.role = user[u].spec.role /\ e.spec.template = user[u].spec.template)
    BY <1>4, EditFacts
  <2>1. UNCHANGED <<seenUser, lagging, local>> /\ edits' = edits + 1 /\ user[u].exists
    BY <1>4, EditFacts DEF caches
  <2>2. /\ e.observed <= e.gen /\ e.uid >= user[u].uid
        /\ (e.exists /\ e.phase = "Ready") => IsSaid(u) /\ e.uid = user[u].uid
    BY <1>0, <1>2, <2>1 DEF SameStatus, IsSaid
  <2>3. mixed \subseteq mixed' /\ (u \in mixed' \/ Same(user[u], e))
    BY DEF Joined, Same
  <2> QED BY <2>1, <2>2, <2>3, ObjectPeople
<1>5. CASE DeleteResource(u) /\ ~user[u].fin /\ Becomes(u, Absent(user[u].uid))
  <2> DEFINE e == Absent(user[u].uid)
  <2>1. UNCHANGED <<seenUser, lagging, local, mixed, edits>> /\ user[u].exists
    BY <1>5, DeleteFacts DEF caches, bounds
  <2>2. /\ e \in UserRecord /\ ~e.exists /\ e.uid = user[u].uid /\ e.spec \in Specs /\ e.observed <= e.gen
        /\ e.phase # "Ready"
    BY <1>0, AbsentFacts
  <2>3. Becomes(u, e)
    BY <1>5
  <2> HIDE DEF e
  <2>4. e.uid >= user[u].uid
    BY <1>0, <2>2
  <2> QED BY <1>1, <1>5, <2>1, <2>2, <2>3, <2>4, ObjectPeople
<1>6. CASE DeleteResource(u) /\ \E e \in UserRecord :
                 /\ Becomes(u, e) /\ user[u].fin /\ e.exists /\ e.fin /\ e.del
                 /\ e.uid = user[u].uid /\ e.gen = user[u].gen + 1 /\ e.spec = user[u].spec
                 /\ SameStatus(user[u], e)
  <2> PICK e \in UserRecord :
                 /\ Becomes(u, e) /\ user[u].fin /\ e.exists /\ e.fin /\ e.del
                 /\ e.uid = user[u].uid /\ e.gen = user[u].gen + 1 /\ e.spec = user[u].spec
                 /\ SameStatus(user[u], e)
    BY <1>6
  <2>1. UNCHANGED <<seenUser, lagging, local, mixed, edits>> /\ user[u].exists
    BY <1>6, DeleteFacts DEF caches, bounds
  <2>2. /\ e.observed <= e.gen /\ e.uid >= user[u].uid
        /\ (e.exists /\ e.phase = "Ready") => IsSaid(u) /\ e.uid = user[u].uid
    BY <1>0, <1>2, <2>1 DEF SameStatus, IsSaid
  <2>3. Same(user[u], e)
    BY DEF Same
  <2> QED BY <1>2, <2>1, <2>2, <2>3, ObjectPeople
<1> QED BY <1>3, <1>4, <1>5, <1>6, DeleteFacts

LEMMA ObjectSync ==
  ASSUME TypeInv, ObjectInv, SyncUsers \/ Restart
  PROVE  SpecInv' /\ MixInv' /\ SameInv' /\ StatusInv' /\ ApartInv'
<1>1. seenUser' = user /\ UNCHANGED <<user, lagging, mixed, edits>> /\ (pc' = "idle" \/ UNCHANGED <<pc, cur, obj>>)
  BY DEF SyncUsers, Restart, Reset, local, bounds
<1>2. SpecInv' /\ MixInv' /\ SameInv'
  BY <1>1 DEF ObjectInv, SpecInv, MixInv, Share, SameInv, Same
<1>3. StatusInv'
  BY <1>1 DEF ObjectInv, StatusInv, IsSaid, Forward, Listing
<1>4. ApartInv'
  BY <1>1 DEF ObjectInv, ApartInv, Clear, IsSaid
<1> QED BY <1>2, <1>3, <1>4

LEMMA ObjectStep == ASSUME TypeInv, ObjectInv, [Next]_vars, TypeInv' PROVE ObjectInv'
<1>1. CopyInv'
  BY CopyStep DEF ObjectInv
<1>2. SpecInv' /\ MixInv' /\ SameInv' /\ StatusInv' /\ ApartInv'
  <2>1. CASE Calls
    <3>1. pc # "idle"
      BY <2>1, CallFacts DEF Forward, Listing
    <3> QED BY <2>1, <3>1, CallFacts, ObjectKept DEF caches
  <2>2. CASE Aside
    BY <2>2, AsideFacts, ObjectKept DEF local
  <2>3. CASE DropUser
    <3>1. pc # "idle" /\ pc' = "unfinalize" /\ UNCHANGED <<user, seenUser, lagging, mixed, edits, cur, obj>>
      BY <2>3 DEF DropUser, Goto, caches, others
    <3> QED BY <3>1, ObjectKept DEF Forward, Listing
  <2> QED BY <2>1, <2>2, <2>3, ObjectStart, ObjectEnds, ObjectUsers, ObjectSync, StepCases
<1> QED BY <1>1, <1>2 DEF ObjectInv

LEMMA ObjectInvariant == Spec => [](TypeInv /\ ObjectInv)
<1>1. TypeInv /\ TypeInv' /\ ObjectInv /\ [Next]_vars => ObjectInv'
  BY ObjectStep
<1> QED BY <1>1, ObjectInit, TypeInvariant, PTL DEF Spec

-----------------------------------------------------------------------------
(* What the calls do to a role                                             *)

RoleBecomes(x) == \A r \in Roles : role'[r] = IF r = obj.spec.role THEN x ELSE role[r]
LEMMA RoleBecoming ==
  ASSUME TypeInv, NEW x, role' = [role EXCEPT ![obj.spec.role] = x] PROVE RoleBecomes(x)
BY DEF TypeInv, TypeOK, RoleBecomes

Ensured(x) == IF x.exists THEN PasswordSet(x, password) ELSE CreatedUser(password)

LEMMA PasswordParts ==
  ASSUME NEW x \in RoleRecord, NEW p
  PROVE  /\ PasswordSet(x, p).exists = x.exists /\ PasswordSet(x, p).password = p
         /\ PasswordSet(x, p).connect = x.connect /\ PasswordSet(x, p).rights = x.rights
         /\ CreatedUser(p).exists /\ CreatedUser(p).password = p
         /\ CreatedUser(p).connect = {} /\ CreatedUser(p).rights = {}
<1>1. /\ PasswordSet(x, p).exists = x.exists /\ PasswordSet(x, p).password = p
      /\ PasswordSet(x, p).connect = x.connect /\ PasswordSet(x, p).rights = x.rights
  BY DEF PasswordSet, RoleRecord
<1>2. /\ CreatedUser(p).exists /\ CreatedUser(p).password = p
      /\ CreatedUser(p).connect = {} /\ CreatedUser(p).rights = {}
  BY DEF CreatedUser, NoSuchRole
<1> QED BY <1>1, <1>2

LEMMA RoleParts ==
  ASSUME NEW x \in RoleRecord, NEW dbs \in SUBSET Dbs, NEW rights \in SUBSET Rights
  PROVE  /\ Granting(x, dbs, rights).exists = x.exists /\ Granting(x, dbs, rights).password = x.password
         /\ Granting(x, dbs, rights).connect = x.connect
         /\ Granting(x, dbs, rights).rights = x.rights \cup (dbs \X rights)
         /\ Revoked(x, dbs).exists = x.exists /\ Revoked(x, dbs).connect = x.connect \ dbs
         /\ Revoked(x, dbs).rights = x.rights \ (dbs \X Rights)
         /\ Revoked(x, dbs).password = x.password
<1> DEFINE more == x.rights \cup (dbs \X rights)
           less == x.rights \ (dbs \X Rights)
           connect == x.connect \ dbs
<1>1. Granting(x, dbs, rights) = [x EXCEPT !.rights = more]
      /\ Revoked(x, dbs) = [x EXCEPT !.connect = connect, !.rights = less]
  BY DEF Granting, Revoked
<1> HIDE DEF more, less, connect
<1>2. /\ Granting(x, dbs, rights).exists = x.exists /\ Granting(x, dbs, rights).password = x.password
      /\ Granting(x, dbs, rights).connect = x.connect /\ Granting(x, dbs, rights).rights = more
      /\ Revoked(x, dbs).exists = x.exists /\ Revoked(x, dbs).connect = connect /\ Revoked(x, dbs).rights = less
      /\ Revoked(x, dbs).password = x.password
  BY <1>1 DEF RoleRecord
<1> QED BY <1>2 DEF more, less, connect

\* A call that fails leads to a status that says so.
Fails == pc' = "patch" /\ to'.phase = "Failed" /\ to'.granted = {}
LEMMA Failing ==
  /\ FailSecret => Fails /\ to'.secretName = NoSecret /\ UNCHANGED work
  /\ \A reason, name : Patch(FailedWithBase(reason, name)) => Fails /\ UNCHANGED work
<1>1. \A reason, name : LET f == FailedWithBase(reason, name) IN
        f.phase = "Failed" /\ f.secretName = name /\ f.granted = {}
  BY DEF FailedWithBase, Failed, NoTarget
<1> QED BY <1>1 DEF FailSecret, Patch, Fails

LEMMA AlterFacts ==
  ASSUME TypeInv, AlterPassword
  PROVE  /\ pc = "alter" /\ UNCHANGED <<secret, work>>
         /\ UNCHANGED role \/ (role[obj.spec.role].exists /\ RoleBecomes(PasswordSet(role[obj.spec.role], password)))
         /\ \/ /\ pc' = WriteStep(plan) /\ UNCHANGED to
               /\ role[obj.spec.role].exists /\ RoleBecomes(PasswordSet(role[obj.spec.role], password))
            \/ Fails /\ to'.secretName = NoSecret
<1> DEFINE r == obj.spec.role
           altered == [role EXCEPT ![r] = PasswordSet(role[r], password)]
<1>1. pc = "alter" /\ UNCHANGED secret
  BY DEF AlterPassword
<1>2. \/ role[r].exists /\ role' = altered /\ (FailSecret \/ Goto(WriteStep(plan)))
      \/ ~role[r].exists /\ FailSecret /\ UNCHANGED role
      \/ role[r].exists /\ role' \in {role, altered} /\ FailSecret
  BY DEF AlterPassword
<1>3. role' = altered => RoleBecomes(PasswordSet(role[r], password))
  BY RoleBecoming
<1> HIDE DEF altered
<1> QED BY <1>1, <1>2, <1>3, Failing DEF Goto

LEMMA EnsureFacts ==
  ASSUME TypeInv, EnsureUser
  PROVE  /\ pc = "role" /\ UNCHANGED <<secret, work>>
         /\ UNCHANGED role \/ RoleBecomes(Ensured(role[obj.spec.role]))
         /\ \/ pc' = "access" /\ UNCHANGED to /\ RoleBecomes(Ensured(role[obj.spec.role]))
            \/ Fails /\ faults' = faults + 1
<1> DEFINE r == obj.spec.role
           ensured == [role EXCEPT ![r] = Ensured(role[r])]
<1>1. pc = "role" /\ UNCHANGED secret
  BY DEF EnsureUser
<1>2. \/ role' = ensured /\ Goto("access")
      \/ faults' = faults + 1 /\ role' \in {role, ensured} /\ Patch(FailedWithBase("role", SecretUsed))
  BY DEF EnsureUser, Fault, Ensured
<1>3. role' = ensured => RoleBecomes(Ensured(role[r]))
  BY RoleBecoming
<1> HIDE DEF ensured
<1> QED BY <1>1, <1>2, <1>3, Failing DEF Goto

LEMMA SyncFacts ==
  ASSUME TypeInv, SyncDatabaseAccess
  PROVE  /\ pc = "access" /\ UNCHANGED <<secret, work>>
         /\ (pc' = "grant" /\ UNCHANGED to) \/ Fails
         /\ \E c \in SUBSET Dbs :
              /\ RoleBecomes([role[obj.spec.role] EXCEPT !.connect = c])
              /\ faults' = faults + 1 \/ (faults' = faults /\ c = obj.spec.dbs /\ pc' = "grant")
<1> DEFINE r == obj.spec.role
<1>1. pc = "access" /\ UNCHANGED secret
  BY DEF SyncDatabaseAccess
<1>2. (Goto("grant") \/ Patch(FailedWithBase("access", SecretUsed)))
  BY DEF SyncDatabaseAccess
<1>3. obj.spec.dbs \subseteq Dbs /\ role[r].connect \cup obj.spec.dbs \subseteq Dbs
  BY ObjType DEF TypeInv, TypeOK, RoleRecord
<1>4. \E c \in SUBSET Dbs :
        /\ role' = [role EXCEPT ![r].connect = c]
        /\ faults' = faults + 1 \/ (faults' = faults /\ c = obj.spec.dbs /\ Goto("grant"))
  BY <1>3 DEF SyncDatabaseAccess, Fault
<1>5. \E c \in SUBSET Dbs :
        /\ role' = [role EXCEPT ![r] = [role[r] EXCEPT !.connect = c]]
        /\ faults' = faults + 1 \/ (faults' = faults /\ c = obj.spec.dbs /\ pc' = "grant")
  BY <1>4 DEF Goto
<1> QED BY <1>1, <1>2, <1>5, RoleBecoming, Failing DEF Goto

LEMMA ApplyFacts ==
  ASSUME TypeInv, ApplyPrivileges
  PROVE  /\ pc = "grant" /\ pc' = "patch" /\ UNCHANGED <<secret, work>>
         /\ to'.phase = "Ready" /\ to'.granted = obj.spec.dbs /\ to'.secretName = SecretUsed
         /\ \E dbs \in SUBSET obj.spec.dbs :
              /\ RoleBecomes(Granting(role[obj.spec.role], dbs, obj.spec.rights))
              /\ faults' = faults + 1 \/ dbs = obj.spec.dbs
<1>1. pc = "grant" /\ pc' = "patch" /\ to' = Done /\ UNCHANGED <<secret, work>>
  BY DEF ApplyPrivileges, Patch
<1>2. Done.phase = "Ready" /\ Done.granted = obj.spec.dbs /\ Done.secretName = SecretUsed
  BY DEF Done
<1>3. \E dbs \in SUBSET obj.spec.dbs :
        /\ role' = [role EXCEPT ![obj.spec.role] = Granting(role[obj.spec.role], dbs, obj.spec.rights)]
        /\ faults' = faults + 1 \/ dbs = obj.spec.dbs
  BY DEF ApplyPrivileges, Fault
<1> QED BY <1>1, <1>2, <1>3, RoleBecoming

\* Is there anything to ask PostgreSQL for?
CanDrop == cluster # "absent" /\ (obj.hasCluster \/ obj.spec.dbs # {})
LEMMA DropFacts ==
  ASSUME TypeInv, DropUser
  PROVE  /\ pc = "drop" /\ pc' = "unfinalize" /\ UNCHANGED <<user, secret, caches, outside, mixed, cur, obj, work, to>>
         /\ UNCHANGED <<edits, meddles, crashes, outages>> /\ faults' \in {faults, faults + 1}
         /\ \/ CanDrop /\ RoleBecomes(Dropped(Revoked(role[obj.spec.role], DatabasesToRevoke)))
            \/ ~CanDrop /\ UNCHANGED role
            \/ /\ faults' = faults + 1
               /\ \E dbs \in SUBSET DatabasesToRevoke :
                    \/ RoleBecomes(Revoked(role[obj.spec.role], dbs))
                    \/ RoleBecomes(Dropped(Revoked(role[obj.spec.role], dbs)))
<1> DEFINE r == obj.spec.role
<1>1. /\ pc = "drop" /\ pc' = "unfinalize" /\ UNCHANGED <<user, secret, caches, outside, mixed, cur, obj, work, to>>
      /\ UNCHANGED <<edits, meddles, crashes, outages>> /\ faults' \in {faults, faults + 1}
  BY DEF DropUser, Goto, others, Fault
<1>2. \/ CanDrop /\ role' = [role EXCEPT ![r] = Dropped(Revoked(role[r], DatabasesToRevoke))]
      \/ ~CanDrop /\ UNCHANGED role
      \/ /\ faults' = faults + 1
         /\ \E dbs \in SUBSET DatabasesToRevoke :
              role' \in {[role EXCEPT ![r] = Revoked(role[r], dbs)],
                         [role EXCEPT ![r] = Dropped(Revoked(role[r], dbs))]}
  BY DEF DropUser, CanDrop, Fault
<1>3. \A x : role' = [role EXCEPT ![r] = x] => RoleBecomes(x)
  BY RoleBecoming
<1> QED BY <1>1, <1>2, <1>3

\* The other calls leave the roles alone, and no other than ApplyPrivileges says Ready.
LEMMA OtherCalls ==
  ASSUME TypeInv, Calls, ~AlterPassword, ~EnsureUser, ~SyncDatabaseAccess, ~ApplyPrivileges
  PROVE  /\ UNCHANGED role /\ pc' \notin {"access", "grant"} /\ pc \notin {"access", "grant"}
         /\ pc' = "patch" => to'.phase # "Ready" /\ to'.secretName = NoSecret /\ to'.granted = {}
<1>1. UNCHANGED role
  BY DEF Calls, FetchDatabases, ReadSecret, CreateSecret, WriteSecret, WriteDatabaseSecret, DeleteOldSecret
<1>2. pc \notin {"access", "grant"}
  BY DEF Calls, FetchDatabases, ReadSecret, CreateSecret, WriteSecret, WriteDatabaseSecret, DeleteOldSecret
<1> DEFINE Good == /\ pc' \notin {"access", "grant"}
                   /\ pc' = "patch" => to'.phase # "Ready" /\ to'.secretName = NoSecret /\ to'.granted = {}
<1> SUFFICES Good
  BY <1>1, <1>2
<1>3. FailSecret => Good
  BY Failing DEF Fails
<1>4. CASE FetchDatabases
  <2>1. Goto("secret") => Good
    BY DEF Goto
  <2>2. Patch(Failed("spec")) => Good
    BY DEF Patch, Failed, NoTarget
  <2>3. Patch([NoTarget EXCEPT !.phase = "Pending", !.reason = "waiting", !.requeue = TRUE]) => Good
    BY DEF Patch, NoTarget
  <2>4. Patch([FailedWithBase("connection", NoSecret) EXCEPT !.requeue = TRUE]) => Good
    BY DEF Patch, FailedWithBase, Failed, NoTarget
  <2> HIDE DEF Good
  <2> QED BY <1>4, <2>1, <2>2, <2>3, <2>4 DEF FetchDatabases
<1>5. CASE ReadSecret
  <2>1. \A how, copy : \A step \in {"alter", "old", "write"} : Take(step, how, copy) => Good
    BY DEF Take
  <2>2. \A how, any, copy : Take(WriteStep(any), how, copy) => Good
    BY DEF Take, WriteStep
  <2>3. Patch(FailedWithBase("secret", NoSecret)) => Good
    BY <1>3 DEF FailSecret
  <2> HIDE DEF Good
  <2> QED BY <1>5, <2>1, <2>2, <2>3 DEF ReadSecret, SecretMissing, SecretOwned, SecretForeign
<1>6. CASE CreateSecret \/ WriteSecret \/ DeleteOldSecret
  <2>1. Goto("old") \/ Goto("role") \/ FailSecret
    BY <1>6 DEF CreateSecret, WriteSecret, DeleteOldSecret
  <2> QED BY <1>3, <2>1 DEF Goto
<1>7. CASE WriteDatabaseSecret
  <2>1. pc' \in {"old", "perDatabase"} \/ FailSecret
    BY <1>7 DEF WriteDatabaseSecret
  <2> QED BY <1>3, <2>1
<1> QED BY <1>4, <1>5, <1>6, <1>7 DEF Calls

\* What only grows.
LEMMA Counts ==
  ASSUME TypeInv, [Next]_vars
  PROVE  /\ lagging' = lagging /\ faults \in Nat /\ edits \in Nat /\ crashes \in Nat /\ outages \in Nat
         /\ faults' \in Nat /\ faults' >= faults /\ edits' \in Nat /\ edits' >= edits
         /\ crashes' \in Nat /\ crashes' >= crashes /\ outages' \in Nat /\ outages' >= outages
<1>1. faults \in Nat /\ edits \in Nat /\ crashes \in Nat /\ outages \in Nat
  BY Records
<1>2. CASE Calls
  BY <1>1, <1>2, CallFacts DEF caches
<1>3. CASE Aside
  BY <1>1, <1>3, AsideFacts
<1>4. CASE AddFinalizer \/ RemoveFinalizer \/ PatchStatus \/ DropUser
  BY <1>1, <1>4, FinalizerFacts, RemoverFacts, PatchFacts, DropFacts DEF caches
<1>5. CASE \E u \in Users : Start(u) \/ CreateResource(u) \/ EditResource(u) \/ DeleteResource(u)
  <2> PICK u \in Users : Start(u) \/ CreateResource(u) \/ EditResource(u) \/ DeleteResource(u)
    BY <1>5
  <2>1. CASE Start(u)
    BY <1>1, <2>1, StartFacts DEF caches, bounds
  <2>2. CASE CreateResource(u)
    BY <1>1, <2>2, CreateFacts DEF caches, bounds
  <2>3. CASE EditResource(u)
    BY <1>1, <2>3, EditFacts DEF caches
  <2>4. CASE DeleteResource(u)
    BY <1>1, <2>4, DeleteFacts DEF caches, bounds
  <2> QED BY <2>1, <2>2, <2>3, <2>4
<1>6. CASE SyncUsers
  BY <1>1, <1>6 DEF SyncUsers, bounds
<1>7. CASE Restart
  BY <1>1, <1>7 DEF Restart
<1> QED BY <1>2, <1>3, <1>4, <1>5, <1>6, <1>7, StepCases

-----------------------------------------------------------------------------
(* A Ready user may connect where its spec says                            *)

RoleInv ==
  /\ \A r \in Roles : ~role[r].exists => role[r].connect = {} /\ role[r].rights = {}
  /\ pc \in {"access", "grant"} => role[obj.spec.role].exists

\* The grants are made before the status says so, and nobody else's reconciliation and no
\* later one of the same spec takes them back.
Given(s) == role[s.role].connect = s.dbs /\ s.dbs \X s.rights \subseteq role[s.role].rights
Says(u) == IsSaid(u) /\ ~user[u].del /\ u \notin mixed /\ (edits = 0 \/ user[u].observed = user[u].gen)
AccessInv ==
  /\ RoleInv
  /\ (faults = 0 /\ Clear) =>
       /\ pc = "grant" => role[obj.spec.role].connect = obj.spec.dbs
       /\ (pc = "patch" /\ to.phase = "Ready") => Given(obj.spec)
       /\ \A u \in Users : Says(u) => Given(user[u].spec)

Bare(x) == x.connect = {} /\ x.rights = {}
LEMMA DroppedParts ==
  ASSUME NEW x \in RoleRecord, NEW dbs \in SUBSET Dbs, ~x.exists => Bare(x)
  PROVE  /\ ~Revoked(x, dbs).exists => Bare(Revoked(x, dbs))
         /\ ~Dropped(Revoked(x, dbs)).exists => Bare(Dropped(Revoked(x, dbs)))
<1> DEFINE y == Revoked(x, dbs)
<1>1. y.exists = x.exists /\ y.connect = x.connect \ dbs /\ y.rights = x.rights \ (dbs \X Rights)
  BY RoleParts
<1>2. ~NoSuchRole.exists /\ NoSuchRole.connect = {} /\ NoSuchRole.rights = {}
  BY DEF NoSuchRole
<1> HIDE DEF y
<1>3. ~y.exists => Bare(y)
  BY <1>1 DEF Bare
<1>4. ~Dropped(y).exists => Bare(Dropped(y))
  BY <1>2, <1>3 DEF Dropped, Bare
<1> QED BY <1>3, <1>4 DEF y

\* The DatabaseUser at hand, if it says Ready for the spec it has, is reconciled for that spec.
LEMMA SameSpec ==
  ASSUME TypeInv, ObjectInv, Clear, pc \in Forward, IsSaid(cur), edits = 0 \/ user[cur].observed = user[cur].gen
  PROVE  obj.spec = user[cur].spec
<1>1. CASE edits = 0
  BY <1>1, ForwardFacts DEF ObjectInv
<1>2. CASE edits # 0 /\ user[cur].observed = user[cur].gen
  <2>1. obj.observed = user[cur].gen /\ obj.observed <= obj.gen
    BY <1>2 DEF ObjectInv, StatusInv, SameStatus, Clear, Forward, Listing
  <2>2. obj.gen <= user[cur].gen /\ obj.gen \in Nat /\ user[cur].gen \in Nat
    BY ForwardFacts, Records DEF ObjectInv, UserRecord
  <2> QED BY <2>1, <2>2, ForwardFacts DEF ObjectInv
<1> QED BY <1>1, <1>2

\* Nobody but the DatabaseUser at hand says Ready and uses its role alone.
LEMMA OnlyHere ==
  ASSUME TypeInv, ObjectInv, Clear, pc # "idle", NEW u \in Users, Says(u), user[u].spec.role = obj.spec.role
  PROVE  u = cur /\ pc \in Forward \cup {"finalizer"}
<1>1. u = cur
  BY DEF Says, ObjectInv, ApartInv
<1>2. obj.uid = user[cur].uid /\ ~user[cur].del /\ user[cur].exists
  BY <1>1 DEF Says, IsSaid, ObjectInv, StatusInv
<1>3. ~obj.del
  BY <1>2 DEF ObjectInv, CopyInv, Older
<1>4. pc \in Forward \cup {"finalizer", "drop", "unfinalize"}
  BY DEF TypeInv, TypeOK, Steps, Forward, Listing
<1> QED BY <1>1, <1>3, <1>4 DEF ObjectInv, CopyInv

LEMMA RoleOf ==
  ASSUME TypeInv
  PROVE  /\ obj.spec.role \in Roles /\ \A u \in Users : user[u].spec.role \in Roles
         /\ \A r \in Roles : role[r] \in RoleRecord
         /\ obj.spec.dbs \in SUBSET Dbs /\ obj.spec.rights \in SUBSET Rights
BY ObjType, Records DEF UserRecord, UserSpec, TypeInv, TypeOK

LEMMA AlterAccess ==
  ASSUME TypeInv, AlterPassword, NEW q \in Roles
  PROVE  /\ role'[q].connect = role[q].connect /\ role'[q].rights = role[q].rights
         /\ role'[q].exists = role[q].exists
<1> DEFINE r == obj.spec.role
           x == PasswordSet(role[r], password)
<1>1. x.connect = role[r].connect /\ x.rights = role[r].rights /\ x.exists = role[r].exists
  BY RoleOf, PasswordParts
<1>2. UNCHANGED role \/ RoleBecomes(x)
  BY AlterFacts
<1> HIDE DEF x
<1> QED BY <1>1, <1>2 DEF RoleBecomes

LEMMA EnsureAccess ==
  ASSUME TypeInv, RoleInv, EnsureUser, NEW q \in Roles
  PROVE  /\ role'[q].connect = role[q].connect /\ role'[q].rights = role[q].rights
         /\ role[q].exists => role'[q].exists
         /\ q # obj.spec.role => role'[q] = role[q]
         /\ pc' = "access" => role'[obj.spec.role].exists
<1> DEFINE r == obj.spec.role
           x == Ensured(role[r])
<1>1. x.connect = role[r].connect /\ x.rights = role[r].rights /\ x.exists
  <2>1. role[r] \in RoleRecord /\ (~role[r].exists => role[r].connect = {} /\ role[r].rights = {})
    BY RoleOf DEF RoleInv
  <2> QED BY <2>1, PasswordParts DEF Ensured
<1>2. (UNCHANGED role \/ RoleBecomes(x)) /\ (pc' = "access" => RoleBecomes(x))
  BY EnsureFacts DEF Fails
<1> HIDE DEF x
<1> QED BY <1>1, <1>2, RoleOf DEF RoleBecomes

LEMMA GrantAccess ==
  ASSUME TypeInv, NEW dbs, RoleBecomes(Granting(role[obj.spec.role], dbs, obj.spec.rights)), NEW q \in Roles
  PROVE  /\ role'[q].connect = role[q].connect /\ role'[q].exists = role[q].exists
         /\ role[q].rights \subseteq role'[q].rights
         /\ q = obj.spec.role => role'[q].rights = role[q].rights \cup (dbs \X obj.spec.rights)
         /\ q # obj.spec.role => role'[q] = role[q]
<1> DEFINE r == obj.spec.role
           x == Granting(role[r], dbs, obj.spec.rights)
           more == role[r].rights \cup (dbs \X obj.spec.rights)
<1>1. x.connect = role[r].connect /\ x.exists = role[r].exists /\ x.rights = more
  <2>1. x = [role[r] EXCEPT !.rights = more]
    BY DEF Granting
  <2> HIDE DEF x, more
  <2> QED BY <2>1, RoleOf DEF RoleRecord
<1>2. RoleBecomes(x)
  OBVIOUS
<1> HIDE DEF x
<1> QED BY <1>1, <1>2 DEF RoleBecomes

LEMMA AccessCalls == ASSUME TypeInv, ObjectInv, AccessInv, Calls PROVE AccessInv'
<1> DEFINE r == obj.spec.role
<1>1. /\ UNCHANGED <<user, cur, obj, mixed, edits, lagging>> /\ cur \in Users /\ pc # "idle" /\ pc \in Forward
      /\ faults' \in {faults, faults + 1} /\ faults \in Nat
  BY CallFacts, Records DEF caches, Forward, Listing
<1>2. r \in Roles /\ role[r] \in RoleRecord
  BY RoleOf
<1>3. \A u \in Users : Says(u)' <=> Says(u)
  BY <1>1 DEF Says, IsSaid
<1>4. CASE AlterPassword
  <2>1. \A q \in Roles : /\ role'[q].connect = role[q].connect /\ role'[q].rights = role[q].rights
                         /\ role'[q].exists = role[q].exists
    BY <1>4, AlterAccess
  <2>2. pc' \notin {"access", "grant"} /\ ~(pc' = "patch" /\ to'.phase = "Ready")
    BY <1>4, AlterFacts DEF WriteStep, Fails
  <2>3. faults' = 0 => faults = 0
    BY <1>1
  <2>4. \A u \in Users : Given(user[u].spec) => Given(user[u].spec)'
    BY <1>1, <2>1, RoleOf DEF Given
  <2> QED BY <1>1, <1>3, <2>1, <2>2, <2>3, <2>4 DEF AccessInv, RoleInv, Clear
<1>5. CASE EnsureUser
  <2>1. /\ \A q \in Roles : /\ role'[q].connect = role[q].connect /\ role'[q].rights = role[q].rights
                            /\ role[q].exists => role'[q].exists
        /\ pc' = "access" => role'[r].exists
    BY <1>2, <1>5, EnsureAccess, EnsureFacts DEF AccessInv, Fails
  <2>2. pc' # "grant" /\ ~(pc' = "patch" /\ to'.phase = "Ready")
    BY <1>5, EnsureFacts DEF Fails
  <2>3. faults' = 0 => faults = 0
    BY <1>1
  <2>4. \A u \in Users : Given(user[u].spec) => Given(user[u].spec)'
    BY <1>1, <2>1, RoleOf DEF Given
  <2> QED BY <1>1, <1>3, <2>1, <2>2, <2>3, <2>4 DEF AccessInv, RoleInv, Clear
<1>6. CASE SyncDatabaseAccess
  <2> PICK c \in SUBSET Dbs :
        /\ RoleBecomes([role[r] EXCEPT !.connect = c])
        /\ faults' = faults + 1 \/ (faults' = faults /\ c = obj.spec.dbs /\ pc' = "grant")
    BY <1>6, SyncFacts
  <2>1. \A q \in Roles : /\ role'[q].rights = role[q].rights /\ role'[q].exists = role[q].exists
                         /\ role'[q].connect = IF q = r THEN c ELSE role[q].connect
    BY <1>2 DEF RoleBecomes, RoleRecord
  <2>2. pc = "access" /\ ~(pc' = "patch" /\ to'.phase = "Ready") /\ pc' # "access"
    BY <1>6, SyncFacts DEF Fails
  <2>3. RoleInv'
    BY <1>1, <1>2, <2>1, <2>2 DEF AccessInv, RoleInv
  <2>4. (faults' = 0 /\ Clear') => faults = 0 /\ Clear /\ c = obj.spec.dbs
    BY <1>1 DEF Clear
  <2>5. ASSUME faults = 0, Clear, c = obj.spec.dbs, NEW u \in Users, Says(u) PROVE Given(user[u].spec)'
    <3>1. Given(user[u].spec)
      BY <2>5 DEF AccessInv
    <3>2. CASE user[u].spec.role # r
      BY <1>1, <2>1, <3>1, <3>2, RoleOf DEF Given
    <3>3. CASE user[u].spec.role = r
      <4>1. u = cur
        BY <1>1, <2>5, <3>3, OnlyHere
      <4>2. obj.spec = user[u].spec
        BY <1>1, <2>5, <4>1, SameSpec DEF Says
      <4> QED BY <1>1, <1>2, <2>1, <2>5, <3>1, <3>3, <4>2 DEF Given
    <3> QED BY <3>2, <3>3
  <2> QED BY <1>1, <1>2, <1>3, <2>1, <2>2, <2>3, <2>4, <2>5 DEF AccessInv
<1>7. CASE ApplyPrivileges
  <2> PICK dbs \in SUBSET obj.spec.dbs :
        /\ RoleBecomes(Granting(role[r], dbs, obj.spec.rights))
        /\ faults' = faults + 1 \/ dbs = obj.spec.dbs
    BY <1>7, ApplyFacts
  <2>1. \A q \in Roles : /\ role'[q].connect = role[q].connect /\ role'[q].exists = role[q].exists
                         /\ role[q].rights \subseteq role'[q].rights
                         /\ q = r => dbs \X obj.spec.rights \subseteq role'[q].rights
    BY GrantAccess
  <2>2. pc = "grant" /\ pc' = "patch"
    BY <1>7, ApplyFacts
  <2>3. RoleInv'
    <3>1. \A q \in Roles : q # r => role'[q] = role[q]
      BY DEF RoleBecomes
    <3>2. role'[r].exists
      BY <1>2, <2>1, <2>2 DEF AccessInv, RoleInv
    <3> QED BY <1>1, <2>2, <3>1, <3>2 DEF AccessInv, RoleInv
  <2>4. (faults' = 0 /\ Clear') => faults = 0 /\ Clear /\ dbs = obj.spec.dbs
    BY <1>1 DEF Clear
  <2>5. (faults = 0 /\ Clear /\ dbs = obj.spec.dbs) => Given(obj.spec)'
    BY <1>1, <1>2, <2>1, <2>2 DEF AccessInv, Given
  <2>6. \A u \in Users : Given(user[u].spec) => Given(user[u].spec)'
    BY <1>1, <2>1, RoleOf DEF Given
  <2> QED BY <1>1, <1>3, <2>2, <2>3, <2>4, <2>5, <2>6 DEF AccessInv
<1>8. CASE ~AlterPassword /\ ~EnsureUser /\ ~SyncDatabaseAccess /\ ~ApplyPrivileges
  <2>1. UNCHANGED role /\ pc' \notin {"access", "grant"} /\ ~(pc' = "patch" /\ to'.phase = "Ready")
    BY <1>8, OtherCalls
  <2>2. faults' = 0 => faults = 0
    BY <1>1
  <2> QED BY <1>1, <1>3, <2>1, <2>2 DEF AccessInv, RoleInv, Given, Clear
<1> QED BY <1>4, <1>5, <1>6, <1>7, <1>8

\* Steps that leave the roles alone and end the reconciliation, or begin one.
LEMMA AccessElse ==
  ASSUME TypeInv, AccessInv, [Next]_vars, UNCHANGED role,
         UNCHANGED <<pc, obj, to>> \/ pc' \notin {"access", "grant", "patch"},
         \A u \in Users :
           (Says(u)' /\ faults = 0 /\ Clear') => (Says(u) /\ user'[u].spec = user[u].spec) \/ Given(user'[u].spec)
  PROVE  AccessInv'
<1>1. RoleInv'
  BY DEF AccessInv, RoleInv
<1>2. (faults' = 0 /\ Clear') => faults = 0 /\ Clear
  BY Counts DEF Clear
<1>3. \A s : Given(s) => (role'[s.role].connect = s.dbs /\ s.dbs \X s.rights \subseteq role'[s.role].rights)
  BY DEF Given
<1> QED BY <1>1, <1>2, <1>3 DEF AccessInv, Given

LEMMA AccessPatch == ASSUME TypeInv, ObjectInv, AccessInv, PatchStatus PROVE AccessInv'
<1>0. [Next]_vars
  BY DEF Next, Reconcile
<1>1. /\ pc = "patch" /\ pc' = "idle" /\ cur \in Users /\ UNCHANGED <<role, mixed, edits, lagging>>
      /\ pc \in Forward
  BY PatchFacts DEF caches, Forward
<1>2. CASE UNCHANGED user
  <2>1. \A u \in Users : Says(u)' => Says(u)
    BY <1>1, <1>2 DEF Says, IsSaid
  <2> QED BY <1>0, <1>1, <1>2, <2>1, AccessElse
<1>3. CASE ~UNCHANGED user
  <2> PICK e \in UserRecord : Becomes(cur, e) /\ PatchedTo(user[cur], e)
    BY <1>3, PatchFacts
  <2>1. /\ e.exists = user[cur].exists /\ e.uid = user[cur].uid /\ e.del = user[cur].del
        /\ e.gen = user[cur].gen /\ e.spec = user[cur].spec
        /\ e.phase = IF to.phase # obj.phase THEN to.phase ELSE user[cur].phase
        /\ e.observed = IF obj.gen # obj.observed THEN obj.gen ELSE user[cur].observed
    BY DEF PatchedTo, SameVersion
  <2>2. \A u \in Users : (u # cur /\ Says(u)') => (Says(u) /\ user'[u].spec = user[u].spec)
    BY <1>1 DEF Says, IsSaid, Becomes
  <2>3. ASSUME NEW u \in Users, u = cur, Says(u)', faults = 0, Clear'
        PROVE  (Says(u) /\ user'[u].spec = user[u].spec) \/ Given(user'[u].spec)
    <3>1. Clear /\ user'[cur] = e
      BY <1>1, <2>3 DEF Clear, Becomes
    <3>2. user[cur].exists /\ ~user[cur].del /\ cur \notin mixed /\ e.phase = "Ready" /\ (edits = 0 \/ e.observed = e.gen)
      <4>1. /\ user'[cur].exists /\ ~user'[cur].del /\ cur \notin mixed' /\ user'[cur].phase = "Ready"
            /\ edits' = 0 \/ user'[cur].observed = user'[cur].gen
        BY <1>1, <2>3 DEF Says, IsSaid
      <4> QED BY <1>1, <2>1, <3>1, <4>1
    <3>3. CASE to.phase = "Ready"
      <4>1. obj.spec = user[cur].spec
        <5>1. CASE edits = 0
          BY <1>1, <5>1, ForwardFacts DEF ObjectInv
        <5>2. CASE edits # 0
          <6>1. obj.observed = user[cur].observed
            BY <1>1, <3>1, <5>2 DEF Clear, ObjectInv, StatusInv, SameStatus
          <6>2. obj.gen = user[cur].gen
            BY <2>1, <3>2, <5>2, <6>1
          <6> QED BY <1>1, <6>2, ForwardFacts DEF ObjectInv
        <5> QED BY <5>1, <5>2
      <4> QED BY <1>1, <2>1, <2>3, <3>1, <3>3, <4>1 DEF AccessInv
    <3>4. CASE to.phase # "Ready"
      <4>1. user[cur].phase = "Ready" /\ obj.phase # "Ready"
        BY <2>1, <3>2, <3>4
      <4>2. edits = 0
        BY <1>1, <3>1, <4>1 DEF Clear, ObjectInv, StatusInv, SameStatus
      <4> QED BY <2>1, <2>3, <3>1, <3>2, <4>1, <4>2 DEF Says, IsSaid
    <3> QED BY <3>3, <3>4
  <2>4. ASSUME NEW u \in Users, Says(u)', faults = 0, Clear'
        PROVE  (Says(u) /\ user'[u].spec = user[u].spec) \/ Given(user'[u].spec)
    <3>1. CASE u = cur
      BY <2>3, <2>4, <3>1
    <3>2. CASE u # cur
      BY <2>2, <2>4, <3>2
    <3> QED BY <3>1, <3>2
  <2>5. UNCHANGED role /\ pc' \notin {"access", "grant", "patch"}
    BY <1>1
  <2> QED BY <1>0, <2>4, <2>5, AccessElse
<1> QED BY <1>2, <1>3

LEMMA AccessStep == ASSUME TypeInv, ObjectInv, AccessInv, [Next]_vars PROVE AccessInv'
<1>1. CASE Aside
  <2>1. UNCHANGED <<user, role, lagging, pc, cur, obj, to, mixed, edits>>
    BY <1>1, AsideFacts DEF local
  <2>2. \A u \in Users : Says(u)' => Says(u)
    BY <2>1 DEF Says, IsSaid
  <2> QED BY <2>1, <2>2, AccessElse
<1>2. CASE SyncUsers
  <2>1. UNCHANGED <<user, role, lagging, pc, cur, obj, to, mixed, edits>>
    BY <1>2 DEF SyncUsers, local, bounds
  <2>2. \A u \in Users : Says(u)' => Says(u)
    BY <2>1 DEF Says, IsSaid
  <2> QED BY <2>1, <2>2, AccessElse
<1>3. CASE Restart
  <2>1. UNCHANGED <<user, role, lagging, mixed, edits>> /\ pc' = "idle"
    BY <1>3 DEF Restart, Reset
  <2>2. \A u \in Users : Says(u)' => Says(u)
    BY <2>1 DEF Says, IsSaid
  <2> QED BY <2>1, <2>2, AccessElse
<1>4. CASE \E u \in Users : Start(u)
  <2> PICK u \in Users : Start(u)
    BY <1>4
  <2>1. UNCHANGED <<user, role, lagging, mixed, edits>> /\ pc' \notin {"access", "grant", "patch"}
    BY StartFacts DEF caches, bounds
  <2>2. \A v \in Users : Says(v)' => Says(v)
    BY <2>1 DEF Says, IsSaid
  <2> QED BY <2>1, <2>2, AccessElse
<1>5. CASE AddFinalizer
  <2>1. UNCHANGED <<role, lagging, mixed, edits>> /\ pc' = "idle" /\ cur \in Users
    BY <1>5, FinalizerFacts DEF caches
  <2>2. \A v \in Users : Says(v)' => Says(v) /\ user'[v].spec = user[v].spec
    <3>1. CASE UNCHANGED user
      BY <2>1, <3>1 DEF Says, IsSaid
    <3>2. CASE ~UNCHANGED user
      <4> PICK e \in UserRecord : Becomes(cur, e) /\ SameVersion(user[cur], e) /\ SameStatus(user[cur], e)
        BY <1>5, <3>2, FinalizerFacts
      <4> QED BY <2>1 DEF Becomes, SameVersion, SameStatus, Says, IsSaid
    <3> QED BY <3>1, <3>2
  <2> QED BY <2>1, <2>2, AccessElse
<1>6. CASE RemoveFinalizer
  <2>1. UNCHANGED <<role, lagging, mixed, edits>> /\ pc' = "idle" /\ cur \in Users
    BY <1>6, RemoverFacts DEF caches
  <2>2. ~Absent(user[cur].uid).exists
    BY <2>1, Records, AbsentFacts DEF UserRecord
  <2>3. \A v \in Users : Says(v)' => Says(v) /\ user'[v].spec = user[v].spec
    BY <1>6, <2>1, <2>2, RemoverFacts DEF Says, IsSaid, Becomes
  <2> QED BY <2>1, <2>3, AccessElse
<1>7. CASE \E u \in Users : CreateResource(u)
  <2> PICK u \in Users : CreateResource(u)
    BY <1>7
  <2>0. UNCHANGED <<role, lagging, edits, pc, cur, obj, to>>
    BY CreateFacts DEF caches, bounds, local
  <2> PICK s \in Specs, e \in UserRecord : Becomes(u, e) /\ IsNew(e, user[u].uid + 1, s) /\ Joined(u, s)
    BY CreateFacts
  <2>1. \A v \in Users : Says(v)' => Says(v) /\ user'[v].spec = user[v].spec
    BY <2>0 DEF Says, IsSaid, Becomes, IsNew, Joined
  <2> QED BY <2>0, <2>1, AccessElse
<1>8. CASE \E u \in Users : EditResource(u)
  <2> PICK u \in Users : EditResource(u)
    BY <1>8
  <2>0. UNCHANGED <<role, lagging, pc, cur, obj, to>> /\ edits' = edits + 1 /\ edits \in Nat
    BY EditFacts, Records DEF caches, local
  <2> PICK e \in UserRecord :
        Becomes(u, e) /\ SameStatus(user[u], e) /\ Joined(u, e.spec) /\ e.gen = user[u].gen + 1
    BY EditFacts
  <2>1. ~Says(u)'
    <3>1. user[u].observed <= user[u].gen /\ user[u].gen \in Nat /\ user[u].observed \in Nat
      BY Records DEF ObjectInv, StatusInv, UserRecord
    <3> QED BY <2>0, <3>1 DEF Says, Becomes, SameStatus
  <2>2. \A v \in Users : (Says(v)' /\ Clear') => Says(v) /\ user'[v].spec = user[v].spec
    <3> SUFFICES ASSUME NEW v \in Users, v # u, Says(v)', Clear' PROVE Says(v) /\ user'[v].spec = user[v].spec
      BY <2>1
    <3>1. user'[v] = user[v] /\ v \notin mixed /\ user[v].observed = user[v].gen
      BY <2>0 DEF Says, Becomes, Joined
    <3> QED BY <3>1 DEF Says, IsSaid
  <2> QED BY <2>0, <2>2, AccessElse
<1>9. CASE \E u \in Users : DeleteResource(u)
  <2> PICK u \in Users : DeleteResource(u)
    BY <1>9
  <2>0. UNCHANGED <<role, lagging, mixed, edits, pc, cur, obj, to>>
    BY DeleteFacts DEF caches, bounds, local
  <2>1. \E e : Becomes(u, e) /\ (~e.exists \/ e.del)
    <3>1. ~Absent(user[u].uid).exists
      BY Records, AbsentFacts DEF UserRecord
    <3> QED BY <3>1, DeleteFacts
  <2>2. \A v \in Users : Says(v)' => Says(v) /\ user'[v].spec = user[v].spec
    BY <2>0, <2>1 DEF Says, IsSaid, Becomes
  <2> QED BY <2>0, <2>2, AccessElse
<1>10. CASE DropUser
  <2>1. /\ pc = "drop" /\ pc' = "unfinalize" /\ UNCHANGED <<user, lagging, mixed, cur, obj, to, edits>>
        /\ faults' \in {faults, faults + 1} /\ faults \in Nat
    BY <1>10, DropFacts, Records DEF caches
  <2>2. UNCHANGED role \/ \E x : RoleBecomes(x)
    BY <1>10, DropFacts
  <2>3. RoleInv'
    <3> DEFINE r == obj.spec.role
    <3>1. DatabasesToRevoke \in SUBSET Dbs /\ role[r] \in RoleRecord /\ (~role[r].exists => Bare(role[r]))
      BY ObjType, RoleOf DEF DatabasesToRevoke, AccessInv, RoleInv, Bare, UserRecord, UserSpec
    <3>2. \A dbs \in SUBSET Dbs :
            /\ ~Revoked(role[r], dbs).exists => Bare(Revoked(role[r], dbs))
            /\ ~Dropped(Revoked(role[r], dbs)).exists => Bare(Dropped(Revoked(role[r], dbs)))
      BY <3>1, DroppedParts
    <3>3. UNCHANGED role \/ \E dbs \in SUBSET Dbs :
            RoleBecomes(Revoked(role[r], dbs)) \/ RoleBecomes(Dropped(Revoked(role[r], dbs)))
      BY <1>10, <3>1, DropFacts
    <3> HIDE DEF r
    <3>4. UNCHANGED role \/ \E x : RoleBecomes(x) /\ (~x.exists => Bare(x))
      BY <3>2, <3>3
    <3> QED BY <2>1, <3>4 DEF RoleInv, AccessInv, RoleBecomes, Bare
  <2>4. ASSUME faults' = 0, Clear', NEW u \in Users, Says(u)' PROVE Given(user[u].spec)'
    <3>1. Says(u) /\ Clear /\ faults = 0
      BY <2>1, <2>4 DEF Says, IsSaid, Clear
    <3>2. user[u].spec.role # obj.spec.role
      BY <2>1, <3>1, OnlyHere DEF Forward, Listing
    <3>3. role'[user[u].spec.role] = role[user[u].spec.role]
      BY <2>2, <3>2, RoleOf DEF RoleBecomes
    <3> QED BY <2>1, <3>1, <3>3 DEF AccessInv, Given
  <2> QED BY <2>1, <2>3, <2>4 DEF AccessInv
<1> QED BY <1>1, <1>2, <1>3, <1>4, <1>5, <1>6, <1>7, <1>8, <1>9, <1>10, AccessCalls, AccessPatch, StepCases

LEMMA AccessInit == Init => AccessInv
<1> SUFFICES ASSUME Init PROVE AccessInv
  OBVIOUS
<1>1. pc = "idle" /\ \A r \in Roles : role[r] = NoSuchRole
  BY Zenon DEF Init
<1>2. \A u \in Users : user[u] = Absent(0)
  BY Zenon DEF Init
<1>3. ~Absent(0).exists
  BY AbsentFacts, Defaults
<1> QED BY <1>1, <1>2, <1>3 DEF AccessInv, RoleInv, NoSuchRole, Says, IsSaid

\* Whoever reads Ready for the spec that is there may connect to the databases of that spec and
\* to no others, with the privileges it asks for, once the controller rests: for late caches as
\* long as no spec is edited, and for specs edited at any moment if caches are current.
THEOREM AccessGiven == Spec => []AccessAsSpecified
<1>1. TypeInv /\ ObjectInv /\ AccessInv /\ [Next]_vars => AccessInv'
  BY AccessStep
<1>2. AccessInv => AccessAsSpecified
  BY DEF AccessInv, AccessAsSpecified, IsReady, Says, IsSaid, Clear, Given
<1> QED BY <1>1, <1>2, AccessInit, ObjectInvariant, PTL DEF Spec

-----------------------------------------------------------------------------
(* No role without a DatabaseUser                                          *)

\* Only a reconciliation that is done says Ready, and it lists what it granted.
TargetInv ==
  pc = "patch" =>
    IF to.phase = "Ready" THEN to.granted = obj.spec.dbs /\ obj.spec.dbs # {} /\ to.secretName = SecretUsed
    ELSE to.granted = {} /\ (faults = 0 => to.secretName = NoSecret)

\* The status lists the databases of a spec that was never edited, or none yet.
GrantInv ==
  edits = 0 =>
    /\ \A u \in Users :
         /\ user[u].granted \in {{}, user[u].spec.dbs}
         /\ (user[u].exists /\ seenUser[u].uid = user[u].uid /\ seenUser[u].granted # {})
              => user[u].granted = user[u].spec.dbs
    /\ (pc # "idle" /\ user[cur].exists /\ obj.uid = user[cur].uid /\ obj.granted # {})
         => user[cur].granted = user[cur].spec.dbs

Finishing == pc \in {"access", "grant"} \/ (pc = "patch" /\ to.phase = "Ready")

\* u is the one to drop r: its status lists all the databases, or is about to.
Owns(u, r) ==
  /\ user[u].exists /\ user[u].fin /\ user[u].spec.role = r /\ user[u].spec.dbs # {}
  /\ user[u].granted = user[u].spec.dbs \/ (Finishing /\ cur = u)
  /\ ~(pc = "unfinalize" /\ cur = u /\ obj = user[u])

Calm == faults = 0 /\ crashes = 0 /\ outages = 0 /\ edits = 0
Retained(r) == \E s \in Specs : s.role = r /\ s.policy = "Retain"
Reaches(x, d) == d \in x.connect \/ \E p \in Rights : <<d, p>> \in x.rights
HeirInv ==
  /\ outages = 0 => cluster = "connected"
  /\ Calm => \A r \in Roles : ~Retained(r) =>
               /\ role[r].exists => \E u \in Users : Owns(u, r)
               /\ \A d \in Dbs : Reaches(role[r], d) => \E u \in Users : Owns(u, r) /\ d \in user[u].spec.dbs

LeftInv == RoleInv /\ TargetInv /\ GrantInv /\ HeirInv

LEMMA TargetStep == ASSUME TypeInv, TargetInv, [Next]_vars PROVE TargetInv'
<1>0. ASSUME pc' # "patch" PROVE TargetInv'
  BY <1>0 DEF TargetInv
<1>1. CASE Calls
  <2>1. UNCHANGED <<cur, obj>> /\ (faults' = faults \/ faults' = faults + 1) /\ faults \in Nat
    BY <1>1, CallFacts, Records
  <2>2. CASE ApplyPrivileges
    <3>1. obj.spec.dbs # {}
      BY <2>2, ApplyFacts DEF TypeInv, ListsDbs, Listing
    <3>2. SecretUsed' = SecretUsed
      BY <2>1, <2>2, ApplyFacts DEF SecretUsed, work
    <3> QED BY <2>1, <2>2, <3>1, <3>2, ApplyFacts DEF TargetInv
  <2>3. CASE AlterPassword
    BY <2>3, <1>0, AlterFacts DEF TargetInv, Fails, WriteStep
  <2>4. CASE EnsureUser \/ SyncDatabaseAccess
    <3>1. pc' = "patch" => Fails /\ faults' = faults + 1
      BY <2>4, EnsureFacts, SyncFacts
    <3> QED BY <1>0, <2>1, <3>1 DEF TargetInv, Fails
  <2>5. CASE ~AlterPassword /\ ~EnsureUser /\ ~SyncDatabaseAccess /\ ~ApplyPrivileges
    BY <1>0, <1>1, <2>5, OtherCalls DEF TargetInv
  <2> QED BY <2>2, <2>3, <2>4, <2>5
<1>2. CASE AddFinalizer \/ RemoveFinalizer \/ PatchStatus \/ DropUser \/ Restart
  BY <1>0, <1>2, FinalizerFacts, RemoverFacts, PatchFacts, DropFacts DEF Restart, Reset
<1>3. CASE \E u \in Users : Start(u)
  BY <1>0, <1>3, StartFacts
<1>4. CASE Aside \/ SyncUsers \/ \E u \in Users : CreateResource(u) \/ EditResource(u) \/ DeleteResource(u)
  <2>1. UNCHANGED local /\ (UNCHANGED faults)
    BY <1>4, AsideFacts, CreateFacts, EditFacts, DeleteFacts DEF SyncUsers, bounds
  <2> QED BY <2>1 DEF TargetInv, SecretUsed, local, work
<1> QED BY <1>1, <1>2, <1>3, <1>4, StepCases

LEMMA RoleStep == ASSUME TypeInv, ObjectInv, AccessInv, [Next]_vars PROVE RoleInv'
BY AccessStep DEF AccessInv

LEMMA CopyUids ==
  ASSUME TypeInv, CopyInv, NEW u \in Users
  PROVE  /\ user[u].uid \in Nat /\ seenUser[u].uid \in Nat /\ seenUser[u].uid <= user[u].uid
         /\ (pc # "idle" /\ cur = u) => obj.uid \in Nat /\ obj.uid <= user[u].uid
BY Records DEF CopyInv, Older, UserRecord

\* Steps that change no DatabaseUser and no local copy, or end the reconciliation.
LEMMA GrantKept ==
  ASSUME GrantInv, UNCHANGED <<user, seenUser, edits>>, pc' = "idle" \/ (pc # "idle" /\ UNCHANGED <<cur, obj>>)
  PROVE  GrantInv'
BY DEF GrantInv

LEMMA GrantStep == ASSUME TypeInv, ObjectInv, TargetInv, GrantInv, [Next]_vars PROVE GrantInv'
<1>0. edits' = 0 => edits = 0
  BY Counts
<1>1. CASE Calls \/ DropUser
  <2>1. pc # "idle" /\ UNCHANGED <<user, seenUser, edits, cur, obj>>
    BY <1>1, CallFacts, DropFacts DEF caches, Forward, Listing
  <2> QED BY <2>1, GrantKept
<1>2. CASE Aside
  <2>1. UNCHANGED <<user, seenUser, edits, pc, cur, obj>>
    BY <1>2, AsideFacts DEF local
  <2> QED BY <2>1 DEF GrantInv
<1>3. CASE AddFinalizer \/ RemoveFinalizer \/ PatchStatus
  <2>1. /\ pc # "idle" /\ pc' = "idle" /\ cur \in Users
        /\ UNCHANGED <<seenUser, edits>>
    BY <1>3, FinalizerFacts, RemoverFacts, PatchFacts DEF caches
  <2>2. CASE UNCHANGED user
    BY <2>1, <2>2, GrantKept
  <2>3. CASE ~UNCHANGED user
    <3> SUFFICES ASSUME edits = 0,
                   NEW e \in UserRecord, Becomes(cur, e), e.uid = user[cur].uid,
                   \/ ~e.exists /\ e.granted = {}
                   \/ /\ user[cur].exists /\ e.spec = user[cur].spec
                      /\ e.granted \in {user[cur].granted, user[cur].spec.dbs}
                 PROVE  GrantInv'
      <4>1. CASE AddFinalizer
        BY <1>0, <2>1, <2>3, <4>1, FinalizerFacts DEF SameVersion, SameStatus, GrantInv, ObjectInv, CopyInv
      <4>2. CASE RemoveFinalizer
        <5>1. user[cur].uid \in 0..MaxUid
          BY <2>1, Records DEF UserRecord
        <5> QED BY <1>0, <2>1, <2>3, <4>2, <5>1, RemoverFacts, AbsentFacts DEF GrantInv
      <4>3. CASE PatchStatus
        <5> PICK e \in UserRecord : user[cur].exists /\ Becomes(cur, e) /\ PatchedTo(user[cur], e)
          BY <2>3, <4>3, PatchFacts
        <5>1. CASE edits # 0
          BY <1>0, <5>1 DEF GrantInv
        <5>2. CASE edits = 0
          <6>1. pc \in Forward /\ pc = "patch"
            BY <4>3, PatchFacts DEF Forward
          <6>2. obj.spec = user[cur].spec
            BY <5>2, <6>1, ForwardFacts DEF ObjectInv
          <6>3. NewGranted \in {obj.granted, obj.spec.dbs}
            BY <6>1 DEF TargetInv, NewGranted
          <6> QED BY <5>2, <6>2, <6>3 DEF PatchedTo, SameVersion
        <5> QED BY <5>1, <5>2
      <4> QED BY <1>3, <4>1, <4>2, <4>3
    <3> QED BY <2>1 DEF GrantInv, Becomes
  <2> QED BY <2>2, <2>3
<1>4. CASE \E u \in Users : CreateResource(u)
  <2> PICK u \in Users : CreateResource(u)
    BY <1>4
  <2>1. ~user[u].exists /\ UNCHANGED <<seenUser, edits, pc, cur, obj>>
    BY CreateFacts DEF caches, bounds, local
  <2> PICK s \in Specs, e \in UserRecord : Becomes(u, e) /\ IsNew(e, user[u].uid + 1, s)
    BY CreateFacts
  <2>2. e.granted = {} /\ e.uid # seenUser[u].uid /\ (pc # "idle" /\ cur = u => e.uid # obj.uid)
    BY Records, CopyUids DEF IsNew, UserRecord, ObjectInv
  <2>3. pc # "idle" => cur \in Users
    BY Records
  <2> QED BY <2>1, <2>2, <2>3 DEF GrantInv, Becomes
<1>5. CASE \E u \in Users : EditResource(u)
  <2>1. edits' # 0
    BY <1>5, EditFacts, Records
  <2> QED BY <2>1 DEF GrantInv
<1>6. CASE \E u \in Users : DeleteResource(u)
  <2> PICK u \in Users : DeleteResource(u)
    BY <1>6
  <2>1. user[u].exists /\ UNCHANGED <<seenUser, edits, pc, cur, obj>>
    BY DeleteFacts DEF caches, bounds, local
  <2>2. \E e : /\ Becomes(u, e) /\ e.uid = user[u].uid
               /\ \/ ~e.exists /\ e.granted = {}
                  \/ e.spec = user[u].spec /\ e.granted = user[u].granted
    <3>1. user[u].uid \in 0..MaxUid
      BY Records DEF UserRecord
    <3> QED BY <3>1, DeleteFacts, AbsentFacts DEF SameStatus
  <2>3. pc # "idle" => cur \in Users
    BY Records
  <2> QED BY <2>1, <2>2, <2>3 DEF GrantInv, Becomes
<1>7. CASE \E u \in Users : Start(u)
  <2> PICK u \in Users : Start(u)
    BY <1>7
  <2>1. /\ UNCHANGED <<user, seenUser, edits>> /\ pc = "idle"
        /\ pc' = "idle" \/ (cur' = u /\ obj' = seenUser[u])
    BY StartFacts DEF caches, bounds
  <2> QED BY <2>1 DEF GrantInv
<1>8. CASE SyncUsers \/ Restart
  <2>1. seenUser' = user /\ UNCHANGED <<user, edits>> /\ (pc' = "idle" \/ UNCHANGED <<pc, cur, obj>>)
    BY <1>8 DEF SyncUsers, Restart, Reset, local, bounds
  <2> QED BY <2>1 DEF GrantInv
<1> QED BY <1>1, <1>2, <1>3, <1>4, <1>5, <1>6, <1>7, <1>8, StepCases

LEMMA CalmBefore ==
  ASSUME TypeInv, [Next]_vars PROVE Calm' => Calm
BY Counts DEF Calm

LEMMA OwnsAfterCall ==
  ASSUME TypeInv, Calls, faults' = 0, NEW u \in Users, NEW r, Owns(u, r)
  PROVE  Owns(u, r)' /\ (Finishing => Finishing')
<1>1. UNCHANGED <<user, cur, obj>> /\ pc' \in Forward /\ pc # "patch" /\ faults \in Nat /\ faults' \in {faults, faults + 1}
  BY CallFacts, Records
<1>2. pc' # "unfinalize"
  BY <1>1 DEF Forward, Listing
<1>3. Finishing => Finishing'
  <2>1. CASE AlterPassword \/ EnsureUser
    BY <2>1, AlterFacts, EnsureFacts DEF Finishing
  <2>2. CASE SyncDatabaseAccess
    <3>1. pc' = "grant" \/ faults' = faults + 1
      BY <2>2, SyncFacts
    <3> QED BY <1>1, <3>1 DEF Finishing
  <2>3. CASE ApplyPrivileges
    BY <2>3, ApplyFacts DEF Finishing
  <2>4. CASE ~AlterPassword /\ ~EnsureUser /\ ~SyncDatabaseAccess /\ ~ApplyPrivileges
    BY <1>1, <2>4, OtherCalls DEF Finishing
  <2> QED BY <2>1, <2>2, <2>3, <2>4
<1> QED BY <1>1, <1>2, <1>3 DEF Owns

\* Steps that leave the roles and what keeps them alone.
LEMMA HeirElse ==
  ASSUME TypeInv, HeirInv, [Next]_vars, UNCHANGED role,
         outages' = outages => (cluster' = cluster \/ cluster' = "connected"),
         \A u \in Users : \A r \in Roles :
           (Calm /\ Calm' /\ ~Retained(r) /\ Owns(u, r)) => Owns(u, r)' /\ user'[u].spec = user[u].spec
  PROVE  HeirInv'
<1>1. outages' = 0 => cluster' = "connected"
  BY Counts DEF HeirInv
<1>2. ASSUME Calm', NEW r \in Roles, ~Retained(r)
      PROVE  /\ role'[r].exists => \E u \in Users : Owns(u, r)'
             /\ \A d \in Dbs : Reaches(role'[r], d) => \E u \in Users : Owns(u, r)' /\ d \in user'[u].spec.dbs
  <2>1. Calm
    BY <1>2, CalmBefore
  <2> QED BY <1>2, <2>1 DEF HeirInv
<1> QED BY <1>1, <1>2 DEF HeirInv

\* The DatabaseUser at hand keeps the role it is being given.
LEMMA HeirHere ==
  ASSUME TypeInv, ObjectInv, Calm, pc \in Listing, pc' \in Forward, UNCHANGED <<user, cur, obj>>, Finishing'
  PROVE  Owns(cur, obj.spec.role)' /\ user'[cur].spec = obj.spec /\ cur \in Users
<1>1. pc \in Forward /\ pc' # "unfinalize" /\ obj.spec.dbs # {}
  BY DEF Forward, Listing, TypeInv, ListsDbs
<1>2. cur \in Users /\ user[cur].exists /\ user[cur].fin /\ obj.spec = user[cur].spec
  BY <1>1, ForwardFacts DEF Calm, ObjectInv
<1> QED BY <1>1, <1>2 DEF Owns

LEMMA HeirCalls == ASSUME TypeInv, ObjectInv, LeftInv, Calls PROVE HeirInv'
<1> DEFINE r == obj.spec.role
<1>0. [Next]_vars
  BY DEF Next, Reconcile, Calls
<1>1. /\ UNCHANGED <<user, cur, obj, cluster>> /\ faults' \in {faults, faults + 1}
      /\ cur \in Users /\ pc' \in Forward /\ faults \in Nat /\ r \in Roles
  BY CallFacts, Records, RoleOf DEF outside
<1>2. \A u \in Users : \A q \in Roles : (Calm' /\ Owns(u, q)) => Owns(u, q)'
  BY OwnsAfterCall DEF Calm
<1> SUFFICES ASSUME Calm', NEW q \in Roles, ~Retained(q)
             PROVE  /\ role'[q].exists => \E u \in Users : Owns(u, q)'
                    /\ \A d \in Dbs : Reaches(role'[q], d) => \E u \in Users : Owns(u, q)' /\ d \in user'[u].spec.dbs
  BY <1>0, <1>1, Counts DEF LeftInv, HeirInv
<1>4. Calm /\ faults' = faults /\ faults = 0
  BY <1>0, <1>1, CalmBefore DEF Calm
<1>5. /\ role[q].exists => \E u \in Users : Owns(u, q)'
      /\ \A d \in Dbs : Reaches(role[q], d) => \E u \in Users : Owns(u, q)' /\ d \in user'[u].spec.dbs
  BY <1>1, <1>2, <1>4 DEF LeftInv, HeirInv
<1>3. CASE UNCHANGED role
  BY <1>3, <1>5
<1>6. CASE AlterPassword
  BY <1>5, <1>6, AlterAccess DEF Reaches
<1>7. CASE EnsureUser
  <2>1. \A d \in Dbs : Reaches(role'[q], d) => Reaches(role[q], d)
    BY <1>7, EnsureAccess DEF LeftInv, Reaches
  <2>2. pc' = "access" /\ pc \in Listing
    BY <1>4, <1>7, EnsureFacts DEF Listing
  <2>3. Owns(cur, r)'
    BY <1>1, <1>4, <2>2, HeirHere DEF Finishing
  <2>4. q # r => role'[q] = role[q]
    BY <1>7, EnsureAccess DEF LeftInv
  <2> QED BY <1>1, <1>5, <2>1, <2>3, <2>4
<1>8. CASE SyncDatabaseAccess
  <2> PICK c \in SUBSET Dbs : /\ RoleBecomes([role[r] EXCEPT !.connect = c])
                              /\ faults' = faults + 1 \/ (faults' = faults /\ c = obj.spec.dbs /\ pc' = "grant")
    BY <1>8, SyncFacts
  <2>1. pc = "access" /\ pc' = "grant" /\ c = obj.spec.dbs
    BY <1>4, <1>8, SyncFacts
  <2>2. Owns(cur, r)' /\ user'[cur].spec = obj.spec
    BY <1>1, <1>4, <2>1, HeirHere DEF Finishing, Listing
  <2>3. role[q] \in RoleRecord
    BY RoleOf
  <2>4. CASE q # r
    <3>1. role'[q] = role[q]
      BY <2>4 DEF RoleBecomes
    <3> QED BY <1>5, <3>1
  <2>5. CASE q = r
    <3>1. role'[q].connect = obj.spec.dbs /\ role'[q].rights = role[q].rights
      BY <2>1, <2>3, <2>5 DEF RoleBecomes, RoleRecord
    <3>2. \A d \in Dbs : Reaches(role'[q], d) => Reaches(role[q], d) \/ d \in obj.spec.dbs
      BY <3>1 DEF Reaches
    <3> QED BY <1>1, <1>5, <2>2, <2>5, <3>2
  <2> QED BY <2>4, <2>5
<1>9. CASE ApplyPrivileges
  <2> PICK dbs \in SUBSET obj.spec.dbs : /\ RoleBecomes(Granting(role[r], dbs, obj.spec.rights))
                                         /\ faults' = faults + 1 \/ dbs = obj.spec.dbs
    BY <1>9, ApplyFacts
  <2>1. /\ pc = "grant" /\ Finishing'
        /\ q # r => role'[q] = role[q]
        /\ role'[q].connect = role[q].connect
        /\ q = r => role'[q].rights = role[q].rights \cup (dbs \X obj.spec.rights)
    BY <1>9, ApplyFacts, GrantAccess DEF Finishing
  <2>2. Owns(cur, r)' /\ user'[cur].spec = obj.spec
    BY <1>1, <1>4, <2>1, HeirHere DEF Listing
  <2>3. CASE q # r
    BY <1>5, <2>1, <2>3
  <2>4. CASE q = r
    <3>1. \A d \in Dbs : Reaches(role'[q], d) => Reaches(role[q], d) \/ d \in obj.spec.dbs
      BY <2>1, <2>4 DEF Reaches
    <3> QED BY <1>1, <1>5, <2>2, <2>4, <3>1
  <2> QED BY <2>3, <2>4
<1> QED BY <1>3, <1>6, <1>7, <1>8, <1>9, OtherCalls

LEMMA HeirPatch == ASSUME TypeInv, ObjectInv, LeftInv, PatchStatus PROVE HeirInv'
<1>0. [Next]_vars
  BY DEF Next, Reconcile
<1>1. /\ pc = "patch" /\ pc' = "idle" /\ cur \in Users /\ UNCHANGED <<role, cluster>> /\ pc \in Forward
      /\ faults' \in {faults, faults + 1} /\ faults \in Nat
  BY PatchFacts, Records DEF Forward
<1>2. ASSUME Calm, Calm', NEW u \in Users, NEW r \in Roles, Owns(u, r)
      PROVE  Owns(u, r)' /\ user'[u].spec = user[u].spec
  <2>0. /\ user[cur].exists /\ obj.spec = user[cur].spec /\ obj.uid = user[cur].uid
        /\ obj.granted # {} => user[cur].granted = user[cur].spec.dbs
    BY <1>1, <1>2, ForwardFacts DEF ObjectInv, Calm, LeftInv, GrantInv
  <2>1. (Finishing /\ cur = u) => to.granted = user[cur].spec.dbs /\ to.granted # {}
    BY <1>1, <2>0 DEF Finishing, LeftInv, TargetInv
  <2>2. to.granted # {} => to.granted = user[cur].spec.dbs
    BY <1>1, <2>0 DEF LeftInv, TargetInv
  <2>3. CASE UNCHANGED user /\ ~StatusChanged
    <3>1. to.granted = {}
      BY <2>3 DEF StatusChanged
    <3> QED BY <1>1, <1>2, <2>1, <2>3, <3>1 DEF Owns
  <2>4. CASE \E e \in UserRecord : Becomes(cur, e) /\ PatchedTo(user[cur], e)
    <3> PICK e \in UserRecord : Becomes(cur, e) /\ PatchedTo(user[cur], e)
      BY <2>4
    <3>1. (Finishing /\ cur = u) => e.granted = user[cur].spec.dbs
      BY <2>0, <2>1 DEF PatchedTo, NewGranted
    <3>2. user[cur].granted = user[cur].spec.dbs => e.granted = user[cur].spec.dbs
      BY <2>2 DEF PatchedTo, NewGranted
    <3>3. e.exists = user[cur].exists /\ e.fin = user[cur].fin /\ e.spec = user[cur].spec
      BY DEF PatchedTo, SameVersion
    <3> QED BY <1>1, <1>2, <3>1, <3>2, <3>3 DEF Owns, Becomes
  <2>5. faults' # faults + 1
    BY <1>1, <1>2 DEF Calm
  <2> QED BY <2>0, <2>3, <2>4, <2>5, PatchFacts
<1> QED BY <1>0, <1>1, <1>2, HeirElse DEF LeftInv

LEMMA HeirDrop == ASSUME TypeInv, ObjectInv, LeftInv, DropUser PROVE HeirInv'
<1> DEFINE r == obj.spec.role
           lost == DatabasesToRevoke
           y == Revoked(role[r], lost)
<1>0. [Next]_vars
  BY DEF Next, Reconcile
<1>1. /\ pc = "drop" /\ pc' = "unfinalize" /\ UNCHANGED <<user, cur, obj, cluster>>
      /\ faults' \in {faults, faults + 1} /\ faults \in Nat /\ cur \in Users /\ r \in Roles /\ role[r] \in RoleRecord
  BY DropFacts, Records, RoleOf DEF outside
<1> SUFFICES ASSUME Calm', NEW q \in Roles, ~Retained(q)
             PROVE  /\ role'[q].exists => \E u \in Users : Owns(u, q)'
                    /\ \A d \in Dbs : Reaches(role'[q], d) => \E u \in Users : Owns(u, q)' /\ d \in user'[u].spec.dbs
  BY <1>0, <1>1, Counts DEF LeftInv, HeirInv
<1>2. Calm /\ faults' = faults /\ faults = 0 /\ cluster = "connected"
  BY <1>0, <1>1, CalmBefore DEF Calm, LeftInv, HeirInv
\* An owner that is lost is the one at hand, as it is now.
<1>3. ASSUME NEW u \in Users, Owns(u, q), ~Owns(u, q)' PROVE u = cur /\ obj = user[cur] /\ q = r
  BY <1>1, <1>3 DEF Owns, Finishing
<1>4. (Owns(cur, q) /\ obj = user[cur]) => user[cur].spec.dbs \subseteq lost /\ CanDrop
  BY <1>1, <1>2 DEF Owns, Finishing, CanDrop, DatabasesToRevoke
<1>5. /\ role[q].exists => \E u \in Users : Owns(u, q)
      /\ \A d \in Dbs : Reaches(role[q], d) => \E u \in Users : Owns(u, q) /\ d \in user[u].spec.dbs
  BY <1>2 DEF LeftInv, HeirInv
<1>6. CASE q # r
  <2>1. role'[q] = role[q]
    BY <1>1, <1>2, <1>6, DropFacts DEF RoleBecomes
  <2> QED BY <1>1, <1>3, <1>5, <1>6, <2>1
<1>7. CASE q = r /\ ~CanDrop
  <2>1. role' = role
    BY <1>1, <1>2, <1>7, DropFacts
  <2>2. \A u \in Users : Owns(u, q) => Owns(u, q)'
    BY <1>3, <1>4, <1>7
  <2> QED BY <1>1, <1>5, <2>1, <2>2
<1>8. CASE q = r /\ CanDrop
  <2>1. role'[q] = Dropped(y)
    BY <1>1, <1>2, <1>8, DropFacts DEF RoleBecomes
  <2>2. y.exists = role[r].exists /\ y.connect = role[r].connect \ lost /\ y.rights = role[r].rights \ (lost \X Rights)
    <3>1. lost \in SUBSET Dbs
      BY ObjType DEF DatabasesToRevoke
    <3>2. y = [role[r] EXCEPT !.connect = role[r].connect \ lost, !.rights = role[r].rights \ (lost \X Rights)]
      BY DEF Revoked
    <3> HIDE DEF y
    <3> QED BY <1>1, <3>2 DEF RoleRecord
  <2>3. ~NoSuchRole.exists /\ NoSuchRole.connect = {} /\ NoSuchRole.rights = {}
    BY DEF NoSuchRole
  <2> HIDE DEF y
  <2>4. \A d \in Dbs : Reaches(role'[q], d) => Reaches(role[q], d) /\ d \notin lost
    <3>1. \A d \in Dbs : Reaches(y, d) => Reaches(role[q], d) /\ d \notin lost
      BY <1>8, <2>2 DEF Reaches
    <3>2. \A d \in Dbs : ~Reaches(NoSuchRole, d)
      BY <2>3 DEF Reaches
    <3> QED BY <2>1, <3>1, <3>2 DEF Dropped
  <2>5. role'[q].exists => \E d \in Dbs : Reaches(role'[q], d)
    <3>1. (y.connect # {} \/ y.rights # {}) => \E d \in Dbs : Reaches(y, d)
      <4>1. y.connect \subseteq Dbs /\ y.rights \subseteq Dbs \X Rights
        BY <1>1, <2>2 DEF RoleRecord
      <4> QED BY <4>1 DEF Reaches
    <3> QED BY <2>1, <2>3, <3>1 DEF Dropped
  <2>6. ASSUME NEW d \in Dbs, Reaches(role'[q], d) PROVE \E u \in Users : Owns(u, q)' /\ d \in user'[u].spec.dbs
    <3>1. PICK u \in Users : Owns(u, q) /\ d \in user[u].spec.dbs
      BY <1>5, <2>4, <2>6
    <3>2. Owns(u, q)'
      BY <1>3, <1>4, <2>4, <2>6, <3>1
    <3> QED BY <1>1, <3>1, <3>2
  <2> QED BY <2>5, <2>6
<1> QED BY <1>6, <1>7, <1>8

LEMMA HeirStep == ASSUME TypeInv, ObjectInv, LeftInv, [Next]_vars PROVE HeirInv'
<1>0. HeirInv
  BY DEF LeftInv
<1>1. CASE Aside
  <2>1. UNCHANGED <<user, role, local>> /\ (outages' = outages => (cluster' = cluster \/ cluster' = "connected"))
    BY <1>1, AsideFacts
  <2>2. \A u \in Users : \A r \in Roles : Owns(u, r) => Owns(u, r)'
    BY <2>1 DEF Owns, Finishing, local
  <2> QED BY <1>0, <2>1, <2>2, HeirElse
<1>2. CASE SyncUsers
  <2>1. UNCHANGED <<user, role, local, cluster>>
    BY <1>2 DEF SyncUsers, outside
  <2>2. \A u \in Users : \A r \in Roles : Owns(u, r) => Owns(u, r)'
    BY <2>1 DEF Owns, Finishing, local
  <2> QED BY <1>0, <2>1, <2>2, HeirElse
<1>3. CASE Restart
  <2>1. UNCHANGED <<role, cluster>> /\ crashes' # 0
    BY <1>3, Records DEF Restart, outside
  <2> QED BY <1>0, <2>1, HeirElse DEF Calm
<1>4. CASE \E u \in Users : Start(u)
  <2> PICK u \in Users : Start(u)
    BY <1>4
  <2>1. UNCHANGED <<user, role, cluster>> /\ pc = "idle" /\ pc' \notin {"access", "grant", "patch"}
    BY StartFacts DEF outside
  <2>2. pc' = "unfinalize" => obj'.spec.policy = "Retain" /\ obj'.spec \in Specs
    BY StartFacts DEF ObjectInv, SpecInv
  <2>3. \A v \in Users : \A r \in Roles : (~Retained(r) /\ Owns(v, r)) => Owns(v, r)'
    BY <2>1, <2>2 DEF Owns, Finishing, Retained
  <2> QED BY <1>0, <2>1, <2>3, HeirElse
<1>5. CASE AddFinalizer
  <2>1. UNCHANGED <<role, cluster>> /\ pc = "finalizer" /\ pc' = "idle" /\ cur \in Users
    BY <1>5, FinalizerFacts DEF outside
  <2>2. UNCHANGED user \/ \E e : Becomes(cur, e) /\ SameVersion(user[cur], e) /\ SameStatus(user[cur], e) /\ e.fin
    BY <1>5, FinalizerFacts
  <2>3. \A u \in Users : \A r \in Roles : Owns(u, r) => Owns(u, r)' /\ user'[u].spec = user[u].spec
    BY <2>1, <2>2 DEF Owns, Finishing, Becomes, SameVersion, SameStatus
  <2> QED BY <1>0, <2>1, <2>3, HeirElse
<1>6. CASE RemoveFinalizer
  <2>1. UNCHANGED <<role, cluster>> /\ pc = "unfinalize" /\ pc' = "idle" /\ cur \in Users
    BY <1>6, RemoverFacts DEF outside
  <2>2. UNCHANGED user \/ (user[cur] = obj /\ \E e : Becomes(cur, e))
    BY <1>6, RemoverFacts
  <2>3. \A u \in Users : \A r \in Roles : Owns(u, r) => Owns(u, r)' /\ user'[u].spec = user[u].spec
    BY <2>1, <2>2 DEF Owns, Finishing, Becomes
  <2> QED BY <1>0, <2>1, <2>3, HeirElse
<1>7. CASE \E u \in Users : CreateResource(u)
  <2> PICK u \in Users : CreateResource(u)
    BY <1>7
  <2>1. UNCHANGED <<role, cluster, local>> /\ ~user[u].exists /\ \E e : Becomes(u, e)
    BY CreateFacts DEF outside
  <2>2. \A v \in Users : \A r \in Roles : Owns(v, r) => Owns(v, r)' /\ user'[v].spec = user[v].spec
    BY <2>1 DEF Owns, Finishing, Becomes, local
  <2> QED BY <1>0, <2>1, <2>2, HeirElse
<1>8. CASE \E u \in Users : EditResource(u)
  <2>1. UNCHANGED <<role, cluster>> /\ edits' # 0
    BY <1>8, EditFacts, Records DEF outside
  <2> QED BY <1>0, <2>1, HeirElse DEF Calm
<1>9. CASE \E u \in Users : DeleteResource(u)
  <2> PICK u \in Users : DeleteResource(u)
    BY <1>9
  <2>1. UNCHANGED <<role, cluster, local>> /\ user[u].exists /\ ~user[u].del
    BY DeleteFacts DEF outside, DeleteResource
  <2>2. \E e : /\ Becomes(u, e)
               /\ \/ ~user[u].fin
                  \/ /\ e.exists /\ e.fin /\ e.del /\ e.uid = user[u].uid
                     /\ e.spec = user[u].spec /\ e.granted = user[u].granted
    BY DeleteFacts DEF SameStatus
\* The copy that is about to be removed was deleted already.
  <2>3. \A e : (pc = "unfinalize" /\ cur = u /\ e.exists /\ e.del /\ e.uid = user[u].uid) => obj # e
    BY <2>1 DEF ObjectInv, CopyInv, Older
  <2>4. \A v \in Users : \A r \in Roles : Owns(v, r) => Owns(v, r)' /\ user'[v].spec = user[v].spec
    BY <2>1, <2>2, <2>3 DEF Owns, Finishing, Becomes, local
  <2> QED BY <1>0, <2>1, <2>4, HeirElse
<1> QED BY <1>1, <1>2, <1>3, <1>4, <1>5, <1>6, <1>7, <1>8, <1>9, HeirCalls, HeirPatch, HeirDrop, StepCases

LEMMA LeftStep == ASSUME TypeInv, ObjectInv, AccessInv, LeftInv, [Next]_vars PROVE LeftInv'
BY RoleStep, TargetStep, GrantStep, HeirStep DEF LeftInv

LEMMA LeftInit == Init => LeftInv
<1> SUFFICES ASSUME Init PROVE LeftInv
  OBVIOUS
<1>1. pc = "idle" /\ cluster = "connected" /\ \A r \in Roles : role[r] = NoSuchRole
  BY Zenon DEF Init
<1>2. \A u \in Users : user[u] = Absent(0) /\ seenUser[u] = Absent(0)
  BY Zenon DEF Init
<1>3. Absent(0).granted = {} /\ ~Absent(0).exists
  BY AbsentFacts, Defaults
<1>4. ~NoSuchRole.exists /\ NoSuchRole.connect = {} /\ NoSuchRole.rights = {}
  BY DEF NoSuchRole
<1> QED BY <1>1, <1>2, <1>3, <1>4 DEF LeftInv, RoleInv, TargetInv, GrantInv, HeirInv, Reaches

-----------------------------------------------------------------------------
(* What the calls do to a Secret                                           *)

SecretBecomes(n, s) == \A m \in Names : secret'[m] = IF m = n THEN s ELSE secret[m]
LEMMA SecretBecoming ==
  ASSUME TypeInv, NEW n, NEW s, secret' = [secret EXCEPT ![n] = s] PROVE SecretBecomes(n, s)
BY DEF TypeInv, TypeOK, SecretBecomes

LEMMA NameFacts ==
  ASSUME TypeInv
  PROVE  /\ obj.spec.secret \in SecretNames /\ SecretNames \subseteq Names
         /\ \A u \in Users : \A d \in Dbs : <<u, d>> \in Names \ SecretNames
         /\ NoUser \notin Users /\ NoSecret \notin Names /\ rest \subseteq Dbs
         /\ \A n \in Names : secret[n] \in SecretRecord /\ seenSecret[n] \in SecretRecord
         /\ NoSuchSecret.owner = NoUser /\ ForeignSecret.owner = NoUser
BY ObjType, NamesAssumption DEF Names, TypeInv, TypeOK, NoSuchSecret, ForeignSecret

LEMMA ReadFacts ==
  ASSUME TypeInv, ReadSecret
  PROVE  LET s == seenSecret[obj.spec.secret] IN
         /\ pc = "secret" /\ UNCHANGED <<secret, role>>
         /\ \/ Fails /\ to'.secretName = NoSecret /\ UNCHANGED work
            \/ /\ UNCHANGED to /\ pc' \in {"alter", "old", "write", "create", "perDatabase"}
               /\ rest' = IF obj.spec.generation = "perDatabase" /\ plan' \in {"create", "rotate"}
                          THEN obj.spec.dbs ELSE {}
               /\ \/ /\ plan' = "create" /\ ~s.exists /\ held' = NoSuchSecret /\ password' \in Unused
                     /\ pc' = IF obj.phase = "Ready" THEN "alter" ELSE WriteStep("create")
                  \/ /\ plan' = "rotate" /\ OwnedBy(s, cur, obj.uid) /\ held' = s /\ password' \in Unused
                     /\ pc' = "alter" /\ MustRotate
                  \/ /\ plan' \in {"read", "update"} /\ OwnedBy(s, cur, obj.uid) /\ held' = s
                     /\ password' = s.data[obj.spec.template].password
                     /\ pc' = IF plan' = "read" THEN "old" ELSE "write"
                  \/ /\ plan' \in {"adopt", "merge"} /\ s.exists /\ ~OwnedBy(s, cur, obj.uid) /\ held' = s
                     /\ password' \in Unused /\ pc' = "alter"
<1> DEFINE s == seenSecret[obj.spec.secret]
<1>1. pc = "secret" /\ UNCHANGED <<secret, role>>
  BY DEF ReadSecret
<1>2. CASE SecretMissing
  BY <1>1, <1>2 DEF SecretMissing, Take, WriteStep
<1>3. CASE SecretOwned(s)
  BY <1>1, <1>3 DEF SecretOwned, Take
<1>4. CASE SecretForeign(s)
  <2>1. \/ password' \in Unused /\ Take("alter", "adopt", s)
        \/ password' \in Unused /\ Take("alter", "merge", s)
        \/ FailSecret
    BY <1>4 DEF SecretForeign, FailSecret
  <2>2. s.exists /\ ~OwnedBy(s, cur, obj.uid)
    BY <1>4 DEF SecretForeign
  <2> QED BY <1>1, <2>1, <2>2, Failing DEF Take
<1> QED BY <1>2, <1>3, <1>4 DEF ReadSecret

LEMMA CreateSecretFacts ==
  ASSUME TypeInv, CreateSecret
  PROVE  LET n == obj.spec.secret
             written == SecretBecomes(n, OwnSecret(DataFor(obj.spec.dbs))) IN
         /\ pc = "create" /\ UNCHANGED <<role, work>>
         /\ UNCHANGED secret \/ (~secret[n].exists /\ written)
         /\ \/ pc' = "old" /\ UNCHANGED to /\ written
            \/ Fails /\ to'.secretName = NoSecret /\ (UNCHANGED secret \/ faults' = faults + 1)
<1> DEFINE n == obj.spec.secret
           s == OwnSecret(DataFor(obj.spec.dbs))
<1>1. \/ ~secret[n].exists /\ secret' = [secret EXCEPT ![n] = s] /\ Goto("old")
      \/ UNCHANGED secret /\ FailSecret
      \/ ~secret[n].exists /\ secret' = [secret EXCEPT ![n] = s] /\ FailSecret /\ faults' = faults + 1
  BY DEF CreateSecret, Fault
<1>2. pc = "create" /\ UNCHANGED role
  BY DEF CreateSecret
<1> HIDE DEF s
<1>3. secret' = [secret EXCEPT ![n] = s] => SecretBecomes(n, s)
  BY SecretBecoming
<1> QED BY <1>1, <1>2, <1>3, Failing DEF Goto, s

LEMMA WriteFacts ==
  ASSUME TypeInv, WriteSecret
  PROVE  LET n == obj.spec.secret
             written == secret[n] = held /\ SecretBecomes(n, Written) IN
         /\ pc = "write" /\ UNCHANGED <<role, work>>
         /\ UNCHANGED secret \/ written
         /\ \/ pc' = "old" /\ UNCHANGED to /\ (written \/ plan = "update")
            \/ /\ Fails /\ to'.secretName = NoSecret /\ plan # "update"
               /\ UNCHANGED secret \/ faults' = faults + 1
         /\ (UNCHANGED secret /\ faults' # faults + 1) => (secret[n] # held \/ written)
<1> DEFINE n == obj.spec.secret
<1>1. LET onError == IF plan = "update" THEN Goto("old") ELSE FailSecret IN
      \/ secret[n] = held /\ secret' = [secret EXCEPT ![n] = Written] /\ Goto("old")
      \/ secret[n] # held /\ UNCHANGED secret /\ onError
      \/ /\ secret[n] = held /\ faults' = faults + 1 /\ onError
         /\ UNCHANGED secret \/ secret' = [secret EXCEPT ![n] = Written]
  BY DEF WriteSecret, Fault
<1>2. pc = "write" /\ UNCHANGED role
  BY DEF WriteSecret
<1>3. secret' = [secret EXCEPT ![n] = Written] => SecretBecomes(n, Written)
  BY SecretBecoming
<1>4. FailSecret => Fails /\ to'.secretName = NoSecret /\ UNCHANGED work
  BY Failing
<1>5. Goto("old") => pc' = "old" /\ UNCHANGED <<to, work>>
  BY DEF Goto
<1> QED BY <1>1, <1>2, <1>3, <1>4, <1>5

\* What Written is: the Secret of the DatabaseUser, with its entry under the template.
LEMMA WrittenFacts ==
  ASSUME TypeInv, PlanInv, pc = "write", cur \in Users
  PROVE  /\ Written \in SecretRecord /\ OwnedBy(Written, cur, obj.uid)
         /\ Written.data[obj.spec.template].role = obj.spec.role
         /\ Written.data[obj.spec.template].password =
              IF plan = "update" THEN held.data[obj.spec.template].password ELSE password
<1> DEFINE t == obj.spec.template
           e == NewEntry(obj.spec.dbs)
           kept == [e EXCEPT !.password = held.data[t].password]
<1>0. Written \in SecretRecord
  BY WrittenType
<1>1. t \in Templates /\ e \in Entry
  BY ObjType, DataType
<1>2. held \in SecretRecord /\ held.data \in [Templates -> Entry]
  BY DEF TypeInv, TypeOK, SecretRecord
<1>3. e.role = obj.spec.role /\ e.password = password
  BY DEF NewEntry
<1>4. kept.role = obj.spec.role /\ kept.password = held.data[t].password
  <2> HIDE DEF e
  <2> QED BY <1>1, <1>3 DEF Entry
<1> DEFINE new == [held.data EXCEPT ![t] = e]
           same == [held.data EXCEPT ![t] = kept]
           fresh == DataFor(obj.spec.dbs)
<1>5. new[t] = e /\ same[t] = kept /\ fresh[t] = e
  <2>1. fresh = [EmptyData EXCEPT ![t] = e]
    BY DEF DataFor
  <2> HIDE DEF e, kept, t, fresh
  <2> QED BY <1>1, <1>2, <2>1 DEF EmptyData
<1>6. plan \in {"update", "rotate", "adopt", "merge"} /\ (plan \in {"update", "rotate"} => OwnedBy(held, cur, obj.uid))
  BY DEF PlanInv
<1>7. Written = CASE plan = "adopt" -> OwnSecret(fresh)
                  [] plan = "merge" -> OwnSecret(new)
                  [] plan = "rotate" -> [held EXCEPT !.data = new]
                  [] OTHER -> [held EXCEPT !.data = same]
  BY DEF Written
<1> HIDE DEF new, same, fresh, kept
<1>8. \A data : /\ OwnedBy(OwnSecret(data), cur, obj.uid) /\ OwnSecret(data).data = data
                /\ [held EXCEPT !.data = data].data = data
                /\ [held EXCEPT !.data = data].owner = held.owner
                /\ [held EXCEPT !.data = data].uid = held.uid
                /\ [held EXCEPT !.data = data].exists = held.exists
  BY <1>2 DEF OwnSecret, OwnedBy, SecretRecord
<1>9. CASE plan \in {"adopt", "merge"}
  BY <1>0, <1>3, <1>5, <1>7, <1>8, <1>9
<1>10. CASE plan = "rotate"
  BY <1>0, <1>3, <1>5, <1>6, <1>7, <1>8, <1>10 DEF OwnedBy
<1>11. CASE plan = "update"
  BY <1>0, <1>4, <1>5, <1>6, <1>7, <1>8, <1>11 DEF OwnedBy
<1> QED BY <1>6, <1>9, <1>10, <1>11

DbSecret(d) ==
  IF seenSecret[<<cur, d>>].exists THEN [seenSecret[<<cur, d>>] EXCEPT !.data = DataFor({d})]
  ELSE OwnSecret(DataFor({d}))
DbPossible(d) ==
  IF seenSecret[<<cur, d>>].exists THEN secret[<<cur, d>>] = seenSecret[<<cur, d>>]
  ELSE ~secret[<<cur, d>>].exists

LEMMA WriteDatabaseFacts ==
  ASSUME TypeInv, WriteDatabaseSecret
  PROVE  /\ pc = "perDatabase" /\ UNCHANGED <<role, held, plan, password>> /\ cur \in Users
         /\ \E d \in rest : LET written == DbPossible(d) /\ SecretBecomes(<<cur, d>>, DbSecret(d)) IN
              /\ d \in Dbs
              /\ UNCHANGED secret \/ written
              /\ (DbPossible(d) /\ faults' # faults + 1) => written
              /\ \/ rest' = rest \ {d} /\ UNCHANGED to /\ pc' = IF rest = {d} THEN "old" ELSE "perDatabase"
                 \/ Fails /\ to'.secretName = NoSecret
<1>1. pc = "perDatabase" /\ UNCHANGED role /\ cur \in Users
  BY DEF WriteDatabaseSecret, TypeInv, TypeOK
<1>2. FailSecret => Fails /\ to'.secretName = NoSecret /\ UNCHANGED work
  BY Failing
<1> PICK d \in rest :
      LET applied == [secret EXCEPT ![<<cur, d>>] = DbSecret(d)]
          goOn == /\ rest' = rest \ {d} /\ pc' = IF rest = {d} THEN "old" ELSE pc
                  /\ UNCHANGED <<held, plan, password, to>> IN
      /\ UNCHANGED secret \/ (DbPossible(d) /\ secret' = applied)
      /\ (DbPossible(d) /\ faults' # faults + 1) => secret' = applied
      /\ goOn \/ FailSecret
  BY DEF WriteDatabaseSecret, DbSecret, DbPossible, Fault
<1>3. secret' = [secret EXCEPT ![<<cur, d>>] = DbSecret(d)] => SecretBecomes(<<cur, d>>, DbSecret(d))
  BY SecretBecoming
<1>4. d \in Dbs
  BY NameFacts
<1> QED BY <1>1, <1>2, <1>3, <1>4 DEF work

OldDue == obj.secretName \notin {NoSecret, SecretUsed} /\ OwnedBy(seenSecret[obj.secretName], cur, obj.uid)
LEMMA OldFacts ==
  ASSUME TypeInv, DeleteOldSecret
  PROVE  /\ pc = "old" /\ pc' = "role" /\ UNCHANGED <<role, work, to>>
         /\ \/ OldDue /\ SecretBecomes(obj.secretName, NoSuchSecret)
            \/ UNCHANGED secret /\ (~OldDue \/ faults' = faults + 1)
<1>1. pc = "old" /\ pc' = "role" /\ UNCHANGED <<role, work, to>>
  BY DEF DeleteOldSecret, Goto
<1>2. \/ OldDue /\ secret' = [secret EXCEPT ![obj.secretName] = NoSuchSecret]
      \/ UNCHANGED secret /\ (~OldDue \/ faults' = faults + 1)
  BY DEF DeleteOldSecret, OldDue, Fault
<1> QED BY <1>1, <1>2, SecretBecoming


\* What others do to the Secrets, and the watch.
LEMMA AsideSecrets ==
  ASSUME TypeInv, Aside
  PROVE  \/ seenSecret' = secret /\ UNCHANGED secret
         \/ UNCHANGED seenSecret /\ \A n \in Names : \/ secret'[n] = secret[n]
                                                     \/ secret'[n] = NoSuchSecret
                                                     \/ n \in SecretNames /\ secret'[n] = ForeignSecret
<1>1. CASE SyncSecrets
  BY <1>1 DEF SyncSecrets
<1>2. CASE UNCHANGED <<secret, seenSecret>>
  BY <1>2
<1>3. CASE CollectGarbage
  <2>1. UNCHANGED seenSecret /\ \E n \in Names : secret' = [secret EXCEPT ![n] = NoSuchSecret]
    BY <1>3 DEF CollectGarbage, caches
  <2> QED BY <2>1, SecretBecoming DEF SecretBecomes
<1>4. CASE \E n \in SecretNames : Meddle(n)
  <2>1. PICK n \in SecretNames : Meddle(n)
    BY <1>4
  <2> DEFINE s == IF secret[n].exists THEN NoSuchSecret ELSE ForeignSecret
  <2>2. UNCHANGED seenSecret /\ secret' = [secret EXCEPT ![n] = s]
    BY <2>1, Zenon DEF Meddle, caches
  <2>3. s \in {NoSuchSecret, ForeignSecret}
    OBVIOUS
  <2> HIDE DEF s
  <2> QED BY <2>2, <2>3, SecretBecoming DEF SecretBecomes
<1> QED BY <1>1, <1>2, <1>3, <1>4 DEF Aside, Delayed, PasswordAges, ComeAndGo, ComeBack, vars, caches

Writers == CreateSecret \/ WriteSecret \/ WriteDatabaseSecret \/ DeleteOldSecret
LEMMA SecretElse ==
  ASSUME TypeInv, [Next]_vars, ~Aside, ~Writers
  PROVE  UNCHANGED secret /\ (UNCHANGED seenSecret \/ (Restart /\ seenSecret' = secret))
<1>1. CASE Calls
  BY <1>1, CallFacts, ReadFacts, AlterFacts, EnsureFacts, SyncFacts, ApplyFacts
     DEF Calls, Writers, FetchDatabases, caches
<1>2. CASE AddFinalizer \/ RemoveFinalizer \/ PatchStatus \/ DropUser
  BY <1>2, FinalizerFacts, RemoverFacts, PatchFacts, DropFacts DEF caches
<1>3. CASE \E u \in Users : Start(u) \/ CreateResource(u) \/ EditResource(u) \/ DeleteResource(u)
  BY <1>3, StartFacts, CreateFacts, EditFacts, DeleteFacts DEF caches
<1>4. CASE SyncUsers \/ Restart
  BY <1>4 DEF SyncUsers, Restart
<1> QED BY <1>1, <1>2, <1>3, <1>4, StepCases

\* Whose a Secret is: its owner stays, leaves it, or is the DatabaseUser at hand.
LEMMA SecretOwner ==
  ASSUME TypeInv, PlanInv, [Next]_vars, NEW n \in Names
  PROVE  \/ secret'[n].owner = NoUser
         \/ secret'[n].owner = secret[n].owner /\ secret'[n].uid = secret[n].uid
            /\ (secret'[n].exists => secret[n].exists)
         \/ /\ Writers /\ secret'[n].owner = cur /\ secret'[n].uid = obj.uid
            /\ n \in SecretNames => n = obj.spec.secret /\ pc \in {"create", "write"}
<1>0. /\ \A data : OwnSecret(data).owner = cur /\ OwnSecret(data).uid = obj.uid
      /\ NoSuchSecret.owner = NoUser /\ ForeignSecret.owner = NoUser
  BY NameFacts DEF OwnSecret
<1>1. CASE Aside
  BY <1>0, <1>1, AsideSecrets
<1>2. CASE CreateSecret
  BY <1>0, <1>2, CreateSecretFacts DEF SecretBecomes, Writers
<1>3. CASE WriteSecret
  <2>1. pc = "write" /\ cur \in Users
    BY <1>3, WriteFacts, Records
  <2> QED BY <1>3, <2>1, WriteFacts, WrittenFacts DEF SecretBecomes, Writers, OwnedBy
<1>4. CASE WriteDatabaseSecret
  <2> PICK d \in rest : d \in Dbs /\ (UNCHANGED secret \/ (DbPossible(d) /\ SecretBecomes(<<cur, d>>, DbSecret(d))))
    BY <1>4, WriteDatabaseFacts
  <2>1. cur \in Users /\ <<cur, d>> \notin SecretNames /\ <<cur, d>> \in Names
    BY <1>4, WriteDatabaseFacts, NameFacts
  <2> DEFINE s == seenSecret[<<cur, d>>]
  <2>2. s \in SecretRecord
    BY <2>1, NameFacts
  <2>3. \A data : LET e == [s EXCEPT !.data = data] IN e.owner = s.owner /\ e.uid = s.uid /\ e.exists = s.exists
    BY <2>2 DEF SecretRecord
  <2>4. \/ DbSecret(d).owner = cur /\ DbSecret(d).uid = obj.uid
        \/ /\ secret[<<cur, d>>] = s
           /\ DbSecret(d).owner = s.owner /\ DbSecret(d).uid = s.uid /\ DbSecret(d).exists = s.exists
        \/ ~DbPossible(d)
    BY <1>0, <2>3 DEF DbSecret, DbPossible
  <2> HIDE DEF s
  <2> QED BY <1>4, <2>1, <2>4 DEF SecretBecomes, Writers
<1>5. CASE DeleteOldSecret
  BY <1>0, <1>5, OldFacts DEF SecretBecomes
<1> QED BY <1>1, <1>2, <1>3, <1>4, <1>5, SecretElse DEF Writers

LEMMA UidGrows ==
  ASSUME TypeInv, [Next]_vars, NEW u \in Users
  PROVE  user'[u].uid \in Nat /\ user[u].uid \in Nat /\ user'[u].uid >= user[u].uid
<1>0. \A v \in Users : user[v].uid \in Nat /\ user[v].uid \in 0..MaxUid
  BY Records, BoundAssumption DEF UserRecord
<1>1. CASE Calls \/ DropUser \/ Aside \/ SyncUsers \/ Restart \/ \E v \in Users : Start(v)
  <2>1. UNCHANGED user
    BY <1>1, CallFacts, DropFacts, AsideFacts, StartFacts DEF SyncUsers, Restart
  <2> QED BY <1>0, <2>1
<1>2. CASE AddFinalizer \/ RemoveFinalizer \/ PatchStatus
  <2>1. UNCHANGED user \/ \E e : Becomes(cur, e) /\ e.uid = user[cur].uid
    <3>1. CASE RemoveFinalizer
      BY <1>0, <3>1, RemoverFacts, AbsentFacts
    <3> QED BY <1>2, <3>1, FinalizerFacts, PatchFacts DEF PatchedTo, SameVersion
  <2> QED BY <1>0, <2>1 DEF Becomes
<1>3. CASE \E v \in Users : CreateResource(v) \/ EditResource(v) \/ DeleteResource(v)
  <2> PICK v \in Users : CreateResource(v) \/ EditResource(v) \/ DeleteResource(v)
    BY <1>3
  <2>1. \E e : Becomes(v, e) /\ (e.uid = user[v].uid \/ e.uid = user[v].uid + 1)
    <3>1. CASE CreateResource(v)
      BY <3>1, CreateFacts DEF IsNew
    <3>2. CASE EditResource(v)
      BY <3>2, EditFacts
    <3>3. CASE DeleteResource(v)
      BY <1>0, <3>3, DeleteFacts, AbsentFacts
    <3> QED BY <3>1, <3>2, <3>3
  <2>2. PICK e : Becomes(v, e) /\ (e.uid = user[v].uid \/ e.uid = user[v].uid + 1)
    BY <2>1
  <2> QED BY <1>0, <2>2 DEF Becomes
<1> QED BY <1>1, <1>2, <1>3, StepCases

-----------------------------------------------------------------------------
(* The Secrets of a DatabaseUser                                           *)

\* No Secret is of an incarnation to come.
UidInv == \A n \in Names : \A u \in Users : secret[n].owner = u => secret[n].uid <= user[u].uid

WorkInv ==
  /\ pc = "perDatabase" => plan \in {"create", "rotate"} /\ obj.spec.generation = "perDatabase"
  /\ pc = "create" => plan = "create" /\ obj.spec.generation # "perDatabase"
  /\ pc = "write" => plan # "create" /\ (plan = "rotate" => obj.spec.generation # "perDatabase")
  /\ (pc = "write" /\ plan = "update") => password = held.data[obj.spec.template].password
  /\ pc = "alter" => plan \in {"create", "rotate", "adopt", "merge"}
  /\ (pc = "alter" /\ plan = "create") => obj.phase = "Ready"
  /\ (pc = "alter" /\ plan \in {"create", "rotate"} /\ obj.spec.generation = "perDatabase") => rest = obj.spec.dbs

\* While caches are current, the cache has the Secrets of the DatabaseUser at hand that the
\* reconciliation has not written yet.
Mine(n) == OwnedBy(secret[n], cur, obj.uid)
Untouched(n) ==
  \/ pc \in {"finalizer", "fetch", "secret", "alter", "create", "write"}
  \/ pc = "perDatabase" /\ (n \in SecretNames \/ \E d \in rest : n = <<cur, d>>)
  \/ pc = "old" /\ n \in SecretNames \ {SecretUsed}
SeenInv == ~lagging => \A n \in Names : (Untouched(n) /\ Mine(n)) => seenSecret[n] = secret[n]

LEMMA UidStep == ASSUME TypeInv, ObjectInv, PlanInv, UidInv, [Next]_vars PROVE UidInv'
<1> SUFFICES ASSUME NEW n \in Names, NEW u \in Users, secret'[n].owner = u PROVE secret'[n].uid <= user'[u].uid
  BY DEF UidInv
<1>1. user'[u].uid \in Nat /\ user[u].uid \in Nat /\ user'[u].uid >= user[u].uid
  BY UidGrows
<1>2. secret[n].uid \in Nat
  BY NameFacts, BoundAssumption DEF SecretRecord
<1>3. CASE secret'[n].owner = secret[n].owner /\ secret'[n].uid = secret[n].uid
  BY <1>1, <1>2, <1>3 DEF UidInv
<1>4. CASE Writers /\ secret'[n].owner = cur /\ secret'[n].uid = obj.uid
  <2>1. pc # "idle" /\ u = cur
    BY <1>4 DEF Writers, CreateSecret, WriteSecret, WriteDatabaseSecret, DeleteOldSecret
  <2>2. obj.uid \in Nat /\ obj.uid <= user[u].uid
    BY <2>1, CopyUids DEF ObjectInv
  <2> QED BY <1>1, <1>4, <2>2
<1> QED BY <1>3, <1>4, SecretOwner, NameFacts

LEMMA WorkStep == ASSUME TypeInv, PlanInv, WorkInv, [Next]_vars PROVE WorkInv'
<1>0. ASSUME pc' \notin {"perDatabase", "create", "write", "alter"} PROVE WorkInv'
  BY <1>0 DEF WorkInv
<1>1. CASE Calls
  <2>1. UNCHANGED <<cur, obj>>
    BY <1>1, CallFacts
  <2>2. CASE ReadSecret
    BY <2>1, <2>2, ReadFacts DEF WorkInv, WriteStep, Fails
  <2>3. CASE AlterPassword
    <3>1. Fails \/ (pc = "alter" /\ pc' = WriteStep(plan) /\ UNCHANGED work)
      BY <2>3, AlterFacts
    <3> QED BY <1>0, <2>1, <3>1 DEF WorkInv, WriteStep, Fails, work
  <2>4. CASE WriteDatabaseSecret
    <3>1. /\ pc = "perDatabase" /\ UNCHANGED <<held, plan, password>>
          /\ pc' \in {"old", "perDatabase"} \/ Fails
      BY <2>4, WriteDatabaseFacts
    <3> QED BY <1>0, <2>1, <3>1 DEF WorkInv, Fails
  <2>5. CASE ~ReadSecret /\ ~AlterPassword /\ ~WriteDatabaseSecret
    <3>1. Fails => WorkInv'
      BY <1>0 DEF Fails
    <3>2. FetchDatabases => WorkInv'
      BY <1>0 DEF FetchDatabases, Goto, Patch
    <3> QED BY <1>0, <1>1, <2>5, <3>1, <3>2, CreateSecretFacts, WriteFacts, OldFacts, EnsureFacts, SyncFacts,
               ApplyFacts DEF Calls
  <2> QED BY <2>2, <2>3, <2>4, <2>5
<1>2. CASE AddFinalizer \/ RemoveFinalizer \/ PatchStatus \/ DropUser \/ Restart \/ \E u \in Users : Start(u)
  BY <1>0, <1>2, FinalizerFacts, RemoverFacts, PatchFacts, DropFacts, StartFacts DEF Restart, Reset, WorkInv, work
<1>3. CASE Aside \/ SyncUsers \/ \E u \in Users : CreateResource(u) \/ EditResource(u) \/ DeleteResource(u)
  <2>1. UNCHANGED local
    BY <1>3, AsideFacts, CreateFacts, EditFacts, DeleteFacts DEF SyncUsers
  <2> QED BY <2>1 DEF WorkInv, local, work
<1> QED BY <1>1, <1>2, <1>3, StepCases


LEMMA SeenStep == ASSUME TypeInv, PlanInv, WorkInv, SeenInv, [Next]_vars PROVE SeenInv'
<1>0. lagging' = lagging /\ NoUser \notin Users /\ (pc # "idle" => cur \in Users)
  BY Counts, NameFacts, Records
<1>1. CASE pc' \notin {"finalizer", "fetch", "secret", "alter", "create", "write", "perDatabase", "old"}
  BY <1>1 DEF SeenInv, Untouched
<1>2. CASE \E u \in Users : Start(u)
  BY <1>0, <1>2, StartFacts DEF SeenInv, caches
<1>3. CASE UNCHANGED local /\ (Aside \/ ~Writers)
  <2>1. \A n \in Names : Untouched(n)' <=> Untouched(n)
    BY <1>3 DEF Untouched, SecretUsed, local, work
  <2>2. UNCHANGED <<cur, obj, pc>>
    BY <1>3 DEF local
  <2>3. CASE Aside
    <3>1. NoSuchSecret.owner \notin Users /\ ForeignSecret.owner \notin Users
      BY NameFacts
    <3>2. \A n \in Names : Untouched(n) => cur \in Users
      BY <1>0 DEF Untouched
    <3> QED BY <1>0, <2>1, <2>2, <2>3, <3>1, <3>2, AsideSecrets DEF SeenInv, Mine, OwnedBy
  <2>4. CASE ~Aside /\ ~Writers
    BY <1>0, <2>1, <2>2, <2>4, SecretElse DEF SeenInv, Mine
  <2> QED BY <1>3, <2>3, <2>4
<1>4. CASE Calls
  <2>1. UNCHANGED <<cur, obj, seenSecret>> /\ cur \in Users
    BY <1>4, CallFacts DEF caches
  <2>2. CASE ~Writers
    <3>1. UNCHANGED secret
      BY <1>4, <2>2, CallFacts, ReadFacts, AlterFacts, EnsureFacts, SyncFacts, ApplyFacts
         DEF Calls, Writers, FetchDatabases
    <3>2. \/ pc \in {"fetch", "secret", "alter"}
          \/ pc' \notin {"fetch", "secret", "alter", "create", "write", "perDatabase", "old"}
      BY <1>4, <2>2, ReadFacts, AlterFacts, EnsureFacts, SyncFacts, ApplyFacts
         DEF Calls, Writers, FetchDatabases, Fails
    <3>3. pc' # "finalizer"
      BY <1>4, CallFacts DEF Forward, Listing
    <3> QED BY <1>0, <2>1, <3>1, <3>2, <3>3 DEF SeenInv, Untouched, Mine
  <2>3. CASE CreateSecret \/ WriteSecret
    <3>1. /\ pc \in {"create", "write"} /\ (pc' = "old" \/ Fails) /\ UNCHANGED work
          /\ UNCHANGED secret \/ \E s : SecretBecomes(obj.spec.secret, s)
      BY <2>3, CreateSecretFacts, WriteFacts
    <3>2. SecretUsed' = obj.spec.secret
      BY <2>1, <3>1 DEF SecretUsed, WorkInv, work
    <3> QED BY <1>0, <2>1, <3>1, <3>2, NameFacts DEF SeenInv, Untouched, Mine, SecretBecomes, Fails
  <2>4. CASE WriteDatabaseSecret
    <3> PICK d \in rest :
          /\ d \in Dbs
          /\ UNCHANGED secret \/ SecretBecomes(<<cur, d>>, DbSecret(d))
          /\ (rest' = rest \ {d} /\ pc' \in {"old", "perDatabase"}) \/ Fails
      BY <2>4, WriteDatabaseFacts
    <3>1. pc = "perDatabase" /\ <<cur, d>> \notin SecretNames
      BY <2>1, <2>4, WriteDatabaseFacts, NameFacts
    <3>2. \A n \in Names : Untouched(n)' => Untouched(n) /\ n # <<cur, d>>
      BY <2>1, <3>1 DEF Untouched, Fails
    <3> QED BY <1>0, <2>1, <3>2 DEF SeenInv, Mine, SecretBecomes
  <2>5. CASE DeleteOldSecret
    BY <1>1, <2>5, OldFacts
  <2> QED BY <2>2, <2>3, <2>4, <2>5 DEF Writers
<1>5. CASE AddFinalizer \/ RemoveFinalizer \/ PatchStatus \/ DropUser \/ Restart
  BY <1>1, <1>5, FinalizerFacts, RemoverFacts, PatchFacts, DropFacts DEF Restart, Reset
<1>6. CASE Aside \/ SyncUsers \/ \E u \in Users : CreateResource(u) \/ EditResource(u) \/ DeleteResource(u)
  <2>1. UNCHANGED local
    BY <1>6, AsideFacts, CreateFacts, EditFacts, DeleteFacts DEF SyncUsers
  <2>2. Aside \/ ~Writers \/ UNCHANGED local
    BY <2>1
  <2>3. Writers => local' # local
    BY CreateSecretFacts, WriteFacts, WriteDatabaseFacts, OldFacts DEF Writers, local, work, Fails
  <2> QED BY <1>3, <2>1, <2>3
<1> QED BY <1>2, <1>4, <1>5, <1>6, StepCases

\* While caches are current and nothing fails, a DatabaseUser has the one Secret its status
\* names, and what the reconciliation at hand has made or is about to delete.
Late == pc \in {"role", "access", "grant"} \/ (pc = "patch" /\ to.phase = "Ready")
Mild == faults = 0 /\ crashes = 0 /\ ~lagging
OwnsSecret(u, n) == user[u].exists /\ OwnedBy(secret[n], u, user[u].uid)
Named(u, n) ==
  IF pc # "idle" /\ cur = u /\ Late THEN n = SecretUsed
  ELSE n = user[u].secretName \/ (pc = "old" /\ cur = u /\ n = SecretUsed)
NameInv ==
  Mild =>
    /\ \A u \in Users : \A n \in SecretNames : OwnsSecret(u, n) => Named(u, n)
    /\ \A u \in Users :
         (IsReady(u) /\ user[u].spec.generation = "primary") => user[u].secretName = user[u].spec.secret

LEMMA UserBefore ==
  ASSUME TypeInv, ObjectInv, [Next]_vars, NEW u \in Users, ~(PatchStatus /\ u = cur)
  PROVE  /\ (user'[u].exists /\ user'[u].uid = user[u].uid) =>
              user[u].exists /\ user'[u].secretName = user[u].secretName
         /\ IsReady(u)' =>
              /\ IsReady(u) /\ user'[u].spec = user[u].spec /\ user'[u].uid = user[u].uid
              /\ user'[u].secretName = user[u].secretName /\ user'[u].granted = user[u].granted
<1>0. \A v \in Users : /\ user[v].uid \in Nat /\ user[v].uid \in 0..MaxUid /\ user[v].gen \in Nat
                       /\ user[v].observed \in Nat /\ user[v].observed <= user[v].gen
  BY Records, BoundAssumption DEF UserRecord, ObjectInv, StatusInv
<1>1. CASE Calls \/ DropUser \/ Aside \/ SyncUsers \/ Restart \/ \E v \in Users : Start(v)
  <2>1. UNCHANGED user
    BY <1>1, CallFacts, DropFacts, AsideFacts, StartFacts DEF SyncUsers, Restart
  <2> QED BY <2>1 DEF IsReady
<1>2. CASE AddFinalizer
  <2>1. UNCHANGED user \/ \E e : Becomes(cur, e) /\ SameVersion(user[cur], e) /\ SameStatus(user[cur], e)
    BY <1>2, FinalizerFacts
  <2> QED BY <2>1 DEF IsReady, Becomes, SameVersion, SameStatus
<1>3. CASE RemoveFinalizer
  <2>1. UNCHANGED user \/ \E e : Becomes(cur, e) /\ ~e.exists
    BY <1>0, <1>3, RemoverFacts, AbsentFacts
  <2> QED BY <2>1 DEF IsReady, Becomes
<1>4. CASE PatchStatus
  <2>1. UNCHANGED user \/ \E e : Becomes(cur, e)
    BY <1>4, PatchFacts
  <2> QED BY <1>4, <2>1 DEF IsReady, Becomes
<1>5. CASE \E v \in Users : CreateResource(v)
  <2>1. \E v \in Users : \E e : Becomes(v, e) /\ e.uid = user[v].uid + 1 /\ e.phase # "Ready"
    BY <1>5, CreateFacts DEF IsNew
  <2> QED BY <1>0, <2>1 DEF IsReady, Becomes
<1>6. CASE \E v \in Users : EditResource(v)
  <2>1. \E v \in Users : \E e : /\ Becomes(v, e) /\ user[v].exists /\ SameStatus(user[v], e)
                               /\ e.gen = user[v].gen + 1
    BY <1>6, EditFacts
  <2>2. \A v \in Users : user[v].observed # user[v].gen + 1
    BY <1>0
  <2> QED BY <2>1, <2>2 DEF IsReady, Becomes, SameStatus
<1>7. CASE \E v \in Users : DeleteResource(v)
  <2>1. \E v \in Users : \E e : Becomes(v, e) /\ (~e.exists \/ (user[v].exists /\ e.del /\ SameStatus(user[v], e)))
    BY <1>0, <1>7, DeleteFacts, AbsentFacts
  <2> QED BY <2>1 DEF IsReady, Becomes, SameStatus
<1> QED BY <1>1, <1>2, <1>3, <1>4, <1>5, <1>6, <1>7, StepCases

LEMMA OwnsBefore ==
  ASSUME TypeInv, ObjectInv, PlanInv, UidInv, [Next]_vars, NEW u \in Users, NEW n \in SecretNames, OwnsSecret(u, n)'
  PROVE  \/ OwnsSecret(u, n)
         \/ CreateSecret \/ WriteSecret
<1>1. user'[u].uid \in Nat /\ user[u].uid \in Nat /\ user'[u].uid >= user[u].uid
  BY UidGrows
<1>2. n \in Names /\ secret[n].uid \in Nat /\ NoUser \notin Users
  BY NameFacts, BoundAssumption DEF SecretRecord
<1>3. secret'[n].exists /\ secret'[n].owner = u /\ secret'[n].uid = user'[u].uid /\ user'[u].exists
  BY DEF OwnsSecret, OwnedBy
<1>4. CASE secret'[n].owner = secret[n].owner /\ secret'[n].uid = secret[n].uid /\ secret[n].exists
  <2>1. user'[u].uid = user[u].uid /\ secret[n].uid = user[u].uid
    BY <1>1, <1>2, <1>3, <1>4 DEF UidInv
  <2>2. CASE PatchStatus /\ u = cur
    BY <1>3, <1>4, <2>1, <2>2, PatchFacts DEF PatchedTo, SameVersion, Becomes, OwnsSecret, OwnedBy
  <2>3. CASE ~(PatchStatus /\ u = cur)
    BY <1>3, <1>4, <2>1, <2>3, UserBefore DEF OwnsSecret, OwnedBy
  <2> QED BY <2>2, <2>3
<1>5. CASE Writers /\ pc \in {"create", "write"}
  BY <1>5, WriteDatabaseFacts, OldFacts DEF Writers
<1> QED BY <1>2, <1>3, <1>4, <1>5, SecretOwner


\* Nobody gets a Secret but the DatabaseUser at hand.
LEMMA OtherOwner ==
  ASSUME TypeInv, ObjectInv, PlanInv, UidInv, [Next]_vars, NEW u \in Users \ {cur}, NEW n \in SecretNames,
         OwnsSecret(u, n)'
  PROVE  OwnsSecret(u, n)
<1>1. user'[u].uid \in Nat /\ user[u].uid \in Nat /\ user'[u].uid >= user[u].uid
  BY UidGrows
<1>2. n \in Names /\ secret[n].uid \in Nat /\ NoUser \notin Users
  BY NameFacts, BoundAssumption DEF SecretRecord
<1>3. secret'[n].exists /\ secret'[n].owner = u /\ secret'[n].uid = user'[u].uid /\ user'[u].exists
  BY DEF OwnsSecret, OwnedBy
<1>4. secret'[n].owner = secret[n].owner /\ secret'[n].uid = secret[n].uid /\ secret[n].exists
  BY <1>2, <1>3, SecretOwner
<1>5. user'[u].uid = user[u].uid /\ secret[n].uid = user[u].uid
  BY <1>1, <1>2, <1>3, <1>4 DEF UidInv
<1> QED BY <1>3, <1>4, <1>5, UserBefore DEF OwnsSecret, OwnedBy

LEMMA ReadyUsed ==
  ASSUME TypeInv, pc = "patch", obj.spec.dbs # {} PROVE SecretUsed \in Names
<1>1. cur \in Users /\ obj.spec.secret \in Names /\ obj.spec.dbs \subseteq Dbs
  BY Records, NameFacts, ObjType
<1>2. (CHOOSE d \in obj.spec.dbs : TRUE) \in obj.spec.dbs
  OBVIOUS
<1> QED BY <1>1, <1>2 DEF SecretUsed, Names

\* The reconciliation at hand, from the first write of its Secret to the status.
LEMMA NameCalls ==
  ASSUME TypeInv, ObjectInv, PlanInv, UidInv, WorkInv, SeenInv, NameInv, Calls, Mild, Mild',
         NEW n \in SecretNames, OwnsSecret(cur, n)'
  PROVE  Named(cur, n)'
<1>0. [Next]_vars
  BY DEF Next, Reconcile, Calls
<1>1. /\ cur \in Users /\ UNCHANGED <<user, cur, obj>> /\ pc \in Forward /\ pc' \in Forward /\ pc' # "idle"
      /\ faults' # faults + 1 /\ pc # "patch" /\ pc # "idle"
  BY CallFacts DEF Forward, Listing, Mild
<1>2. /\ obj.uid = user[cur].uid /\ obj.secretName = user[cur].secretName /\ user[cur].exists
  BY <1>1, ForwardFacts DEF ObjectInv, StatusInv, SameStatus, Mild
<1>3. n \in Names /\ obj.spec.secret \in Names
  BY NameFacts
<1>4. CASE CreateSecret \/ WriteSecret
  <2>1. /\ pc \in {"create", "write"} /\ (pc' = "old" \/ (Fails /\ UNCHANGED secret)) /\ UNCHANGED work
        /\ UNCHANGED secret \/ \E s : SecretBecomes(obj.spec.secret, s)
    BY <1>1, <1>4, CreateSecretFacts, WriteFacts
  <2>2. SecretUsed' = obj.spec.secret
    BY <1>1, <2>1 DEF SecretUsed, WorkInv, work
  <2>3. (n = obj.spec.secret /\ pc' = "old") \/ OwnsSecret(cur, n)
    BY <1>1, <1>3, <2>1 DEF OwnsSecret, SecretBecomes, OwnedBy
  <2>4. OwnsSecret(cur, n) => n = user[cur].secretName
    BY <1>1, <2>1 DEF NameInv, Named, Late
  <2>5. ~Late'
    BY <2>1 DEF Late, Fails
  <2> QED BY <1>1, <2>2, <2>3, <2>4, <2>5 DEF Named
<1>5. CASE DeleteOldSecret
  <2>1. pc = "old" /\ pc' = "role" /\ UNCHANGED work
    BY <1>5, OldFacts
  <2>2. SecretUsed' = SecretUsed
    BY <1>1, <2>1 DEF SecretUsed, work
  <2>3. OwnsSecret(cur, n)
    BY <1>0, <1>1, <2>1, OwnsBefore, CreateSecretFacts, WriteFacts
  <2>4. n = SecretUsed \/ n = obj.secretName
    BY <1>1, <1>2, <2>1, <2>3 DEF NameInv, Named, Late
  <2>5. CASE n # SecretUsed
    <3>1. OldDue
      <4>1. n # NoSecret
        BY <1>3, NameFacts
      <4>2. seenSecret[n] = secret[n]
        BY <1>2, <1>3, <2>1, <2>3, <2>5 DEF SeenInv, Untouched, Mine, OwnsSecret, Mild
      <4> QED BY <1>2, <2>3, <2>4, <2>5, <4>1, <4>2 DEF OldDue, OwnsSecret
    <3>2. secret'[n] = NoSuchSecret
      BY <1>1, <1>3, <1>5, <2>4, <2>5, <3>1, OldFacts DEF SecretBecomes
    <3> QED BY <1>1, <3>2, NameFacts DEF OwnsSecret, OwnedBy
  <2> QED BY <1>1, <2>1, <2>2, <2>5 DEF Named, Late
<1>6. CASE EnsureUser \/ SyncDatabaseAccess \/ ApplyPrivileges
  <2>1. /\ pc \in {"role", "access", "grant"} /\ UNCHANGED <<secret, work>>
        /\ pc' \in {"access", "grant"} \/ (pc' = "patch" /\ to'.phase = "Ready")
    BY <1>1, <1>6, EnsureFacts, SyncFacts, ApplyFacts
  <2>2. SecretUsed' = SecretUsed
    BY <1>1, <2>1 DEF SecretUsed, work
  <2> QED BY <1>1, <2>1, <2>2 DEF NameInv, Named, Late, OwnsSecret
<1>7. CASE FetchDatabases \/ ReadSecret \/ AlterPassword \/ WriteDatabaseSecret
  <2>1. /\ pc \in {"fetch", "secret", "alter", "perDatabase"}
        /\ pc' \notin {"role", "access", "grant"} /\ ~(pc' = "patch" /\ to'.phase = "Ready")
    <3>1. CASE FetchDatabases
      <4>1. pc = "fetch" /\ pc' \in {"patch", "secret"}
        BY <3>1 DEF FetchDatabases, Goto, Patch
      <4>2. pc' = "patch" => to'.phase # "Ready"
        BY <3>1, <4>1, OtherCalls DEF Calls, AlterPassword, EnsureUser, SyncDatabaseAccess, ApplyPrivileges
      <4> QED BY <4>1, <4>2
    <3>2. CASE ReadSecret
      BY <3>2, ReadFacts DEF Fails
    <3>3. CASE AlterPassword
      BY <3>3, AlterFacts DEF Fails, WriteStep
    <3>4. CASE WriteDatabaseSecret
      BY <3>4, WriteDatabaseFacts DEF Fails
    <3> QED BY <1>7, <3>1, <3>2, <3>3, <3>4
  <2>2. OwnsSecret(cur, n)
    BY <1>0, <1>1, <2>1, OwnsBefore, CreateSecretFacts, WriteFacts
  <2>3. n = user[cur].secretName
    BY <1>1, <2>1, <2>2 DEF NameInv, Named, Late
  <2> QED BY <1>1, <2>1, <2>3 DEF Named, Late
<1> QED BY <1>4, <1>5, <1>6, <1>7 DEF Calls

LEMMA NamePatch ==
  ASSUME TypeInv, ObjectInv, TargetInv, NameInv, PatchStatus, Mild, Mild'
  PROVE  /\ \A n \in SecretNames : OwnsSecret(cur, n) => n = user'[cur].secretName
         /\ (user'[cur].phase = "Ready" /\ user'[cur].observed = user'[cur].gen)
              => (user'[cur].spec.generation = "primary" => user'[cur].secretName = user'[cur].spec.secret)
<1>1. pc = "patch" /\ pc \in Forward /\ cur \in Users /\ faults' # faults + 1
  BY PatchFacts DEF Forward, Mild
<1>2. user[cur].exists /\ obj.uid = user[cur].uid /\ SameStatus(obj, user[cur])
      /\ obj.gen <= user[cur].gen /\ (obj.gen = user[cur].gen => obj.spec = user[cur].spec)
      /\ obj.gen \in Nat /\ user[cur].gen \in Nat
  BY <1>1, ForwardFacts, Records DEF ObjectInv, StatusInv, Mild, UserRecord
<1>3. /\ IF to.phase = "Ready" THEN to.secretName = SecretUsed /\ SecretUsed # NoSecret ELSE to.secretName = NoSecret
  <2>1. to.phase = "Ready" => SecretUsed \in Names
    BY <1>1, ReadyUsed DEF TargetInv
  <2> QED BY <1>1, <2>1, NameFacts DEF TargetInv, Mild
<1> DEFINE name == IF to.phase = "Ready" THEN SecretUsed ELSE user[cur].secretName
<1>4. /\ user'[cur].secretName = name /\ user'[cur].phase = to.phase /\ user'[cur].observed = obj.gen
      /\ user'[cur].gen = user[cur].gen /\ user'[cur].spec = user[cur].spec
  <2>1. CASE UNCHANGED user /\ ~StatusChanged
    BY <1>2, <1>3, <2>1 DEF StatusChanged, SameStatus
  <2>2. CASE \E e \in UserRecord : Becomes(cur, e) /\ PatchedTo(user[cur], e)
    <3> PICK e \in UserRecord : Becomes(cur, e) /\ PatchedTo(user[cur], e)
      BY <2>2
    <3>1. user'[cur] = e
      BY <1>1 DEF Becomes
    <3> QED BY <1>2, <1>3, <3>1 DEF PatchedTo, SameVersion, SameStatus, NewName
  <2> QED BY <1>1, <1>2, <2>1, <2>2, PatchFacts
<1>5. ASSUME NEW n \in SecretNames, OwnsSecret(cur, n) PROVE n = user'[cur].secretName
  BY <1>1, <1>4, <1>5 DEF NameInv, Named, Late
<1>6. ASSUME user'[cur].phase = "Ready", user'[cur].observed = user'[cur].gen, user'[cur].spec.generation = "primary"
      PROVE  user'[cur].secretName = user'[cur].spec.secret
  <2>1. obj.spec = user[cur].spec
    BY <1>2, <1>4, <1>6
  <2> QED BY <1>4, <1>6, <2>1 DEF SecretUsed
<1> QED BY <1>5, <1>6

LEMMA NameStep ==
  ASSUME TypeInv, ObjectInv, PlanInv, TargetInv, UidInv, WorkInv, SeenInv, NameInv, [Next]_vars PROVE NameInv'
<1> SUFFICES ASSUME Mild' PROVE /\ \A u \in Users : \A n \in SecretNames : OwnsSecret(u, n)' => Named(u, n)'
                                /\ \A u \in Users : (IsReady(u)' /\ user'[u].spec.generation = "primary")
                                                      => user'[u].secretName = user'[u].spec.secret
  BY DEF NameInv
<1>1. Mild
  BY Counts DEF Mild
<1>2. ASSUME NEW u \in Users, NEW n \in SecretNames, OwnsSecret(u, n)' PROVE Named(u, n)'
  <2>1. CASE Calls
    <3>1. CASE u = cur
      <4>1. cur' = cur
        BY <2>1, CallFacts
      <4> QED BY <1>1, <1>2, <2>1, <3>1, <4>1, NameCalls
    <3>2. CASE u # cur
      <4>1. OwnsSecret(u, n) /\ UNCHANGED <<user, cur>>
        BY <1>2, <2>1, <3>2, OtherOwner, CallFacts
      <4> QED BY <1>1, <3>2, <4>1 DEF NameInv, Named
    <3> QED BY <3>1, <3>2
  <2>2. CASE PatchStatus
    <3>1. OwnsSecret(u, n) /\ pc' = "idle" /\ cur \in Users /\ pc = "patch"
      BY <1>2, <2>2, OwnsBefore, PatchFacts, CreateSecretFacts, WriteFacts
    <3>2. CASE u = cur
      BY <1>1, <2>2, <3>1, <3>2, NamePatch DEF Named
    <3>3. CASE u # cur
      <4>1. user'[u] = user[u]
        BY <2>2, <3>3, PatchFacts DEF Becomes
      <4> QED BY <1>1, <3>1, <3>3, <4>1 DEF NameInv, Named
    <3> QED BY <3>2, <3>3
  <2>3. CASE ~Calls /\ ~PatchStatus
    <3>1. OwnsSecret(u, n)
      BY <1>2, <2>3, OwnsBefore DEF Calls
    <3>2. user'[u].secretName = user[u].secretName
      <4>1. /\ user'[u].exists /\ user'[u].uid = secret'[n].uid
              /\ secret'[n].uid = secret[n].uid /\ secret[n].uid = user[u].uid
        BY <1>2, <2>3, <3>1, SecretOwner, NameFacts DEF OwnsSecret, OwnedBy, Calls, Writers
      <4> QED BY <2>3, <4>1, UserBefore
    <3>3. \/ UNCHANGED local
          \/ /\ pc \notin {"old", "role", "access", "grant", "patch"}
             /\ pc' \notin {"old", "role", "access", "grant", "patch"}
      <4>1. CASE Aside \/ SyncUsers \/ \E v \in Users : CreateResource(v) \/ EditResource(v) \/ DeleteResource(v)
        BY <4>1, AsideFacts, CreateFacts, EditFacts, DeleteFacts DEF SyncUsers
      <4>2. CASE Restart
        BY <4>2, Records DEF Restart, Mild
      <4>3. CASE AddFinalizer \/ RemoveFinalizer \/ DropUser \/ \E v \in Users : Start(v)
        BY <4>3, FinalizerFacts, RemoverFacts, DropFacts, StartFacts
      <4> QED BY <2>3, <4>1, <4>2, <4>3, StepCases
    <3>4. Named(u, n)
      BY <1>1, <3>1 DEF NameInv
    <3> QED BY <3>2, <3>3, <3>4 DEF Named, Late, SecretUsed, local, work
  <2> QED BY <2>1, <2>2, <2>3
<1>3. ASSUME NEW u \in Users, IsReady(u)', user'[u].spec.generation = "primary"
      PROVE  user'[u].secretName = user'[u].spec.secret
  <2>1. CASE PatchStatus /\ u = cur
    BY <1>1, <1>3, <2>1, NamePatch DEF IsReady
  <2>2. CASE ~(PatchStatus /\ u = cur)
    BY <1>1, <1>3, <2>2, UserBefore DEF NameInv
  <2> QED BY <2>1, <2>2
<1> QED BY <1>2, <1>3


\* What the two promises rest on, together.
KeptInv == AccessInv /\ LeftInv /\ PlanInv /\ UidInv /\ WorkInv /\ SeenInv /\ NameInv

LEMMA KeptInit == Init => KeptInv
<1> SUFFICES ASSUME Init PROVE KeptInv
  OBVIOUS
<1>1. pc = "idle" /\ \A n \in Names : secret[n] = NoSuchSecret
  BY Zenon DEF Init
<1>2. \A u \in Users : user[u] = Absent(0)
  BY Zenon DEF Init
<1>3. ~Absent(0).exists /\ NoSuchSecret.owner = NoUser /\ NoUser \notin Users
  BY AbsentFacts, Defaults, NamesAssumption DEF NoSuchSecret
<1>4. SecretNames \subseteq Names
  BY DEF Names
<1>5. UidInv /\ NameInv
  BY <1>1, <1>2, <1>3, <1>4 DEF UidInv, NameInv, OwnsSecret, OwnedBy, IsReady
<1>6. WorkInv /\ SeenInv
  BY <1>1 DEF WorkInv, SeenInv, Untouched
<1> QED BY <1>5, <1>6, AccessInit, LeftInit, InitPlan DEF KeptInv

LEMMA KeptStep == ASSUME TypeInv, ObjectInv, KeptInv, [Next]_vars PROVE KeptInv'
BY AccessStep, LeftStep, PlanStep, UidStep, WorkStep, SeenStep, NameStep DEF KeptInv, LeftInv

LEMMA KeptInvariant == Spec => [](TypeInv /\ ObjectInv /\ KeptInv)
<1>1. TypeInv /\ ObjectInv /\ KeptInv /\ [Next]_vars => KeptInv'
  BY KeptStep
<1> QED BY <1>1, KeptInit, ObjectInvariant, PTL DEF Spec

\* What was made for a DatabaseUser does not outlive its use, as long as nothing fails and no
\* controller is killed: a role goes with the last resource that names it, unless some spec that
\* names it asks to retain it; and a Ready user that wants one Secret has no other, the one of
\* an earlier name having been deleted.
THEOREM LeavesNothing == Spec => []NothingLeftBehind
<1>1. ASSUME KeptInv, Calm, NEW r \in Roles, role[r].exists
      PROVE  \/ \E u \in Users : user[u].exists /\ user[u].spec.role = r
             \/ \E s \in Specs : s.role = r /\ s.policy = "Retain"
  BY <1>1 DEF KeptInv, LeftInv, HeirInv, Owns, Retained
<1>2. ASSUME KeptInv, Settled, Mild, NEW u \in Users, NEW n \in SecretNames,
             IsReady(u), user[u].spec.generation = "primary", OwnedBy(secret[n], u, user[u].uid)
      PROVE  n = user[u].spec.secret
  BY <1>2 DEF KeptInv, NameInv, Named, OwnsSecret, Settled, IsReady
<1>3. KeptInv => NothingLeftBehind
  BY <1>1, <1>2 DEF NothingLeftBehind, Calm, Mild
<1> QED BY <1>3, KeptInvariant, PTL


-----------------------------------------------------------------------------
(* One Secret per database                                                 *)

PerDatabase == obj.spec.generation = "perDatabase" /\ plan \in {"create", "rotate"}
Agreed(d) == Mine(<<cur, d>>) => secret[<<cur, d>>].data[obj.spec.template].password = password

\* The Secrets written so far hold the new password, and then the role does.
WrittenInv ==
  Mild =>
    /\ pc = "perDatabase" => \A d \in obj.spec.dbs \ rest : Agreed(d)
    /\ ((pc = "old" \/ Late) /\ PerDatabase) => \A d \in obj.spec.dbs : Agreed(d)
RoleHolds == role[obj.spec.role].exists /\ role[obj.spec.role].password = password
PasswordInv == Finishing => RoleHolds

\* So both agree for whoever is Ready and not at hand.
Steady(u) == IsReady(u) /\ u \notin mixed /\ (pc \in Forward => cur # u)
AgreeInv ==
  Mild =>
    \A u \in Users :
      (Steady(u) /\ user[u].secretName \notin SecretNames \cup {NoSecret}) =>
        \A d \in user[u].granted :
          OwnedBy(secret[<<u, d>>], u, user[u].uid)
            => secret[<<u, d>>].data[user[u].spec.template].password = role[user[u].spec.role].password

LEMMA PairKept ==
  ASSUME TypeInv, [Next]_vars, NEW u \in Users, NEW d \in Dbs, WriteDatabaseSecret => u # cur
  PROVE  secret'[<<u, d>>] \in {secret[<<u, d>>], NoSuchSecret}
<1>0. <<u, d>> \in Names \ SecretNames /\ obj.spec.secret \in SecretNames
  BY NameFacts
<1>1. CASE Aside
  BY <1>0, <1>1, AsideSecrets
<1>2. CASE CreateSecret \/ WriteSecret
  BY <1>0, <1>2, CreateSecretFacts, WriteFacts DEF SecretBecomes
<1>3. CASE WriteDatabaseSecret
  BY <1>0, <1>3, WriteDatabaseFacts DEF SecretBecomes
<1>4. CASE DeleteOldSecret
  BY <1>0, <1>4, OldFacts DEF SecretBecomes
<1> QED BY <1>1, <1>2, <1>3, <1>4, SecretElse DEF Writers

\* Nothing else than its calls and its status moves a reconciliation.
LEMMA OutsideCalls ==
  ASSUME TypeInv, [Next]_vars, ~Calls
  PROVE  UNCHANGED local \/ pc' \notin Forward \/ (pc' = "fetch" /\ pc = "idle")
<1>1. CASE Aside \/ SyncUsers \/ \E v \in Users : CreateResource(v) \/ EditResource(v) \/ DeleteResource(v)
  BY <1>1, AsideFacts, CreateFacts, EditFacts, DeleteFacts DEF SyncUsers
<1>2. CASE Restart \/ AddFinalizer \/ RemoveFinalizer \/ PatchStatus \/ DropUser \/ \E v \in Users : Start(v)
  BY <1>2, FinalizerFacts, RemoverFacts, PatchFacts, DropFacts, StartFacts DEF Restart, Reset, Forward, Listing
<1> QED BY <1>1, <1>2, StepCases

\* Only the role at hand is changed.
LEMMA RoleHere ==
  ASSUME TypeInv, [Next]_vars
  PROVE  UNCHANGED role \/ ((Calls \/ DropUser) /\ \E x : RoleBecomes(x))
<1>1. CASE Calls
  BY <1>1, AlterFacts, EnsureFacts, SyncFacts, ApplyFacts, OtherCalls
<1>2. CASE DropUser
  BY <1>2, DropFacts
<1>3. CASE AddFinalizer \/ RemoveFinalizer \/ PatchStatus \/ Aside \/ SyncUsers \/ Restart
  BY <1>3, FinalizerFacts, RemoverFacts, PatchFacts, AsideFacts DEF SyncUsers, Restart
<1>4. CASE \E u \in Users : Start(u) \/ CreateResource(u) \/ EditResource(u) \/ DeleteResource(u)
  BY <1>4, StartFacts, CreateFacts, EditFacts, DeleteFacts
<1> QED BY <1>1, <1>2, <1>3, <1>4, StepCases

LEMMA MixedGrows == ASSUME TypeInv, [Next]_vars PROVE mixed \subseteq mixed'
<1>1. CASE Calls \/ DropUser \/ AddFinalizer \/ RemoveFinalizer \/ PatchStatus \/ Aside \/ SyncUsers \/ Restart
  BY <1>1, CallFacts, DropFacts, FinalizerFacts, RemoverFacts, PatchFacts, AsideFacts DEF SyncUsers, Restart
<1>2. CASE \E v \in Users : Start(v) \/ CreateResource(v) \/ EditResource(v) \/ DeleteResource(v)
  BY <1>2, StartFacts, CreateFacts, EditFacts, DeleteFacts DEF Joined
<1> QED BY <1>1, <1>2, StepCases

\* The role of a Ready DatabaseUser stays unless it is at hand.
LEMMA RoleStays ==
  ASSUME TypeInv, ObjectInv, [Next]_vars, ~lagging, NEW u \in Users, IsReady(u), u \notin mixed, ~(Calls /\ u = cur)
  PROVE  role'[user[u].spec.role] = role[user[u].spec.role]
<1>1. Clear /\ Says(u)
  BY DEF Clear, Says, IsSaid, IsReady
<1>2. (Calls \/ DropUser) => user[u].spec.role # obj.spec.role
  <2>1. /\ Calls => pc \in Forward
        /\ DropUser => pc = "drop"
    BY CallFacts, DropFacts
  <2>2. pc \in Forward \cup {"drop"} => pc # "idle"
    BY DEF Forward, Listing
  <2> QED BY <1>1, <2>1, <2>2, OnlyHere DEF Forward, Listing
<1> QED BY <1>2, RoleHere, RoleOf DEF RoleBecomes

LEMMA SteadyBefore ==
  ASSUME TypeInv, ObjectInv, [Next]_vars, Mild', NEW u \in Users, Steady(u)', ~(PatchStatus /\ u = cur)
  PROVE  /\ Steady(u) /\ user'[u].spec = user[u].spec /\ user'[u].uid = user[u].uid
         /\ user'[u].secretName = user[u].secretName /\ user'[u].granted = user[u].granted
         /\ role'[user[u].spec.role] = role[user[u].spec.role]
<1>1. /\ IsReady(u) /\ user'[u].spec = user[u].spec /\ user'[u].uid = user[u].uid
      /\ user'[u].secretName = user[u].secretName /\ user'[u].granted = user[u].granted
  BY UserBefore DEF Steady
<1>2. u \notin mixed /\ ~lagging
  BY MixedGrows, Counts DEF Steady, Mild
<1>3. pc \in Forward => cur # u
  <2> SUFFICES ASSUME pc \in Forward, cur = u PROVE FALSE
    OBVIOUS
  <2>1. ~(pc' \in Forward /\ cur' = cur)
    BY DEF Steady
  <2>2. ~Calls /\ ~UNCHANGED local
    BY <2>1, CallFacts DEF local
  <2>3. ~Restart
    BY Records DEF Restart, Mild
  <2> QED BY <2>2, <2>3, StepCases, AsideFacts, FinalizerFacts, RemoverFacts, DropFacts, StartFacts, CreateFacts,
             EditFacts, DeleteFacts DEF SyncUsers, Forward, Listing
<1>4. ~(Calls /\ u = cur)
  BY <1>3, CallFacts
<1>5. role'[user[u].spec.role] = role[user[u].spec.role]
  BY <1>1, <1>2, <1>4, RoleStays
<1> QED BY <1>1, <1>2, <1>3, <1>5 DEF Steady


LEMMA WrittenStep ==
  ASSUME TypeInv, ObjectInv, PlanInv, WorkInv, SeenInv, WrittenInv, [Next]_vars PROVE WrittenInv'
<1> SUFFICES ASSUME Mild'
             PROVE  /\ pc' = "perDatabase" => \A d \in obj'.spec.dbs \ rest' : Agreed(d)'
                    /\ ((pc' = "old" \/ Late') /\ PerDatabase') => \A d \in obj'.spec.dbs : Agreed(d)'
  BY DEF WrittenInv
<1>0. Mild /\ NoSuchSecret.owner \notin Users
  BY Counts, NameFacts DEF Mild
<1>1. CASE Calls
  <2>1. /\ UNCHANGED <<user, cur, obj, seenSecret>> /\ cur \in Users /\ pc \in Forward /\ pc # "patch"
        /\ faults' # faults + 1 /\ obj.spec.dbs \subseteq Dbs
    BY <1>0, <1>1, CallFacts, ObjType, Counts DEF caches, Mild
  <2>2. ASSUME ~WriteDatabaseSecret, UNCHANGED password, NEW d \in Dbs, Agreed(d) PROVE Agreed(d)'
    BY <1>0, <2>1, <2>2, PairKept DEF Agreed, Mine, OwnedBy
  <2>3. CASE FetchDatabases \/ ReadSecret \/ AlterPassword
    <3>1. pc' = "perDatabase" => obj.spec.dbs \ rest' = {}
      BY <2>1, <2>3, ReadFacts, AlterFacts DEF FetchDatabases, Goto, Patch, WorkInv, WriteStep, Fails, work
    <3>2. pc' = "old" => ~PerDatabase'
      BY <2>1, <2>3, ReadFacts, AlterFacts DEF FetchDatabases, Goto, Patch, WriteStep, Fails, PerDatabase
    <3>3. ~Late'
      <4>1. CASE FetchDatabases
        <5>1. pc' \notin {"role", "access", "grant"}
          BY <4>1 DEF FetchDatabases, Goto, Patch
        <5>2. pc' = "patch" => to'.phase # "Ready"
          BY <1>1, <4>1, OtherCalls DEF FetchDatabases, AlterPassword, EnsureUser, SyncDatabaseAccess, ApplyPrivileges
        <5> QED BY <5>1, <5>2 DEF Late
      <4> QED BY <2>3, <4>1, ReadFacts, AlterFacts DEF Late, WriteStep, Fails
    <3> QED BY <2>1, <3>1, <3>2, <3>3
  <2>4. CASE CreateSecret \/ WriteSecret
    <3>1. (pc' = "old" /\ UNCHANGED work /\ ~PerDatabase) \/ Fails
      BY <2>1, <2>4, CreateSecretFacts, WriteFacts DEF WorkInv, PerDatabase
    <3> QED BY <2>1, <3>1 DEF Late, Fails, PerDatabase, work
  <2>5. CASE WriteDatabaseSecret
    <3> PICK d \in rest :
          /\ d \in Dbs
          /\ UNCHANGED secret \/ (DbPossible(d) /\ SecretBecomes(<<cur, d>>, DbSecret(d)))
          /\ DbPossible(d) => SecretBecomes(<<cur, d>>, DbSecret(d))
          /\ \/ rest' = rest \ {d} /\ pc' = IF rest = {d} THEN "old" ELSE "perDatabase"
             \/ Fails
      BY <2>1, <2>5, WriteDatabaseFacts
    <3>1. pc = "perDatabase" /\ UNCHANGED <<plan, password>> /\ <<cur, d>> \in Names
      BY <2>1, <2>5, WriteDatabaseFacts, NameFacts
    <3>2. ASSUME NEW b \in Dbs, b # d, Agreed(b) PROVE Agreed(b)'
      <4>1. secret'[<<cur, b>>] = secret[<<cur, b>>]
        <5>1. <<cur, b>> \in Names /\ <<cur, b>> # <<cur, d>>
          BY <2>1, <3>2, NameFacts
        <5> QED BY <5>1 DEF SecretBecomes
      <4> QED BY <2>1, <3>1, <3>2, <4>1 DEF Agreed, Mine, OwnedBy
    <3>3. Agreed(d)'
      <4>1. CASE DbPossible(d)
        <5>1. secret'[<<cur, d>>] = DbSecret(d)
          BY <3>1, <4>1 DEF SecretBecomes
        <5>2. DbSecret(d).data = DataFor({d})
          BY <3>1, NameFacts DEF DbSecret, OwnSecret, SecretRecord
        <5>3. DataFor({d})[obj.spec.template].password = password
          <6>1. obj.spec.template \in Templates
            BY ObjType
          <6> DEFINE e == NewEntry({d})
          <6>2. e.password = password
            BY DEF NewEntry
          <6>3. DataFor({d}) = [EmptyData EXCEPT ![obj.spec.template] = e]
            BY DEF DataFor
          <6> HIDE DEF e
          <6> QED BY <6>1, <6>2, <6>3 DEF EmptyData
        <5> QED BY <2>1, <3>1, <5>1, <5>2, <5>3 DEF Agreed
      <4>2. CASE ~DbPossible(d)
        <5>1. UNCHANGED secret
          BY <4>2
        <5>2. ~Mine(<<cur, d>>)
          <6>1. Mine(<<cur, d>>) => seenSecret[<<cur, d>>] = secret[<<cur, d>>]
            BY <1>0, <3>1 DEF SeenInv, Untouched, Mild
          <6> QED BY <4>2, <6>1 DEF DbPossible, Mine, OwnedBy
        <5> QED BY <2>1, <5>1, <5>2 DEF Agreed, Mine, OwnedBy
      <4> QED BY <4>1, <4>2
    <3>4. \A b \in obj.spec.dbs \ rest : Agreed(b)
      BY <1>0, <3>1 DEF WrittenInv
    <3>5. CASE Fails
      BY <3>5 DEF Fails, Late
    <3>6. CASE ~Fails
      <4>1. \A b \in obj.spec.dbs \ rest' : Agreed(b)'
        <5> SUFFICES ASSUME NEW b \in obj.spec.dbs \ rest' PROVE Agreed(b)'
          OBVIOUS
        <5>1. b = d \/ b \notin rest
          BY <3>6
        <5> QED BY <2>1, <3>2, <3>3, <3>4, <5>1
      <4>2. pc' = "old" => rest' = {}
        BY <3>6
      <4> QED BY <2>1, <3>6, <4>1, <4>2 DEF Late
    <3> QED BY <3>5, <3>6
  <2>6. CASE DeleteOldSecret \/ EnsureUser \/ SyncDatabaseAccess \/ ApplyPrivileges
    <3>1. pc \in {"old", "role", "access", "grant"} /\ UNCHANGED <<plan, password>> /\ pc' \notin {"old", "perDatabase"}
          /\ ~WriteDatabaseSecret
      BY <2>6, OldFacts, EnsureFacts, SyncFacts, ApplyFacts DEF work, Fails, WriteDatabaseSecret
    <3>2. PerDatabase => \A d \in obj.spec.dbs : Agreed(d)
      BY <1>0, <3>1 DEF WrittenInv, Late
    <3> QED BY <2>1, <2>2, <3>1, <3>2 DEF PerDatabase
  <2> QED BY <1>1, <2>3, <2>4, <2>5, <2>6 DEF Calls
<1>2. CASE ~Calls
  <2>1. CASE UNCHANGED local
    <3>1. pc # "idle" => cur \in Users /\ obj.spec.dbs \subseteq Dbs
      BY Records, ObjType
    <3>2. ASSUME pc # "idle", NEW d \in Dbs, Agreed(d) PROVE Agreed(d)'
      BY <1>0, <1>2, <2>1, <3>1, <3>2, PairKept DEF Agreed, Mine, OwnedBy, local, work, Calls
    <3>3. (pc = "perDatabase" => pc # "idle") /\ ((pc = "old" \/ Late) => pc # "idle")
      BY DEF Late
    <3>4. pc' = pc /\ obj' = obj /\ rest' = rest /\ (Late' <=> Late) /\ (PerDatabase' <=> PerDatabase)
      BY <2>1 DEF local, work, Late, PerDatabase
    <3> QED BY <1>0, <3>1, <3>2, <3>3, <3>4 DEF WrittenInv
  <2>2. CASE ~UNCHANGED local
    BY <1>2, <2>2, OutsideCalls DEF Forward, Listing, Late
  <2> QED BY <2>1, <2>2
<1> QED BY <1>1, <1>2

LEMMA PasswordStays ==
  ASSUME TypeInv, SyncDatabaseAccess \/ ApplyPrivileges
  PROVE  LET r == obj.spec.role IN
         role'[r].exists = role[r].exists /\ role'[r].password = role[r].password
<1> DEFINE r == obj.spec.role
<1>0. r \in Roles /\ role[r] \in RoleRecord
  BY RoleOf
<1>1. CASE SyncDatabaseAccess
  <2>1. \E c : RoleBecomes([role[r] EXCEPT !.connect = c])
    BY <1>1, SyncFacts
  <2> QED BY <1>0, <2>1 DEF RoleBecomes, RoleRecord
<1>2. CASE ApplyPrivileges
  <2> PICK dbs \in SUBSET obj.spec.dbs : RoleBecomes(Granting(role[r], dbs, obj.spec.rights))
    BY <1>2, ApplyFacts
  <2> DEFINE more == role[r].rights \cup (dbs \X obj.spec.rights)
             x == [role[r] EXCEPT !.rights = more]
  <2>1. RoleBecomes(x)
    BY DEF Granting
  <2> HIDE DEF more
  <2>2. x.exists = role[r].exists /\ x.password = role[r].password
    BY <1>0 DEF RoleRecord
  <2> HIDE DEF x
  <2> QED BY <1>0, <2>1, <2>2 DEF RoleBecomes
<1> QED BY <1>1, <1>2

LEMMA PasswordStep == ASSUME TypeInv, ObjectInv, PasswordInv, [Next]_vars PROVE PasswordInv'
<1> DEFINE r == obj.spec.role
<1>0. r \in Roles /\ role[r] \in RoleRecord
  BY RoleOf
<1>1. CASE Calls
  <2>1. UNCHANGED obj
    BY <1>1, CallFacts
  <2>2. CASE EnsureUser
    <3>1. Ensured(role[r]).exists /\ Ensured(role[r]).password = password
      BY <1>0, PasswordParts DEF Ensured
    <3>2. UNCHANGED password /\ (Fails \/ RoleBecomes(Ensured(role[r])))
      BY <2>2, EnsureFacts DEF work
    <3> QED BY <1>0, <2>1, <2>2, <3>1, <3>2, EnsureFacts DEF PasswordInv, RoleHolds, Finishing, Fails, RoleBecomes
  <2>3. CASE SyncDatabaseAccess \/ ApplyPrivileges
    <3>1. pc \in {"access", "grant"} /\ UNCHANGED password
      BY <2>3, SyncFacts, ApplyFacts DEF work
    <3> QED BY <2>1, <2>3, <3>1, PasswordStays DEF PasswordInv, RoleHolds, Finishing
  <2>4. CASE AlterPassword
    BY <2>4, AlterFacts DEF PasswordInv, Finishing, WriteStep, Fails
  <2>5. CASE ~AlterPassword /\ ~EnsureUser /\ ~SyncDatabaseAccess /\ ~ApplyPrivileges
    BY <1>1, <2>5, OtherCalls DEF PasswordInv, Finishing
  <2> QED BY <2>2, <2>3, <2>4, <2>5
<1>2. CASE ~Calls
  <2>1. CASE UNCHANGED local
    <3>1. UNCHANGED role
      BY <1>2, <2>1, RoleHere, DropFacts DEF local
    <3> QED BY <2>1, <3>1 DEF PasswordInv, RoleHolds, Finishing, local, work
  <2>2. CASE ~UNCHANGED local
    BY <1>2, <2>2, OutsideCalls DEF PasswordInv, Finishing, Forward, Listing
  <2> QED BY <2>1, <2>2
<1> QED BY <1>1, <1>2


\* What the patch makes of the DatabaseUser at hand.
LEMMA MildPatch ==
  ASSUME TypeInv, ObjectInv, TargetInv, PatchStatus, Mild, Mild', NEW u \in Users, u = cur, IsReady(u)'
  PROVE  /\ Late /\ Finishing /\ UNCHANGED <<secret, role>>
         /\ user'[cur].spec = obj.spec /\ user'[cur].uid = obj.uid
         /\ user'[cur].secretName = SecretUsed /\ user'[cur].granted = obj.spec.dbs
<1>1. pc = "patch" /\ pc \in Forward /\ cur \in Users /\ faults' # faults + 1 /\ UNCHANGED <<secret, role>>
  BY PatchFacts DEF Forward, Mild
<1>2. user[cur].exists /\ obj.uid = user[cur].uid /\ SameStatus(obj, user[cur])
      /\ obj.gen <= user[cur].gen /\ (obj.gen = user[cur].gen => obj.spec = user[cur].spec)
      /\ obj.gen \in Nat /\ user[cur].gen \in Nat
  BY <1>1, ForwardFacts, Records DEF ObjectInv, StatusInv, Mild, UserRecord
<1>3. to.phase = "Ready" => /\ to.secretName = SecretUsed /\ SecretUsed # NoSecret
                            /\ to.granted = obj.spec.dbs /\ obj.spec.dbs # {}
  BY <1>1, ReadyUsed, NameFacts DEF TargetInv
<1>4. /\ user'[cur].phase = to.phase /\ user'[cur].observed = obj.gen
      /\ user'[cur].gen = user[cur].gen /\ user'[cur].spec = user[cur].spec /\ user'[cur].uid = user[cur].uid
      /\ to.phase = "Ready" => user'[cur].secretName = SecretUsed /\ user'[cur].granted = obj.spec.dbs
  <2>1. CASE UNCHANGED user /\ ~StatusChanged
    BY <1>2, <1>3, <2>1 DEF StatusChanged, SameStatus
  <2>2. CASE \E e \in UserRecord : Becomes(cur, e) /\ PatchedTo(user[cur], e)
    <3> PICK e \in UserRecord : Becomes(cur, e) /\ PatchedTo(user[cur], e)
      BY <2>2
    <3>1. user'[cur] = e
      BY <1>1 DEF Becomes
    <3> QED BY <1>2, <1>3, <3>1 DEF PatchedTo, SameVersion, SameStatus, NewName, NewGranted
  <2> QED BY <1>1, <1>2, <2>1, <2>2, PatchFacts
<1>5. to.phase = "Ready" /\ obj.gen = user[cur].gen
  BY <1>4 DEF IsReady
<1> QED BY <1>1, <1>2, <1>3, <1>4, <1>5 DEF Late, Finishing

LEMMA AgreeStep ==
  ASSUME TypeInv, ObjectInv, PlanInv, WorkInv, TargetInv, WrittenInv, PasswordInv, AgreeInv, [Next]_vars
  PROVE  AgreeInv'
<1> SUFFICES ASSUME Mild', NEW u \in Users, Steady(u)', user'[u].secretName \notin SecretNames \cup {NoSecret},
                    NEW d \in user'[u].granted, OwnedBy(secret'[<<u, d>>], u, user'[u].uid)
             PROVE  secret'[<<u, d>>].data[user'[u].spec.template].password = role'[user'[u].spec.role].password
  BY DEF AgreeInv
<1>0. Mild
  BY Counts DEF Mild
<1>1. CASE PatchStatus /\ u = cur
  <2>1. /\ Late /\ Finishing /\ UNCHANGED <<secret, role>>
        /\ user'[u].spec = obj.spec /\ user'[u].uid = obj.uid
        /\ user'[u].secretName = SecretUsed /\ user'[u].granted = obj.spec.dbs
    BY <1>0, <1>1, MildPatch DEF Steady, IsReady
  <2>2. PerDatabase
    BY <2>1, NameFacts DEF SecretUsed, PerDatabase
  <2>3. Agreed(d) /\ Mine(<<u, d>>)
    BY <1>0, <1>1, <2>1, <2>2 DEF WrittenInv, Mine
  <2> QED BY <1>1, <2>1, <2>3 DEF Agreed, PasswordInv, RoleHolds
<1>2. CASE ~(PatchStatus /\ u = cur)
  <2>1. /\ Steady(u) /\ user'[u].spec = user[u].spec /\ user'[u].uid = user[u].uid
        /\ user'[u].secretName = user[u].secretName /\ user'[u].granted = user[u].granted
        /\ role'[user[u].spec.role] = role[user[u].spec.role]
    BY <1>2, SteadyBefore
  <2>2. d \in Dbs /\ NoSuchSecret.owner # u
    BY <2>1, Records, NameFacts DEF UserRecord
  <2>3. WriteDatabaseSecret => u # cur
    BY <2>1, CallFacts DEF Steady, Calls
  <2>4. secret'[<<u, d>>] = secret[<<u, d>>]
    BY <2>2, <2>3, PairKept DEF OwnedBy
  <2> QED BY <1>0, <2>1, <2>4 DEF AgreeInv
<1> QED BY <1>1, <1>2

PairInv == WrittenInv /\ PasswordInv /\ AgreeInv
LEMMA PairInvariant == Spec => []PairInv
<1>1. Init => PairInv
  <2> SUFFICES ASSUME Init PROVE PairInv
    OBVIOUS
  <2>1. pc = "idle"
    BY Zenon DEF Init
  <2>2. \A u \in Users : user[u] = Absent(0)
    BY Zenon DEF Init
  <2>3. ~Absent(0).exists
    BY AbsentFacts, Defaults
  <2> QED BY <2>1, <2>2, <2>3 DEF PairInv, WrittenInv, PasswordInv, AgreeInv, Late, Finishing, Steady, IsReady
<1>2. TypeInv /\ ObjectInv /\ KeptInv /\ PairInv /\ [Next]_vars => PairInv'
  BY WrittenStep, PasswordStep, AgreeStep DEF PairInv, KeptInv, LeftInv
<1> QED BY <1>1, <1>2, KeptInvariant, PTL DEF Spec

\* With one Secret per database, all of a Ready user's hold the password of its role: the ones
\* written so far hold the new password while the others are written, and the role gets it last.
THEOREM SecretsAgree == Spec => []DatabaseSecretsAgree
<1>1. PairInv => DatabaseSecretsAgree
  BY DEF PairInv, AgreeInv, DatabaseSecretsAgree, Mild, Steady, Forward, Listing
<1> QED BY <1>1, PairInvariant, PTL


-----------------------------------------------------------------------------
(* The credentials of a DatabaseUser, while caches are current             *)

Filled(s, p) == s.data[p.template].role = p.role /\ s.data[p.template].password # NoPassword

\* A Secret that is a DatabaseUser's has its role, and a password, under its template.
EntryInv ==
  ~lagging =>
    /\ \A n \in SecretNames : \A u \in Users :
         (u \notin mixed /\ OwnsSecret(u, n)) => Filled(secret[n], user[u].spec)
    /\ cur \notin mixed =>
         /\ (pc \in {"fetch", "secret"} /\ OwnedBy(seenSecret[obj.spec.secret], cur, obj.uid))
              => Filled(seenSecret[obj.spec.secret], obj.spec)
         /\ (pc \in {"alter", "write"} /\ plan \in {"update", "rotate"}) => Filled(held, obj.spec)
         /\ pc \in Listing \ {"secret"} => password # NoPassword

\* Who changes what is under the name of a Secret.
LEMMA NameKept ==
  ASSUME TypeInv, [Next]_vars, NEW n \in SecretNames
  PROVE  \/ secret'[n] \in {secret[n], NoSuchSecret, ForeignSecret}
         \/ /\ n = obj.spec.secret /\ cur \in Users
            /\ \/ CreateSecret /\ secret'[n] = OwnSecret(DataFor(obj.spec.dbs))
               \/ WriteSecret /\ secret[n] = held /\ secret'[n] = Written
<1>0. n \in Names /\ obj.spec.secret \in SecretNames /\ SecretNames \subseteq Names
  BY NameFacts
<1>1. CASE Aside
  BY <1>0, <1>1, AsideSecrets
<1>2. CASE CreateSecret \/ WriteSecret
  <2>1. cur \in Users
    BY <1>2, CallFacts DEF Calls
  <2> QED BY <1>0, <1>2, <2>1, CreateSecretFacts, WriteFacts DEF SecretBecomes
<1>3. CASE WriteDatabaseSecret
  <2>1. \E d \in Dbs : cur \in Users /\ (UNCHANGED secret \/ SecretBecomes(<<cur, d>>, DbSecret(d)))
    BY <1>3, WriteDatabaseFacts
  <2> QED BY <1>0, <2>1, NameFacts DEF SecretBecomes
<1>4. CASE DeleteOldSecret
  BY <1>0, <1>4, OldFacts DEF SecretBecomes
<1> QED BY <1>1, <1>2, <1>3, <1>4, SecretElse DEF Writers

\* What DataFor and Written have under the template.
LEMMA FreshEntry ==
  ASSUME TypeInv, NEW dbs
  PROVE  LET e == OwnSecret(DataFor(dbs)).data[obj.spec.template] IN
         e.role = obj.spec.role /\ e.password = password
<1>1. obj.spec.template \in Templates
  BY ObjType
<1> DEFINE e == NewEntry(dbs)
<1>2. e.role = obj.spec.role /\ e.password = password
  BY DEF NewEntry
<1>3. DataFor(dbs) = [EmptyData EXCEPT ![obj.spec.template] = e]
  BY DEF DataFor
<1> HIDE DEF e
<1>4. DataFor(dbs)[obj.spec.template] = e
  BY <1>1, <1>3 DEF EmptyData
<1> QED BY <1>2, <1>4 DEF OwnSecret

LEMMA SameAfter ==
  ASSUME TypeInv, ObjectInv, [Next]_vars, NEW u \in Users, u \notin mixed', user'[u].exists, user'[u].uid = user[u].uid
  PROVE  u \notin mixed /\ user[u].exists /\ Same(user[u], user'[u])
<1>1. u \notin mixed
  BY MixedGrows
<1>0. \A v \in Users : user[v].uid \in Nat /\ user[v].uid \in 0..MaxUid
  BY Records, BoundAssumption DEF UserRecord
<1>2. CASE Calls \/ DropUser \/ Aside \/ SyncUsers \/ Restart \/ \E v \in Users : Start(v)
  <2>1. UNCHANGED user
    BY <1>2, CallFacts, DropFacts, AsideFacts, StartFacts DEF SyncUsers, Restart
  <2> QED BY <1>1, <2>1 DEF Same
<1>3. CASE AddFinalizer \/ PatchStatus
  <2>1. UNCHANGED user \/ \E e : Becomes(cur, e) /\ SameVersion(user[cur], e)
    BY <1>3, FinalizerFacts, PatchFacts DEF PatchedTo
  <2> QED BY <1>1, <2>1 DEF Becomes, SameVersion, Same
<1>4. CASE RemoveFinalizer
  <2>1. UNCHANGED user \/ \E e : Becomes(cur, e) /\ ~e.exists
    BY <1>0, <1>4, RemoverFacts, AbsentFacts
  <2> QED BY <1>1, <2>1 DEF Becomes, Same
<1>5. CASE \E v \in Users : CreateResource(v)
  <2>1. \E v \in Users : \E e : Becomes(v, e) /\ e.uid = user[v].uid + 1
    BY <1>5, CreateFacts DEF IsNew
  <2> QED BY <1>0, <1>1, <2>1 DEF Becomes, Same
<1>6. CASE \E v \in Users : EditResource(v)
  <2>1. \E v \in Users : \E e :
          /\ Becomes(v, e) /\ user[v].exists
          /\ v \in mixed' \/ (e.spec.role = user[v].spec.role /\ e.spec.template = user[v].spec.template)
    BY <1>6, EditFacts
  <2> QED BY <1>1, <2>1 DEF Becomes, Same
<1>7. CASE \E v \in Users : DeleteResource(v)
  <2>1. \E v \in Users : \E e : Becomes(v, e) /\ (~e.exists \/ (user[v].exists /\ e.spec = user[v].spec))
    BY <1>0, <1>7, DeleteFacts, AbsentFacts
  <2> QED BY <1>1, <2>1 DEF Becomes, Same
<1> QED BY <1>2, <1>3, <1>4, <1>5, <1>6, <1>7, StepCases

LEMMA EntryStep ==
  ASSUME TypeInv, ObjectInv, PlanInv, UidInv, EntryInv, [Next]_vars PROVE EntryInv'
<1> SUFFICES ASSUME ~lagging' PROVE EntryInv'
  BY DEF EntryInv
<1>0. ~lagging /\ NoPassword \notin Unused /\ (pc # "idle" => cur \in Users)
  BY Counts, NamesAssumption, Records DEF Unused
<1>1. ASSUME NEW n \in SecretNames, NEW u \in Users, u \notin mixed', OwnsSecret(u, n)'
      PROVE  Filled(secret'[n], user'[u].spec)
  <2>1. /\ user'[u].exists /\ secret'[n].owner = u /\ secret'[n].uid = user'[u].uid /\ secret'[n].exists
        /\ n \in Names /\ secret[n].uid \in Nat
    BY <1>1, NameFacts, BoundAssumption DEF OwnsSecret, OwnedBy, SecretRecord
  <2>2. user'[u].uid \in Nat /\ user[u].uid \in Nat /\ user'[u].uid >= user[u].uid
    BY UidGrows
  <2>3. CASE secret'[n] = secret[n]
    <3>1. user'[u].uid = user[u].uid
      BY <2>1, <2>2, <2>3 DEF UidInv
    <3>2. u \notin mixed /\ user[u].exists /\ Same(user[u], user'[u])
      BY <1>1, <2>1, <3>1, SameAfter
    <3>3. Filled(secret[n], user[u].spec)
      BY <1>0, <2>1, <2>3, <3>1, <3>2 DEF EntryInv, OwnsSecret, OwnedBy
    <3> QED BY <2>3, <3>2, <3>3 DEF Filled, Same
  <2>4. CASE /\ n = obj.spec.secret /\ cur \in Users
             /\ \/ CreateSecret /\ secret'[n] = OwnSecret(DataFor(obj.spec.dbs))
                \/ WriteSecret /\ secret[n] = held /\ secret'[n] = Written
    <3>1. /\ pc \in {"create", "write"} /\ UNCHANGED <<user, mixed>> /\ pc \in Forward
          /\ pc \in Listing \ {"secret"}
      BY <2>4, CallFacts, CreateSecretFacts, WriteFacts DEF Calls, Listing
    <3>2. /\ secret'[n].owner = cur /\ secret'[n].data[obj.spec.template].role = obj.spec.role
          /\ \/ secret'[n].data[obj.spec.template].password = password
             \/ pc = "write" /\ plan = "update"
                /\ secret'[n].data[obj.spec.template].password = held.data[obj.spec.template].password
      <4>1. CASE CreateSecret /\ secret'[n] = OwnSecret(DataFor(obj.spec.dbs))
        BY <4>1, FreshEntry DEF OwnSecret
      <4>2. CASE WriteSecret /\ secret'[n] = Written
        BY <2>4, <4>2, WrittenFacts, WriteFacts DEF OwnedBy
      <4> QED BY <2>4, <4>1, <4>2
    <3>3. u = cur /\ cur \notin mixed /\ user[cur].exists /\ obj.uid = user[cur].uid
      BY <1>1, <2>1, <3>1, <3>2, ForwardFacts DEF ObjectInv
    <3>4. Same(obj, user[cur])
      BY <3>1, <3>3 DEF ObjectInv, SameInv, Forward, Listing
    <3>5. secret'[n].data[obj.spec.template].password # NoPassword
      BY <1>0, <3>1, <3>2, <3>3 DEF EntryInv, Filled
    <3> QED BY <3>1, <3>2, <3>3, <3>4, <3>5 DEF Filled, Same
  <2>5. secret'[n] \notin {NoSuchSecret, ForeignSecret}
    BY <2>1, NameFacts
  <2> QED BY <2>3, <2>4, <2>5, NameKept
<1>2. ASSUME cur' \notin mixed'
      PROVE  /\ (pc' \in {"fetch", "secret"} /\ OwnedBy(seenSecret'[obj'.spec.secret], cur', obj'.uid))
                  => Filled(seenSecret'[obj'.spec.secret], obj'.spec)
             /\ (pc' \in {"alter", "write"} /\ plan' \in {"update", "rotate"}) => Filled(held', obj'.spec)
             /\ pc' \in Listing \ {"secret"} => password' # NoPassword
  <2>1. CASE Calls
    <3>1. /\ UNCHANGED <<cur, obj, seenSecret>> /\ cur \in Users /\ cur \notin mixed
          /\ pc' \in Forward /\ pc \in Forward \ {"patch"}
      BY <1>2, <2>1, CallFacts DEF caches
    <3>2. CASE FetchDatabases
      <4>1. pc = "fetch" /\ pc' \in {"patch", "secret"}
        BY <3>2 DEF FetchDatabases, Goto, Patch
      <4> QED BY <1>0, <3>1, <4>1 DEF EntryInv, Listing
    <3>3. CASE ReadSecret
      <4>1. pc = "secret"
        BY <3>3, ReadFacts
      <4>2. OwnedBy(seenSecret[obj.spec.secret], cur, obj.uid) => Filled(seenSecret[obj.spec.secret], obj.spec)
        BY <1>0, <3>1, <4>1 DEF EntryInv
      <4> QED BY <1>0, <3>1, <3>3, <4>2, ReadFacts DEF Filled, Fails, Listing
    <3>4. CASE ~FetchDatabases /\ ~ReadSecret
      <4>1. /\ pc \in Listing \ {"secret"} /\ UNCHANGED <<held, plan, password>>
            /\ pc' \notin {"fetch", "secret", "alter"} /\ (pc' = "write" => pc = "alter")
        <5>1. CASE AlterPassword
          BY <5>1, AlterFacts DEF Listing, work, WriteStep, Fails
        <5>2. CASE WriteDatabaseSecret
          BY <5>2, WriteDatabaseFacts DEF Listing, Fails
        <5>3. CASE ~AlterPassword /\ ~WriteDatabaseSecret
          BY <2>1, <3>4, <5>3, CreateSecretFacts, WriteFacts, OldFacts, EnsureFacts, SyncFacts, ApplyFacts
             DEF Calls, Listing, work, Fails
        <5> QED BY <5>1, <5>2, <5>3
      <4> QED BY <1>0, <3>1, <4>1 DEF EntryInv
    <3> QED BY <3>2, <3>3, <3>4
  <2>2. CASE \E v \in Users : Start(v)
    <3> PICK v \in Users : Start(v)
      BY <2>2
    <3>1. /\ seenUser = user /\ seenSecret = secret /\ pc = "idle" /\ UNCHANGED <<user, secret, seenSecret, mixed>>
          /\ pc' = "idle" \/ (cur' = v /\ obj' = user[v] /\ obj'.exists)
          /\ pc' \in {"idle", "fetch", "finalizer", "drop", "unfinalize"}
      BY <1>0, StartFacts DEF caches
    <3>2. CASE pc' = "fetch"
      <4>1. user[v].spec.secret \in SecretNames
        BY Records DEF UserRecord, UserSpec
      <4>2. OwnedBy(secret[user[v].spec.secret], v, user[v].uid) => Filled(secret[user[v].spec.secret], user[v].spec)
        BY <1>0, <1>2, <3>1, <3>2, <4>1 DEF EntryInv, OwnsSecret
      <4> QED BY <3>1, <3>2, <4>2 DEF Listing
    <3> QED BY <3>1, <3>2 DEF Listing
  <2>3. CASE UNCHANGED local /\ ~Calls
    <3>1. UNCHANGED <<pc, cur, obj, held, plan, password>> /\ cur \notin mixed
      BY <1>2, <2>3, MixedGrows DEF local, work
    <3>2. ASSUME pc \in {"fetch", "secret"}, OwnedBy(seenSecret'[obj.spec.secret], cur, obj.uid)
          PROVE  Filled(seenSecret'[obj.spec.secret], obj.spec)
      <4>1. pc \in Forward
        BY <3>2 DEF Forward, Listing
      <4>2. cur \in Users /\ user[cur].exists /\ user[cur].uid = obj.uid /\ Same(obj, user[cur])
        BY <3>1, <4>1, ForwardFacts DEF ObjectInv, SameInv, Forward, Listing
      <4>3. CASE UNCHANGED seenSecret
        BY <1>0, <3>1, <3>2, <4>3 DEF EntryInv
      <4>4. CASE seenSecret' = secret
        <5>1. Filled(secret[obj.spec.secret], user[cur].spec)
          BY <1>0, <3>1, <3>2, <4>2, <4>4, NameFacts DEF EntryInv, OwnsSecret
        <5> QED BY <4>2, <4>4, <5>1 DEF Filled, Same
      <4>5. UNCHANGED seenSecret \/ seenSecret' = secret
        BY <2>3, AsideSecrets, SecretElse DEF Calls, Writers
      <4> QED BY <4>3, <4>4, <4>5
    <3> QED BY <1>0, <3>1, <3>2 DEF EntryInv
  <2>4. CASE ~Calls /\ ~UNCHANGED local /\ ~(\E v \in Users : Start(v))
    <3>1. pc' \notin Forward
      <4>1. CASE pc = "idle" /\ pc' = "fetch"
        BY <2>4, <4>1, StepCases, AsideFacts, FinalizerFacts, RemoverFacts, PatchFacts, DropFacts, CreateFacts,
           EditFacts, DeleteFacts DEF SyncUsers, Restart, Reset
      <4> QED BY <2>4, <4>1, OutsideCalls
    <3> QED BY <3>1 DEF Forward, Listing
  <2> QED BY <2>1, <2>2, <2>3, <2>4
<1> QED BY <1>1, <1>2 DEF EntryInv


\* The Secret that is the DatabaseUser's when it is to be written is the one that was read.
HeldInv ==
  (~lagging /\ pc \in {"alter", "create", "write"} /\ Mine(obj.spec.secret)) =>
    secret[obj.spec.secret] = held /\ plan \in {"update", "rotate"}

\* One that says Ready for its spec is reconciled because it has no Secret: until it gets one
\* nothing is lost when its role takes the new password, and the role takes it before.
Current == obj.phase = "Ready" /\ obj.observed = obj.gen
AnewInv ==
  (~lagging /\ pc \in Forward /\ Current) =>
    /\ pc \in {"fetch", "secret", "alter", "create", "write"} => ~Mine(obj.spec.secret)
    /\ pc \in {"fetch", "secret"} => ~OwnedBy(seenSecret[obj.spec.secret], cur, obj.uid)
    /\ pc \in {"alter", "create", "write"} => plan \in {"create", "adopt", "merge"}
    /\ pc \in {"create", "write"} => RoleHolds

\* From the last write of the Secret to the status it holds the password the role is to get.
PrimaryInv ==
  (~lagging /\ (pc = "old" \/ Late) /\ obj.spec.generation = "primary" /\ Mine(obj.spec.secret)) =>
    secret[obj.spec.secret].data[obj.spec.template].password = password

\* What others do to the Secret at hand.
LEMMA OthersKeep ==
  ASSUME TypeInv, [Next]_vars, pc # "idle", UNCHANGED <<cur, obj>>, ~CreateSecret, ~WriteSecret, Mine(obj.spec.secret)'
  PROVE  Mine(obj.spec.secret) /\ secret'[obj.spec.secret] = secret[obj.spec.secret]
<1>1. /\ obj.spec.secret \in SecretNames /\ cur \in Users
      /\ NoSuchSecret.owner \notin Users /\ ForeignSecret.owner \notin Users
  BY NameFacts, Records
<1>2. OwnedBy(secret'[obj.spec.secret], cur, obj.uid)
  BY DEF Mine
<1>3. secret'[obj.spec.secret] \in {secret[obj.spec.secret], NoSuchSecret, ForeignSecret}
  BY <1>1, NameKept
<1>4. secret'[obj.spec.secret] = secret[obj.spec.secret]
  BY <1>1, <1>2, <1>3 DEF OwnedBy
<1> QED BY <1>2, <1>4 DEF Mine

LEMMA HeldStep == ASSUME TypeInv, SeenInv, HeldInv, [Next]_vars PROVE HeldInv'
<1> SUFFICES ASSUME ~lagging', pc' \in {"alter", "create", "write"}, Mine(obj.spec.secret)'
             PROVE  secret'[obj'.spec.secret] = held' /\ plan' \in {"update", "rotate"}
  BY DEF HeldInv
<1>0. ~lagging
  BY Counts
<1>1. CASE Calls
  <2>1. UNCHANGED <<cur, obj>> /\ pc # "idle"
    BY <1>1, CallFacts DEF Forward, Listing
  <2>2. CASE ReadSecret
    <3>1. pc = "secret" /\ UNCHANGED secret
      BY <2>2, ReadFacts
    <3>2. seenSecret[obj.spec.secret] = secret[obj.spec.secret] /\ OwnedBy(seenSecret[obj.spec.secret], cur, obj.uid)
      BY <1>0, <2>1, <3>1, NameFacts DEF SeenInv, Untouched, Mine
    <3> QED BY <2>1, <2>2, <3>1, <3>2, ReadFacts DEF OwnedBy, Fails
  <2>3. CASE AlterPassword
    <3>1. pc = "alter" /\ UNCHANGED <<secret, work>>
      BY <2>3, AlterFacts
    <3> QED BY <1>0, <2>1, <3>1 DEF HeldInv, Mine, work
  <2>4. CASE ~ReadSecret /\ ~AlterPassword
    <3>1. pc' \notin {"alter", "create", "write"}
      BY <1>1, <2>4, CreateSecretFacts, WriteFacts, WriteDatabaseFacts, OldFacts, EnsureFacts, SyncFacts, ApplyFacts
         DEF Calls, Fails, FetchDatabases, Goto, Patch
    <3> QED BY <3>1
  <2> QED BY <2>2, <2>3, <2>4
<1>2. CASE ~Calls
  <2>1. UNCHANGED local
    BY <1>2, OutsideCalls DEF Forward, Listing
  <2>2. Mine(obj.spec.secret) /\ secret'[obj.spec.secret] = secret[obj.spec.secret]
    BY <1>2, <2>1, OthersKeep DEF Calls, local
  <2> QED BY <1>0, <2>1, <2>2 DEF HeldInv, local, work
<1> QED BY <1>1, <1>2

LEMMA AnewStep == ASSUME TypeInv, ObjectInv, WorkInv, AnewInv, [Next]_vars PROVE AnewInv'
<1> SUFFICES ASSUME ~lagging', Current', pc' \in {"fetch", "secret", "alter", "create", "write"} PROVE AnewInv'
  BY DEF AnewInv
<1>0. ~lagging /\ {"fetch", "secret", "alter", "create", "write"} \subseteq Forward /\ "idle" \notin Forward
  BY Counts DEF Forward, Listing
<1>1. CASE Calls
  <2>1. UNCHANGED <<cur, obj, seenSecret>> /\ Current /\ pc \in Forward
    BY <1>1, CallFacts DEF Current, caches
  <2>2. CASE FetchDatabases
    <3>1. pc = "fetch" /\ UNCHANGED secret /\ pc' = "secret"
      BY <2>2 DEF FetchDatabases, Goto, Patch
    <3> QED BY <1>0, <2>1, <3>1 DEF AnewInv, Mine
  <2>3. CASE ReadSecret
    <3>1. pc = "secret" /\ UNCHANGED secret
      BY <2>3, ReadFacts
    <3>2. ~Mine(obj.spec.secret) /\ ~OwnedBy(seenSecret[obj.spec.secret], cur, obj.uid)
      BY <1>0, <2>1, <3>1 DEF AnewInv
    <3>3. pc' = "alter" /\ plan' \in {"create", "adopt", "merge"}
      BY <2>1, <2>3, <3>2, ReadFacts DEF Fails, Current
    <3> QED BY <2>1, <3>1, <3>2, <3>3 DEF AnewInv, Mine
  <2>4. CASE AlterPassword
    <3>1. /\ pc = "alter" /\ UNCHANGED <<secret, work>> /\ pc' \in {"create", "write"}
          /\ role[obj.spec.role].exists /\ RoleBecomes(PasswordSet(role[obj.spec.role], password))
      BY <2>4, AlterFacts DEF Fails, WriteStep
    <3>2. ~Mine(obj.spec.secret) /\ plan \in {"create", "adopt", "merge"}
      BY <1>0, <2>1, <3>1 DEF AnewInv
    <3>3. role'[obj.spec.role].exists /\ role'[obj.spec.role].password = password
      BY <3>1, RoleOf, PasswordParts DEF RoleBecomes
    <3> QED BY <2>1, <3>1, <3>2, <3>3 DEF AnewInv, Mine, RoleHolds, work
  <2>5. CASE ~FetchDatabases /\ ~ReadSecret /\ ~AlterPassword
    BY <1>1, <2>5, CreateSecretFacts, WriteFacts, WriteDatabaseFacts, OldFacts, EnsureFacts, SyncFacts, ApplyFacts
       DEF Calls, Fails
  <2> QED BY <2>2, <2>3, <2>4, <2>5
<1>2. CASE \E u \in Users : Start(u)
  <2> PICK u \in Users : Start(u)
    BY <1>2
  <2>1. /\ pc' = "fetch" /\ UNCHANGED <<secret, seenSecret>> /\ seenSecret = secret
        /\ cur' = u /\ obj' = seenUser[u] /\ ~seenSecret[obj'.spec.secret].exists
    BY <1>0, StartFacts DEF caches, Current
  <2> QED BY <2>1 DEF AnewInv, Mine, OwnedBy
<1>3. CASE ~Calls /\ ~(\E u \in Users : Start(u))
  <2>1. UNCHANGED local
    <3>1. CASE pc = "idle" /\ pc' = "fetch"
      BY <1>3, <3>1, StepCases, AsideFacts, FinalizerFacts, RemoverFacts, PatchFacts, DropFacts, CreateFacts,
         EditFacts, DeleteFacts DEF SyncUsers, Restart, Reset
    <3> QED BY <1>0, <1>3, <3>1, OutsideCalls
  <2>2. UNCHANGED <<pc, cur, obj, plan, password>> /\ pc \in Forward /\ Current /\ pc # "idle"
    BY <1>0, <2>1 DEF local, work, Current
  <2>3. Mine(obj.spec.secret)' => Mine(obj.spec.secret)
    BY <1>3, <2>2, OthersKeep DEF Calls
  <2>4. UNCHANGED seenSecret \/ seenSecret' = secret
    BY <1>3, AsideSecrets, SecretElse DEF Calls, Writers
  <2>5. UNCHANGED role
    BY <1>3, <2>2, RoleHere, DropFacts
  <2> QED BY <1>0, <2>2, <2>3, <2>4, <2>5 DEF AnewInv, Mine, RoleHolds
<1> QED BY <1>1, <1>2, <1>3


LEMMA PrimaryStep ==
  ASSUME TypeInv, PlanInv, WorkInv, SeenInv, HeldInv, PrimaryInv, [Next]_vars PROVE PrimaryInv'
<1> SUFFICES ASSUME ~lagging', pc' = "old" \/ Late', obj'.spec.generation = "primary", Mine(obj.spec.secret)'
             PROVE  secret'[obj'.spec.secret].data[obj'.spec.template].password = password'
  BY DEF PrimaryInv
<1>0. ~lagging /\ obj.spec.secret \in SecretNames /\ SecretNames \subseteq Names
  BY Counts, NameFacts
<1>1. CASE Calls
  <2>1. UNCHANGED <<cur, obj>> /\ pc # "idle" /\ cur \in Users /\ OwnedBy(secret'[obj.spec.secret], cur, obj.uid)
    BY <1>1, CallFacts DEF Forward, Listing, Mine
  <2>2. CASE ReadSecret
    <3>1. pc = "secret" /\ UNCHANGED secret
      BY <2>2, ReadFacts
    <3>2. seenSecret[obj.spec.secret] = secret[obj.spec.secret] /\ OwnedBy(seenSecret[obj.spec.secret], cur, obj.uid)
      BY <1>0, <2>1, <3>1, NameFacts DEF SeenInv, Untouched, Mine
    <3>3. pc' = "old" /\ password' = seenSecret[obj.spec.secret].data[obj.spec.template].password
      BY <2>1, <2>2, <3>2, ReadFacts DEF Late, Fails, OwnedBy
    <3> QED BY <2>1, <3>1, <3>2, <3>3
  <2>3. CASE CreateSecret
    <3>1. UNCHANGED work /\ SecretBecomes(obj.spec.secret, OwnSecret(DataFor(obj.spec.dbs)))
      BY <2>3, CreateSecretFacts DEF Late, Fails
    <3> QED BY <1>0, <2>1, <3>1, FreshEntry DEF SecretBecomes, work
  <2>4. CASE WriteSecret
    <3>1. /\ pc = "write" /\ UNCHANGED work
          /\ \/ SecretBecomes(obj.spec.secret, Written)
             \/ plan = "update" /\ UNCHANGED secret
      BY <2>4, WriteFacts DEF Late, Fails
    <3>2. plan = "update" => password = held.data[obj.spec.template].password
      BY <3>1 DEF WorkInv
    <3>3. CASE SecretBecomes(obj.spec.secret, Written)
      <4>1. Written.data[obj.spec.template].password = password
        BY <2>1, <3>1, <3>2, WrittenFacts
      <4> QED BY <1>0, <2>1, <3>1, <3>3, <4>1 DEF SecretBecomes, work
    <3>4. CASE plan = "update" /\ UNCHANGED secret
      <4>1. secret[obj.spec.secret] = held
        BY <1>0, <2>1, <3>1, <3>4 DEF HeldInv, Mine
      <4> QED BY <2>1, <3>1, <3>2, <3>4, <4>1 DEF work
    <3> QED BY <3>1, <3>3, <3>4
  <2>5. CASE DeleteOldSecret \/ EnsureUser \/ SyncDatabaseAccess \/ ApplyPrivileges
    <3>1. pc \in {"old", "role", "access", "grant"} /\ UNCHANGED password
      BY <2>5, OldFacts, EnsureFacts, SyncFacts, ApplyFacts DEF work
    <3>2. ~CreateSecret /\ ~WriteSecret
      BY <3>1 DEF CreateSecret, WriteSecret
    <3>3. Mine(obj.spec.secret) /\ secret'[obj.spec.secret] = secret[obj.spec.secret]
      BY <2>1, <3>2, OthersKeep
    <3> QED BY <1>0, <2>1, <3>1, <3>3 DEF PrimaryInv, Late
  <2>6. CASE FetchDatabases \/ AlterPassword
    <3>1. pc' # "old" /\ ~Late'
      <4>1. CASE FetchDatabases
        <5>1. pc' \in {"secret", "patch"}
          BY <4>1 DEF FetchDatabases, Goto, Patch
        <5>2. pc' = "patch" => to'.phase # "Ready"
          BY <1>1, <4>1, OtherCalls DEF FetchDatabases, AlterPassword, EnsureUser, SyncDatabaseAccess, ApplyPrivileges
        <5> QED BY <5>1, <5>2 DEF Late
      <4> QED BY <2>6, <4>1, AlterFacts DEF Late, WriteStep, Fails
    <3> QED BY <3>1
  <2>7. CASE WriteDatabaseSecret
    <3>1. pc = "perDatabase" /\ (pc' \in {"old", "perDatabase"} \/ Fails)
      BY <2>7, WriteDatabaseFacts
    <3> QED BY <2>1, <3>1 DEF WorkInv, Late, Fails
  <2> QED BY <1>1, <2>2, <2>3, <2>4, <2>5, <2>6, <2>7 DEF Calls
<1>2. CASE ~Calls
  <2>1. UNCHANGED local
    BY <1>2, OutsideCalls DEF Forward, Listing, Late
  <2>2. UNCHANGED <<pc, cur, obj, to, password>> /\ pc # "idle" /\ (pc = "old" \/ Late)
    BY <2>1 DEF local, work, Late
  <2>3. Mine(obj.spec.secret) /\ secret'[obj.spec.secret] = secret[obj.spec.secret]
    BY <1>2, <2>2, OthersKeep DEF Calls
  <2> QED BY <1>0, <2>2, <2>3 DEF PrimaryInv
<1> QED BY <1>1, <1>2

\* The credentials of a Ready DatabaseUser open its role, also while it is reconciled.
Works(u) ==
  LET s == secret[user[u].spec.secret]
      e == s.data[user[u].spec.template]
      r == role[user[u].spec.role] IN
  (IsReady(u) /\ u \notin mixed /\ user[u].spec.generation = "primary" /\ OwnedBy(s, u, user[u].uid))
    => r.exists /\ r.password = e.password
WorksInv == ~lagging => \A u \in Users : Works(u)

LEMMA ReadyHere ==
  ASSUME TypeInv, ObjectInv, ~lagging, pc \in Forward, IsReady(cur)
  PROVE  Current /\ obj.spec = user[cur].spec /\ obj.uid = user[cur].uid
<1>1. obj.phase = user[cur].phase /\ obj.observed = user[cur].observed /\ obj.observed <= obj.gen
  BY DEF ObjectInv, StatusInv, SameStatus, Forward, Listing
<1>2. /\ obj.gen <= user[cur].gen /\ obj.gen \in Nat /\ user[cur].gen \in Nat
      /\ obj.gen = user[cur].gen => obj.spec = user[cur].spec
      /\ user[cur].uid = obj.uid
  BY ForwardFacts, Records DEF ObjectInv, UserRecord
<1> QED BY <1>1, <1>2 DEF Current, IsReady

LEMMA ReadyPatch ==
  ASSUME TypeInv, ObjectInv, PatchStatus, ~lagging, NEW u \in Users, u = cur, IsReady(u)'
  PROVE  \/ UNCHANGED user
         \/ Late /\ Finishing /\ user'[u].spec = obj.spec /\ user'[u].uid = obj.uid
<1> SUFFICES ASSUME ~UNCHANGED user
             PROVE  Late /\ Finishing /\ user'[u].spec = obj.spec /\ user'[u].uid = obj.uid
  OBVIOUS
<1>1. pc = "patch" /\ pc \in Forward
  BY PatchFacts DEF Forward
<1>2. user[cur].exists /\ obj.uid = user[cur].uid /\ SameStatus(obj, user[cur])
      /\ (obj.gen = user[cur].gen => obj.spec = user[cur].spec)
  BY <1>1, ForwardFacts DEF ObjectInv, StatusInv
<1>3. PICK e \in UserRecord : Becomes(cur, e) /\ PatchedTo(user[cur], e)
  BY PatchFacts
<1>4. /\ user'[u].phase = to.phase /\ user'[u].observed = obj.gen /\ user'[u].gen = user[cur].gen
      /\ user'[u].spec = user[cur].spec /\ user'[u].uid = user[cur].uid
  BY <1>2, <1>3 DEF Becomes, PatchedTo, SameVersion, SameStatus
<1> QED BY <1>1, <1>2, <1>4 DEF IsReady, Late, Finishing

LEMMA WorksStep ==
  ASSUME TypeInv, ObjectInv, PlanInv, PasswordInv, AnewInv, PrimaryInv, WorksInv, [Next]_vars
  PROVE  WorksInv'
<1> SUFFICES ASSUME ~lagging', NEW u \in Users, IsReady(u)', u \notin mixed', user'[u].spec.generation = "primary",
                    OwnedBy(secret'[user'[u].spec.secret], u, user'[u].uid)
             PROVE  LET e == secret'[user'[u].spec.secret].data[user'[u].spec.template]
                        r == role'[user'[u].spec.role] IN
                    r.exists /\ r.password = e.password
  BY DEF WorksInv, Works
<1>0. ~lagging /\ u \notin mixed /\ NoUser \notin Users
  BY Counts, MixedGrows, NameFacts
<1>1. CASE PatchStatus /\ u = cur
  <2>1. UNCHANGED <<secret, role>>
    BY <1>1, PatchFacts
  <2>2. CASE UNCHANGED user
    BY <1>0, <2>1, <2>2 DEF WorksInv, Works, IsReady
  <2>3. CASE Late /\ Finishing /\ user'[u].spec = obj.spec /\ user'[u].uid = obj.uid
    <3>1. RoleHolds /\ Mine(obj.spec.secret)
      BY <1>1, <2>1, <2>3 DEF PasswordInv, Mine
    <3>2. secret[obj.spec.secret].data[obj.spec.template].password = password
      BY <1>0, <2>3, <3>1 DEF PrimaryInv
    <3> QED BY <2>1, <2>3, <3>1, <3>2 DEF RoleHolds
  <2> QED BY <1>0, <1>1, <2>2, <2>3, ReadyPatch
<1>2. CASE ~(PatchStatus /\ u = cur)
  <2> DEFINE n == user[u].spec.secret
             r == user[u].spec.role
             t == user[u].spec.template
  <2>1. IsReady(u) /\ user'[u].spec = user[u].spec /\ user'[u].uid = user[u].uid
    BY <1>2, UserBefore
  <2>2. /\ n \in SecretNames /\ u # NoUser /\ OwnedBy(secret'[n], u, user[u].uid)
        /\ secret'[n] \notin {NoSuchSecret, ForeignSecret}
    BY <1>0, <2>1, Records, NameFacts DEF UserRecord, UserSpec, OwnedBy
  <2>3. ASSUME secret'[n] = secret[n] PROVE role[r].exists /\ role[r].password = secret'[n].data[t].password
    BY <1>0, <2>1, <2>2, <2>3 DEF WorksInv, Works
  <2>4. CASE ~(Calls /\ u = cur)
    <3>1. role'[r] = role[r]
      BY <1>0, <2>1, <2>4, RoleStays
    <3>2. secret'[n] = secret[n]
      <4>1. CASE CreateSecret /\ secret'[n] = OwnSecret(DataFor(obj.spec.dbs))
        BY <2>2, <2>4, <4>1 DEF Calls, OwnSecret, OwnedBy
      <4>2. CASE WriteSecret /\ secret'[n] = Written /\ cur \in Users
        BY <2>2, <2>4, <4>2, WrittenFacts, WriteFacts DEF Calls, OwnedBy
      <4> QED BY <2>2, <4>1, <4>2, NameKept
    <3> QED BY <2>1, <2>3, <3>1, <3>2
  <2>5. CASE Calls /\ u = cur
    <3>1. cur \in Users /\ pc \in Forward /\ UNCHANGED <<cur, obj>>
      BY <2>5, CallFacts
    <3>2. Current /\ obj.spec = user[u].spec /\ obj.uid = user[u].uid
      BY <1>0, <2>1, <2>5, <3>1, ReadyHere
    <3>3. secret'[n] = secret[n] => Mine(n)
      BY <2>2, <2>5, <3>2 DEF Mine
    <3>4. CASE CreateSecret \/ WriteSecret
      <4>1. pc \in {"create", "write"} /\ UNCHANGED role
        BY <3>4, CreateSecretFacts, WriteFacts
      <4>2. ~Mine(n) /\ plan \in {"create", "adopt", "merge"} /\ RoleHolds
        BY <1>0, <3>1, <3>2, <4>1 DEF AnewInv
      <4>3. secret'[n].data[t].password = password
        <5>1. CASE CreateSecret /\ secret'[n] = OwnSecret(DataFor(obj.spec.dbs))
          BY <3>2, <5>1, FreshEntry
        <5>2. CASE WriteSecret /\ secret'[n] = Written
          BY <3>1, <3>2, <4>2, <5>2, WrittenFacts, WriteFacts
        <5> QED BY <2>2, <3>3, <4>2, <5>1, <5>2, NameKept
      <4> QED BY <2>1, <3>2, <4>1, <4>2, <4>3 DEF RoleHolds
    <3>5. CASE ~CreateSecret /\ ~WriteSecret
      <4>1. secret'[n] = secret[n]
        BY <2>2, <3>5, NameKept
      <4>2. role[r].exists /\ role[r].password = secret'[n].data[t].password /\ Mine(n)
        BY <2>3, <3>3, <4>1
      <4>3. CASE EnsureUser
        <5>1. pc = "role" /\ (UNCHANGED role \/ RoleBecomes(Ensured(role[r])))
          BY <3>2, <4>3, EnsureFacts
        <5>2. secret'[n].data[t].password = password
          BY <1>0, <2>1, <3>2, <4>1, <4>2, <5>1 DEF PrimaryInv, Late
        <5>3. Ensured(role[r]).exists /\ Ensured(role[r]).password = password
          BY <3>2, RoleOf, PasswordParts DEF Ensured
        <5>4. RoleBecomes(Ensured(role[r])) => role'[r] = Ensured(role[r])
          BY <3>2, RoleOf DEF RoleBecomes
        <5> QED BY <2>1, <4>2, <5>1, <5>2, <5>3, <5>4
      <4>4. CASE AlterPassword
        BY <1>0, <3>1, <3>2, <4>2, <4>4, AlterFacts DEF AnewInv
      <4>5. CASE SyncDatabaseAccess \/ ApplyPrivileges
        BY <2>1, <3>2, <4>2, <4>5, PasswordStays
      <4>6. CASE ~AlterPassword /\ ~EnsureUser /\ ~SyncDatabaseAccess /\ ~ApplyPrivileges
        BY <2>1, <2>5, <4>2, <4>6, OtherCalls
      <4> QED BY <4>3, <4>4, <4>5, <4>6
    <3> QED BY <3>4, <3>5
  <2> QED BY <2>4, <2>5
<1> QED BY <1>1, <1>2

OpenInv == EntryInv /\ HeldInv /\ AnewInv /\ PrimaryInv /\ WorksInv

\* While caches are current, the credentials in the Secret of a Ready user open its role: the
\* ALTER USER comes before the Secret is written only for one that has no Secret to lose, and
\* what a failure or a restart parts is not Ready.
THEOREM CredentialsOpen == (Lags = {FALSE} /\ Spec) => []CredentialsWork
<1>1. Init => OpenInv
  <2> SUFFICES ASSUME Init PROVE OpenInv
    OBVIOUS
  <2>1. pc = "idle"
    BY Zenon DEF Init
  <2>2. \A u \in Users : user[u] = Absent(0)
    BY Zenon DEF Init
  <2>3. ~Absent(0).exists
    BY AbsentFacts, Defaults
  <2> QED BY <2>1, <2>2, <2>3 DEF OpenInv, EntryInv, HeldInv, AnewInv, PrimaryInv, WorksInv, Works, OwnsSecret,
                                  IsReady, Late, Forward, Listing
<1>2. TypeInv /\ ObjectInv /\ KeptInv /\ PairInv /\ OpenInv /\ [Next]_vars => OpenInv'
  BY EntryStep, HeldStep, AnewStep, PrimaryStep, WorksStep DEF OpenInv, KeptInv, PairInv
<1>3. (Lags = {FALSE} /\ Init) => ~lagging
  BY DEF Init
<1>4. TypeInv /\ ~lagging /\ [Next]_vars => ~lagging'
  BY Counts
<1>5. TypeInv /\ OpenInv /\ ~lagging => CredentialsWork
  <2> SUFFICES ASSUME TypeInv, OpenInv, ~lagging, NEW u \in Users, IsReady(u), u \notin mixed,
                      user[u].spec.generation = "primary", OwnedBy(secret[user[u].spec.secret], u, user[u].uid)
               PROVE  LET e == secret[user[u].spec.secret].data[user[u].spec.template] IN
                      /\ e.password # NoPassword /\ e.role = user[u].spec.role
                      /\ role[e.role].exists /\ role[e.role].password = e.password
    BY DEF CredentialsWork
  <2>1. Filled(secret[user[u].spec.secret], user[u].spec)
    <3>1. user[u].spec.secret \in SecretNames /\ OwnsSecret(u, user[u].spec.secret)
      BY Records DEF UserRecord, UserSpec, OwnsSecret, IsReady
    <3> QED BY <3>1 DEF OpenInv, EntryInv
  <2>2. Works(u)
    BY DEF OpenInv, WorksInv
  <2> QED BY <2>1, <2>2 DEF Works, Filled
<1> QED BY <1>1, <1>2, <1>3, <1>4, <1>5, KeptInvariant, PairInvariant, PTL DEF Spec

=============================================================================
