--------------------------- MODULE ClientCacheProofs ---------------------------
(***************************************************************************)
(* Proofs about ClientCache, for any number of controllers and clusters:   *)
(* its types, that a client found in the map is an open pool of its own    *)
(* cluster, and that a pool is closed only around its users.               *)
(***************************************************************************)
EXTENDS ClientCache, TLAPS

(***************************************************************************)
(* Types                                                                   *)
(***************************************************************************)

StatusRecord == [phase : {"", "Connected", "Failed"}, spec : Specs, via : Specs]
PoolRecord == [st : {"none", "open", "closed"}, c : Clusters, spec : Specs]
WorkerRecord == [pc : PCs, c : Clusters, spec : Specs, pool : Pools \cup {NoPool}, next : PCs]

\* Past the lookup a worker that uses a pool has one: the names at which it reads it.
HasPool(t) == w[t].pc \in {"ping", "pinging", "store", "use", "using", "connected"}
                => w[t].pool \in Pools

TypeInv == TypeOK /\ \A t \in Workers : HasPool(t) /\ w[t].next \in {"idle", "dial", "failed"}

LEMMA AnyClusterType == AnyCluster \in Clusters
  BY WorkersAssumption DEF AnyCluster

LEMMA InitType == Init => TypeInv
<1> SUFFICES ASSUME Init PROVE TypeInv
  OBVIOUS
<1>1. AnyCluster \in Clusters
  BY AnyClusterType
<1>2. 0 \in Specs /\ 0 \in 0..MaxRounds /\ 0 \in 0..MaxOutages
  BY CacheBoundAssumption DEF Specs
<1>3. cluster \in [Clusters -> [exists : BOOLEAN, spec : Specs]]
  BY <1>2 DEF Init
<1>4. status \in [Clusters -> StatusRecord]
  BY <1>2 DEF Init, StatusRecord
<1>5. pool \in [Pools -> PoolRecord]
  BY <1>1, <1>2 DEF Init, PoolRecord
<1>6. IdleWorker(AnyCluster) \in WorkerRecord
  BY <1>1, <1>2 DEF IdleWorker, WorkerRecord, PCs
<1>7. w \in [Workers -> WorkerRecord]
  BY <1>6 DEF Init
<1>8. TypeOK
  BY <1>2, <1>3, <1>4, <1>5, <1>7 DEF Init, TypeOK, StatusRecord, PoolRecord, WorkerRecord
<1> QED
  BY <1>8 DEF Init, TypeInv, HasPool, IdleWorker

\* Every action of a worker gives it a well-typed record that keeps to HasPool.
LEMMA WorkerStepType ==
  ASSUME TypeInv, NEW t \in Workers, NEW r \in WorkerRecord,
         w' = [w EXCEPT ![t] = r],
         r.pc \in {"ping", "pinging", "store", "use", "using", "connected"} => r.pool \in Pools,
         r.next \in {"idle", "dial", "failed"}
  PROVE  /\ w' \in [Workers -> WorkerRecord]
         /\ \A u \in Workers : HasPool(u)' /\ w'[u].next \in {"idle", "dial", "failed"}
<1>1. w \in [Workers -> WorkerRecord]
  BY DEF TypeInv, TypeOK, WorkerRecord
<1>2. w' \in [Workers -> WorkerRecord] /\ w'[t] = r
  BY <1>1
<1>3. ASSUME NEW u \in Workers
      PROVE  HasPool(u)' /\ w'[u].next \in {"idle", "dial", "failed"}
  <2>1. CASE u = t
    BY <1>2, <2>1 DEF HasPool
  <2>2. CASE u # t
    <3>1. w'[u] = w[u] /\ HasPool(u) /\ w[u].next \in {"idle", "dial", "failed"}
      BY <1>1, <2>2 DEF TypeInv
    <3> QED
      BY <3>1 DEF HasPool
  <2> QED
    BY <2>1, <2>2
<1> QED
  BY <1>2, <1>3

\* The same for the usual case, where only the worker's program counter moves.
LEMMA GotoType ==
  ASSUME TypeInv, NEW t \in Workers, NEW pc \in PCs, Goto(t, pc),
         pc \in {"ping", "pinging", "store", "use", "using", "connected"} => w[t].pool \in Pools
  PROVE  /\ w' \in [Workers -> WorkerRecord]
         /\ \A u \in Workers : HasPool(u)' /\ w'[u].next \in {"idle", "dial", "failed"}
<1> DEFINE r == [w[t] EXCEPT !.pc = pc]
<1>0. w[t] \in WorkerRecord
  BY DEF TypeInv, TypeOK, WorkerRecord
<1>1. r \in WorkerRecord /\ r.pc = pc /\ r.pool = w[t].pool /\ r.next = w[t].next
  BY <1>0 DEF WorkerRecord
<1>2. w' = [w EXCEPT ![t] = r]
  BY DEF Goto
<1>3. r.next \in {"idle", "dial", "failed"}
  BY <1>1 DEF TypeInv
<1> HIDE DEF r
<1> QED
  BY <1>1, <1>2, <1>3, WorkerStepType

LEMMA FailType ==
  ASSUME TypeInv, NEW t \in Workers,
         w' = [w EXCEPT ![t].pc = "remove", ![t].next = "failed"]
  PROVE  /\ w' \in [Workers -> WorkerRecord]
         /\ \A u \in Workers : HasPool(u)' /\ w'[u].next \in {"idle", "dial", "failed"}
<1> DEFINE r == [w[t] EXCEPT !.pc = "remove", !.next = "failed"]
<1>0. w[t] \in WorkerRecord
  BY DEF TypeInv, TypeOK, WorkerRecord
<1>1. r \in WorkerRecord /\ r.pc = "remove" /\ r.next = "failed"
  BY <1>0 DEF WorkerRecord, PCs
<1>2. w' = [w EXCEPT ![t] = r]
  BY DEF TypeInv, TypeOK, WorkerRecord
<1> HIDE DEF r
<1> QED
  BY <1>1, <1>2, WorkerStepType

LEMMA BeginType == ASSUME TypeInv, NEW t \in Workers, NEW c \in Clusters, Begin(t, c)
                   PROVE  TypeInv'
<1> DEFINE e == cluster[c].exists
           r == [pc |-> IF e THEN "credentials" ELSE "remove", c |-> c,
                 spec |-> cluster[c].spec, pool |-> NoPool,
                 next |-> IF e THEN "dial" ELSE "idle"]
<1>1. cluster[c].spec \in Specs
  BY DEF TypeInv, TypeOK
<1>2. r \in WorkerRecord /\ r.pc \in {"credentials", "remove"} /\ r.next \in {"idle", "dial"}
  BY <1>1 DEF WorkerRecord, PCs
<1>3. w' = [w EXCEPT ![t] = r]
  BY DEF Begin
<1>4. rounds' \in 0..MaxRounds /\ queue' \subseteq Clusters
  <2>1. rounds \in 0..MaxRounds /\ rounds < MaxRounds /\ rounds' = rounds + 1
    BY DEF TypeInv, TypeOK, Begin
  <2>2. rounds' \in 0..MaxRounds
    BY <2>1, CacheBoundAssumption
  <2>3. queue \subseteq Clusters /\ (queue' = queue \/ queue' = queue \ {c})
    BY DEF TypeInv, TypeOK, Begin
  <2> QED
    BY <2>2, <2>3
<1> HIDE DEF r
<1>5. w' \in [Workers -> WorkerRecord]
      /\ \A u \in Workers : HasPool(u)' /\ w'[u].next \in {"idle", "dial", "failed"}
  BY <1>2, <1>3, WorkerStepType
<1> QED
  BY <1>4, <1>5 DEF TypeInv, TypeOK, Begin, env, WorkerRecord

LEMMA StepType == ASSUME TypeInv, NEW t \in Workers, Step(t) PROVE TypeInv'
<1> DEFINE Typed == /\ w' \in [Workers -> WorkerRecord]
                    /\ \A u \in Workers : /\ HasPool(u)'
                                          /\ w'[u].next \in {"idle", "dial", "failed"}
<1>1. CASE ReadCredentials(t)
  <2>1. Typed
    BY <1>1, GotoType DEF ReadCredentials, PCs
  <2> QED
    BY <1>1, <2>1 DEF TypeInv, TypeOK, ReadCredentials, env, WorkerRecord
<1>2. CASE Lookup(t)
  <2> DEFINE p == clients[w[t].c]
             r == [w[t] EXCEPT !.pool = p, !.pc = IF p = NoPool THEN "dial" ELSE "ping"]
  <2>1. p \in Pools \cup {NoPool}
    BY DEF TypeInv, TypeOK
  <2>2. /\ r \in WorkerRecord /\ r.pool = p /\ r.next = w[t].next
        /\ r.pc = IF p = NoPool THEN "dial" ELSE "ping"
    BY <2>1 DEF TypeInv, TypeOK, WorkerRecord, PCs
  <2>3. w' = [w EXCEPT ![t] = r]
    BY <1>2 DEF Lookup, Take, TypeInv, TypeOK, WorkerRecord
  <2>4. r.next \in {"idle", "dial", "failed"}
    BY <2>2 DEF TypeInv
  <2>5. r.pc \in {"ping", "pinging", "store", "use", "using", "connected"} => r.pool \in Pools
    BY <2>1, <2>2
  <2> HIDE DEF r
  <2>6. Typed
    BY <2>2, <2>3, <2>4, <2>5, WorkerStepType
  <2> QED
    BY <1>2, <2>6 DEF TypeInv, TypeOK, Lookup, env, WorkerRecord
<1>3. CASE Ping(t)
  <2>1. w[t].pool \in Pools
    BY <1>3 DEF Ping, TypeInv, HasPool, At
  <2>2. Typed
    BY <1>3, <2>1, GotoType DEF Ping, PCs
  <2> QED
    BY <1>3, <2>2 DEF TypeInv, TypeOK, Ping, env, WorkerRecord
<1>4. CASE Pong(t)
  <2>1. w[t].pool \in Pools
    BY <1>4 DEF Pong, TypeInv, HasPool, At
  <2>2. Typed
    BY <1>4, <2>1, GotoType DEF Pong, PCs
  <2> QED
    BY <1>4, <2>2 DEF TypeInv, TypeOK, Pong, env, WorkerRecord
<1>5. CASE RemoveStarts(t)
  <2>1. w[t].next \in {"idle", "dial", "failed"} /\ w[t].next \in PCs
    BY DEF TypeInv, PCs
  <2>2. Typed
    BY <1>5, <2>1, GotoType DEF RemoveStarts, PCs
  <2>3. pool \in [Pools -> PoolRecord] /\ lock \in Workers \cup {Free}
    BY DEF TypeInv, TypeOK, PoolRecord
  <2>4. \A p : [pool EXCEPT ![p].st = "closed"] \in [Pools -> PoolRecord]
    BY <2>3 DEF PoolRecord
  <2>5. pool' \in [Pools -> PoolRecord] /\ lock' \in Workers \cup {Free}
    BY <1>5, <2>3, <2>4 DEF RemoveStarts
  <2> QED
    BY <1>5, <2>2, <2>5 DEF TypeInv, TypeOK, RemoveStarts, env, WorkerRecord, PoolRecord
<1>6. CASE RemoveEnds(t)
  <2>1. w[t].next \in {"idle", "dial", "failed"} /\ w[t].next \in PCs
    BY DEF TypeInv, PCs
  <2>2. Typed
    BY <1>6, <2>1, GotoType DEF RemoveEnds, PCs
  <2>3. clients' \in [Clusters -> Pools \cup {NoPool}] /\ lock' \in Workers \cup {Free}
    BY <1>6 DEF RemoveEnds, TypeInv, TypeOK
  <2> QED
    BY <1>6, <2>2, <2>3 DEF TypeInv, TypeOK, RemoveEnds, env, WorkerRecord
<1>7. CASE NewClient(t)
  <2>1. CASE Goto(t, "failed") /\ UNCHANGED pool
    <3>1. Typed
      BY <2>1, GotoType DEF PCs
    <3> QED
      BY <1>7, <2>1, <3>1 DEF TypeInv, TypeOK, NewClient, env, WorkerRecord
  <2>2. CASE \E p \in Pools :
               /\ pool' = [pool EXCEPT ![p] = [st |-> "open", c |-> w[t].c, spec |-> w[t].spec]]
               /\ Take(t, p, "store")
    <3>1. PICK p \in Pools :
               /\ pool' = [pool EXCEPT ![p] = [st |-> "open", c |-> w[t].c, spec |-> w[t].spec]]
               /\ Take(t, p, "store")
      BY <2>2
    <3> DEFINE r == [w[t] EXCEPT !.pc = "store", !.pool = p]
    <3>2. r \in WorkerRecord /\ r.pool = p /\ r.next = w[t].next
      BY DEF TypeInv, TypeOK, WorkerRecord, PCs
    <3>3. w' = [w EXCEPT ![t] = r] /\ r.next \in {"idle", "dial", "failed"}
      BY <3>1, <3>2 DEF TypeInv, TypeOK, WorkerRecord, Take
    <3> HIDE DEF r
    <3>4. Typed
      BY <3>2, <3>3, WorkerStepType
    <3>5. pool' \in [Pools -> PoolRecord]
      BY <3>1 DEF TypeInv, TypeOK, PoolRecord
    <3> QED
      BY <1>7, <3>4, <3>5 DEF TypeInv, TypeOK, NewClient, env, WorkerRecord, PoolRecord
  <2> QED
    BY <1>7, <2>1, <2>2 DEF NewClient
<1>8. CASE Store(t)
  <2>1. w[t].pool \in Pools
    BY <1>8 DEF Store, TypeInv, HasPool, At
  <2>2. Typed
    BY <1>8, <2>1, GotoType DEF Store, PCs
  <2>3. clients' \in [Clusters -> Pools \cup {NoPool}]
    BY <1>8, <2>1 DEF Store, TypeInv, TypeOK
  <2> QED
    BY <1>8, <2>2, <2>3 DEF TypeInv, TypeOK, Store, env, WorkerRecord
<1>9. CASE Use(t)
  <2>1. w[t].pool \in Pools
    BY <1>9 DEF Use, TypeInv, HasPool, At
  <2>2. Typed
    BY <1>9, <2>1, GotoType, FailType DEF Use, PCs
  <2> QED
    BY <1>9, <2>2 DEF TypeInv, TypeOK, Use, env, WorkerRecord
<1>10. CASE UseEnds(t)
  <2>1. w[t].pool \in Pools
    BY <1>10 DEF UseEnds, TypeInv, HasPool, At
  <2>2. Typed
    BY <1>10, <2>1, GotoType, FailType DEF UseEnds, PCs
  <2> QED
    BY <1>10, <2>2 DEF TypeInv, TypeOK, UseEnds, env, WorkerRecord
<1>11. CASE Report(t)
  <2> DEFINE s == [phase |-> IF At(t, "connected") THEN "Connected" ELSE "Failed",
                   spec |-> w[t].spec,
                   via |-> IF At(t, "connected") THEN pool[w[t].pool].spec ELSE 0]
  <2>1. At(t, "connected") => w[t].pool \in Pools
    BY DEF TypeInv, HasPool, At
  <2>2. 0 \in Specs
    BY CacheBoundAssumption DEF Specs
  <2>3. (IF At(t, "connected") THEN pool[w[t].pool].spec ELSE 0) \in Specs
    BY <2>1, <2>2 DEF TypeInv, TypeOK
  <2>4. s \in StatusRecord
    BY <2>3 DEF TypeInv, TypeOK, StatusRecord
  <2>5. status' = [status EXCEPT ![w[t].c] = s] \/ status' = status
    BY <1>11 DEF Report
  <2> HIDE DEF s
  <2>6. status' \in [Clusters -> StatusRecord]
    BY <2>4, <2>5 DEF TypeInv, TypeOK, StatusRecord
  <2>7. IdleWorker(w[t].c) \in WorkerRecord
    BY <2>2 DEF TypeInv, TypeOK, IdleWorker, WorkerRecord, PCs
  <2>8. Typed
    BY <1>11, <2>7, WorkerStepType DEF Report, IdleWorker
  <2>9. queue' \subseteq Clusters
    BY <1>11 DEF Report, TypeInv, TypeOK
  <2> QED
    BY <1>11, <2>6, <2>8, <2>9 DEF TypeInv, TypeOK, Report, env, WorkerRecord, StatusRecord
<1> QED
  BY <1>1, <1>2, <1>3, <1>4, <1>5, <1>6, <1>7, <1>8, <1>9, <1>10, <1>11 DEF Step

LEMMA UsersType == ASSUME TypeInv, NEW c \in Clusters,
                          Apply(c) \/ Delete(c) \/ \E s \in 1..MaxSpec : Outage(c, s)
                   PROVE  TypeInv'
<1>1. CASE Apply(c)
  <2>1. cluster[c].spec + 1 \in Specs
    <3>1. cluster[c].spec \in Specs /\ cluster[c].spec < MaxSpec
      BY <1>1 DEF Apply, TypeInv, TypeOK
    <3> QED
      BY <3>1, CacheBoundAssumption DEF Specs
  <2>2. cluster' = [cluster EXCEPT ![c] = [exists |-> TRUE, spec |-> cluster[c].spec + 1]]
    BY <1>1 DEF Apply
  <2>3. cluster' \in [Clusters -> [exists : BOOLEAN, spec : Specs]]
    BY <2>1, <2>2 DEF TypeInv, TypeOK
  <2> QED
    BY <1>1, <2>3 DEF Apply, TypeInv, TypeOK, HasPool
<1>2. CASE Delete(c)
  <2>1. cluster' \in [Clusters -> [exists : BOOLEAN, spec : Specs]]
    <3> DEFINE o == [cluster[c] EXCEPT !.exists = FALSE]
    <3>1. cluster \in [Clusters -> [exists : BOOLEAN, spec : Specs]]
      BY DEF TypeInv, TypeOK
    <3>2. o \in [exists : BOOLEAN, spec : Specs]
      BY <3>1
    <3>3. cluster' = [cluster EXCEPT ![c] = o]
      BY <1>2 DEF Delete
    <3> HIDE DEF o
    <3> QED
      BY <3>1, <3>2, <3>3
  <2>2. [phase |-> "", spec |-> 0, via |-> 0] \in StatusRecord
    BY CacheBoundAssumption DEF StatusRecord, Specs
  <2>3. status \in [Clusters -> StatusRecord]
    BY DEF TypeInv, TypeOK, StatusRecord
  <2>4. status' \in [Clusters -> StatusRecord]
    BY <1>2, <2>2, <2>3 DEF Delete
  <2> QED
    BY <1>2, <2>1, <2>4 DEF Delete, TypeInv, TypeOK, HasPool, StatusRecord
<1>3. CASE \E s \in 1..MaxSpec : Outage(c, s)
  <2>1. PICK s \in 1..MaxSpec : Outage(c, s)
    BY <1>3
  <2>2. outages' \in 0..MaxOutages
    <3>1. outages \in 0..MaxOutages /\ outages < MaxOutages /\ outages' = outages + 1
      BY <2>1 DEF Outage, TypeInv, TypeOK
    <3> QED
      BY <3>1, CacheBoundAssumption
  <2>3. down' \subseteq Clusters \X Specs
    <3>1. <<c, s>> \in Clusters \X Specs
      BY CacheBoundAssumption DEF Specs
    <3>2. down \subseteq Clusters \X Specs
      BY DEF TypeInv, TypeOK
    <3>3. down' = down \ {<<c, s>>} \/ down' = down \cup {<<c, s>>}
      BY <2>1 DEF Outage
    <3> QED
      BY <3>1, <3>2, <3>3
  <2> QED
    BY <2>1, <2>2, <2>3 DEF Outage, TypeInv, TypeOK, HasPool
<1> QED
  BY <1>1, <1>2, <1>3

LEMMA TypeStep == TypeInv /\ [Next]_vars => TypeInv'
<1> SUFFICES ASSUME TypeInv, [Next]_vars PROVE TypeInv'
  OBVIOUS
<1>1. CASE UNCHANGED vars
  BY <1>1 DEF vars, TypeInv, TypeOK, HasPool
<1> QED
  BY <1>1, BeginType, StepType, UsersType DEF Next

LEMMA TypeInvariant == Spec => []TypeInv
<1> QED
  BY InitType, TypeStep, PTL DEF Spec

\* Type correctness: every variable of the cache, the controllers and their environment
\* keeps its type, in particular the status phases of the DBCluster resource.
THEOREM TypeCorrect == Spec => []TypeOK
<1>1. TypeInv => TypeOK
  BY DEF TypeInv
<1> QED
  BY <1>1, TypeInvariant, PTL

(***************************************************************************)
(* Clients in the map                                                      *)
(***************************************************************************)

\* The mutex is held across steps by the one worker that is closing a pool.
LockInv ==
  /\ \A t \in Workers : At(t, "closing") => lock = t
  /\ lock # Free => At(lock, "closing")

\* A client in the map is its cluster's own and open, unless it is the one being closed.
MapInv ==
  \A c \in Clusters : clients[c] # NoPool =>
    /\ pool[clients[c]].c = c
    /\ \/ pool[clients[c]].st = "open"
       \/ pool[clients[c]].st = "closed" /\ lock # Free /\ w[lock].c = c

\* A new pool stays open and its creator's alone until it is stored.
NewInv ==
  \A t \in Workers : At(t, "store") =>
    /\ pool[w[t].pool].st = "open" /\ pool[w[t].pool].c = w[t].c
    /\ \A c \in Clusters : clients[c] # w[t].pool
    /\ \A u \in Workers \ {t} : At(u, "store") => w[u].pool # w[t].pool

CacheInv == LockInv /\ MapInv /\ NewInv

\* The types the rest of the module needs, and what the assignments of a step come to.
LEMMA Shapes ==
  ASSUME TypeInv
  PROVE  /\ w \in [Workers -> WorkerRecord] /\ pool \in [Pools -> PoolRecord]
         /\ clients \in [Clusters -> Pools \cup {NoPool}] /\ lock \in Workers \cup {Free}
         /\ NoPool \notin Pools /\ Free \notin Workers
  BY WorkersAssumption DEF TypeInv, TypeOK, WorkerRecord, PoolRecord

LEMMA PcMoves ==
  ASSUME TypeInv, NEW t \in Workers, NEW pc, w' = [w EXCEPT ![t].pc = pc]
  PROVE  w'[t].pc = pc /\ w'[t].c = w[t].c /\ w'[t].pool = w[t].pool
<1>1. w \in [Workers -> WorkerRecord]
  BY Shapes
<1> QED
  BY <1>1 DEF WorkerRecord

LEMMA PcPoolMove ==
  ASSUME TypeInv, NEW t \in Workers, NEW pc, NEW p, Take(t, p, pc)
  PROVE  w'[t].pc = pc /\ w'[t].c = w[t].c /\ w'[t].pool = p
<1>1. w \in [Workers -> WorkerRecord]
  BY Shapes
<1> QED
  BY <1>1 DEF WorkerRecord, Take

LEMMA PoolCloses ==
  ASSUME TypeInv, NEW p \in Pools, pool' = [pool EXCEPT ![p].st = "closed"]
  PROVE  /\ pool'[p].st = "closed" /\ pool'[p].c = pool[p].c
         /\ \A q \in Pools \ {p} : pool'[q] = pool[q]
<1>1. pool \in [Pools -> PoolRecord]
  BY Shapes
<1> QED
  BY <1>1 DEF PoolRecord

\* A step of one worker leaves the local state of the others alone.
LEMMA OthersStay ==
  ASSUME TypeInv, NEW t \in Workers,
         Step(t) \/ \E c \in Clusters : Begin(t, c), NEW u \in Workers \ {t}
  PROVE  w'[u] = w[u]
<1> w \in [Workers -> WorkerRecord] /\ u \in Workers /\ u # t
  BY DEF TypeInv, TypeOK, WorkerRecord
<1> USE DEF Goto, Take
<1>1. CASE \E c \in Clusters : Begin(t, c)
  BY <1>1 DEF Begin
<1>2. CASE ReadCredentials(t) \/ Lookup(t) \/ Ping(t) \/ Pong(t)
  BY <1>2 DEF ReadCredentials, Lookup, Ping, Pong
<1>3. CASE RemoveStarts(t) \/ RemoveEnds(t) \/ NewClient(t) \/ Store(t)
  BY <1>3 DEF RemoveStarts, RemoveEnds, NewClient, Store
<1>4. CASE Use(t) \/ UseEnds(t) \/ Report(t)
  BY <1>4 DEF Use, UseEnds, Report
<1> QED
  BY <1>1, <1>2, <1>3, <1>4 DEF Step

\* A step that touches neither the map, nor a pool, nor the mutex, nor begins or ends a
\* critical section or the life of a new pool.
LEMMA QuietCache ==
  ASSUME TypeInv, CacheInv, NEW t \in Workers, UNCHANGED <<clients, pool, lock>>,
         \A u \in Workers \ {t} : w'[u] = w[u],
         w[t].pc # "closing", w'[t].pc \notin {"closing", "store"}
  PROVE  CacheInv'
<1>1. LockInv'
  <2>1. lock \in Workers \cup {Free} /\ lock # t
    BY Shapes DEF CacheInv, LockInv, At
  <2> QED
    BY <2>1 DEF CacheInv, LockInv, At
<1>2. MapInv'
  <2>1. lock # Free => lock \in Workers \ {t}
    BY Shapes DEF CacheInv, LockInv, At
  <2> QED
    BY <2>1 DEF CacheInv, MapInv
<1>3. NewInv'
  BY DEF CacheInv, NewInv, At
<1> QED
  BY <1>1, <1>2, <1>3 DEF CacheInv

LEMMA RemoveStartsCache ==
  ASSUME TypeInv, CacheInv, NEW t \in Workers, RemoveStarts(t),
         clients[w[t].c] # NoPool, \A u \in Workers \ {t} : w'[u] = w[u]
  PROVE  CacheInv'
<1> DEFINE p == clients[w[t].c]
<1>1. /\ lock = Free /\ lock' = t /\ clients' = clients /\ w[t].pc = "remove"
      /\ pool' = [pool EXCEPT ![p].st = "closed"]
      /\ w' = [w EXCEPT ![t].pc = "closing"]
  BY DEF RemoveStarts, Goto, At
<1>2. t \in Workers /\ t # Free /\ w[t].c \in Clusters /\ p \in Pools
  BY WorkersAssumption DEF TypeInv, TypeOK
<1>3. w'[t].pc = "closing" /\ w'[t].c = w[t].c
  BY <1>1, PcMoves
<1>4. /\ pool'[p].st = "closed" /\ pool'[p].c = pool[p].c
      /\ \A q \in Pools \ {p} : pool'[q] = pool[q]
  BY <1>1, <1>2, PoolCloses
<1>5. LockInv'
  <2>1. \A u \in Workers : w[u].pc # "closing"
    BY <1>1, <1>2, Shapes DEF CacheInv, LockInv, At
  <2>2. \A u \in Workers \ {t} : w'[u].pc # "closing"
    BY <2>1
  <2> QED
    BY <1>1, <1>3, <2>2 DEF LockInv, At
<1>6. MapInv'
  <2> SUFFICES ASSUME NEW c \in Clusters, clients[c] # NoPool
               PROVE  /\ pool'[clients[c]].c = c
                      /\ \/ pool'[clients[c]].st = "open"
                         \/ pool'[clients[c]].st = "closed" /\ w'[t].c = c
    BY <1>1, <1>2 DEF MapInv
  <2>1. clients[c] \in Pools /\ pool[clients[c]].c = c /\ pool[clients[c]].st = "open"
    BY <1>1, Shapes DEF CacheInv, MapInv
  <2>2. CASE clients[c] = p
    <3>1. pool[p].c = w[t].c
      BY <1>2 DEF CacheInv, MapInv
    <3> QED
      BY <2>1, <2>2, <3>1, <1>3, <1>4
  <2>3. CASE clients[c] # p
    BY <2>1, <2>3, <1>4
  <2> QED
    BY <2>2, <2>3
<1>7. NewInv'
  <2> SUFFICES ASSUME NEW u \in Workers \ {t}, w[u].pc = "store"
               PROVE  /\ pool'[w[u].pool].st = "open" /\ pool'[w[u].pool].c = w[u].c
                      /\ \A c \in Clusters : clients[c] # w[u].pool
                      /\ \A v \in Workers \ {u} : w'[v].pc = "store" => w'[v].pool # w[u].pool
    BY <1>1, <1>3 DEF NewInv, At
  <2>1. w[u].pool \in Pools \ {p}
    BY <1>2 DEF TypeInv, HasPool, CacheInv, NewInv, At
  <2>2. \A v \in Workers \ {u} : w'[v].pc = "store" => w[v].pc = "store" /\ w'[v].pool = w[v].pool
    BY <1>3
  <2> QED
    BY <2>1, <2>2, <1>4 DEF CacheInv, NewInv, At
<1> QED
  BY <1>5, <1>6, <1>7 DEF CacheInv

LEMMA RemoveEndsCache ==
  ASSUME TypeInv, CacheInv, NEW t \in Workers, RemoveEnds(t),
         \A u \in Workers \ {t} : w'[u] = w[u]
  PROVE  CacheInv'
<1>1. /\ w[t].pc = "closing" /\ lock' = Free /\ pool' = pool
      /\ clients' = [clients EXCEPT ![w[t].c] = NoPool]
      /\ w'[t].pc \in {"idle", "dial", "failed"}
  <2>1. w \in [Workers -> WorkerRecord] /\ w[t].next \in {"idle", "dial", "failed"}
    BY DEF TypeInv, TypeOK, WorkerRecord
  <2>2. w' = [w EXCEPT ![t].pc = w[t].next]
    BY DEF RemoveEnds, Goto
  <2>3. w'[t].pc = w[t].next
    BY <2>1, <2>2 DEF WorkerRecord
  <2> QED
    BY <2>1, <2>3 DEF RemoveEnds, At
<1>2. lock = t
  BY <1>1 DEF CacheInv, LockInv, At
<1>3. \A c \in Clusters : clients'[c] # NoPool => clients'[c] = clients[c] /\ c # w[t].c
  BY <1>1 DEF TypeInv, TypeOK
<1>4. LockInv'
  BY <1>1, <1>2 DEF CacheInv, LockInv, At
<1>5. MapInv'
  BY <1>1, <1>2, <1>3 DEF CacheInv, MapInv
<1>6. NewInv'
  <2> SUFFICES ASSUME NEW u \in Workers \ {t}, w[u].pc = "store"
               PROVE  /\ pool[w[u].pool].st = "open" /\ pool[w[u].pool].c = w[u].c
                      /\ \A c \in Clusters : clients'[c] # w[u].pool
                      /\ \A v \in Workers \ {u} : w'[v].pc = "store" => w'[v].pool # w[u].pool
    BY <1>1 DEF NewInv, At
  <2>1. w[u].pool \in Pools
    BY DEF TypeInv, HasPool
  <2>2. NoPool \notin Pools
    BY WorkersAssumption
  <2>3. \A v \in Workers \ {u} : w'[v].pc = "store" => w[v].pc = "store" /\ w'[v].pool = w[v].pool
    BY <1>1
  <2>4. \A c \in Clusters : clients'[c] # w[u].pool
    BY <2>1, <2>2, <1>3 DEF CacheInv, NewInv, At
  <2> QED
    BY <2>3, <2>4 DEF CacheInv, NewInv, At
<1> QED
  BY <1>4, <1>5, <1>6 DEF CacheInv

LEMMA NewClientCache ==
  ASSUME TypeInv, CacheInv, NEW t \in Workers, NEW p \in Pools, pool[p].st = "none",
         UNCHANGED <<clients, lock>>, w[t].pc = "dial",
         pool' = [pool EXCEPT ![p] = [st |-> "open", c |-> w[t].c, spec |-> w[t].spec]],
         Take(t, p, "store"),
         \A u \in Workers \ {t} : w'[u] = w[u]
  PROVE  CacheInv'
<1>1. w'[t].pc = "store" /\ w'[t].pool = p /\ w'[t].c = w[t].c
  BY PcPoolMove
<1>2. /\ pool'[p].st = "open" /\ pool'[p].c = w[t].c
      /\ \A q \in Pools \ {p} : pool'[q] = pool[q]
  BY DEF TypeInv, TypeOK
<1>3. lock # t /\ lock \in Workers \cup {Free}
  BY Shapes DEF CacheInv, LockInv, At
<1>4. \A c \in Clusters : clients[c] # p
  BY WorkersAssumption DEF CacheInv, MapInv
<1>5. \A u \in Workers : w[u].pc = "store" => w[u].pool # p
  BY DEF CacheInv, NewInv, At
<1>6. LockInv'
  BY <1>1, <1>3 DEF CacheInv, LockInv, At
<1>7. MapInv'
  <2>1. \A c \in Clusters : clients[c] # NoPool => pool'[clients[c]] = pool[clients[c]]
    BY <1>2, <1>4 DEF TypeInv, TypeOK
  <2>2. lock # Free => w'[lock] = w[lock]
    BY <1>3
  <2> QED
    BY <2>1, <2>2 DEF CacheInv, MapInv
<1>8. NewInv'
  <2>1. \A u \in Workers \ {t} : w[u].pc = "store" => w[u].pool \in Pools \ {p}
    BY <1>5 DEF TypeInv, HasPool
  <2>2. ASSUME NEW u \in Workers, w'[u].pc = "store"
        PROVE  /\ pool'[w'[u].pool].st = "open" /\ pool'[w'[u].pool].c = w'[u].c
               /\ \A c \in Clusters : clients[c] # w'[u].pool
    <3>1. CASE u = t
      BY <3>1, <1>1, <1>2, <1>4
    <3>2. CASE u # t
      <4>1. w'[u] = w[u] /\ w[u].pc = "store" /\ w[u].pool \in Pools \ {p}
        BY <2>1, <2>2, <3>2
      <4> QED
        BY <4>1, <1>2, Shapes DEF CacheInv, NewInv, At
    <3> QED
      BY <3>1, <3>2
  <2>3. ASSUME NEW u \in Workers, NEW v \in Workers \ {u},
               w'[u].pc = "store", w'[v].pc = "store"
        PROVE  w'[v].pool # w'[u].pool
    <3>1. CASE u = t
      BY <3>1, <2>1, <2>3, <1>1
    <3>2. CASE v = t
      BY <3>2, <2>1, <2>3, <1>1
    <3>3. CASE u # t /\ v # t
      <4>1. w'[u] = w[u] /\ w'[v] = w[v]
        BY <3>3
      <4> QED
        BY <4>1, <2>3 DEF CacheInv, NewInv, At
    <3> QED
      BY <3>1, <3>2, <3>3
  <2> QED
    BY <2>2, <2>3 DEF NewInv, At
<1> QED
  BY <1>6, <1>7, <1>8 DEF CacheInv

LEMMA StoreCache ==
  ASSUME TypeInv, CacheInv, NEW t \in Workers, Store(t),
         \A u \in Workers \ {t} : w'[u] = w[u]
  PROVE  CacheInv'
<1>1. /\ w[t].pc = "store" /\ lock = Free /\ lock' = Free /\ pool' = pool
      /\ clients' = [clients EXCEPT ![w[t].c] = w[t].pool]
      /\ w'[t].pc = "use"
  <2>1. w \in [Workers -> WorkerRecord]
    BY DEF TypeInv, TypeOK, WorkerRecord
  <2>2. w' = [w EXCEPT ![t].pc = "use"]
    BY DEF Store, Goto
  <2>3. w'[t].pc = "use"
    BY <2>1, <2>2 DEF WorkerRecord
  <2> QED
    BY <2>3 DEF Store, At
<1>2. w[t].c \in Clusters
  BY DEF TypeInv, TypeOK
<1>3. clients'[w[t].c] = w[t].pool /\ \A c \in Clusters \ {w[t].c} : clients'[c] = clients[c]
  BY <1>1, <1>2 DEF TypeInv, TypeOK
<1>4. LockInv'
  BY <1>1 DEF CacheInv, LockInv, At
<1>5. MapInv'
  BY <1>1, <1>3 DEF CacheInv, MapInv, NewInv, At
<1>6. NewInv'
  BY <1>1, <1>3 DEF CacheInv, NewInv, At
<1> QED
  BY <1>4, <1>5, <1>6 DEF CacheInv

LEMMA CacheStep == TypeInv /\ CacheInv /\ [Next]_vars => CacheInv'
<1> SUFFICES ASSUME TypeInv, CacheInv, [Next]_vars PROVE CacheInv'
  OBVIOUS
<1>1. ASSUME NEW t \in Workers, Step(t) \/ \E c \in Clusters : Begin(t, c) PROVE CacheInv'
  <2>1. \A u \in Workers \ {t} : w'[u] = w[u]
    BY <1>1, OthersStay
  <2>2. CASE \E c \in Clusters : Begin(t, c)
    <3>1. /\ UNCHANGED <<clients, pool, lock>> /\ w[t].pc # "closing"
          /\ w'[t].pc \notin {"closing", "store"}
      BY <2>2, Shapes DEF Begin, At
    <3> QED
      BY <2>1, <3>1, QuietCache
  <2>3. CASE ReadCredentials(t) \/ Lookup(t) \/ Ping(t) \/ Pong(t)
    <3>1. /\ UNCHANGED <<clients, pool, lock>> /\ w[t].pc # "closing"
          /\ w'[t].pc \notin {"closing", "store"}
      <4>1. CASE ReadCredentials(t)
        BY <4>1, PcMoves DEF ReadCredentials, Goto, At
      <4>2. CASE Lookup(t)
        BY <4>2, PcPoolMove DEF Lookup, At
      <4>3. CASE Ping(t)
        BY <4>3, PcMoves DEF Ping, Goto, At
      <4>4. CASE Pong(t)
        BY <4>4, PcMoves DEF Pong, Goto, At
      <4> QED
        BY <2>3, <4>1, <4>2, <4>3, <4>4
    <3> QED
      BY <2>1, <3>1, QuietCache
  <2>4. CASE RemoveStarts(t)
    <3>1. CASE clients[w[t].c] = NoPool
      <4>1. w[t].next \notin {"closing", "store"}
        BY DEF TypeInv
      <4>2. /\ UNCHANGED <<clients, pool, lock>> /\ w[t].pc # "closing"
            /\ w'[t].pc \notin {"closing", "store"}
        BY <2>4, <3>1, <4>1, PcMoves DEF RemoveStarts, Goto, At
      <4> QED
        BY <2>1, <4>2, QuietCache
    <3> QED
      BY <2>1, <2>4, <3>1, RemoveStartsCache
  <2>5. CASE RemoveEnds(t)
    BY <2>1, <2>5, RemoveEndsCache
  <2>6. CASE NewClient(t)
    <3>1. CASE Goto(t, "failed") /\ UNCHANGED pool
      <4>1. /\ UNCHANGED <<clients, pool, lock>> /\ w[t].pc # "closing"
            /\ w'[t].pc \notin {"closing", "store"}
        BY <2>6, <3>1, PcMoves DEF NewClient, Goto, At
      <4> QED
        BY <2>1, <4>1, QuietCache
    <3> QED
      BY <2>1, <2>6, <3>1, NewClientCache DEF NewClient, At
  <2>7. CASE Store(t)
    BY <2>1, <2>7, StoreCache
  <2>8. CASE Use(t) \/ UseEnds(t) \/ Report(t)
    <3>1. /\ UNCHANGED <<clients, pool, lock>> /\ w[t].pc # "closing"
          /\ w'[t].pc \notin {"closing", "store"}
      <4>1. CASE w' = [w EXCEPT ![t].pc = "remove", ![t].next = "failed"]
        <5>1. w'[t].pc = "remove"
          BY <4>1, Shapes DEF WorkerRecord
        <5> QED
          BY <2>8, <5>1 DEF Use, UseEnds, Report, At
      <4>2. CASE Use(t) /\ \E pc \in {"using", "failed"} : Goto(t, pc)
        BY <4>2, PcMoves DEF Use, Goto, At
      <4>3. CASE UseEnds(t) /\ \E pc \in {"connected", "failed"} : Goto(t, pc)
        BY <4>3, PcMoves DEF UseEnds, Goto, At
      <4>4. CASE Report(t)
        BY <4>4, Shapes DEF Report, IdleWorker, At
      <4> QED
        BY <2>8, <4>1, <4>2, <4>3, <4>4 DEF Use, UseEnds
    <3> QED
      BY <2>1, <3>1, QuietCache
  <2> QED
    BY <1>1, <2>2, <2>3, <2>4, <2>5, <2>6, <2>7, <2>8 DEF Step
<1>2. ASSUME UNCHANGED <<clients, pool, lock, w>> PROVE CacheInv'
  BY <1>2 DEF CacheInv, LockInv, MapInv, NewInv, At
<1>3. CASE \E c \in Clusters : Apply(c) \/ Delete(c) \/ \E s \in 1..MaxSpec : Outage(c, s)
  BY <1>2, <1>3 DEF Apply, Delete, Outage
<1>4. CASE UNCHANGED vars
  BY <1>2, <1>4 DEF vars
<1> QED
  BY <1>1, <1>3, <1>4 DEF Next

LEMMA InitCache == Init => CacheInv
<1> SUFFICES ASSUME Init PROVE CacheInv
  OBVIOUS
<1>1. lock = Free /\ \A c \in Clusters : clients[c] = NoPool
  BY DEF Init
<1>2. \A t \in Workers : w[t].pc = "idle"
  BY DEF Init, IdleWorker
<1> QED
  BY <1>1, <1>2 DEF CacheInv, LockInv, MapInv, NewInv, At

\* Whoever looks a cluster up in ClientCache gets an open pool of that cluster or none,
\* however the Gets and Removes of the controllers interleave.
THEOREM CachedOpen == Spec => []CachedIsOpen
<1>1. CacheInv => CachedIsOpen
  BY DEF CacheInv, MapInv, CachedIsOpen
<1>2. Spec => []CacheInv
  BY TypeInvariant, InitCache, CacheStep, PTL DEF Spec
<1> QED
  BY <1>1, <1>2, PTL

(***************************************************************************)
(* Pools are closed around their users                                     *)
(***************************************************************************)

\* A closed pool that is still in use is the one the holder of the mutex is closing: kept
\* by every step that closes no pool, keeps the map and the mutex, moves no worker off
\* "closing" and lets no worker acquire a connection of a closed pool.
LEMMA QuietDrain ==
  ASSUME TypeInv, CacheInv, RemoveDrains, NEW t \in Workers,
         UNCHANGED <<clients, lock>>, w[t].pc # "closing",
         \A p \in Pools : pool'[p].st = "closed" => pool[p].st = "closed",
         \A u \in Workers \ {t} : w'[u] = w[u],
         \A p \in Pools : Holds(t, p)' => pool[p].st # "closed"
  PROVE  RemoveDrains'
<1> SUFFICES ASSUME NEW u \in Workers, NEW p \in Pools, Holds(u, p)', pool'[p].st = "closed"
             PROVE  lock # Free /\ clients[w'[lock].c] = p
  BY DEF RemoveDrains
<1>1. u # t /\ w'[u] = w[u]
  OBVIOUS
<1>2. lock # Free /\ clients[w[lock].c] = p
  BY <1>1 DEF RemoveDrains, Holds
<1>3. lock \in Workers \ {t}
  BY <1>2, Shapes DEF CacheInv, LockInv, At
<1> QED
  BY <1>2, <1>3

LEMMA RemoveStartsDrain ==
  ASSUME TypeInv, CacheInv, RemoveDrains, NEW t \in Workers, RemoveStarts(t),
         clients[w[t].c] # NoPool, \A u \in Workers \ {t} : w'[u] = w[u]
  PROVE  RemoveDrains'
<1>1. /\ lock = Free /\ lock' = t /\ clients' = clients
      /\ pool' = [pool EXCEPT ![clients[w[t].c]].st = "closed"]
      /\ w' = [w EXCEPT ![t].pc = "closing"]
  BY DEF RemoveStarts, Goto
<1>2. w'[t].pc = "closing" /\ w'[t].c = w[t].c
  BY <1>1, PcMoves
<1>3. w[t].c \in Clusters /\ clients[w[t].c] \in Pools
  BY Shapes DEF WorkerRecord
<1>4. \A q \in Pools \ {clients[w[t].c]} : pool'[q] = pool[q]
  BY <1>1, <1>3, PoolCloses
<1>5. \A u \in Workers, p \in Pools :
        Holds(u, p)' /\ pool'[p].st = "closed" => p = clients[w[t].c]
  <2> SUFFICES ASSUME NEW u \in Workers, NEW p \in Pools, Holds(u, p)',
                      pool'[p].st = "closed", p # clients[w[t].c]
               PROVE  FALSE
    OBVIOUS
  <2>1. u # t
    BY <1>2 DEF Holds
  <2>2. Holds(u, p) /\ pool[p].st = "closed"
    BY <2>1, <1>4 DEF Holds
  <2> QED
    BY <2>2, <1>1 DEF RemoveDrains
<1> QED
  BY <1>1, <1>2, <1>5, Shapes DEF RemoveDrains

LEMMA RemoveEndsDrain ==
  ASSUME TypeInv, CacheInv, RemoveDrains, NEW t \in Workers, RemoveEnds(t),
         \A u \in Workers \ {t} : w'[u] = w[u]
  PROVE  RemoveDrains'
<1>1. /\ w[t].pc = "closing" /\ pool' = pool
      /\ \A u \in Workers : ~Holds(u, clients[w[t].c])
  BY DEF RemoveEnds, At
<1>2. w'[t].pc \notin {"pinging", "using"}
  <2>1. w'[t].pc = w[t].next
    BY PcMoves DEF RemoveEnds, Goto
  <2> QED
    BY <2>1 DEF TypeInv
<1>3. lock = t
  BY <1>1 DEF CacheInv, LockInv, At
<1>4. ASSUME NEW u \in Workers, NEW p \in Pools, Holds(u, p)', pool'[p].st = "closed"
      PROVE  FALSE
  <2>1. Holds(u, p) /\ pool[p].st = "closed"
    BY <1>1, <1>2, <1>4 DEF Holds
  <2>2. p = clients[w[t].c]
    BY <2>1, <1>3 DEF RemoveDrains
  <2> QED
    BY <2>1, <2>2, <1>1
<1> QED
  BY <1>4 DEF RemoveDrains

LEMMA DrainStep == TypeInv /\ CacheInv /\ RemoveDrains /\ [Next]_vars => RemoveDrains'
<1> SUFFICES ASSUME TypeInv, CacheInv, RemoveDrains, [Next]_vars PROVE RemoveDrains'
  OBVIOUS
<1>1. ASSUME NEW t \in Workers, Step(t) \/ \E c \in Clusters : Begin(t, c)
      PROVE  RemoveDrains'
  <2> DEFINE Others == \A u \in Workers \ {t} : w'[u] = w[u]
             NoNewHold == w'[t].pc \notin {"pinging", "using"}
  <2>1. Others
    BY <1>1, OthersStay
  <2>2. ASSUME NoNewHold, UNCHANGED <<clients, pool, lock>>, w[t].pc # "closing"
        PROVE  RemoveDrains'
    BY <2>1, <2>2, QuietDrain DEF Holds
  <2>3. ASSUME NEW pc \in {"pinging", "using"}, Goto(t, pc), pool[w[t].pool].st = "open",
               UNCHANGED <<clients, pool, lock>>, w[t].pc # "closing"
        PROVE  RemoveDrains'
    <3>1. w'[t].pool = w[t].pool
      BY <2>3, PcMoves DEF Goto
    <3> QED
      BY <2>1, <2>3, <3>1, QuietDrain DEF Holds
  <2>4. CASE \E c \in Clusters : Begin(t, c)
    BY <2>2, <2>4, Shapes DEF Begin, At
  <2>5. CASE ReadCredentials(t)
    BY <2>2, <2>5, PcMoves DEF ReadCredentials, Goto, At
  <2>6. CASE Lookup(t)
    BY <2>2, <2>6, PcPoolMove DEF Lookup, At
  <2>7. CASE Ping(t)
    <3>1. CASE pool[w[t].pool].st = "open"
      BY <2>3, <2>7, <3>1 DEF Ping, At
    <3>2. CASE pool[w[t].pool].st # "open"
      BY <2>2, <2>7, <3>2, PcMoves DEF Ping, Goto, At
    <3> QED
      BY <3>1, <3>2
  <2>8. CASE Pong(t)
    <3>1. w'[t].pc \in {"use", "remove"}
      BY <2>8, PcMoves DEF Pong, Goto
    <3> QED
      BY <2>2, <2>8, <3>1 DEF Pong, At
  <2>9. CASE RemoveStarts(t)
    <3>1. CASE clients[w[t].c] = NoPool
      <4>1. w[t].next \notin {"pinging", "using"}
        BY DEF TypeInv
      <4> QED
        BY <2>2, <2>9, <3>1, <4>1, PcMoves DEF RemoveStarts, Goto, At
    <3> QED
      BY <2>1, <2>9, <3>1, RemoveStartsDrain
  <2>10. CASE RemoveEnds(t)
    BY <2>1, <2>10, RemoveEndsDrain
  <2>11. CASE NewClient(t)
    <3>1. CASE Goto(t, "failed") /\ UNCHANGED pool
      BY <2>2, <2>11, <3>1, PcMoves DEF NewClient, Goto, At
    <3>2. CASE \E p \in Pools :
                 /\ pool' = [pool EXCEPT ![p] = [st |-> "open", c |-> w[t].c, spec |-> w[t].spec]]
                 /\ Take(t, p, "store")
      <4>1. w'[t].pc = "store"
        BY <3>2, PcPoolMove
      <4>2. \A p \in Pools : pool'[p].st = "closed" => pool[p].st = "closed"
        BY <3>2, Shapes
      <4>3. UNCHANGED <<clients, lock>> /\ w[t].pc # "closing"
        BY <2>11 DEF NewClient, At
      <4> QED
        BY <2>1, <4>1, <4>2, <4>3, QuietDrain DEF Holds
    <3> QED
      BY <2>11, <3>1, <3>2 DEF NewClient
  <2>12. CASE Store(t)
    <3>1. lock = Free /\ lock' = Free /\ pool' = pool /\ w'[t].pc = "use"
      BY <2>12, PcMoves DEF Store, Goto
    <3>2. \A u \in Workers, p \in Pools : Holds(u, p)' => Holds(u, p)
      BY <2>1, <3>1 DEF Holds
    <3> QED
      BY <3>1, <3>2 DEF RemoveDrains
  <2>13. CASE Use(t)
    <3>1. CASE pool[w[t].pool].st = "open"
      BY <2>3, <2>13, <3>1 DEF Use, At
    <3>2. CASE pool[w[t].pool].st # "open"
      <4>1. w'[t].pc \in {"remove", "failed"}
        BY <2>13, <3>2, PcMoves, Shapes DEF Use, Goto, WorkerRecord
      <4> QED
        BY <2>2, <2>13, <4>1 DEF Use, At
    <3> QED
      BY <3>1, <3>2
  <2>14. CASE UseEnds(t)
    <3>1. w'[t].pc \in {"connected", "remove", "failed"}
      BY <2>14, PcMoves, Shapes DEF UseEnds, Goto, WorkerRecord
    <3> QED
      BY <2>2, <2>14, <3>1 DEF UseEnds, At
  <2>15. CASE Report(t)
    BY <2>2, <2>15, Shapes DEF Report, IdleWorker, At
  <2> QED
    BY <1>1, <2>4, <2>5, <2>6, <2>7, <2>8, <2>9, <2>10, <2>11, <2>12, <2>13, <2>14, <2>15
       DEF Step
<1>2. ASSUME UNCHANGED <<clients, pool, lock, w>> PROVE RemoveDrains'
  BY <1>2 DEF RemoveDrains, Holds
<1>3. CASE \E c \in Clusters : Apply(c) \/ Delete(c) \/ \E s \in 1..MaxSpec : Outage(c, s)
  BY <1>2, <1>3 DEF Apply, Delete, Outage
<1>4. CASE UNCHANGED vars
  BY <1>2, <1>4 DEF vars
<1> QED
  BY <1>1, <1>3, <1>4 DEF Next

LEMMA InitDrain == Init => RemoveDrains
<1> SUFFICES ASSUME Init PROVE RemoveDrains
  OBVIOUS
<1>1. \A t \in Workers : w[t].pc = "idle"
  BY DEF Init, IdleWorker
<1> QED
  BY <1>1 DEF RemoveDrains, Holds

\* Remove closes a pool under the mutex and only gives the mutex back when no query of
\* another controller runs on it.
THEOREM DrainedOnRemove == Spec => []RemoveDrains
<1>1. Spec => []CacheInv
  BY TypeInvariant, InitCache, CacheStep, PTL DEF Spec
<1> QED
  BY <1>1, TypeInvariant, InitDrain, DrainStep, PTL DEF Spec

=============================================================================
