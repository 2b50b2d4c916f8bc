------------------------------ MODULE ClientCache ------------------------------
(***************************************************************************)
(* The cache of PostgreSQL connection pools (pkg/postgres/client.go) as    *)
(* the three controllers that share it use it, and the whole of the        *)
(* DBCluster controller (controllers/dbcluster_controller.go), the one     *)
(* that watches the health of the pools and reports it.                    *)
(*                                                                         *)
(* A worker is the goroutine of one controller.  The cache's mutex is held *)
(* for a single step where the code does nothing slow under it, and across *)
(* steps in Remove, which closes the pool under the mutex: closing waits   *)
(* for the connections other workers have acquired.                        *)
(***************************************************************************)
EXTENDS Integers, FiniteSets

CONSTANTS
  Workers,     \* the controllers that share the cache
  Health,      \* the DBCluster controller's worker
  Clusters,    \* DBCluster names, the keys of the cache
  NoPool, Free,
  MaxSpec,     \* bound: specs a name is given over time
  MaxRounds,   \* bound: reconciliations begun, so also pools created
  MaxOutages   \* bound: servers that stop or come back

Pools == 1..MaxRounds

ASSUME WorkersAssumption == Free \notin Workers /\ NoPool \notin Pools /\ Clusters # {}
ASSUME CacheBoundAssumption == MaxSpec \in Nat /\ MaxRounds \in Nat /\ MaxOutages \in Nat

VARIABLES
  cluster,   \* the DBCluster objects in the informer cache all controllers read:
             \* [exists, spec], spec numbering the endpoints it was given
  down,      \* <<c, s>>: the server spec s of c points to does not answer
  status,    \* DBCluster status: [phase, spec] and via, the spec of the pool it rests on
  queue,     \* the DBCluster controller's work queue
  clients,   \* ClientCache.clients
  pool,      \* every pool made by NewClient: [st, c, spec]
  lock,      \* who holds ClientCache.mu
  w,         \* the workers' local state: [pc, c, spec, pool, next]
  rounds,    \* reconciliations begun
  outages    \* changes of `down'

vars == <<cluster, down, status, queue, clients, pool, lock, w, rounds, outages>>
env == <<cluster, down, outages>>

Specs == 0..MaxSpec

PCs == {"idle", "credentials", "lookup", "ping", "pinging", "remove", "closing", "dial",
        "store", "use", "using", "connected", "failed"}

AnyCluster == CHOOSE c \in Clusters : TRUE

IdleWorker(c) == [pc |-> "idle", c |-> c, spec |-> 0, pool |-> NoPool, next |-> "idle"]

TypeOK ==
  /\ cluster \in [Clusters -> [exists : BOOLEAN, spec : Specs]]
  /\ down \subseteq Clusters \X Specs
  /\ status \in [Clusters -> [phase : {"", "Connected", "Failed"}, spec : Specs, via : Specs]]
  /\ queue \subseteq Clusters
  /\ clients \in [Clusters -> Pools \cup {NoPool}]
  /\ pool \in [Pools -> [st : {"none", "open", "closed"}, c : Clusters, spec : Specs]]
  /\ lock \in Workers \cup {Free}
  /\ w \in [Workers -> [pc : PCs, c : Clusters, spec : Specs, pool : Pools \cup {NoPool},
                        next : PCs]]
  /\ rounds \in 0..MaxRounds
  /\ outages \in 0..MaxOutages

Answers(p) == <<pool[p].c, pool[p].spec>> \notin down

\* A worker in the middle of a query or a ping holds a connection of its pool.
Holds(t, p) == w[t].pc \in {"pinging", "using"} /\ w[t].pool = p

At(t, pc) == w[t].pc = pc
Goto(t, pc) == w' = [w EXCEPT ![t].pc = pc]
Take(t, p, pc) == w' = [w EXCEPT ![t].pool = p, ![t].pc = pc]

-----------------------------------------------------------------------------
(* The reconcilers around the cache                                        *)

\* A reconciliation reads the DBCluster.  The DBCluster controller takes a key from its
\* queue and, if the object is gone, only calls Remove; the Database and DatabaseUser
\* controllers reach the cache for any existing DBCluster at any time (their deletion
\* handlers do not look at its phase).
Begin(t, c) ==
  /\ At(t, "idle") /\ rounds < MaxRounds /\ rounds' = rounds + 1
  /\ IF t = Health
     THEN c \in queue /\ queue' = queue \ {c}
     ELSE cluster[c].exists /\ UNCHANGED queue
  /\ w' = [w EXCEPT ![t] =
             [pc |-> IF cluster[c].exists THEN "credentials" ELSE "remove",
              c |-> c, spec |-> cluster[c].spec, pool |-> NoPool,
              next |-> IF cluster[c].exists THEN "dial" ELSE "idle"]]
  /\ UNCHANGED <<env, status, clients, pool, lock>>

\* getCredentials, or the Secret read in getPostgresClient
ReadCredentials(t) ==
  /\ At(t, "credentials")
  /\ Goto(t, "lookup") \/ Goto(t, "failed")
  /\ UNCHANGED <<env, status, queue, clients, pool, lock, rounds>>

\* The reconciliation uses the pool it got: a ping in the DBCluster controller, a query
\* elsewhere.  Acquiring a connection of a closed pool fails.
Use(t) ==
  /\ At(t, "use")
  /\ IF pool[w[t].pool].st = "open" THEN Goto(t, "using")
     ELSE IF t = Health THEN w' = [w EXCEPT ![t].pc = "remove", ![t].next = "failed"]
     ELSE Goto(t, "failed")
  /\ UNCHANGED <<env, status, queue, clients, pool, lock, rounds>>

UseEnds(t) ==
  /\ At(t, "using")
  /\ IF Answers(w[t].pool) THEN Goto(t, "connected")
     ELSE IF t = Health THEN w' = [w EXCEPT ![t].pc = "remove", ![t].next = "failed"]
     ELSE Goto(t, "failed")
  /\ UNCHANGED <<env, status, queue, clients, pool, lock, rounds>>

\* Mutant: a failure is reported in a phase the CRD's enumeration does not have.
ReportUnreachable(t) ==
  /\ w[t].pc \in {"connected", "failed"}
  /\ status' = [status EXCEPT ![w[t].c].phase =
                   IF At(t, "connected") THEN "Connected" ELSE "Unreachable"]
  /\ queue' = IF t = Health THEN queue \cup {w[t].c} ELSE queue
  /\ w' = [w EXCEPT ![t] = IdleWorker(w[t].c)]
  /\ UNCHANGED <<env, clients, pool, lock, rounds>>

\* The DBCluster controller patches the status of the object, if it still exists and the
\* call succeeds, and is back after 30 seconds or 5 minutes; the others leave the cache.
Report(t) ==
  /\ w[t].pc \in {"connected", "failed"}
  /\ LET s == [phase |-> IF At(t, "connected") THEN "Connected" ELSE "Failed",
               spec |-> w[t].spec,
               via |-> IF At(t, "connected") THEN pool[w[t].pool].spec ELSE 0]
     IN \/ t = Health /\ cluster[w[t].c].exists /\ status' = [status EXCEPT ![w[t].c] = s]
        \/ UNCHANGED status
  /\ queue' = IF t = Health THEN queue \cup {w[t].c} ELSE queue
  /\ w' = [w EXCEPT ![t] = IdleWorker(w[t].c)]
  /\ UNCHANGED <<env, clients, pool, lock, rounds>>

-----------------------------------------------------------------------------
(* ClientCache                                                             *)

\* Get: the read under RLock
Lookup(t) ==
  /\ At(t, "lookup") /\ lock = Free
  /\ LET p == clients[w[t].c] IN Take(t, p, IF p = NoPool THEN "dial" ELSE "ping")
  /\ UNCHANGED <<env, status, queue, clients, pool, lock, rounds>>

\* Get: the ping outside the mutex
Ping(t) ==
  /\ At(t, "ping")
  /\ Goto(t, IF pool[w[t].pool].st = "open" THEN "pinging" ELSE "remove")
  /\ UNCHANGED <<env, status, queue, clients, pool, lock, rounds>>

Pong(t) ==
  /\ At(t, "pinging")
  /\ Goto(t, IF Answers(w[t].pool) THEN "use" ELSE "remove")
  /\ UNCHANGED <<env, status, queue, clients, pool, lock, rounds>>

\* Mutant: the pool is closed outside the mutex.
RemoveStartsUnlocked(t) ==
  /\ At(t, "remove") /\ lock = Free
  /\ LET p == clients[w[t].c] IN
       IF p = NoPool
       THEN Goto(t, w[t].next) /\ UNCHANGED pool
       ELSE pool' = [pool EXCEPT ![p].st = "closed"] /\ Goto(t, "closing")
  /\ UNCHANGED <<env, status, queue, clients, lock, rounds>>

\* Remove, by name: under the mutex the pool is closed ...
RemoveStarts(t) ==
  /\ At(t, "remove") /\ lock = Free
  /\ LET p == clients[w[t].c] IN
       IF p = NoPool
       THEN Goto(t, w[t].next) /\ UNCHANGED <<pool, lock>>
       ELSE /\ pool' = [pool EXCEPT ![p].st = "closed"] /\ lock' = t
            /\ Goto(t, "closing")
  /\ UNCHANGED <<env, status, queue, clients, rounds>>

\* Mutant: closing a pool does not wait for its acquired connections.
RemoveEndsAtOnce(t) ==
  /\ At(t, "closing")
  /\ clients' = [clients EXCEPT ![w[t].c] = NoPool]
  /\ lock' = Free /\ Goto(t, w[t].next)
  /\ UNCHANGED <<env, status, queue, pool, rounds>>

\* Mutant: the mutex stays locked.
RemoveEndsLocked(t) ==
  /\ At(t, "closing")
  /\ \A u \in Workers : ~Holds(u, clients[w[t].c])
  /\ clients' = [clients EXCEPT ![w[t].c] = NoPool]
  /\ Goto(t, w[t].next)
  /\ UNCHANGED <<env, status, queue, pool, lock, rounds>>

\* ... and, once every acquired connection is back, deleted from the map.
RemoveEnds(t) ==
  /\ At(t, "closing")
  /\ \A u \in Workers : ~Holds(u, clients[w[t].c])
  /\ clients' = [clients EXCEPT ![w[t].c] = NoPool]
  /\ lock' = Free /\ Goto(t, w[t].next)
  /\ UNCHANGED <<env, status, queue, pool, rounds>>

\* NewClient: the pool is created without waiting for a connection; only a connection
\* string that does not parse is an error.
NewClient(t) ==
  /\ At(t, "dial")
  /\ \/ \E p \in Pools :
          /\ pool[p].st = "none" /\ \A q \in Pools : pool[q].st = "none" => p <= q
          /\ pool' = [pool EXCEPT ![p] = [st |-> "open", c |-> w[t].c, spec |-> w[t].spec]]
          /\ Take(t, p, "store")
     \/ Goto(t, "failed") /\ UNCHANGED pool
  /\ UNCHANGED <<env, status, queue, clients, lock, rounds>>

\* Get: the write under Lock, over whatever is there
Store(t) ==
  /\ At(t, "store") /\ lock = Free
  /\ clients' = [clients EXCEPT ![w[t].c] = w[t].pool]
  /\ Goto(t, "use")
  /\ UNCHANGED <<env, status, queue, pool, lock, rounds>>

Step(t) ==
  \/ ReadCredentials(t) \/ Lookup(t) \/ Ping(t) \/ Pong(t) \/ RemoveStarts(t)
  \/ RemoveEnds(t) \/ NewClient(t) \/ Store(t) \/ Use(t) \/ UseEnds(t) \/ Report(t)

-----------------------------------------------------------------------------
(* Users and servers                                                       *)

\* A DBCluster is created or given another endpoint.
Apply(c) ==
  /\ cluster[c].spec < MaxSpec
  /\ cluster' = [cluster EXCEPT ![c] = [exists |-> TRUE, spec |-> @.spec + 1]]
  /\ queue' = queue \cup {c}
  /\ UNCHANGED <<down, outages, status, clients, pool, lock, w, rounds>>

Delete(c) ==
  /\ cluster[c].exists
  /\ cluster' = [cluster EXCEPT ![c].exists = FALSE]
  /\ status' = [status EXCEPT ![c] = [phase |-> "", spec |-> 0, via |-> 0]]
  /\ queue' = queue \cup {c}
  /\ UNCHANGED <<down, outages, clients, pool, lock, w, rounds>>

Outage(c, s) ==
  /\ outages < MaxOutages /\ outages' = outages + 1
  /\ down' = IF <<c, s>> \in down THEN down \ {<<c, s>>} ELSE down \cup {<<c, s>>}
  /\ UNCHANGED <<cluster, status, queue, clients, pool, lock, w, rounds>>

Init ==
  /\ cluster = [c \in Clusters |-> [exists |-> FALSE, spec |-> 0]]
  /\ down = {} /\ queue = {} /\ lock = Free /\ rounds = 0 /\ outages = 0
  /\ status = [c \in Clusters |-> [phase |-> "", spec |-> 0, via |-> 0]]
  /\ clients = [c \in Clusters |-> NoPool]
  /\ pool = [p \in Pools |-> [st |-> "none", c |-> AnyCluster, spec |-> 0]]
  /\ w = [t \in Workers |-> IdleWorker(AnyCluster)]

Next ==
  \/ \E t \in Workers : Step(t) \/ \E c \in Clusters : Begin(t, c)
  \/ \E c \in Clusters : Apply(c) \/ Delete(c) \/ \E s \in 1..MaxSpec : Outage(c, s)

Spec == Init /\ [][Next]_vars

\* Goroutines are scheduled, the mutex is fair to waiters, servers answer or time out.
FairSpec == Spec /\ \A t \in Workers : WF_vars(Step(t))

-----------------------------------------------------------------------------
(* Properties                                                              *)

\* Whoever finds a client in the map, the mutex being free, finds an open pool of the
\* DBCluster it asked for: Remove closes and deletes in one critical section, and Get
\* stores no client that was closed or made for another name.
CachedIsOpen ==
  lock = Free => \A c \in Clusters : clients[c] # NoPool =>
                   pool[clients[c]].st = "open" /\ pool[clients[c]].c = c

\* A pool leaves the map only when no query runs on it: closing it for one worker does not
\* cut off another.
RemoveDrains ==
  \A t \in Workers, p \in Pools :
    (Holds(t, p) /\ pool[p].st = "closed") => (lock # Free /\ clients[w[lock].c] = p)

\* Waiting for the mutex and for connections under the mutex never blocks for good.
RoundEnds == \A t \in Workers : w[t].pc # "idle" ~> w[t].pc = "idle"

=============================================================================
