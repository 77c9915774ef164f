---------------------------- MODULE WatchesProofs -----------------------------
(***************************************************************************)
(* Proofs about Watches, for any objects, namespaces, filter and number of *)
(* events.                                                                 *)
(***************************************************************************)
EXTENDS Watches, TLAPS

-------------------------------------------------------------------------------
(* Types.                                                                      *)

Requests == [obj : Objects, rv : Nat, hash : Texts, failed : BOOLEAN]

LEMMA RequestFacts ==
  ASSUME TypeOK, worker # Idle
  PROVE  /\ worker \in Requests
         /\ worker.obj \in Objects /\ worker.rv \in Nat /\ worker.hash \in Texts
         /\ worker.failed \in BOOLEAN
  BY DEF TypeOK, Requests

\* The fields of the objects, Secrets and Nodes, in the API server and in the caches.
LEMMA FieldFacts ==
  ASSUME TypeOK, NEW o \in Objects
  PROVE  /\ api[o] \in LBConfigs /\ cache[o] \in LBConfigs
         /\ api[o].rv \in Nat /\ cache[o].rv \in Nat
         /\ api[o].spec \in Contents /\ cache[o].spec \in Contents
         /\ api[o].hash \in Texts \cup {Never} /\ cache[o].hash \in Texts \cup {Never}
         /\ NamespaceOf[o] \in Namespaces
         /\ SecretOf(o).data \in Contents
         /\ nodeCache.labels \in Contents /\ nodeCache.rest \in Contents
<1>1. api[o] \in LBConfigs /\ cache[o] \in LBConfigs /\ NamespaceOf[o] \in Namespaces
  BY NamespaceAssumption DEF TypeOK
<1>2. SecretOf(o) \in Secrets
  BY <1>1 DEF TypeOK, SecretOf
<1>3. nodeCache \in NodeLists
  BY DEF TypeOK
<1> QED BY <1>1, <1>2, <1>3 DEF LBConfigs, Secrets, NodeLists

LEMMA RenderingType == ASSUME TypeOK, NEW o \in Objects PROVE Rendering(o) \in Texts
  BY FieldFacts DEF Rendering, Texts

LEMMA HoldingType ==
  ASSUME TypeOK, NEW o \in Objects, NEW failed \in BOOLEAN
  PROVE  Holding(o, failed) \in Requests /\ Holding(o, failed) # Idle
         /\ Holding(o, failed).obj = o /\ Holding(o, failed).failed = failed
  BY RenderingType, FieldFacts, SentinelAssumption DEF Holding, Requests

\* The updates the API server applies to an object.
LEMMA ObjectUpdates ==
  ASSUME NEW x \in LBConfigs, NEW rv \in Nat, NEW spec \in Contents
  PROVE  /\ x.rv + 1 \in Nat
         /\ [x EXCEPT !.spec = spec, !.rv = rv] \in LBConfigs
         /\ [x EXCEPT !.exists = FALSE, !.rv = rv] \in LBConfigs
         /\ [exists |-> TRUE, rv |-> rv, spec |-> spec, ready |-> FALSE, hash |-> Never] \in LBConfigs
<1>1. x.rv + 1 \in Nat
  BY DEF LBConfigs
<1>2. [x EXCEPT !.spec = spec, !.rv = rv] \in LBConfigs
  BY DEF LBConfigs
<1>3. [x EXCEPT !.exists = FALSE, !.rv = rv] \in LBConfigs
  BY DEF LBConfigs
<1>4. [exists |-> TRUE, rv |-> rv, spec |-> spec, ready |-> FALSE, hash |-> Never] \in LBConfigs
  BY DEF LBConfigs
<1> QED BY <1>1, <1>2, <1>3, <1>4

\* The object the status update leaves in the API server.
Stored ==
  LET new == [api[worker.obj] EXCEPT !.ready = ~worker.failed, !.hash = worker.hash]
  IN IF new = api[worker.obj] THEN api[worker.obj] ELSE [new EXCEPT !.rv = @ + 1]

LEMMA StoredFacts ==
  ASSUME TypeOK, worker # Idle
  PROVE  /\ StatusStored = [api EXCEPT ![worker.obj] = Stored]
         /\ Stored \in LBConfigs
         /\ Stored.hash = worker.hash
         /\ Stored = api[worker.obj] \/ Stored.rv = api[worker.obj].rv + 1
<1> DEFINE old == api[worker.obj]
           new == [old EXCEPT !.ready = ~worker.failed, !.hash = worker.hash]
<1>1. worker.obj \in Objects /\ worker.hash \in Texts /\ (~worker.failed) \in BOOLEAN
  BY RequestFacts
<1>2. old \in LBConfigs
  BY <1>1, FieldFacts
<1>3. new \in LBConfigs /\ new.hash = worker.hash /\ new.rv = old.rv
  BY <1>1, <1>2 DEF LBConfigs
<1>4. StatusStored = [api EXCEPT ![worker.obj] = Stored]
  BY DEF StatusStored, Stored
<1>5. Stored = IF new = old THEN old ELSE [new EXCEPT !.rv = @ + 1]
  BY DEF Stored
<1> HIDE DEF new, old
<1>6. [new EXCEPT !.rv = @ + 1] \in LBConfigs
      /\ [new EXCEPT !.rv = @ + 1].hash = worker.hash
      /\ [new EXCEPT !.rv = @ + 1].rv = old.rv + 1
  BY <1>3 DEF LBConfigs
<1>7. /\ Stored \in LBConfigs /\ Stored.hash = worker.hash
      /\ Stored = old \/ Stored.rv = old.rv + 1
  BY <1>2, <1>3, <1>5, <1>6
<1> QED BY <1>4, <1>7 DEF old

LEMMA EventType == ASSUME TypeOK, Event PROVE events' \in 0..MaxEvents
  BY BoundAssumption DEF TypeOK, Event

LEMMA TypeStep == TypeOK /\ [Next]_vars => TypeOK'
<1> SUFFICES ASSUME TypeOK, [Next]_vars PROVE TypeOK'
  OBVIOUS
<1> USE DEF cluster, caches
<1>1. ASSUME NEW o \in Objects, LBConfigSync(o) PROVE TypeOK'
  BY <1>1 DEF LBConfigSync, TypeOK
<1>2. ASSUME NEW o \in Objects, LBConfigResync(o) \/ RetryDue(o) PROVE TypeOK'
  BY <1>2 DEF LBConfigResync, RetryDue, TypeOK
<1>3. ASSUME NEW o \in Objects, GetNotFound(o) \/ GetSecretFails(o) PROVE TypeOK'
  BY <1>3 DEF GetNotFound, GetSecretFails, Taken, TypeOK
<1>4. ASSUME NEW o \in Objects, ReconcileLBConfig(o) PROVE TypeOK'
  <2>1. disk' \in Texts \cup {Dirty} /\ worker' \in Requests /\ queue' \subseteq Objects
    BY <1>4, RenderingType, HoldingType DEF ReconcileLBConfig, Taken, TypeOK
  <2> QED BY <1>4, <2>1 DEF ReconcileLBConfig, TypeOK, Requests
<1>5. ASSUME NEW o \in Objects, WriteConfigFails(o) PROVE TypeOK'
  <2>1. /\ disk' \in Texts \cup {Dirty} /\ worker' \in Requests /\ queue' \subseteq Objects
        /\ events' \in 0..MaxEvents
    BY <1>5, RenderingType, HoldingType, EventType DEF WriteConfigFails, Taken, TypeOK
  <2> QED BY <1>5, <2>1 DEF WriteConfigFails, TypeOK, Requests
<1>6. ASSUME NEW ns \in Namespaces, SecretSync(ns) \/ SecretResync(ns) PROVE TypeOK'
  BY <1>6 DEF SecretSync, SecretResync, queueAllLBConfigs, TypeOK
<1>7. ASSUME NEW ns \in Namespaces, SecretChange(ns) PROVE TypeOK'
  <2>1. secrets' \in [Namespaces -> Secrets]
    <3>1. \A e \in BOOLEAN, rv \in Nat, c \in Contents : [exists |-> e, rv |-> rv, data |-> c] \in Secrets
      BY DEF Secrets
    <3>2. secrets \in [Namespaces -> Secrets] /\ secrets[ns].rv + 1 \in Nat /\ secrets[ns].data \in Contents
      BY DEF TypeOK, Secrets
    <3>3. PICK x \in Secrets : secrets' = [secrets EXCEPT ![ns] = x]
      BY <1>7, <3>1, <3>2 DEF SecretChange
    <3> QED BY <3>2, <3>3
  <2> QED BY <1>7, <2>1, EventType DEF SecretChange, TypeOK
<1>8. CASE NodeSync
  BY <1>8 DEF NodeSync, queueAllLBConfigs, TypeOK
<1>9. CASE StatusUpdate
  <2>1. worker # Idle /\ api' = [api EXCEPT ![worker.obj] = Stored] /\ worker.obj \in Objects
    BY <1>9, StoredFacts, RequestFacts DEF StatusUpdate
  <2>2. api' \in [Objects -> LBConfigs] /\ retry' \subseteq Objects
    BY <1>9, <2>1, StoredFacts DEF StatusUpdate, TypeOK
  <2> QED BY <1>9, <2>2 DEF StatusUpdate, TypeOK
<1>10. CASE StatusUpdateConflict
  BY <1>10, RequestFacts DEF StatusUpdateConflict, TypeOK
<1>11. CASE NodesChange
  <2>1. nodes' \in NodeLists
    BY <1>11 DEF NodesChange, TypeOK, NodeLists
  <2> QED BY <1>11, <2>1, EventType DEF NodesChange, TypeOK
<1>12. CASE AdminEdit
  BY <1>12, EventType DEF AdminEdit, TypeOK
<1>13. CASE Restart
  <2>1. disk' \in Texts \cup {Dirty}
    BY <1>13, RenderingType DEF Restart, CrashedDisks, TypeOK
  <2> QED BY <1>13, <2>1, EventType DEF Restart, TypeOK
<1>14. ASSUME NEW o \in Objects, UserEdit(o) \/ UserCreate(o) \/ UserDelete(o) PROVE TypeOK'
  <2>1. api[o] \in LBConfigs /\ api[o].rv + 1 \in Nat /\ api[o].spec \in Contents
    BY FieldFacts
  <2>2. api' \in [Objects -> LBConfigs]
    <3>1. CASE UserEdit(o)
      <4>1. PICK spec \in Contents : api' = [api EXCEPT ![o].spec = spec, ![o].rv = @ + 1]
        BY <3>1 DEF UserEdit
      <4>2. api' = [api EXCEPT ![o] = [api[o] EXCEPT !.spec = spec, !.rv = api[o].rv + 1]]
        BY <2>1, <4>1 DEF TypeOK, LBConfigs
      <4> QED BY <2>1, <4>2, ObjectUpdates DEF TypeOK
    <3>2. CASE UserCreate(o)
      <4>1. PICK spec \in Contents :
              api' = [api EXCEPT ![o] = [exists |-> TRUE, rv |-> @.rv + 1, spec |-> spec,
                                         ready |-> FALSE, hash |-> Never]]
        BY <3>2 DEF UserCreate
      <4> QED BY <2>1, <4>1, ObjectUpdates DEF TypeOK
    <3>3. CASE UserDelete(o)
      <4>1. api' = [api EXCEPT ![o] = [api[o] EXCEPT !.exists = FALSE, !.rv = api[o].rv + 1]]
        BY <2>1, <3>3 DEF UserDelete, TypeOK, LBConfigs
      <4> QED BY <2>1, <4>1, ObjectUpdates DEF TypeOK
    <3> QED BY <1>14, <3>1, <3>2, <3>3
  <2> QED BY <1>14, <2>2, EventType DEF UserEdit, UserCreate, UserDelete, TypeOK
<1>15. CASE UNCHANGED vars
  BY <1>15 DEF vars, TypeOK
<1> QED
  BY <1>1, <1>2, <1>3, <1>4, <1>5, <1>6, <1>7, <1>8, <1>9, <1>10, <1>11, <1>12, <1>13, <1>14, <1>15
  DEF Next, Pass, Finish

LEMMA TypeInit == Init => TypeOK
<1> SUFFICES ASSUME Init PROVE TypeOK
  OBVIOUS
<1>1. api \in [Objects -> LBConfigs]
  <2>1. PICK present \in SUBSET Objects :
          api = [o \in Objects |-> [exists |-> o \in present, rv |-> 1, spec |-> FirstSpec[o],
                                    ready |-> FALSE, hash |-> Never]]
    BY DEF Init
  <2>2. \A e \in BOOLEAN, c \in Contents :
          [exists |-> e, rv |-> 1, spec |-> c, ready |-> FALSE, hash |-> Never] \in LBConfigs
    BY DEF LBConfigs
  <2>3. \A o \in Objects : (o \in present) \in BOOLEAN /\ FirstSpec[o] \in Contents
    BY ContentAssumption
  <2> QED BY <2>1, <2>2, <2>3
<1>2. secrets \in [Namespaces -> Secrets] /\ nodes \in NodeLists
  BY ContentAssumption DEF Init, Secrets, NodeLists
<1>3. /\ cache = api /\ secretCache = secrets /\ nodeCache = nodes
      /\ queue \subseteq Objects /\ retry = {} /\ worker = Idle /\ disk = Dirty /\ events = 0
  BY Zenon DEF Init
<1> QED BY <1>1, <1>2, <1>3, BoundAssumption DEF TypeOK

-------------------------------------------------------------------------------
(* The caches lag behind the API server, and the worker behind the cache.      *)

Lag ==
  /\ \A o \in Objects : /\ cache[o].rv <= api[o].rv
                        /\ cache[o].rv = api[o].rv => cache[o] = api[o]
  /\ worker # Idle => worker.rv <= cache[worker.obj].rv

\* What the API server does to one object: it replaces it by a newer version.
Newer(o, x) == x \in LBConfigs /\ x.rv = api[o].rv + 1

LEMMA UserSteps ==
  ASSUME TypeOK, NEW o \in Objects, UserEdit(o) \/ UserCreate(o) \/ UserDelete(o)
  PROVE  /\ \E x : Newer(o, x) /\ api' = [api EXCEPT ![o] = x]
         /\ UNCHANGED <<secrets, nodes, caches, queue, retry, worker, disk>>
<1>1. api[o] \in LBConfigs /\ api[o].rv \in Nat /\ api[o].rv + 1 \in Nat /\ api[o].spec \in Contents
  BY FieldFacts
<1>2. UNCHANGED <<secrets, nodes, caches, queue, retry, worker, disk>>
  BY DEF UserEdit, UserCreate, UserDelete
<1>3. CASE UserEdit(o)
  <2>1. PICK spec \in Contents : api' = [api EXCEPT ![o].spec = spec, ![o].rv = @ + 1]
    BY <1>3 DEF UserEdit
  <2> DEFINE x == [api[o] EXCEPT !.spec = spec, !.rv = api[o].rv + 1]
  <2>2. api' = [api EXCEPT ![o] = x]
    BY <1>1, <2>1 DEF TypeOK, LBConfigs
  <2>3. x \in LBConfigs /\ x.rv = api[o].rv + 1
    BY <1>1, ObjectUpdates DEF LBConfigs
  <2> QED BY <1>2, <2>2, <2>3 DEF Newer
<1>4. CASE UserCreate(o)
  <2>1. PICK spec \in Contents :
          api' = [api EXCEPT ![o] = [exists |-> TRUE, rv |-> @.rv + 1, spec |-> spec,
                                     ready |-> FALSE, hash |-> Never]]
    BY <1>4 DEF UserCreate
  <2> DEFINE x == [exists |-> TRUE, rv |-> api[o].rv + 1, spec |-> spec, ready |-> FALSE, hash |-> Never]
  <2>2. api' = [api EXCEPT ![o] = x]
    BY <2>1 DEF TypeOK
  <2>3. x \in LBConfigs /\ x.rv = api[o].rv + 1
    BY <1>1, ObjectUpdates
  <2> QED BY <1>2, <2>2, <2>3 DEF Newer
<1>5. CASE UserDelete(o)
  <2> DEFINE x == [api[o] EXCEPT !.exists = FALSE, !.rv = api[o].rv + 1]
  <2>1. api' = [api EXCEPT ![o] = x]
    BY <1>1, <1>5 DEF UserDelete, TypeOK, LBConfigs
  <2>2. x \in LBConfigs /\ x.rv = api[o].rv + 1
    BY <1>1, ObjectUpdates DEF LBConfigs
  <2> QED BY <1>2, <2>1, <2>2 DEF Newer
<1> QED BY <1>3, <1>4, <1>5

LEMMA StatusSteps ==
  ASSUME TypeOK, StatusUpdate
  PROVE  /\ worker # Idle /\ worker.obj \in Objects
         /\ api' = [api EXCEPT ![worker.obj] = Stored]
         /\ Stored = api[worker.obj] \/ Newer(worker.obj, Stored)
         /\ Stored.hash = worker.hash
         /\ worker' = Idle
         /\ UNCHANGED <<secrets, nodes, cache, secretCache, nodeCache, queue, disk>>
<1>1. worker # Idle /\ worker.obj \in Objects
  BY RequestFacts DEF StatusUpdate
<1> QED BY <1>1, StoredFacts DEF StatusUpdate, Newer, caches

LEMMA LagStep == TypeOK /\ Lag /\ [Next]_vars => Lag'
<1> SUFFICES ASSUME TypeOK, Lag, [Next]_vars PROVE Lag'
  OBVIOUS
<1> USE DEF cluster, caches
<1>0. /\ \A o \in Objects : api[o].rv \in Nat /\ cache[o].rv \in Nat
      /\ worker # Idle => worker.obj \in Objects /\ worker.rv \in Nat
      /\ api \in [Objects -> LBConfigs] /\ cache \in [Objects -> LBConfigs]
  BY FieldFacts, RequestFacts DEF TypeOK
<1>1. ASSUME NEW o \in Objects, LBConfigSync(o) PROVE Lag'
  BY <1>0, <1>1 DEF LBConfigSync, Lag
<1>2. ASSUME UNCHANGED <<api, cache>>, worker' = worker \/ worker' = Idle PROVE Lag'
  BY <1>2 DEF Lag
<1>3. ASSUME NEW o \in Objects, NEW failed \in BOOLEAN, worker' = Holding(o, failed), UNCHANGED <<api, cache>>
      PROVE  Lag'
  BY <1>0, <1>3 DEF Holding, Lag
<1>4. ASSUME NEW o \in Objects, Pass(o) PROVE Lag'
  BY <1>2, <1>3, <1>4 DEF Pass, GetNotFound, GetSecretFails, ReconcileLBConfig, WriteConfigFails
<1>5. ASSUME NEW o \in Objects, NEW x, Newer(o, x), api' = [api EXCEPT ![o] = x],
             worker' = worker \/ worker' = Idle, UNCHANGED cache
      PROVE  Lag'
  BY <1>0, <1>5 DEF Newer, Lag
<1>6. ASSUME NEW o \in Objects, UserEdit(o) \/ UserCreate(o) \/ UserDelete(o) PROVE Lag'
  BY <1>5, <1>6, UserSteps
<1>7. CASE StatusUpdate
  <2>1. api' = [api EXCEPT ![worker.obj] = Stored] /\ worker.obj \in Objects /\ worker' = Idle
        /\ UNCHANGED cache
    BY <1>7, StatusSteps
  <2>2. CASE Stored = api[worker.obj]
    <3>1. api' = api
      BY <1>0, <2>1, <2>2
    <3> QED BY <1>2, <2>1, <3>1
  <2>3. CASE Newer(worker.obj, Stored)
    BY <1>5, <2>1, <2>3
  <2> QED BY <1>7, <2>2, <2>3, StatusSteps
<1>8. CASE Restart
  BY <1>0, <1>8 DEF Restart, Lag
<1> QED
  BY <1>1, <1>2, <1>4, <1>6, <1>7, <1>8
  DEF Next, Finish, vars, LBConfigResync, RetryDue, SecretSync, SecretResync, SecretChange, NodeSync,
      StatusUpdateConflict, NodesChange, AdminEdit

-------------------------------------------------------------------------------
(* No wakeup is lost.                                                          *)

\* Nothing is queued or due for an object of the watched namespace.
Asleep(o) == Filter(NamespaceOf[o]) /\ cache[o].exists /\ o \notin queue /\ o \notin retry

AtWork(o) == worker # Idle /\ worker.obj = o

\* The hash is that of the inputs in the caches, but for what no event queues for.
Fits(hash, o) ==
  /\ hash # Never
  /\ hash.spec = cache[o].spec
  /\ hash.secret = SecretOf(o).data
  /\ hash.labels = nodeCache.labels

\* What the worker is about to record is up to date, unless its object is queued again
\* or the update will be refused.
InHand ==
  \A o \in Objects :
    Asleep(o) /\ AtWork(o) /\ worker.rv = cache[o].rv => Fits(worker.hash, o)

\* An object nothing is queued for has its hash recorded, or an event is on its way.
Awake ==
  \A o \in Objects :
    Asleep(o) /\ ~AtWork(o) /\ cache[o] = api[o] => Fits(cache[o].hash, o)

LEMMA AwakeStep == TypeOK /\ Lag /\ InHand /\ Awake /\ [Next]_vars => InHand' /\ Awake'
<1> SUFFICES ASSUME TypeOK, Lag, InHand, Awake, [Next]_vars PROVE InHand' /\ Awake'
  OBVIOUS
<1> USE DEF cluster, caches
<1>0. /\ \A o \in Objects : /\ api[o].rv \in Nat /\ cache[o].rv \in Nat
                            /\ NamespaceOf[o] \in Namespaces
      /\ worker # Idle => worker.obj \in Objects /\ worker.rv \in Nat
      /\ api \in [Objects -> LBConfigs] /\ cache \in [Objects -> LBConfigs]
      /\ secretCache \in [Namespaces -> Secrets]
  BY FieldFacts, RequestFacts DEF TypeOK
\* Steps that leave the objects, the caches and the worker alone and forget no request.
<1>1. ASSUME UNCHANGED <<api, cache, secretCache, nodeCache, worker>>, queue \cup retry \subseteq queue' \cup retry'
      PROVE  InHand' /\ Awake'
  BY <1>1 DEF InHand, Awake, Asleep, AtWork, Fits, SecretOf
<1>2. ASSUME NEW o \in Objects, LBConfigSync(o) PROVE InHand' /\ Awake'
  <2>1. /\ UNCHANGED <<api, secretCache, nodeCache, worker, retry>>
        /\ cache' = [cache EXCEPT ![o] = api[o]]
        /\ queue \subseteq queue'
        /\ Filter(NamespaceOf[o]) => o \in queue'
    BY <1>2 DEF LBConfigSync
  <2>2. \A p \in Objects : Asleep(p)' => p # o /\ Asleep(p) /\ cache'[p] = cache[p]
    BY <1>0, <2>1 DEF Asleep, Filter
  <2> QED BY <2>1, <2>2 DEF InHand, Awake, AtWork, Fits, SecretOf
<1>3. ASSUME NEW ns \in Namespaces, SecretSync(ns) PROVE InHand' /\ Awake'
  <2>1. /\ UNCHANGED <<api, cache, nodeCache, worker, retry>>
        /\ secretCache' = [secretCache EXCEPT ![ns] = secrets[ns]]
        /\ queue' = IF Filter(ns) THEN queue \cup queueAllLBConfigs ELSE queue
    BY <1>3 DEF SecretSync
  <2>2. \A p \in Objects : Asleep(p)' => Asleep(p) /\ SecretOf(p)' = SecretOf(p)
    BY <1>0, <2>1 DEF Asleep, Filter, queueAllLBConfigs, SecretOf
  <2> QED BY <2>1, <2>2 DEF InHand, Awake, AtWork, Fits
<1>4. CASE NodeSync
  <2>1. /\ UNCHANGED <<api, cache, secretCache, worker, retry>>
        /\ nodeCache' = nodes
        /\ queue' = IF nodeCache.labels # nodes.labels THEN queue \cup queueAllLBConfigs ELSE queue
    BY <1>4 DEF NodeSync
  <2>2. \A p \in Objects : Asleep(p)' => Asleep(p) /\ nodeCache'.labels = nodeCache.labels
    BY <2>1 DEF Asleep, queueAllLBConfigs
  <2> QED BY <2>1, <2>2 DEF InHand, Awake, AtWork, Fits, SecretOf
<1>5. ASSUME NEW o \in Objects, GetNotFound(o) \/ GetSecretFails(o) PROVE InHand' /\ Awake'
  <2>1. /\ UNCHANGED <<api, cache, secretCache, nodeCache, worker>>
        /\ queue' = queue \ {o} /\ retry \subseteq retry'
        /\ cache[o].exists => o \in retry'
    BY <1>5 DEF GetNotFound, GetSecretFails, Taken
  <2>2. \A p \in Objects : Asleep(p)' => Asleep(p)
    BY <2>1 DEF Asleep
  <2> QED BY <2>1, <2>2 DEF InHand, Awake, AtWork, Fits, SecretOf
<1>6. ASSUME NEW o \in Objects, ReconcileLBConfig(o) \/ WriteConfigFails(o) PROVE InHand' /\ Awake'
  <2>1. /\ UNCHANGED <<api, cache, secretCache, nodeCache, retry>> /\ worker = Idle
        /\ queue' = queue \ {o} /\ \E failed \in BOOLEAN : worker' = Holding(o, failed)
    BY <1>6 DEF ReconcileLBConfig, WriteConfigFails, Taken
  <2>2. worker' # Idle /\ worker'.obj = o /\ worker'.hash = Rendering(o)
    BY <2>1, HoldingType DEF Holding
  <2>3. Fits(Rendering(o), o)
    BY RenderingType, SentinelAssumption DEF Fits, Rendering
  <2>4. Fits(worker.hash, o)'
    BY <2>1, <2>2, <2>3 DEF Fits, SecretOf
  <2>5. InHand'
    BY <2>2, <2>4 DEF InHand, AtWork
  <2>6. Awake'
    BY <2>1, <2>2 DEF Awake, Asleep, AtWork, Fits, SecretOf
  <2> QED BY <2>5, <2>6
\* Other changes of an object: its version in the cache is no longer the current one.
<1>7. ASSUME NEW o \in Objects, NEW x, Newer(o, x), api' = [api EXCEPT ![o] = x],
             UNCHANGED <<cache, secretCache, nodeCache, queue, retry, worker>>
      PROVE  InHand' /\ Awake'
  <2>1. cache[o] # x
    BY <1>0, <1>7 DEF Newer, Lag
  <2> QED BY <1>0, <1>7, <2>1 DEF InHand, Awake, Asleep, AtWork, Fits, SecretOf
<1>8. ASSUME NEW o \in Objects, UserEdit(o) \/ UserCreate(o) \/ UserDelete(o) PROVE InHand' /\ Awake'
  BY <1>7, <1>8, UserSteps
<1>9. CASE StatusUpdate
  <2> DEFINE o == worker.obj
  <2>1. /\ api' = [api EXCEPT ![o] = Stored] /\ o \in Objects /\ worker # Idle /\ worker' = Idle
        /\ UNCHANGED <<cache, secretCache, nodeCache, queue>> /\ retry \subseteq retry'
        /\ Stored.hash = worker.hash
        /\ Stored = api[o] \/ Newer(o, Stored)
        /\ worker.rv = api[o].rv
    BY <1>9, StatusSteps DEF StatusUpdate, UpdateAccepted
  <2>2. /\ cache[o].rv <= api[o].rv /\ worker.rv <= cache[o].rv
        /\ cache[o].rv = api[o].rv => cache[o] = api[o]
    BY <2>1 DEF Lag
  <2>3. cache[o].rv \in Nat /\ api[o].rv \in Nat
    BY <1>0, <2>1
  <2> HIDE DEF o
  <2>4. cache[o] = api[o] /\ worker.rv = cache[o].rv
    BY <2>1, <2>2, <2>3
  <2>5. InHand'
    BY <2>1 DEF InHand, AtWork
  <2>6. ASSUME NEW p \in Objects, Asleep(p)', cache'[p] = api'[p] PROVE Fits(cache[p].hash, p)
    <3>1. Asleep(p)
      BY <2>1, <2>6 DEF Asleep
    <3>2. CASE p # o
      <4>1. api'[p] = api[p] /\ ~AtWork(p)
        BY <1>0, <2>1, <3>2 DEF AtWork, o
      <4> QED BY <2>1, <2>6, <3>1, <4>1 DEF Awake
    <3>3. CASE p = o
      <4>1. cache[o] = Stored
        BY <1>0, <2>1, <2>6, <3>3
      <4>2. AtWork(o)
        BY <2>1 DEF AtWork, o
      <4> QED BY <2>1, <2>4, <3>1, <3>3, <4>1, <4>2 DEF InHand
    <3> QED BY <3>2, <3>3
  <2>7. Awake'
    BY <2>1, <2>6 DEF Awake, Fits, SecretOf
  <2> QED BY <2>5, <2>7
<1>10. CASE StatusUpdateConflict
  BY <1>10 DEF StatusUpdateConflict, InHand, Awake, Asleep, AtWork, Fits, SecretOf
<1>11. CASE Restart
  BY <1>11 DEF Restart, InHand, Awake, Asleep
<1> QED
  BY <1>1, <1>2, <1>3, <1>4, <1>5, <1>6, <1>8, <1>9, <1>10, <1>11
  DEF Next, Pass, Finish, vars, LBConfigResync, RetryDue, SecretResync, SecretChange, NodesChange, AdminEdit

ServedInv == TypeOK /\ Lag /\ InHand /\ Awake

LEMMA ServedInductive == Spec => []ServedInv
<1>1. Init => TypeOK
  BY TypeInit
<1>2. Init => Lag /\ InHand /\ Awake
  <2> SUFFICES ASSUME Init PROVE Lag /\ InHand /\ Awake
    OBVIOUS
  <2>1. /\ cache = api /\ worker = Idle /\ queue = {o \in Objects : api[o].exists /\ Filter(NamespaceOf[o])}
    BY Zenon DEF Init
  <2>2. \A o \in Objects : cache[o].rv \in Nat
    BY <1>1, FieldFacts
  <2>3. Lag
    BY <2>1, <2>2 DEF Lag
  <2>4. InHand /\ Awake
    BY <2>1 DEF InHand, Awake, Asleep, AtWork
  <2> QED BY <2>3, <2>4
<1>3. ServedInv /\ [Next]_vars => ServedInv'
  BY TypeStep, LagStep, AwakeStep DEF ServedInv
<1> QED BY <1>1, <1>2, <1>3, PTL DEF Spec, ServedInv

\* At rest the caches are the cluster: what Awake says of the caches holds of the cluster.
LEMMA ServedAtRest == ServedInv => EveryObjectIsServed
  BY DEF ServedInv, Awake, Asleep, AtWork, Fits, SecretOf, Filter, EveryObjectIsServed, Quiet, Selected, Current

\* However events, resyncs, retries, restarts and the passes of several objects
\* interleave: when nothing is queued, due, running or unseen, every object of the
\* watched namespace has recorded the hash of its current spec, Secret and labels.
THEOREM ServedCorrect == Spec => []EveryObjectIsServed
  BY ServedInductive, ServedAtRest, PTL

===============================================================================
