------------------------------- MODULE Watches --------------------------------
(***************************************************************************)
(* The watches of one load balancer's controller when there are several    *)
(* LoadBalancerConfigs, in several namespaces: Filter, the Node and the    *)
(* Secret handler, the work queue they fill and the one worker that        *)
(* empties it.  All objects are rendered to the same files.                *)
(*                                                                         *)
(* There is one file here and a pass is two steps: it reads its inputs and *)
(* writes, and it updates the status.  Reconciler has the files, the       *)
(* services and every step of a pass, for one object.                      *)
(*                                                                         *)
(* Objects, Secrets and Nodes have contents, which may change back to what *)
(* they were; objects and Secrets also have a resourceVersion, which never *)
(* does.  Events tell versions apart, hashes only contents.                *)
(***************************************************************************)
EXTENDS Naturals

CONSTANTS
  Objects,        \* keys of LoadBalancerConfigs
  Namespaces,
  NamespaceOf,    \* [Objects -> Namespaces]
  WatchNamespace, \* --watch-namespace; no element of Namespaces if it is empty
  Contents,       \* what a spec, a Secret, the labels or the rest of the Nodes can say
  FirstSpec,      \* [Objects -> Contents]: what the objects say at first
  FirstContent,   \* what Secrets and Nodes say at first
  MaxEvents,      \* bound: changes in the cluster and disturbances
  Never,          \* no hash recorded
  Dirty,          \* files IsFileModified reports (see ManagedFile)
  Idle            \* the worker waits for a request

ASSUME NamespaceAssumption == NamespaceOf \in [Objects -> Namespaces]
ASSUME ContentAssumption == FirstSpec \in [Objects -> Contents] /\ FirstContent \in Contents
ASSUME BoundAssumption == MaxEvents \in Nat

\* What the file is rendered from: the object, the Secret of its namespace, and the Nodes,
\* whose labels (and existence) are told from the rest of them.  Equal contents give equal
\* texts, and so equal hashes, whenever they are rendered; a hash is represented by its text.
Texts == [spec : Contents, secret : Contents, labels : Contents, rest : Contents]

ASSUME SentinelAssumption ==
  /\ Never \notin Texts /\ Dirty \notin Texts
  /\ Idle \notin [obj : Objects, rv : Nat, hash : Texts, failed : BOOLEAN]

LBConfigs == [exists : BOOLEAN, rv : Nat, spec : Contents, ready : BOOLEAN, hash : Texts \cup {Never}]
Secrets == [exists : BOOLEAN, rv : Nat, data : Contents]
NodeLists == [labels : Contents, rest : Contents]

VARIABLES
  api,         \* [Objects -> LBConfigs], in the API server
  secrets,     \* [Namespaces -> Secrets]
  nodes,       \* NodeLists
  cache,       \* informer cache of the objects
  secretCache, \* informer cache of the Secrets
  nodeCache,   \* informer cache of the Nodes
  queue,       \* requests in the work queue
  retry,       \* requests in the rate limiter
  worker,      \* Idle, or the request the worker is at, with the object it has in hand
  disk,        \* the text in the file, or Dirty
  events       \* changes and disturbances so far

cluster == <<api, secrets, nodes>>
caches == <<cache, secretCache, nodeCache>>
vars == <<cluster, caches, queue, retry, worker, disk, events>>

Event == events < MaxEvents /\ events' = events + 1

-------------------------------------------------------------------------------
(* Events and the requests they cause.                                         *)

\* For LoadBalancerConfigs and Secrets; Nodes always pass.
Filter(ns) == ns = WatchNamespace

\* Both handlers list the objects of every namespace in the cache.
queueAllLBConfigs == {o \in Objects : cache[o].exists}

\* Every change of an object, its status and its deletion included, is an event.
LBConfigSync(o) ==
  /\ cache[o] # api[o]
  /\ cache' = [cache EXCEPT ![o] = api[o]]
  /\ queue' = IF Filter(NamespaceOf[o]) THEN queue \cup {o} ELSE queue
  /\ UNCHANGED <<cluster, secretCache, nodeCache, retry, worker, disk, events>>

\* Mutant: updates of a Secret do not queue anything.
SecretSyncQueuesNothing(ns) ==
  /\ secretCache[ns] # secrets[ns]
  /\ secretCache' = [secretCache EXCEPT ![ns] = secrets[ns]]
  /\ UNCHANGED <<cluster, cache, nodeCache, queue, retry, worker, disk, events>>

SecretSync(ns) ==
  /\ secretCache[ns] # secrets[ns]
  /\ secretCache' = [secretCache EXCEPT ![ns] = secrets[ns]]
  /\ queue' = IF Filter(ns) THEN queue \cup queueAllLBConfigs ELSE queue
  /\ UNCHANGED <<cluster, cache, nodeCache, retry, worker, disk, events>>

\* An update that leaves the labels alone queues nothing.
NodeSync ==
  /\ nodeCache # nodes
  /\ nodeCache' = nodes
  /\ queue' = IF nodeCache.labels # nodes.labels THEN queue \cup queueAllLBConfigs ELSE queue
  /\ UNCHANGED <<cluster, cache, secretCache, retry, worker, disk, events>>

\* Mutant: the cache is never resynced.
NoResync(o) == UNCHANGED vars

\* The resync of an informer repeats an update event for each object in its cache.  For
\* a Node the labels are the same then and nothing is queued.
LBConfigResync(o) ==
  /\ cache[o].exists
  /\ queue' = IF Filter(NamespaceOf[o]) THEN queue \cup {o} ELSE queue
  /\ UNCHANGED <<cluster, caches, retry, worker, disk, events>>

SecretResync(ns) ==
  /\ secretCache[ns].exists
  /\ queue' = IF Filter(ns) THEN queue \cup queueAllLBConfigs ELSE queue
  /\ UNCHANGED <<cluster, caches, retry, worker, disk, events>>

RetryDue(o) ==
  /\ o \in retry
  /\ retry' = retry \ {o}
  /\ queue' = queue \cup {o}
  /\ UNCHANGED <<cluster, caches, worker, disk, events>>

-------------------------------------------------------------------------------
(* Reconcile.                                                                  *)

Taken(o) == worker = Idle /\ o \in queue /\ queue' = queue \ {o}

GetNotFound(o) ==
  /\ Taken(o)
  /\ ~cache[o].exists
  /\ UNCHANGED <<cluster, caches, retry, worker, disk, events>>

SecretOf(o) == secretCache[NamespaceOf[o]]

GetSecretFails(o) ==
  /\ Taken(o)
  /\ cache[o].exists
  /\ ~SecretOf(o).exists
  /\ retry' = retry \cup {o}
  /\ UNCHANGED <<cluster, caches, worker, disk, events>>

\* What the file is rendered to for o.
Rendering(o) == [spec |-> cache[o].spec, secret |-> SecretOf(o).data,
                 labels |-> nodeCache.labels, rest |-> nodeCache.rest]

\* The hash o has recorded is compared with that of the new text, the file with neither.
NeedsNoWrite(o) == disk # Dirty /\ cache[o].hash = Rendering(o)

\* The worker will update the status of the object it read, with the hash of what it
\* rendered.
Holding(o, failed) ==
  [obj |-> o, rv |-> cache[o].rv, hash |-> Rendering(o), failed |-> failed]

ReconcileLBConfig(o) ==
  /\ Taken(o)
  /\ cache[o].exists /\ SecretOf(o).exists
  /\ disk' = IF NeedsNoWrite(o) THEN disk ELSE Rendering(o)
  /\ worker' = Holding(o, FALSE)
  /\ UNCHANGED <<cluster, caches, retry, events>>

\* The file is left as it was if it cannot be opened, Dirty if a later call fails, and
\* complete if that was the last close.
WriteConfigFails(o) ==
  /\ Taken(o)
  /\ cache[o].exists /\ SecretOf(o).exists
  /\ ~NeedsNoWrite(o)
  /\ Event
  /\ disk' \in {disk, Dirty, Rendering(o)}
  /\ worker' = Holding(o, TRUE)
  /\ UNCHANGED <<cluster, caches, retry>>

\* The object as the API server stores it: an unchanged status is no new version.
StatusStored ==
  LET old == api[worker.obj]
      new == [old EXCEPT !.ready = ~worker.failed, !.hash = worker.hash]
  IN [api EXCEPT ![worker.obj] = IF new = old THEN old ELSE [new EXCEPT !.rv = @ + 1]]

UpdateAccepted == api[worker.obj].exists /\ api[worker.obj].rv = worker.rv

StatusUpdate ==
  /\ worker # Idle
  /\ UpdateAccepted
  /\ api' = StatusStored
  /\ retry' = IF worker.failed THEN retry \cup {worker.obj} ELSE retry
  /\ worker' = Idle
  /\ UNCHANGED <<secrets, nodes, caches, queue, disk, events>>

StatusUpdateConflict ==
  /\ worker # Idle
  /\ ~UpdateAccepted
  /\ retry' = retry \cup {worker.obj}
  /\ worker' = Idle
  /\ UNCHANGED <<cluster, caches, queue, disk, events>>

-------------------------------------------------------------------------------
(* The cluster and the process.                                                *)

UserEdit(o) ==
  /\ api[o].exists
  /\ Event
  /\ \E spec \in Contents \ {api[o].spec} : api' = [api EXCEPT ![o].spec = spec, ![o].rv = @ + 1]
  /\ UNCHANGED <<secrets, nodes, caches, queue, retry, worker, disk>>

\* A new object has no status.
UserCreate(o) ==
  /\ ~api[o].exists
  /\ Event
  /\ \E spec \in Contents :
       api' = [api EXCEPT ![o] = [exists |-> TRUE, rv |-> @.rv + 1, spec |-> spec,
                                  ready |-> FALSE, hash |-> Never]]
  /\ UNCHANGED <<secrets, nodes, caches, queue, retry, worker, disk>>

UserDelete(o) ==
  /\ api[o].exists
  /\ Event
  /\ api' = [api EXCEPT ![o].exists = FALSE, ![o].rv = @ + 1]
  /\ UNCHANGED <<secrets, nodes, caches, queue, retry, worker, disk>>

\* A Secret is deleted, created, or changed in its data or its metadata.
SecretChange(ns) ==
  /\ Event
  /\ \/ \E data \in Contents : secrets' = [secrets EXCEPT ![ns] = [exists |-> TRUE, rv |-> @.rv + 1, data |-> data]]
     \/ secrets' = [secrets EXCEPT ![ns] = [exists |-> FALSE, rv |-> @.rv + 1, data |-> @.data]]
  /\ UNCHANGED <<api, nodes, caches, queue, retry, worker, disk>>

NodesChange ==
  /\ Event
  /\ nodes' \in NodeLists \ {nodes}
  /\ UNCHANGED <<api, secrets, caches, queue, retry, worker, disk>>

\* An administrator edits a file.
AdminEdit ==
  /\ Event
  /\ disk' = Dirty
  /\ UNCHANGED <<cluster, caches, queue, retry, worker>>

\* What a process that dies now leaves of the file: a pass may be anywhere.
CrashedDisks ==
  {disk} \cup UNION {{Dirty, Rendering(o)} :
                       o \in {p \in queue : /\ worker = Idle /\ cache[p].exists
                                            /\ SecretOf(p).exists /\ ~NeedsNoWrite(p)}}

\* A new process lists all objects; Filter applies to that list too, and the handlers
\* skip the Nodes and Secrets of their initial lists.
Restart ==
  /\ Event
  /\ disk' \in CrashedDisks
  /\ cache' = api
  /\ secretCache' = secrets
  /\ nodeCache' = nodes
  /\ queue' = {o \in Objects : api[o].exists /\ Filter(NamespaceOf[o])}
  /\ retry' = {}
  /\ worker' = Idle
  /\ UNCHANGED cluster

-------------------------------------------------------------------------------
Init ==
  /\ \E present \in SUBSET Objects :
       api = [o \in Objects |-> [exists |-> o \in present, rv |-> 1, spec |-> FirstSpec[o],
                                 ready |-> FALSE, hash |-> Never]]
  /\ secrets = [ns \in Namespaces |-> [exists |-> TRUE, rv |-> 1, data |-> FirstContent]]
  /\ nodes = [labels |-> FirstContent, rest |-> FirstContent]
  /\ cache = api
  /\ secretCache = secrets
  /\ nodeCache = nodes
  /\ queue = {o \in Objects : api[o].exists /\ Filter(NamespaceOf[o])}
  /\ retry = {}
  /\ worker = Idle
  /\ disk = Dirty
  /\ events = 0

Pass(o) == GetNotFound(o) \/ GetSecretFails(o) \/ ReconcileLBConfig(o) \/ WriteConfigFails(o)

Finish == StatusUpdate \/ StatusUpdateConflict

Next ==
  \/ \E o \in Objects : LBConfigSync(o) \/ LBConfigResync(o) \/ RetryDue(o) \/ Pass(o)
  \/ \E ns \in Namespaces : SecretSync(ns) \/ SecretResync(ns) \/ SecretChange(ns)
  \/ NodeSync \/ Finish \/ NodesChange \/ AdminEdit \/ Restart
  \/ \E o \in Objects : UserEdit(o) \/ UserCreate(o) \/ UserDelete(o)

Spec == Init /\ [][Next]_vars

\* Watches, timers and the worker make progress, the resync included.  The queue hands
\* out requests in order, so that none waits for ever while the worker is busy with
\* others, hence strong fairness of Pass.
Fairness ==
  /\ \A o \in Objects :
       /\ WF_vars(LBConfigSync(o)) /\ WF_vars(LBConfigResync(o))
       /\ WF_vars(RetryDue(o)) /\ SF_vars(Pass(o))
  /\ \A ns \in Namespaces : WF_vars(SecretSync(ns))
  /\ WF_vars(NodeSync) /\ WF_vars(Finish)

FairSpec == Spec /\ Fairness

-------------------------------------------------------------------------------
TypeOK ==
  /\ api \in [Objects -> LBConfigs] /\ cache \in [Objects -> LBConfigs]
  /\ secrets \in [Namespaces -> Secrets] /\ secretCache \in [Namespaces -> Secrets]
  /\ nodes \in NodeLists /\ nodeCache \in NodeLists
  /\ queue \subseteq Objects /\ retry \subseteq Objects
  /\ worker \in [obj : Objects, rv : Nat, hash : Texts, failed : BOOLEAN] \cup {Idle}
  /\ disk \in Texts \cup {Dirty}
  /\ events \in 0..MaxEvents

Selected(o) == NamespaceOf[o] = WatchNamespace /\ api[o].exists

\* Nothing is queued, due, running or unseen.
Quiet ==
  /\ queue = {} /\ retry = {} /\ worker = Idle
  /\ cache = api /\ secretCache = secrets /\ nodeCache = nodes

\* The text was rendered from the current object, Secret and Nodes, but for the
\* changes of Nodes that queue nothing.
Current(text, o) ==
  /\ text # Never
  /\ text.spec = api[o].spec
  /\ text.secret = secrets[NamespaceOf[o]].data
  /\ text.labels = nodes.labels

\* No wakeup is lost between three watches, a filter, a retry and a restart: when
\* nothing is left to do, every object of the watched namespace has recorded the hash of
\* its current inputs.
EveryObjectIsServed == Quiet => \A o \in Objects : Selected(o) => Current(api[o].hash, o)

\* With the resync, which finds manual edits and the changes of Nodes that queue nothing,
\* an object of the watched namespace ends up with the hash of all its inputs recorded
\* and with an intact file, as long as its Secret exists.
Served ==
  \A o \in Objects :
    <>[](Selected(o) /\ secrets[NamespaceOf[o]].exists
           => /\ disk # Dirty
              /\ api[o].hash = [spec |-> api[o].spec,
                                secret |-> secrets[NamespaceOf[o]].data,
                                labels |-> nodes.labels, rest |-> nodes.rest])

\* The help text of --watch-namespace is "The namespace in which to reconcile
\* LoadBalancerConfig resources.": at rest, if that namespace has an object, the file shows
\* the text of an object of that namespace.
FilesFollowTheFlag ==
  Quiet /\ (\E o \in Objects : Selected(o)) => \E o \in Objects : Selected(o) /\ disk = Rendering(o)
===============================================================================
