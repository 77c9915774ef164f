------------------------------ MODULE Reconciler ------------------------------
(***************************************************************************)
(* The reconcile loop of one load balancer node: Reconcile,                *)
(* ReconcileLBConfig, InitializeNodeStatus, CompareAndWrite and the        *)
(* reloads, run by the single worker of a controller-runtime controller    *)
(* against an API server other clients write to as well, over a disk whose *)
(* files behave as ManagedFile says.                                       *)
(*                                                                         *)
(* Inputs are versions.  "spec" numbers the successive contents of the     *)
(* LoadBalancerConfig, "nodes" those of the cluster objects read beside it *)
(* (Nodes and the credentials Secret), and Renders gives, for each pair of *)
(* versions and each file, the outcomes its Render function can have.      *)
(***************************************************************************)
EXTENDS Naturals, Sequences

CONSTANTS
  Files,       \* config files under management
  FileSeq,     \* the order ReconcileLBConfig handles them in
  ServiceOf,   \* [Files -> Services]: what is reloaded when a file changes
  Services,
  Data,        \* rendered configuration texts
  MaxSpec,     \* bound: versions of the LoadBalancerConfig
  MaxNodes,    \* bound: versions of Nodes and Secret
  Renders,     \* [1..MaxSpec -> [1..MaxNodes -> [Files -> SUBSET Outcomes]]]
  CredFiles,   \* files rendered from the Secret read at the start of Reconcile
  Silent,      \* versions of nodes nodeUpdateHandler.Update does not requeue for
  NoSecret,    \* versions of nodes without the credentials Secret
  ConfigRootIsSlash, \* services are reloaded only if --config-root is "/"
  Faults,      \* classes of disturbances the environment may cause
  MaxFaults,   \* bound: number of disturbances
  MaxRV,       \* bound: versions of the object that status updates may bring about
  LocalText,   \* a text rendered with the backends of the command line
  NoHash,      \* no entry in ConfigHashes
  Dirty,       \* a file IsFileModified reports (see ManagedFile)
  RenderError, \* the Render function returns an error
  RenderPanic  \* the Render function dereferences a nil pointer

Versions == 1..MaxSpec
NodeVersions == 1..MaxNodes
Outcomes == Data \cup {RenderError, RenderPanic}
Rendered == [gen : Versions, data : Data]
FaultClasses == {"crash", "reboot", "open", "write", "render", "net", "reload", "api",
                 "otherwrite", "peer", "edit", "delete"}
Statuses == {"", "Configuring", "Ready", "Failed"}

ASSUME BoundAssumption == MaxSpec \in Nat \ {0} /\ MaxNodes \in Nat \ {0} /\ MaxFaults \in Nat /\ MaxRV \in Nat
ASSUME FileAssumption ==
  /\ FileSeq \in Seq(Files)
  /\ FileSeq # <<>>
  /\ \A f \in Files : \E i \in 1..Len(FileSeq) : FileSeq[i] = f
  /\ ServiceOf \in [Files -> Services]
ASSUME RenderAssumption ==
  /\ Renders \in [Versions -> [NodeVersions -> [Files -> SUBSET Outcomes]]]
  /\ LocalText \in Data
ASSUME SubsetAssumption ==
  /\ CredFiles \subseteq Files
  /\ Silent \subseteq NodeVersions
  /\ NoSecret \subseteq NodeVersions
  /\ Faults \subseteq FaultClasses
  /\ ConfigRootIsSlash \in BOOLEAN
ASSUME SentinelAssumption ==
  /\ NoHash \notin Outcomes
  /\ RenderError \notin Data /\ RenderPanic \notin Data
  /\ Dirty \notin Rendered

\* The LoadBalancerConfig as stored, cached or held by Reconcile.  Status.Nodes is
\* nil iff neither this node (own) nor its peer has an entry.
Objects == [exists : BOOLEAN, rv : Nat, spec : Versions, peer : BOOLEAN,
            own : BOOLEAN, status : Statuses, hashes : [Files -> Data \cup {NoHash}]]

VARIABLES
  api,        \* the object in the API server
  nodes,      \* version of Nodes and Secret in the API server
  cache,      \* informer cache of the object
  nodeCache,  \* informer cache of Nodes and Secret
  dirty,      \* the request is in the work queue
  retry,      \* the request waits in the rate limiter
  pc,         \* position in Reconcile
  idx,        \* next file of FileSeq
  work,       \* local variable lbconfig
  cred,       \* version of the Secret Reconcile read
  pending,    \* data WriteConfig is writing, or NoHash
  updated,    \* local variable updated: services still to reload
  err,        \* the error ReconcileLBConfig returns is not nil
  reloadErr,  \* a reload failed
  disk,       \* [Files -> Rendered \cup {Dirty}]
  loaded,     \* [Files -> what the file's service has loaded]
  faults      \* disturbances so far

input == <<api, nodes>>
caches == <<cache, nodeCache>>
local == <<idx, work, cred, pending, updated, err, reloadErr>>
machine == <<disk, loaded>>
vars == <<input, caches, dirty, retry, pc, local, machine, faults>>

Absent == [exists |-> FALSE, rv |-> 0, spec |-> 1, peer |-> FALSE, own |-> FALSE,
           status |-> "", hashes |-> [f \in Files |-> NoHash]]

\* A new object has no status.
Created(spec, rv) == [Absent EXCEPT !.exists = TRUE, !.spec = spec, !.rv = rv]

\* The environment spends one disturbance of the given class.
Fault(class) == /\ class \in Faults
                /\ faults < MaxFaults
                /\ faults' = faults + 1

RenderFinalConfig(gen, data) == [gen |-> gen, data |-> data]

-------------------------------------------------------------------------------
\* A new controller and a new object.
Unconfigured ==
  /\ api = Created(1, 1)
  /\ nodes = 1
  /\ cache = api
  /\ nodeCache = nodes
  /\ dirty = TRUE
  /\ retry = FALSE
  /\ pc = "idle"
  /\ idx = 1
  /\ work = Absent
  /\ cred = 1
  /\ pending = NoHash
  /\ updated = {}
  /\ err = FALSE
  /\ reloadErr = FALSE
  /\ faults = 0

NoFiles == [f \in Files |-> Dirty]

\* What a run of RenderFile can leave: it ends with an error or a panic when a file cannot
\* be rendered, and has written others then.
Bootstrapped == [Files -> {Dirty, RenderFinalConfig(1, LocalText)}]

Init == Unconfigured /\ disk = NoFiles /\ loaded = NoFiles

\* The machine may have been bootstrapped with --render-from-file, in whole or in part,
\* and its services were started from these files.
BootstrapInit == Unconfigured /\ disk \in Bootstrapped /\ loaded = disk

\* Reconcile returns, having failed or not; a recovered panic counts as failed.
ResetLocals ==
  /\ idx' = 1
  /\ work' = Absent
  /\ cred' = 1
  /\ pending' = NoHash
  /\ updated' = {}
  /\ err' = FALSE
  /\ reloadErr' = FALSE

Return(failed) ==
  /\ pc' = "idle"
  /\ retry' = (retry \/ failed)
  /\ ResetLocals

\* The worker takes the request and reads the object from the cache.
GetNotFound ==
  /\ pc = "idle" /\ dirty
  /\ ~cache.exists
  /\ dirty' = FALSE
  /\ UNCHANGED <<input, caches, retry, pc, local, machine, faults>>

GetSecretFails ==
  /\ pc = "idle" /\ dirty
  /\ cache.exists
  /\ nodeCache \in NoSecret
  /\ dirty' = FALSE
  /\ Return(TRUE)
  /\ UNCHANGED <<input, caches, machine, faults>>

Get ==
  /\ pc = "idle" /\ dirty
  /\ cache.exists
  /\ nodeCache \notin NoSecret
  /\ dirty' = FALSE
  /\ work' = cache
  /\ cred' = nodeCache
  /\ pc' = "init"
  /\ UNCHANGED <<input, caches, retry, idx, pending, updated, err, reloadErr, machine, faults>>

NodesIsNil(o) == ~o.own /\ ~o.peer

\* The entry of this node is added only if there is no map yet.
WithNodesMap(o) == IF NodesIsNil(o) THEN [o EXCEPT !.own = TRUE] ELSE o

InitializeNodeStatus ==
  /\ pc = "init"
  /\ WithNodesMap(work).own
  /\ work' = [WithNodesMap(work) EXCEPT !.status = "Configuring"]
  /\ pc' = "file"
  /\ UNCHANGED <<input, caches, dirty, retry, idx, cred, pending, updated, err, reloadErr,
                 machine, faults>>

\* An address or route lookup fails: no file is handled.
InitializeNodeStatusFails ==
  /\ pc = "init"
  /\ WithNodesMap(work).own
  /\ Fault("net")
  /\ work' = WithNodesMap(work)
  /\ err' = TRUE
  /\ pc' = "status"
  /\ UNCHANGED <<input, caches, dirty, retry, idx, cred, pending, updated, reloadErr, machine>>

\* There is a map but no entry for this node: the assignment through its nil
\* pointer panics, here or, after a failed lookup, when the status is set.
InitializeNodeStatusPanics ==
  /\ pc = "init"
  /\ ~WithNodesMap(work).own
  /\ Return(TRUE)
  /\ UNCHANGED <<input, caches, dirty, machine, faults>>

-------------------------------------------------------------------------------
(* One file of ReconcileLBConfig: render, compare, write.                      *)

CurrentFile == FileSeq[idx]

InputVersion(f) == IF f \in CredFiles THEN cred ELSE nodeCache

\* What the Render function of f can return now.
Renderings(f) == Renders[work.spec][InputVersion(f)][f]

\* On to the next file of the straight-line sequence, or to the reloads.
FileDone ==
  /\ idx' = idx + 1
  /\ pc' = IF idx = Len(FileSeq) THEN "reload" ELSE "file"

\* Mutant: RenderConfig goes on to CompareAndWrite although the rendering failed.
RenderFailsIsWritten ==
  /\ pc = "file"
  /\ \/ RenderError \in Renderings(CurrentFile) /\ UNCHANGED faults
     \/ Fault("render")
  /\ work' = [work EXCEPT !.hashes[CurrentFile] = RenderError]
  /\ pending' = RenderError
  /\ err' = TRUE
  /\ pc' = "write"
  /\ UNCHANGED <<input, caches, dirty, retry, idx, cred, updated, reloadErr, machine>>

RenderFails ==
  /\ pc = "file"
  /\ \/ RenderError \in Renderings(CurrentFile) /\ UNCHANGED faults
     \/ Fault("render")
  /\ err' = TRUE
  /\ FileDone
  /\ UNCHANGED <<input, caches, dirty, retry, work, cred, pending, updated, reloadErr, machine>>

RenderPanics ==
  /\ pc = "file"
  /\ RenderPanic \in Renderings(CurrentFile)
  /\ Return(TRUE)
  /\ UNCHANGED <<input, caches, dirty, machine, faults>>

IsFileModified(f) == disk[f] = Dirty

\* Nothing is written if the disk is intact and the recorded hash is that of data.
NeedsNoWrite(f, data) == ~IsFileModified(f) /\ work.hashes[f] = data

CompareEqual ==
  /\ pc = "file"
  /\ \E data \in Renderings(CurrentFile) \cap Data : NeedsNoWrite(CurrentFile, data)
  /\ FileDone
  /\ UNCHANGED <<input, caches, dirty, retry, work, cred, pending, updated, err, reloadErr,
                 machine, faults>>

\* The hash is recorded in the status before the file is written.
CompareDifferent ==
  /\ pc = "file"
  /\ \E data \in Renderings(CurrentFile) \cap Data :
       /\ ~NeedsNoWrite(CurrentFile, data)
       /\ work' = [work EXCEPT !.hashes[CurrentFile] = data]
       /\ pending' = data
  /\ pc' = "write"
  /\ UNCHANGED <<input, caches, dirty, retry, idx, cred, updated, err, reloadErr, machine, faults>>

\* Mutant: the stamp names the generation the cache has meanwhile.
WriteConfigStampsCached ==
  /\ pc = "write"
  /\ disk' = [disk EXCEPT ![CurrentFile] = RenderFinalConfig(cache.spec, pending)]
  /\ updated' = updated \cup {ServiceOf[CurrentFile]}
  /\ pending' = NoHash
  /\ FileDone
  /\ UNCHANGED <<input, caches, dirty, retry, work, cred, err, reloadErr, loaded, faults>>

\* Mutant: the set of services to reload starts anew with each file.
WriteConfigForgetsServices ==
  /\ pc = "write"
  /\ disk' = [disk EXCEPT ![CurrentFile] = RenderFinalConfig(work.spec, pending)]
  /\ updated' = {ServiceOf[CurrentFile]}
  /\ pending' = NoHash
  /\ FileDone
  /\ UNCHANGED <<input, caches, dirty, retry, work, cred, err, reloadErr, loaded, faults>>

WriteConfig ==
  /\ pc = "write"
  /\ disk' = [disk EXCEPT ![CurrentFile] = RenderFinalConfig(work.spec, pending)]
  /\ updated' = updated \cup {ServiceOf[CurrentFile]}
  /\ pending' = NoHash
  /\ FileDone
  /\ UNCHANGED <<input, caches, dirty, retry, work, cred, err, reloadErr, loaded, faults>>

\* Mutant: the file is written elsewhere and renamed, so that a failed call leaves
\* the old one in place.
WriteConfigFailsAtomically ==
  /\ pc = "write"
  /\ Fault("write")
  /\ err' = TRUE
  /\ pending' = NoHash
  /\ FileDone
  /\ UNCHANGED <<input, caches, dirty, retry, work, cred, updated, reloadErr, machine>>

\* What a failed call leaves of the file: the old one, if the directory or the file cannot
\* be opened; a Dirty one, if a later call fails; a complete one, if that was the last
\* close.
FailedWrites ==
  {<<"open", disk[CurrentFile]>>, <<"write", Dirty>>, <<"write", RenderFinalConfig(work.spec, pending)>>}

WriteConfigFails ==
  /\ pc = "write"
  /\ \E left \in FailedWrites :
       /\ Fault(left[1])
       /\ disk' = [disk EXCEPT ![CurrentFile] = left[2]]
  /\ err' = TRUE
  /\ pending' = NoHash
  /\ FileDone
  /\ UNCHANGED <<input, caches, dirty, retry, work, cred, updated, reloadErr, loaded>>

-------------------------------------------------------------------------------
(* Reloads, in the arbitrary order of maps.Keys, and the status update.        *)

NoMoreReloads ==
  /\ pc = "reload"
  /\ updated = {}
  /\ pc' = "status"
  /\ UNCHANGED <<input, caches, dirty, retry, local, machine, faults>>

Reload(s) ==
  /\ pc = "reload"
  /\ s \in updated
  /\ updated' = updated \ {s}
  /\ loaded' = IF ConfigRootIsSlash
                 THEN [f \in Files |-> IF ServiceOf[f] = s THEN disk[f] ELSE loaded[f]]
                 ELSE loaded
  /\ UNCHANGED <<input, caches, dirty, retry, pc, idx, work, cred, pending, err, reloadErr, disk,
                 faults>>

\* The command fails; only the status will tell, Reconcile does not return it.
ReloadFails(s) ==
  /\ pc = "reload"
  /\ s \in updated
  /\ ConfigRootIsSlash
  /\ Fault("reload")
  /\ updated' = updated \ {s}
  /\ reloadErr' = TRUE
  /\ UNCHANGED <<input, caches, dirty, retry, pc, idx, work, cred, pending, err, machine>>

FinalStatus == IF err \/ reloadErr THEN "Failed" ELSE "Ready"

\* The object as the API server stores it: an unchanged status is no new version.
StatusStored ==
  LET new == [api EXCEPT !.own = TRUE, !.status = FinalStatus, !.hashes = work.hashes]
  IN IF new = api THEN api ELSE [new EXCEPT !.rv = @ + 1]

\* Update is refused unless it is based on the current version.
UpdateAccepted == api.exists /\ work.rv = api.rv

\* Mutant: Reconcile returns only the error of the status update.
StatusUpdateDropsError ==
  /\ pc = "status"
  /\ UpdateAccepted
  /\ StatusStored.rv <= MaxRV
  /\ api' = StatusStored
  /\ Return(FALSE)
  /\ UNCHANGED <<nodes, caches, dirty, machine, faults>>

StatusUpdate ==
  /\ pc = "status"
  /\ UpdateAccepted
  /\ StatusStored.rv <= MaxRV
  /\ api' = StatusStored
  /\ Return(err)
  /\ UNCHANGED <<nodes, caches, dirty, machine, faults>>

StatusUpdateConflict ==
  /\ pc = "status"
  /\ ~UpdateAccepted
  /\ Return(TRUE)
  /\ UNCHANGED <<input, caches, dirty, machine, faults>>

\* The request or its response is lost.
StatusUpdateFails ==
  /\ pc = "status"
  /\ UpdateAccepted
  /\ Fault("api")
  /\ api' \in {api, StatusStored}
  /\ Return(TRUE)
  /\ UNCHANGED <<nodes, caches, dirty, machine>>

-------------------------------------------------------------------------------
(* Watches and the work queue.                                                 *)

\* Every change of the object, its status included, is an event for its key.
CacheSync ==
  /\ cache # api
  /\ cache' = api
  /\ dirty' = TRUE
  /\ UNCHANGED <<input, nodeCache, retry, pc, local, machine, faults>>

\* Mutant: Node and Secret events are not mapped to the objects that use them.
NodeSyncQueuesNothing ==
  /\ nodeCache # nodes
  /\ nodeCache' = nodes
  /\ UNCHANGED <<input, cache, dirty, retry, pc, local, machine, faults>>

\* Both handlers list the objects in the cache and requeue them.
queueAllLBConfigs == cache.exists

\* A change of a Node that leaves its labels alone requeues nothing.
NodeSync ==
  /\ nodeCache # nodes
  /\ nodeCache' = nodes
  /\ dirty' = (dirty \/ (queueAllLBConfigs /\ \E n \in (nodeCache + 1)..nodes : n \notin Silent))
  /\ UNCHANGED <<input, cache, retry, pc, local, machine, faults>>

\* The rate limiter's delay is over.
RetryDue ==
  /\ retry
  /\ retry' = FALSE
  /\ dirty' = TRUE
  /\ UNCHANGED <<input, caches, pc, local, machine, faults>>

\* The informer's periodic resync repeats an update event for the object.
Resync ==
  /\ cache.exists
  /\ dirty' = TRUE
  /\ UNCHANGED <<input, caches, retry, pc, local, machine, faults>>

-------------------------------------------------------------------------------
(* The environment.                                                            *)

UserEdit ==
  /\ api.exists
  /\ api.spec < MaxSpec
  /\ api' = [api EXCEPT !.spec = @ + 1, !.rv = @ + 1]
  /\ UNCHANGED <<nodes, caches, dirty, retry, pc, local, machine, faults>>

UserDelete ==
  /\ api.exists
  /\ Fault("delete")
  /\ api' = [Absent EXCEPT !.spec = api.spec, !.rv = api.rv + 1]
  /\ UNCHANGED <<nodes, caches, dirty, retry, pc, local, machine>>

UserCreate ==
  /\ ~api.exists
  /\ api.spec < MaxSpec
  /\ api' = Created(api.spec + 1, api.rv + 1)
  /\ UNCHANGED <<nodes, caches, dirty, retry, pc, local, machine, faults>>

NodesChange ==
  /\ nodes < MaxNodes
  /\ nodes' = nodes + 1
  /\ UNCHANGED <<api, caches, dirty, retry, pc, local, machine, faults>>

\* Another client changes labels or annotations.
OtherWrite ==
  /\ api.exists
  /\ Fault("otherwrite")
  /\ api' = [api EXCEPT !.rv = @ + 1]
  /\ UNCHANGED <<nodes, caches, dirty, retry, pc, local, machine>>

\* The controller of the other load balancer, the same program, stores its entry:
\* it can only do so as the first.
PeerRegisters ==
  /\ api.exists
  /\ NodesIsNil(api)
  /\ Fault("peer")
  /\ api' = [api EXCEPT !.peer = TRUE, !.rv = @ + 1]
  /\ UNCHANGED <<nodes, caches, dirty, retry, pc, local, machine>>

AdminEdit(f) ==
  /\ Fault("edit")
  /\ disk' = [disk EXCEPT ![f] = Dirty]
  /\ UNCHANGED <<input, caches, dirty, retry, pc, local, loaded>>

\* What a process that dies now leaves of the file it was writing.
CrashedDisks ==
  IF pc = "write"
    THEN {disk} \cup {[disk EXCEPT ![CurrentFile] = c] :
                        c \in {Dirty, RenderFinalConfig(work.spec, pending)}}
    ELSE {disk}

\* A new process lists all objects, which queues the request; the handlers skip the
\* Nodes and Secrets of the initial list.
Restarted ==
  /\ cache' = api
  /\ nodeCache' = nodes
  /\ dirty' = api.exists
  /\ retry' = FALSE
  /\ pc' = "idle"
  /\ ResetLocals

Crash ==
  /\ Fault("crash")
  /\ disk' \in CrashedDisks
  /\ Restarted
  /\ UNCHANGED <<input, loaded>>

\* The services start with the machine, from the files they find.
Reboot ==
  /\ Fault("reboot")
  /\ disk' \in CrashedDisks
  /\ loaded' = disk'
  /\ Restarted
  /\ UNCHANGED input

-------------------------------------------------------------------------------
ReconcileStep ==
  \/ GetNotFound \/ GetSecretFails \/ Get
  \/ InitializeNodeStatus \/ InitializeNodeStatusFails \/ InitializeNodeStatusPanics
  \/ RenderFails \/ RenderPanics \/ CompareEqual \/ CompareDifferent
  \/ WriteConfig \/ WriteConfigFails
  \/ NoMoreReloads
  \/ \E s \in Services : Reload(s) \/ ReloadFails(s)
  \/ StatusUpdate \/ StatusUpdateConflict \/ StatusUpdateFails

Environment ==
  \/ UserEdit \/ UserDelete \/ UserCreate \/ NodesChange
  \/ OtherWrite \/ PeerRegisters
  \/ \E f \in Files : AdminEdit(f)
  \/ Crash \/ Reboot

Next ==
  \/ ReconcileStep
  \/ CacheSync \/ NodeSync \/ RetryDue \/ Resync
  \/ Environment

Spec == Init /\ [][Next]_vars

\* The worker, the watches and the rate limiter make progress; users, faults and
\* the ten-hourly resync are not relied on.
Fairness ==
  /\ WF_vars(ReconcileStep)
  /\ WF_vars(CacheSync)
  /\ WF_vars(NodeSync)
  /\ WF_vars(RetryDue)

FairSpec == Spec /\ Fairness

\* The hand-over from a bootstrap to the controller.
BootstrapSpec == BootstrapInit /\ [][Next]_vars

-------------------------------------------------------------------------------
PCs == {"idle", "init", "file", "write", "reload", "status"}

\* Only rendered texts reach the status, the disk and the services: the outcome of a failed
\* rendering is never hashed, written or reloaded, and RenderConfig's error ends the handling
\* of its file.
TypeOK ==
  /\ api \in Objects /\ nodes \in NodeVersions
  /\ cache \in Objects /\ nodeCache \in NodeVersions
  /\ dirty \in BOOLEAN /\ retry \in BOOLEAN
  /\ pc \in PCs
  /\ idx \in 1..(Len(FileSeq) + 1)
  /\ pc \in {"idle", "init"} => idx = 1
  /\ pc \in {"file", "write"} => idx \in 1..Len(FileSeq)
  /\ work \in Objects /\ cred \in NodeVersions
  /\ pending \in Data \cup {NoHash}
  /\ pc = "write" <=> pending # NoHash
  /\ updated \subseteq Services
  /\ err \in BOOLEAN /\ reloadErr \in BOOLEAN
  /\ disk \in [Files -> Rendered \cup {Dirty}]
  /\ loaded \in [Files -> Rendered \cup {Dirty}]
  /\ faults \in 0..MaxFaults

\* What the current inputs render to.
Wanted(f) == Renders[api.spec][nodes][f]

Shows(c, f) == c # Dirty /\ c.data \in Wanted(f)

\* No file returns to a text it had before after having had another one in between.
NoABA(R) ==
  \A f \in Files, i, j, k \in Versions, u, v, w \in NodeVersions :
    i <= j /\ j <= k /\ u <= v /\ v <= w /\ R[i][u][f] \cap R[k][w][f] \cap Data # {}
      => R[i][u][f] = R[j][v][f] /\ R[k][w][f] = R[j][v][f]

\* Whether a file can be rendered does not depend on the order the Nodes are listed in.
Determined(R) ==
  \A f \in Files, i \in Versions, v \in NodeVersions : R[i][v][f] \subseteq Data \/ R[i][v][f] \cap Data = {}

\* CompareAndWrite trusts the recorded hash and never compares the data with the
\* disk.  That is sound only if a hash recorded for the data now wanted implies that
\* the file holds that data or is seen to be modified, whatever crashes, torn
\* writes, stale caches, conflicts and lost responses came before.
RecordedIsInstalled ==
  api.exists /\ api.own =>
    \A f \in Files : api.hashes[f] \in Wanted(f) => disk[f] = Dirty \/ Shows(disk[f], f)

\* A node that reports Ready with the hashes of the current configuration runs
\* that configuration: its services have loaded it.
ReadyIsRunning ==
  api.exists /\ api.own /\ api.status = "Ready" /\ (\A f \in Files : api.hashes[f] \in Wanted(f))
    => \A f \in Files : Shows(loaded[f], f)

\* The stamp in a file's header names the object and generation its text was rendered
\* from, whatever the caches have become between rendering and writing, on the disk as in
\* what the services have loaded.
StampIsTrue ==
  \A f \in Files : \A c \in {disk[f], loaded[f]} \ {Dirty} :
    c.gen <= api.spec /\ \E v \in 1..nodes : c.data \in Renders[c.gen][v][f]

\* No request is queued, due or running and the caches are current.
Quiet == pc = "idle" /\ ~dirty /\ ~retry /\ cache = api /\ nodeCache = nodes

\* This node keeps an entry in the status.
Registers == <>[](api.exists => api.own)

Installed == api.own /\ api.status = "Ready" /\ \A f \in Files : Shows(disk[f], f)

\* No wakeup is lost: when nothing is left to do, there is nothing left to do.
QuietIsConverged == Quiet /\ api.exists => Installed

\* Once edits and disturbances end, the node converges to the last inputs and
\* stays there.
Converges == <>[](api.exists => Installed)
===============================================================================
