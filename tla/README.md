# Verification of bootc-load-balancer-controller

The controller runs on each of two load balancer VMs. It reads a
`LoadBalancerConfig`, a credentials Secret and the cluster's Nodes from the
Kubernetes API, renders eleven configuration files, writes those that changed,
reloads the services that use them and reports in the object's status.

## The system

| Component | State | Operations | Hard because |
|---|---|---|---|
| File writer, `write_config.go` | a config file and its `.sha256` file | `RenderFinalConfig`, `WriteConfig`, `IsFileModified` | two files rewritten in place by several system calls; a crash, a failed call, an administrator or a `--render-from-file` run can come between any two |
| Reconciler, `loadbalancerconfig_controller.go`, `service.go` | local copy of the object, services to reload, errors | `Reconcile`, `ReconcileLBConfig`, `InitializeNodeStatus`, `CompareAndWrite`, `Reload` | hashes go to the status at the end of a pass, texts to the disk in the middle of it; either may be lost alone |
| Watches and queue, `SetupWithManager`, `Filter`, `*_update_handler.go` | informer caches, work queue, rate limiter | events, requeues, retries | caches lag behind the API server and each other; a lost wakeup leaves a node behind; all objects share the files of the machine |
| Status API, `loadbalancerconfig_types.go` | `Status.Nodes[hostname]` with status and `ConfigHashes` | `Status().Update` | refused when the object changed, stored though the response is lost, shared with the other load balancer |
| Addresses and rendering, `vip.go` and the `Render` functions | none | which address goes to which file | nine files computed by several functions from inputs read at several moments must agree, on one host and between two |
| Render-from-file, `render.go` | none | one pass without a cluster, with backends from flags | a second writer of the same files, and the state a new controller starts from |
| Process setup, `cmd/main.go` | flags | start of a process | the flags choose the namespace, the network and the role |

`Reconcile` calls `ReconcileLBConfig`, which renders each file and passes it to
`CompareAndWrite`. That function writes only if the disk is not intact (its
`.sha256` file disagrees) or the hash *recorded in the status* differs from the
new text. It never compares the text with the disk. Most of the properties here
ask whether that shortcut is sound.

## Modules

| Module | What it is |
|---|---|
| `ManagedFile` | abstract promise of a config file and its digest: intact and holding a rendering some writer was installing, or `Dirty` |
| `ConfigWriter` | `write_config.go` per system call, any number of writers; implements `ManagedFile` |
| `ConfigWriterProofs` | theorems about it |
| `Reconciler` | the reconcile loop of one node: API server, caches, queue, services, and a disk whose files are intact or `Dirty`, as `ManagedFile` has them |
| `MCReconciler` | its instances |
| `ReconcilerProofs` | theorems about it: types, recorded hashes, stamps |
| `SettledProofs` | theorems about what it reaches: the files at rest, the services behind a recorded hash |
| `Watches` | the watches, the queue and the worker of one node for several objects in several namespaces |
| `MCWatches` | its instances |
| `WatchesProofs` | theorems about it |
| `Rendering` | addresses in the rendered files of both hosts, from the API or from a file |
| `MCRendering` | its instances |
| `RenderingProofs` | theorems about it |

### ConfigWriter

`content` and `digest` are the two files. Each writer has a program counter whose values
are the system calls of `WriteConfig`: `OpenConfig` (`MkdirAll` and `OpenFile` with
`O_TRUNC`), `WriteString`, `CloseConfig`, `OpenDigest`, `WriteDigest`, `CloseDigest`.
Each can fail, `Crash` ends a writer anywhere, and `AdminEdit` changes, replaces or
removes a file. `linked` tells whether the file a writer has open is still the one of
that name; if not, nobody sees what it writes. A digest is represented by what it is the
digest of (no collisions). `disturbed` is a history variable, used only by
`SuccessIsInstalled`. `file` and `cfg` of a writer that has not called `WriteConfig` are
arbitrary.

This is the only module in which `--render-from-file` runs *beside* a controller. The
pass of such a run leaves intact files whose texts no status records, and
`CompareAndWrite` never compares a text with the disk, so that a controller with
matching hashes leaves them as they are. `Reconciler` has one writer: none of its
properties says anything about that case, and `RecordedIsInstalled` would be false in it.

### Reconciler

Inputs are version numbers: `spec` counts contents of the object, `nodes` those of
Nodes and Secret together. The constant `Renders` says what each file renders to
for each pair: a text, `RenderError` or `RenderPanic`. The worker is a program
counter with one step per point where something else can happen:

| `pc` | Actions | Code |
|---|---|---|
| `idle` | `Get`, `GetNotFound`, `GetSecretFails` | `Reconcile`, 59-73 |
| `init` | `InitializeNodeStatus`, `...Fails`, `...Panics` | 213-242 |
| `file` | `RenderFails`, `RenderPanics`, `CompareEqual`, `CompareDifferent` | 205-263 |
| `write` | `WriteConfig`, `WriteConfigFails` | `write_config.go` |
| `reload` | `Reload`, `ReloadFails`, `NoMoreReloads` | 82-96, `service.go` |
| `status` | `StatusUpdate`, `...Conflict`, `...Fails` | 98-105 |

`dirty` is the deduplicating work queue of the one key and `retry` the rate
limiter. Two facts of the code matter: the Nodes are read from the cache when
HAProxy's files are rendered, the Secret once at the start (`CredFiles`); and a
failed reload is put in the status but not returned. `Fault(class)` lets the
environment disturb at most `MaxFaults` times, with the classes a configuration
selects.

`ReconcileLBConfig` handles the files one after the other in straight-line code; `idx`
says at which of them a pass is. A failed `WriteConfig` (`FailedWrites`) leaves the old
file if the open failed, a `Dirty` one if a later call did, and a complete one if that
was the last close. Whatever failed, the new hash is already in the local copy.

`Init` is a new machine. `BootstrapInit` is the machine on which `--render-from-file`
ran before: files are intact, with a text rendered from the backends of the command
line (`LocalText`), or missing, where that run failed or panicked; the services run with
them, and the status has no entry. HAProxy's text may be one of several for equal inputs
(`ReorderedRenders` in `MCReconciler`), since the cache lists Nodes in arbitrary
order. Such a file can be rewritten and its service reloaded in every pass, and
since each pass changes the recorded hash, its own status update is the event that
starts the next one. `MaxRV` bounds the versions of the object for that reason.

### Watches

`Reconciler` has one object and the steps of a pass; `Watches` has several objects in
several namespaces and a pass in two steps (read and write; update the status). There is
one file. Its text is the contents of the spec, the Secret and the Nodes it was rendered
from, and a hash is represented by its text: inputs that return to what they were have
their old hash again, as in the code, and two objects with equal contents have equal
texts. Versions (`rv`) only tell events and refused updates apart. Rendering always
succeeds here, and the order in which Nodes are listed is left out. `WriteConfigFails`
has the three outcomes of `Reconciler`'s. Each of the three caches follows the API
server on its own. `LBConfigSync`, `SecretSync` and `NodeSync` are an event each:
`Filter` passes or drops it, and the handlers of Nodes and Secrets queue whatever
`queueAllLBConfigs` lists, which is every object in the cache, of any namespace. Of the
Nodes, `labels` (which stands for their existence too) is told from `rest`, because an
update that changes no label queues nothing. `Restart` ends the process anywhere,
`CrashedDisks` being what an unfinished pass leaves, and starts a new one whose initial
lists queue the objects that pass `Filter`.

### Rendering

A text is the set of addresses it shows; of HAProxy's servers that is the address too,
since the templates number them (`server_{{ $index }}`) and print no `Backend.Name`. A
pass of `ReconcileLBConfig` renders all nine files that show one, in order; a file whose
rendering fails keeps its old text, a panic ends the pass. It is started by the
controller (`Reconcile`, with the Secret and the Nodes' first internal addresses) or by
`RenderFile`, with the credentials of the input file and the backends of the command
line, on either of two hosts with the same `--cluster-network`, one of them with
`--primary`. The route table is read four times in a pass and each lookup can fail on
its own; `RenderConntrackdConfig` takes that for success and returns the empty text.
`RouteMatches` says that a route is only found for a flag without host bits, although
`internalIPs` masks it.

## What is checked

| Run | States | Shows |
|---|---|---|
| `two_writers` | 176k | `ConfigWriter` implements `ManagedFile` with two writers; a successful undisturbed call has installed its text |
| `recorded` | 2.5M | `RecordedIsInstalled`: a recorded hash of the wanted text means the text is on disk or its absence is noticed; `StampIsTrue`: the generation in the header of a file, on disk or loaded by a service, is one whose spec gave this text; `TypeOK`: nothing of a failed rendering is recorded, written or loaded |
| `settled` | 1.8M | over specs that fail or panic, a late Secret, reordered Nodes and a bootstrapped machine, with crashes, conflicts, lost responses, failed lookups, deletions and a registered peer: `QuietIsConverged`, nothing queued, due, running or unseen means Ready and installed; `ReadyIsRunning`, Ready with current hashes means the services loaded the current files |
| `converges` | 407k | `Converges` without the resync, after crashes, failed writes, conflicts, lost responses, failed lookups |
| `watches` | 791k | two objects, one of them outside the watched namespace, with inputs that may return to what they were: `EveryObjectIsServed`, no wakeup is lost; `Served`, with the resync all inputs are recorded and the file intact in the end. Whose text is in the file, or which of an object's texts, neither says: `namespaces`, `revert` and `open_failed` are the counterexamples |
| `addresses` | 270k | frontends and SNAT use held addresses, the gateway is in its network, the public files agree, the two hosts are VRRP peers and render the same services from the same inputs |

Runs that TLC must refute, each a disagreement of the code with its own
documentation (`findings` in `PROJECT.json` has the quotations):

| Run | Refuted | Why |
|---|---|---|
| `second_lb` | `Registers` | `InitializeNodeStatus` adds an entry only while the map is nil: the load balancer that registers second panics forever |
| `reload_failed` | `ReadyIsRunning` | after a failed reload the next pass finds nothing changed and reports Ready |
| `revert` | `RecordedIsInstalled` | an edit reverted while a pass runs leaves the edit's text beside the reverted spec's hash |
| `open_failed` | `RecordedIsInstalled` | the hash is recorded before the write; a file that cannot be opened keeps its old text, and the retry finds an intact file and an equal hash |
| `namespaces` | `FilesFollowTheFlag` | an event of a Node or Secret queues the objects of all namespaces; one outside the watched namespace overwrites the files, and the watched object's hash still matches |
| `optional` | `OptionalFieldsMayBeOmitted` | `RenderFirewallDirectRules` dereferences a nil NAT, `RenderHAProxyIngressConfig` a nil `IngressBackend` |

Some disturbances are left out of a run because the code does not withstand them:

- `open`, a config file that cannot be opened, from all runs of `Reconciler` but
  `open_failed`, which shows why. `Watches` has it.
- `reload` from `settled` and `converges`: besides what `reload_failed` shows, a
  failed write followed by a failed reload in the retry leaves the status
  unchanged at Failed, so there is no update event and no retry, and the node
  waits for the resync.
- `write` from `settled`: if only the last close of `WriteConfig` fails, file and
  digest are complete, the service is not reloaded and the retry reports Ready.
- `reboot`, `render` and `edit` from `settled`, because of `ReadyIsRunning`: the status is
  Ready with wanted hashes until the next update, and a service can load a damaged file
  before it. A reboot loads what a crash in the middle of a write, or an administrator,
  left. And if after such a crash the rendering of the file fails once, while another
  file of its service is rewritten, the reload for that one loads the torn one.
- `peer` where `second_lb` makes the property false.

One more case is exempt from a property: if only `RenderConntrackdConfig` finds no route,
it returns an empty text and no error (`conntrackd.go:20`), the empty file is installed and
the node may become Ready. `PairAgrees` speaks of conntrackd only after passes in which
every lookup succeeded. The repository does not say what should happen, so there is
nothing for a run to refute.

Three more disagreements need no state to be reached and have no run: an empty
`--watch-namespace` selects no object, by its help text all of them
(`loadbalancerconfig_controller.go:269`, `main.go:103`); `RenderFile` parses the ingress
backends from the API's flag (`render.go:47`, `main.go:98`); and `--render-from-file`
needs a kubeconfig, because the manager is made first (`main.go:180`). The manifest
`config/manager/manager.yaml` turns leader election on, under which only one of the
two load balancers would be configured.

### Bounds

- `Reconciler`: three files over two services, one that depends on Nodes, one on the
  spec only, one on the Secret; two share a service. Any interaction between files is
  through `updated`, `err` and the hashes, which these three exercise.
- Two versions of each input (three in `settled` and `revert`) and two disturbances,
  one in `open_failed`. A stale pass needs one older version; the second disturbance
  strikes the recovery from the first.
- `MaxRV` is 12 in `settled`, enough for three specs, two disturbances and several
  rewrites in changed order, and out of reach elsewhere.
- `ConfigWriter`: one file and two writers; files do not share state. Two texts and
  two generations, so that a text may be rewritten with another stamp.
- `Watches`: an object on either side of the filter, a Secret in each namespace, two
  contents of everything, and two changes or disturbances, so that each can meet the
  handling of another one.
  `namespaces` needs none, only a resync.
- `Rendering`: addresses of four bits, two IPv4 and one IPv6 address, a network at
  the end of the address space, one inside it and one whose flag has host bits set;
  two edits, changes of a Node, failed lookups or bootstraps.

### Fairness

`Reconciler`'s `FairSpec` assumes weak fairness of the worker (one goroutine that
takes the request when there is one), of the two watches and of the rate limiter's
timer. Users and disturbances have none, and their number is bounded, which is what
"once disturbances end" means. No fairness is assumed of success: an action that
fails is a disturbance.

`Watches`' `FairSpec` has the same, per object and namespace, and two additions. The
queue is first in, first out, so that a request is not passed over for ever while
others come back; as the queue is a set here, `Pass` of each object is strongly
fair. And the informer's resync of the objects, ten-hourly by default, is weakly fair,
since `Served` is about what only the resync finds.

## What is proved

Every invariant and the refinement that the passing runs check are theorems, for every
value of the constants that satisfies the module's assumptions. These say that sentinels
differ from data and that sequences and functions have their types. One assumption is of
another kind: `PowerAssumption` of `Rendering` states facts of arithmetic about 2^n (a
network's size is positive, divides the address space, and is at least two with one host
bit and four with two). The prover has no theory of `^`; TLC evaluates them in each run.

What a model leaves out is left out of its theorems as well: digests do not collide, a
pass of `Reconciler` and `Watches` is the only writer of its files, and rendering in
`Watches` succeeds and depends on the contents only. "None" below means none beside that.

| Theorem | States | Hypotheses |
|---|---|---|
| `ConfigWriterProofs!TypeCorrect`, `SuccessCorrect`, `WriterRefinement` | `TypeOK`, `SuccessIsInstalled`, `ImplementsManagedFile` | none |
| `ReconcilerProofs!TypeCorrect`, `StampCorrect` | `TypeOK`, `StampIsTrue` | none |
| `ReconcilerProofs!RecordedCorrect`, `SettledProofs!RecordedAfterBootstrap` | `RecordedIsInstalled`, from `Init` and from `BootstrapInit` | `NoABA(Renders)`, no `open` |
| `SettledProofs!ConvergedCorrect` | `QuietIsConverged` | `NoABA(Renders)`, `Silent = {}`, no `open`, `reload`, `edit` |
| `SettledProofs!ReadyCorrect` | `ReadyIsRunning` | `NoABA(Renders)`, `Determined(Renders)`, `ConfigRootIsSlash`, no `open`, `write`, `render`, `reload`, `reboot`, `edit` |
| `WatchesProofs!ServedCorrect` | `EveryObjectIsServed` | none |
| `RenderingProofs!TypeCorrect`, `FrontendsCorrect`, `SnatCorrect`, `PublicCorrect`, `PairCorrect` | `TypeOK`, `FrontendsAreHeld`, `SnatIsHeld`, `PublicFilesAgree`, `PairAgrees` | none |

"No `open`" means that `Faults` has no such class. Each inductive invariant below was
first checked by TLC, on the instance of the run that checks the property or on a larger
one.

### ConfigWriterProofs

`SuccessCorrect` rests on `ProgressInv`, which says, for a writer nobody disturbs, what
the two files hold at each of its system calls. `WriterRefinement` goes step by step: a
call that leaves the digest of the text in place of another is an abstract `Install`,
every other change of a file makes it `Dirty` or keeps it.

### ReconcilerProofs

Both hypotheses of `RecordedCorrect` are needed: the run `revert` is the counterexample
without the first, and `open_failed` the one without the second. `NoABA` says that no
text returns after another one came in between; equal inputs may have several texts,
if versions that share one of them share them all. The property is not inductive,
since a stale pass may be overwriting a newer text at the moment. `IndInv` adds:

- `Lag`: no cache and no local copy is newer than the API server;
- `Provenance`: every text on disk and every recorded hash was rendered from
  versions of the inputs at most as new as the current ones;
- `PendingIsRendered`: the text in hand is what the local copy renders to;
- `RecordedGood`, `WorkGood`: the property itself, for the stored object and for the
  local copy that is going to be stored.

The key step: a pass that overwrites a file with an older text T while a
wanted hash is recorded would need T's inputs to lie between two inputs with the
wanted text, and then `NoABA` makes T the wanted text.

`StampCorrect` needs neither hypothesis. Its invariant follows a text from rendering to
disk to service: the text in hand is one of the local copy's generation, so is what
`WriteConfig` stamps, torn or complete, and versions never decrease (`StampedLater`).

### SettledProofs

`IndInv` holds from `BootstrapInit` too. `ConvergedCorrect` adds `RestInv`:

- `PassIsFresh`: while a request runs that is not queued again, the pass works on what
  the caches have, for any change of them would have queued it;
- `PassIsWhole`: reloads and a status update without error come after all files;
- `PassIsSound`: in such a pass without an error so far, every file handled is intact
  and its new hash is one of its current texts;
- `RestIsSound`: the same of the stored object when nothing is queued or due.

Then `IndInv` turns "intact and rightly recorded" into "installed". The hypotheses name
what the code waits out until the next resync: a change of Nodes without an event
(`Silent`), an administrator's edit, and what "Some disturbances are left out" says of
`open` and `reload`. Crashes, reboots, torn writes and renderings that fail once are
allowed, beyond what `settled` checks.

`ReadyCorrect` adds `LoadedInv`, which follows a service from the write to the reload:

- `RecordedLoaded`: the property for the stored hashes, whatever the status;
- `WorkLoaded`: a wanted hash in the local copy means that the service has loaded the text
  or is in `updated`, the set to reload;
- `HandledIntact`: a file handled with a wanted hash is intact until the reloads, so that
  a reload on behalf of another file of the service loads a whole one;
- `Untouched`: the hashes of files not reached yet are the stored ones;
- `ReloadsEnd`: nothing is left in `updated` when the status is written.

`Determined` says that whether a file can be rendered does not depend on the order of the
Nodes; in the code it depends on the spec, the Secret and the routes. Reloads are made
only if the configuration root is `/`. The classes excluded are those with a counterexample.

### WatchesProofs

`ServedCorrect` rests on `ServedInv`: `Lag` (a cached object is not newer than the API
server's and equal to it at the same `resourceVersion`, and the worker's copy is not newer
than the cache), and two statements about each watched object for which nothing is queued
or due. `InHand`: if the worker has it, at the cached version, then the hash it is about
to record is that of the cached inputs. `Awake`: if the worker does not have it and no
event of it is on its way, that hash is recorded. At rest the caches are the cluster.

### RenderingProofs

`RenderInv` says that after a pass that ended well each text is what its `Render` function
returned for the inputs of that pass, whatever was edited since and whatever the
other host did. The properties are then facts about the functions of `vip.go`: what
`privateVIPs` and `publicVIPs` return covers what `getHAProxyFrontends` returns
(`PrivateFacts`, `PublicFacts`, `FrontendFacts`); one successor of a masked address stays
in its network if that has a host bit, and three do if it has two, and so do not run past
the last address (`MaskedFacts`, `GatewayFacts`, `InternalDistinct`).

## Only model-checked

- Liveness, `Converges` and `Served`: fairness and `ENABLED` are out of the prover's reach.
  `QuietIsConverged` and `EveryObjectIsServed`, which are proved, are their safety half:
  where the system comes to rest, it is where it should be.
- The six refutations: a counterexample is TLC's to find.

## Not modelled

- The text of the templates, MAC addresses, the addresses in the status entry
  (`publicIP`, `privateIP`, `vrrpIP`), the sysctl file and the public connection,
  which show none; `Conditions`, which no code writes.
- Power loss: nothing is synced, so both files of a pair may revert to the old
  ones, which agree. What a file system keeps is outside the code.
- A load balancer reinstalled under its old hostname: the status has the hashes of
  its predecessor, and the intact files of the new bootstrap are taken for the texts
  these stand for. `BootstrapInit` is about objects without an entry.
- Two reconcilers of different hosts on one object: the second one never gets
  past `InitializeNodeStatus` (`second_lb`), so that `PeerRegisters` is all there is of
  the first.
- How `RenderFile` tells the documents of its input apart: each is decoded into both
  objects and the stamp names the last one.
- Metrics, webhooks, probes and leader election in `main.go`; generated code and
  manifests.

## Plan

1. Done: `ManagedFile`, `ConfigWriter`, `Reconciler`, `Rendering`, `Watches`, their
runs, and    the theorems above. 2. The refuted properties with the exact condition
under which they hold: a pass panics    only if NAT or the ingress backend is omitted
(`optional`), the files follow the flag    if all objects are in the watched namespace
(`namespaces`). 3. `--render-from-file` beside a running controller as a second writer
of `Reconciler`'s    disk, with the condition under which its texts are replaced.
