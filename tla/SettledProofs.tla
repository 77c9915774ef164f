---------------------------- MODULE SettledProofs -----------------------------
(***************************************************************************)
(* Proofs about what Reconciler reaches: the files at rest and the         *)
(* services behind a recorded hash, on a new or a bootstrapped machine.    *)
(***************************************************************************)
EXTENDS ReconcilerProofs

-------------------------------------------------------------------------------
(* The hand-over from a bootstrap.                                             *)

LEMMA WantedFacts == TypeOK => \A f \in Files : Wanted(f) \subseteq Outcomes /\ NoHash \notin Wanted(f)
<1> SUFFICES ASSUME TypeOK, NEW f \in Files PROVE Wanted(f) \subseteq Outcomes
  BY SentinelAssumption
<1>1. api.spec \in Versions /\ nodes \in NodeVersions
  BY TypeFacts
<1> QED BY <1>1, RenderAssumption DEF Wanted

LEMMA BootstrapStart == BootstrapInit => TypeOK /\ IndInv
<1> SUFFICES ASSUME BootstrapInit PROVE TypeOK /\ IndInv
  OBVIOUS
<1> USE DEF BootstrapInit, Unconfigured
<1>1. api.rv = 1 /\ api.spec = 1 /\ \A f \in Files : api.hashes[f] = NoHash
  BY DEF Created, Absent
<1>2. TypeOK
  <2>1. api \in Objects /\ cache \in Objects /\ work \in Objects
    BY VersionFacts, ObjectFacts
  <2>2. idx \in 1..(Len(FileSeq) + 1)
    BY FileFacts
  <2>3. disk \in [Files -> Rendered \cup {Dirty}] /\ loaded \in [Files -> Rendered \cup {Dirty}]
    BY RenderedFacts, VersionFacts, RenderAssumption DEF Bootstrapped
  <2> QED BY <2>1, <2>2, <2>3, VersionFacts DEF TypeOK, PCs
<1>3. Lag
  BY <1>1 DEF Lag
<1>4. Provenance
  BY <1>1 DEF Provenance, Comes
<1>5. RecordedGood
  <2>1. \A f \in Files : NoHash \notin Wanted(f)
    BY <1>2, WantedFacts
  <2> QED BY <1>1, <2>1 DEF RecordedGood
<1>6. PendingIsRendered /\ WorkGood
  BY DEF PendingIsRendered, WorkGood
<1> QED BY <1>2, <1>3, <1>4, <1>5, <1>6 DEF IndInv

LEMMA BootstrapInductive ==
  ASSUME NoABA(Renders), "open" \notin Faults
  PROVE  BootstrapSpec => [](TypeOK /\ IndInv)
<1>1. TypeOK /\ IndInv /\ [Next]_vars => TypeOK' /\ IndInv'
  BY TypeStep, IndInvStep
<1> QED BY <1>1, BootstrapStart, PTL DEF BootstrapSpec

\* RecordedCorrect on a machine that --render-from-file has configured: intact files that
\* show another text than any recorded hash stands for do not mislead CompareAndWrite.
THEOREM RecordedAfterBootstrap ==
  ASSUME NoABA(Renders), "open" \notin Faults
  PROVE  BootstrapSpec => []RecordedIsInstalled
<1>1. IndInv => RecordedIsInstalled
  BY DEF IndInv, RecordedGood, Good, RecordedIsInstalled
<1> QED BY <1>1, BootstrapInductive, PTL

-------------------------------------------------------------------------------
(* Nothing is left to do at rest.                                              *)

Handled(f) == \E i \in 1..(idx - 1) : FileSeq[i] = f

Writing(f) == pc = "write" /\ f = CurrentFile

\* A pass whose request is not queued again works on what the caches have.
PassIsFresh ==
  pc # "idle" /\ ~dirty =>
    cache.exists /\ work.rv = cache.rv /\ work.spec = cache.spec /\ cred = nodeCache

\* A pass ends early only with an error.
PassIsWhole ==
  /\ pc = "reload" => idx = Len(FileSeq) + 1
  /\ pc = "status" /\ ~err => idx = Len(FileSeq) + 1
  /\ reloadErr = FALSE

Fits(h, f) == h \in Renders[work.spec][nodeCache][f]

\* The files such a pass has handled without an error are intact, with the hash of
\* what they are to show.
PassIsSound ==
  pc \notin {"idle", "init"} /\ ~dirty /\ ~err =>
    /\ pc = "write" => Fits(pending, CurrentFile)
    /\ \A f \in Files : Handled(f) /\ ~Writing(f) => disk[f] # Dirty /\ Fits(work.hashes[f], f)

\* Between the passes an event is on its way, or the last pass has recorded its success.
RestIsSound ==
  pc = "idle" /\ ~dirty /\ ~retry /\ cache.exists /\ cache = api =>
    /\ api.own /\ api.status = "Ready"
    /\ \A f \in Files : disk[f] # Dirty /\ api.hashes[f] \in Renders[api.spec][nodeCache][f]

RestInv == PassIsFresh /\ PassIsWhole /\ PassIsSound /\ RestIsSound

\* After the last file every file has been handled.
LEMMA AllHandled == idx = Len(FileSeq) + 1 => \A f \in Files : Handled(f)
<1> SUFFICES ASSUME idx = Len(FileSeq) + 1, NEW f \in Files PROVE Handled(f)
  OBVIOUS
<1>1. PICK i \in 1..Len(FileSeq) : FileSeq[i] = f
  BY FileAssumption
<1>2. i \in 1..(idx - 1)
  BY FileFacts
<1> QED BY <1>1, <1>2 DEF Handled

LEMMA HandledNext ==
  ASSUME TypeOK, pc \in {"file", "write"}, FileDone
  PROVE  \A f \in Files : Handled(f)' <=> Handled(f) \/ f = CurrentFile
<1>1. idx \in Nat /\ idx >= 1 /\ idx' = idx + 1
  BY DEF TypeOK, FileDone
<1>2. 1..(idx' - 1) = (1..(idx - 1)) \cup {idx}
  BY <1>1
<1> QED BY <1>2 DEF Handled, CurrentFile

LEMMA FileDoneWhole ==
  ASSUME TypeOK, pc \in {"file", "write"}, FileDone
  PROVE  pc' \in {"file", "reload"} /\ (pc' = "reload" => idx' = Len(FileSeq) + 1)
  BY FileDoneTypes DEF FileDone

\* Steps after which the request is queued or due again, or a pass has met an error.
LEMMA ReturnKeepsRest ==
  ASSUME pc' = "idle", retry' = TRUE \/ dirty' = TRUE, ResetLocals PROVE RestInv'
<1>1. PassIsFresh' /\ PassIsSound' /\ RestIsSound'
  BY DEF PassIsFresh, PassIsSound, RestIsSound
<1>2. PassIsWhole'
  BY DEF PassIsWhole, ResetLocals
<1> QED BY <1>1, <1>2 DEF RestInv

LEMMA QueuedKeepsRest ==
  ASSUME RestInv, dirty' = TRUE, UNCHANGED <<pc, local>> PROVE RestInv'
<1>1. PassIsFresh' /\ PassIsSound' /\ RestIsSound'
  BY DEF PassIsFresh, PassIsSound, RestIsSound
<1>2. PassIsWhole'
  BY DEF RestInv, PassIsWhole, local
<1> QED BY <1>1, <1>2 DEF RestInv

\* Another version of the object, or of the Nodes: the caches will follow.
LEMMA InputKeepsRest ==
  ASSUME TypeOK, IndInv, RestInv, api' = api \/ api'.rv = api.rv + 1,
         UNCHANGED <<cache, nodeCache, dirty, retry, pc, local, disk>>
  PROVE  RestInv'
<1> USE DEF local
<1>1. PassIsFresh' /\ PassIsWhole'
  BY DEF RestInv, PassIsFresh, PassIsWhole
<1>2. PassIsSound'
  BY DEF RestInv, PassIsSound, Fits, Handled, Writing, CurrentFile
<1>3. RestIsSound'
  <2>1. CASE api' = api
    BY <2>1 DEF RestInv, RestIsSound
  <2>2. CASE api'.rv = api.rv + 1
    <3>1. cache # api'
      BY <2>2, TypeFacts DEF IndInv, Lag
    <3> QED BY <3>1 DEF RestIsSound
  <2> QED BY <2>1, <2>2
<1> QED BY <1>1, <1>2, <1>3 DEF RestInv

LEMMA NodeSyncKeepsRest ==
  ASSUME Silent = {}, TypeOK, IndInv, RestInv, NodeSync PROVE RestInv'
<1> USE DEF local, input
<1>1. cache.exists => dirty' = TRUE
  <2>1. nodes \in (nodeCache + 1)..nodes
    BY TypeFacts DEF NodeSync, IndInv, Lag
  <2> QED BY <2>1 DEF NodeSync, queueAllLBConfigs
<1>2. UNCHANGED <<cache, pc, local>> /\ (dirty => dirty' = TRUE) /\ (~dirty /\ ~cache.exists => dirty' = dirty)
  BY DEF NodeSync, queueAllLBConfigs, TypeOK
<1>3. CASE cache.exists \/ dirty
  BY <1>1, <1>2, <1>3, QueuedKeepsRest DEF TypeOK
<1>4. CASE ~cache.exists /\ ~dirty
  <2>1. pc = "idle"
    BY <1>4 DEF RestInv, PassIsFresh
  <2> QED BY <1>2, <1>4, <2>1 DEF RestInv, PassIsFresh, PassIsWhole, PassIsSound, RestIsSound
<1> QED BY <1>3, <1>4

\* Get, InitializeNodeStatus and its failure: no file has been handled yet.
LEMMA StartKeepsRest ==
  ASSUME TypeOK, IndInv, RestInv, Get \/ InitializeNodeStatus \/ InitializeNodeStatusFails PROVE RestInv'
<1> USE DEF input, caches, machine
<1>1. CASE Get
  BY <1>1 DEF Get, RestInv, PassIsFresh, PassIsWhole, PassIsSound, RestIsSound
<1>2. CASE InitializeNodeStatus \/ InitializeNodeStatusFails
  <2>1. /\ pc = "init" /\ UNCHANGED <<api, cache, nodeCache, dirty, retry, idx, cred, reloadErr, disk>>
        /\ pc' = "file" \/ (pc' = "status" /\ err' = TRUE)
    BY <1>2 DEF InitializeNodeStatus, InitializeNodeStatusFails
  <2>2. work'.rv = work.rv /\ work'.spec = work.spec
    BY <1>2 DEF InitializeNodeStatus, InitializeNodeStatusFails, WithNodesMap, TypeOK, Objects
  <2>3. PassIsFresh' /\ PassIsWhole' /\ RestIsSound'
    BY <2>1, <2>2 DEF RestInv, PassIsFresh, PassIsWhole, RestIsSound
  <2>4. idx' = 1
    BY <2>1 DEF TypeOK
  <2>5. PassIsSound'
    <3>1. \A f \in Files : ~Handled(f)'
      BY <2>4 DEF Handled
    <3> QED BY <2>1, <3>1 DEF PassIsSound
  <2> QED BY <2>3, <2>5 DEF RestInv
<1> QED BY <1>1, <1>2

\* A file is done, with an error or with its hash recorded and its file intact.
LEMMA FileKeepsRest ==
  ASSUME TypeOK, RestInv, pc \in {"file", "write"}, FileDone,
         UNCHANGED <<api, cache, nodeCache, dirty, retry, work, cred, reloadErr>>,
         \/ err' = TRUE
         \/ /\ err' = err /\ (~dirty => disk'[CurrentFile] # Dirty /\ Fits(work.hashes[CurrentFile], CurrentFile))
            /\ \A f \in Files : f # CurrentFile => disk'[f] = disk[f]
  PROVE  RestInv'
<1>1. PassIsFresh' /\ PassIsWhole' /\ RestIsSound'
  BY FileDoneWhole DEF RestInv, PassIsFresh, PassIsWhole, RestIsSound
<1>2. PassIsSound'
  <2>1. pc' \in {"file", "reload"}
    BY FileDoneWhole
  <2> SUFFICES ASSUME ~dirty, err' # TRUE, NEW f \in Files, Handled(f)'
               PROVE  disk'[f] # Dirty /\ Fits(work.hashes[f], f)
    BY <2>1 DEF PassIsSound, Fits, TypeOK
  <2>2. Handled(f) \/ f = CurrentFile
    BY HandledNext
  <2>3. CASE f = CurrentFile
    BY <2>3
  <2>4. CASE f # CurrentFile
    BY <2>2, <2>4 DEF RestInv, PassIsSound, Writing
  <2> QED BY <2>3, <2>4
<1> QED BY <1>1, <1>2 DEF RestInv

LEMMA FreshRendering ==
  ASSUME RestInv, pc # "idle", ~dirty, NEW f, NEW data \in Renderings(f)
  PROVE  Fits(data, f)
  BY DEF RestInv, PassIsFresh, Renderings, InputVersion, Fits

LEMMA CompareKeepsRest ==
  ASSUME TypeOK, RestInv, CompareEqual \/ CompareDifferent PROVE RestInv'
<1> USE DEF input, caches, machine
<1>1. pc = "file" /\ CurrentFile \in Files
  BY CurrentFileType DEF CompareEqual, CompareDifferent
<1>2. CASE CompareEqual
  <2>1. ~dirty => disk[CurrentFile] # Dirty /\ Fits(work.hashes[CurrentFile], CurrentFile)
    BY <1>1, <1>2, FreshRendering DEF CompareEqual, NeedsNoWrite, IsFileModified
  <2> QED BY <1>1, <1>2, <2>1, FileKeepsRest DEF CompareEqual
<1>3. CASE CompareDifferent
  <2>1. PICK data \in Renderings(CurrentFile) \cap Data :
          /\ work' = [work EXCEPT !.hashes[CurrentFile] = data] /\ pending' = data
          /\ pc' = "write"
          /\ UNCHANGED <<api, cache, nodeCache, dirty, retry, idx, cred, err, reloadErr, disk>>
    BY <1>3 DEF CompareDifferent
  <2>2. /\ work'.rv = work.rv /\ work'.spec = work.spec
        /\ \A f \in Files : f # CurrentFile => work'.hashes[f] = work.hashes[f]
    BY <1>1, <2>1 DEF TypeOK, Objects
  <2>3. PassIsFresh' /\ PassIsWhole' /\ RestIsSound'
    BY <1>1, <2>1, <2>2 DEF RestInv, PassIsFresh, PassIsWhole, RestIsSound
  <2>4. ~dirty => Fits(data, CurrentFile)
    BY <1>1, FreshRendering
  <2>5. PassIsSound'
    <3>1. CurrentFile' = CurrentFile /\ \A f \in Files : Handled(f)' <=> Handled(f)
      BY <2>1 DEF CurrentFile, Handled
    <3>2. ~dirty => Fits(pending, CurrentFile)'
      BY <2>1, <2>2, <2>4, <3>1 DEF Fits
    <3>3. ASSUME ~dirty, ~err, NEW f \in Files, Handled(f)', ~Writing(f)'
          PROVE  disk'[f] # Dirty /\ Fits(work.hashes[f], f)'
      <4>1. f # CurrentFile /\ Handled(f) /\ ~Writing(f)
        BY <1>1, <2>1, <3>1, <3>3 DEF Writing
      <4>2. disk[f] # Dirty /\ Fits(work.hashes[f], f)
        BY <1>1, <3>3, <4>1 DEF RestInv, PassIsSound
      <4> QED BY <2>1, <2>2, <4>1, <4>2 DEF Fits
    <3> QED BY <2>1, <3>2, <3>3 DEF PassIsSound
  <2> QED BY <2>3, <2>5 DEF RestInv
<1> QED BY <1>2, <1>3

LEMMA WriteKeepsRest ==
  ASSUME TypeOK, IndInv, RestInv, RenderFails \/ WriteConfig \/ WriteConfigFails PROVE RestInv'
<1> USE DEF input, caches, machine
<1>1. CASE RenderFails \/ WriteConfigFails
  BY <1>1, FileKeepsRest DEF RenderFails, WriteConfigFails
<1>2. CASE WriteConfig
  <2>1. pc = "write" /\ disk' = [disk EXCEPT ![CurrentFile] = RenderFinalConfig(work.spec, pending)]
        /\ CurrentFile \in Files
    BY <1>2, CurrentFileType DEF WriteConfig
  <2>2. disk'[CurrentFile] # Dirty /\ \A f \in Files : f # CurrentFile => disk'[f] = disk[f]
    <3>1. RenderFinalConfig(work.spec, pending) \in Rendered
      BY <2>1, RenderedFacts DEF TypeOK, Objects
    <3> QED BY <2>1, <3>1, SentinelAssumption DEF TypeOK
  <2>3. ~dirty /\ ~err => Fits(work.hashes[CurrentFile], CurrentFile)
    BY <2>1 DEF IndInv, PendingIsRendered, RestInv, PassIsSound
  <2>4. CASE err
    BY <1>2, <2>1, <2>4, FileKeepsRest DEF WriteConfig, TypeOK
  <2>5. CASE ~err
    BY <1>2, <2>1, <2>2, <2>3, <2>5, FileKeepsRest DEF WriteConfig
  <2> QED BY <2>4, <2>5
<1> QED BY <1>1, <1>2

\* The reloads touch no file.
LEMMA ReloadKeepsRest ==
  ASSUME TypeOK, RestInv, NoMoreReloads \/ \E s \in Services : Reload(s) PROVE RestInv'
<1>1. /\ pc = "reload" /\ pc' \in {"reload", "status"}
      /\ UNCHANGED <<api, cache, nodeCache, dirty, retry, idx, work, cred, err, reloadErr, disk>>
  BY DEF NoMoreReloads, Reload, input, caches, local, machine
<1>2. PassIsFresh' /\ PassIsWhole' /\ RestIsSound'
  BY <1>1 DEF RestInv, PassIsFresh, PassIsWhole, RestIsSound
<1>3. PassIsSound'
  BY <1>1 DEF RestInv, PassIsSound, Handled, Writing, Fits
<1> QED BY <1>2, <1>3 DEF RestInv

\* What the status update stores is news to the cache, or it was stored before.
LEMMA StoredFacts ==
  ASSUME TypeOK
  PROVE  \/ StatusStored.rv = api.rv + 1
         \/ /\ StatusStored = api /\ api.own /\ api.status = FinalStatus
            /\ api.hashes = work.hashes
<1> DEFINE new == [api EXCEPT !.own = TRUE, !.status = FinalStatus, !.hashes = work.hashes]
<1>1. new.own = TRUE /\ new.status = FinalStatus /\ new.hashes = work.hashes /\ new.rv = api.rv
  BY DEF TypeOK, Objects
<1>2. [new EXCEPT !.rv = @ + 1].rv = api.rv + 1
  BY DEF TypeOK, Objects
<1>3. StatusStored = IF new = api THEN api ELSE [new EXCEPT !.rv = @ + 1]
  BY DEF StatusStored
<1> HIDE DEF new
<1> QED BY <1>1, <1>2, <1>3

LEMMA StatusKeepsRest ==
  ASSUME TypeOK, IndInv, RestInv, StatusUpdate PROVE RestInv'
<1>1. /\ pc = "status" /\ work.rv = api.rv /\ api.exists /\ api' = StatusStored
      /\ pc' = "idle" /\ retry' = (retry \/ err) /\ ResetLocals
      /\ UNCHANGED <<nodes, cache, nodeCache, dirty, disk>>
  BY DEF StatusUpdate, UpdateAccepted, Return, caches, machine
<1>2. CASE dirty \/ retry \/ err
  <2>1. retry' = TRUE \/ dirty' = TRUE
    BY <1>1, <1>2 DEF TypeOK
  <2> QED BY <1>1, <2>1, ReturnKeepsRest
<1>3. CASE ~dirty /\ ~retry /\ ~err
  <2>1. PassIsFresh' /\ PassIsSound' /\ PassIsWhole'
    BY <1>1 DEF PassIsFresh, PassIsSound, PassIsWhole, ResetLocals
  <2>2. cache = api /\ work.spec = api.spec
    BY <1>1, <1>3 DEF IndInv, Lag, RestInv, PassIsFresh
  <2>3. \A f \in Files : disk[f] # Dirty /\ work.hashes[f] \in Renders[api.spec][nodeCache][f]
    <3>1. \A f \in Files : Handled(f)
      BY <1>1, <1>3, AllHandled DEF RestInv, PassIsWhole
    <3> QED BY <1>1, <1>3, <2>2, <3>1 DEF RestInv, PassIsSound, Writing, Fits
  <2>4. FinalStatus = "Ready"
    BY <1>3 DEF FinalStatus, RestInv, PassIsWhole
  <2>5. CASE api'.rv = api.rv + 1
    <3>1. cache # api'
      BY <2>2, <2>5, TypeFacts
    <3>2. RestIsSound'
      BY <1>1, <3>1 DEF RestIsSound
    <3> QED BY <2>1, <3>2 DEF RestInv
  <2>6. CASE api' = api /\ api.own /\ api.status = FinalStatus /\ api.hashes = work.hashes
    <3>1. RestIsSound'
      BY <1>1, <2>3, <2>4, <2>6 DEF RestIsSound
    <3> QED BY <2>1, <3>1 DEF RestInv
  <2> QED BY <1>1, <2>5, <2>6, StoredFacts
<1> QED BY <1>2, <1>3

LEMMA CrashKeepsRest ==
  ASSUME TypeOK, Crash \/ Reboot PROVE RestInv'
<1>1. pc' = "idle" /\ ResetLocals /\ cache' = api /\ api' = api /\ dirty' = api.exists
  BY DEF Crash, Reboot, Restarted, input
<1>2. PassIsFresh' /\ PassIsSound' /\ PassIsWhole'
  BY <1>1 DEF PassIsFresh, PassIsSound, PassIsWhole, ResetLocals
<1>3. RestIsSound'
  BY <1>1 DEF RestIsSound
<1> QED BY <1>2, <1>3 DEF RestInv

LEMMA RestStep ==
  ASSUME Silent = {}, Faults \cap {"open", "reload", "edit"} = {}, TypeOK, IndInv, RestInv, [Next]_vars
  PROVE  RestInv'
<1> USE DEF input, caches, machine
<1>1. CASE GetNotFound
  BY <1>1 DEF GetNotFound, local, RestInv, PassIsFresh, PassIsWhole, PassIsSound, RestIsSound
<1>2. CASE GetSecretFails \/ InitializeNodeStatusPanics \/ RenderPanics \/ StatusUpdateConflict \/ StatusUpdateFails
  <2>1. pc' = "idle" /\ retry' = TRUE /\ ResetLocals
    BY <1>2
    DEF GetSecretFails, InitializeNodeStatusPanics, RenderPanics, StatusUpdateConflict, StatusUpdateFails, Return
  <2> QED BY <2>1, ReturnKeepsRest
<1>3. CASE Get \/ InitializeNodeStatus \/ InitializeNodeStatusFails
  BY <1>3, StartKeepsRest
<1>4. CASE RenderFails \/ WriteConfig \/ WriteConfigFails
  BY <1>4, WriteKeepsRest
<1>5. CASE CompareEqual \/ CompareDifferent
  BY <1>5, CompareKeepsRest
<1>6. CASE NoMoreReloads \/ \E s \in Services : Reload(s)
  BY <1>6, ReloadKeepsRest
<1>7. CASE (\E s \in Services : ReloadFails(s)) \/ (\E f \in Files : AdminEdit(f))
  BY <1>7 DEF ReloadFails, AdminEdit, Fault
<1>8. CASE StatusUpdate
  BY <1>8, StatusKeepsRest
<1>9. CASE CacheSync \/ RetryDue \/ Resync
  BY <1>9, QueuedKeepsRest DEF CacheSync, RetryDue, Resync
<1>10. CASE NodeSync
  BY <1>10, NodeSyncKeepsRest
<1>11. CASE UserEdit \/ UserDelete \/ UserCreate \/ NodesChange \/ OtherWrite \/ PeerRegisters \/ UNCHANGED vars
  <2>1. UNCHANGED <<cache, nodeCache, dirty, retry, pc, local, disk>>
    BY <1>11 DEF UserEdit, UserDelete, UserCreate, NodesChange, OtherWrite, PeerRegisters, vars
  <2>2. api' = api \/ api'.rv = api.rv + 1
    BY <1>11
    DEF UserEdit, UserDelete, UserCreate, NodesChange, OtherWrite, PeerRegisters, vars, Created, Absent, TypeOK,
        Objects
  <2> QED BY <2>1, <2>2, InputKeepsRest
<1>12. CASE Crash \/ Reboot
  BY <1>12, CrashKeepsRest
<1> QED
  BY <1>1, <1>2, <1>3, <1>4, <1>5, <1>6, <1>7, <1>8, <1>9, <1>10, <1>11, <1>12
  DEF Next, ReconcileStep, Environment

\* No wakeup is lost: if every change of the Nodes is an event that counts, no file is
\* edited behind the controller's back, none refuses to be opened and no reload fails,
\* then with nothing queued, due or unseen the node is Ready and its files show the
\* current inputs.  Crashes, reboots, torn writes, lost responses, conflicts, failed
\* renderings and lookups, deletions and a registered peer are all allowed.
THEOREM ConvergedCorrect ==
  ASSUME NoABA(Renders), Silent = {}, Faults \cap {"open", "reload", "edit"} = {}
  PROVE  BootstrapSpec => []QuietIsConverged
<1>1. BootstrapInit => RestInv
  BY DEF BootstrapInit, Unconfigured, RestInv, PassIsFresh, PassIsWhole, PassIsSound, RestIsSound
<1>2. TypeOK /\ IndInv /\ RestInv /\ [Next]_vars => RestInv'
  BY RestStep
<1>3. TypeOK /\ IndInv /\ RestInv => QuietIsConverged
  BY DEF IndInv, RecordedGood, Good, RestInv, RestIsSound, QuietIsConverged, Quiet, Installed, Wanted
<1>4. BootstrapSpec => [](TypeOK /\ IndInv)
  BY BootstrapInductive
<1> QED BY <1>1, <1>2, <1>3, <1>4, PTL DEF BootstrapSpec

-------------------------------------------------------------------------------
(* What is recorded has been loaded.                                           *)

\* Services wait for a reload only while the files are handled and reloaded.
ReloadsEnd ==
  /\ pc \in {"idle", "init", "status"} => updated = {}
  /\ pc = "reload" => idx = Len(FileSeq) + 1

\* The hash of f in the API server, or the one that may replace it, is that of a text
\* wanted now.
Claimed(f) == api.hashes[f] \in Wanted(f) \/ (work.rv = api.rv /\ work.hashes[f] \in Wanted(f))

RecordedLoaded == \A f \in Files : api.hashes[f] \in Wanted(f) => Shows(loaded[f], f)

\* A reload never loads a torn file in place of a text that is claimed.
HandledIntact ==
  pc \in {"file", "write", "reload"} =>
    \A f \in Files : Handled(f) /\ ~Writing(f) /\ Claimed(f) => disk[f] # Dirty

\* What a Reconcile may record is loaded or will be reloaded.
WorkLoaded ==
  pc # "idle" /\ work.rv = api.rv =>
    \A f \in Files : work.hashes[f] \in Wanted(f) /\ ~Writing(f)
                       => Shows(loaded[f], f) \/ ServiceOf[f] \in updated

Untouched ==
  pc # "idle" /\ work.rv = api.rv =>
    \A f \in Files : ~Handled(f) /\ ~Writing(f) => work.hashes[f] = api.hashes[f]

LoadedInv == ReloadsEnd /\ RecordedLoaded /\ HandledIntact /\ WorkLoaded /\ Untouched

\* Reconcile returns, or its process dies.
LEMMA IdleKeepsLoaded ==
  ASSUME LoadedInv, pc' = "idle", updated' = {}, UNCHANGED <<api, nodes, loaded>> PROVE LoadedInv'
<1>1. RecordedLoaded'
  BY DEF LoadedInv, RecordedLoaded, Shows, Wanted
<1> QED BY <1>1 DEF LoadedInv, ReloadsEnd, HandledIntact, WorkLoaded, Untouched

LEMMA FrameKeepsLoaded ==
  ASSUME LoadedInv, UNCHANGED <<api, nodes, pc, idx, work, updated, disk, loaded>> PROVE LoadedInv'
<1>1. ReloadsEnd' /\ RecordedLoaded'
  BY DEF LoadedInv, ReloadsEnd, RecordedLoaded, Shows, Wanted
<1>2. HandledIntact'
  BY DEF LoadedInv, HandledIntact, Handled, Writing, Claimed, CurrentFile, Wanted
<1>3. WorkLoaded' /\ Untouched'
  BY DEF LoadedInv, WorkLoaded, Untouched, Handled, Writing, CurrentFile, Shows, Wanted
<1> QED BY <1>1, <1>2, <1>3 DEF LoadedInv

\* The inputs change: what is wanted now was wanted before, or is not claimed.
LEMMA InputKeepsLoaded ==
  ASSUME NoABA(Renders), TypeOK, TypeOK', IndInv, LoadedInv, InputStep, UNCHANGED <<updated, loaded>>
  PROVE  LoadedInv'
<1>1. /\ UNCHANGED <<disk, pc, idx, work, updated, loaded>>
      /\ CurrentFile' = CurrentFile /\ \A f \in Files : (Handled(f)' <=> Handled(f)) /\ (Writing(f)' <=> Writing(f))
  BY DEF InputStep, CurrentFile, Handled, Writing
<1>2. ReloadsEnd'
  BY <1>1 DEF LoadedInv, ReloadsEnd
<1>3. RecordedLoaded'
  BY <1>1, RecordedBefore DEF LoadedInv, RecordedLoaded, Shows
<1>4. HandledIntact'
  <2> SUFFICES ASSUME pc \in {"file", "write", "reload"}, NEW f \in Files, Handled(f), ~Writing(f), Claimed(f)'
               PROVE  disk[f] # Dirty
    BY <1>1 DEF HandledIntact
  <2>1. CASE api'.hashes[f] \in Wanted(f)'
    <3>1. Claimed(f)
      BY <2>1, RecordedBefore DEF Claimed
    <3> QED BY <3>1 DEF LoadedInv, HandledIntact
  <2>2. CASE work.rv = api'.rv /\ work.hashes[f] \in Wanted(f)'
    <3>1. Claimed(f)
      BY <2>2, InHandBefore DEF Claimed
    <3> QED BY <3>1 DEF LoadedInv, HandledIntact
  <2> QED BY <1>1, <2>1, <2>2 DEF Claimed
<1>5. WorkLoaded'
  <2> SUFFICES ASSUME pc # "idle", work.rv = api'.rv, NEW f \in Files, work.hashes[f] \in Wanted(f)', ~Writing(f)
               PROVE  Shows(loaded[f], f)' \/ ServiceOf[f] \in updated
    BY <1>1 DEF WorkLoaded
  <2>1. api' = api /\ Wanted(f)' = Wanted(f)
    BY InHandBefore
  <2> QED BY <1>1, <2>1 DEF LoadedInv, WorkLoaded, Shows
<1>6. Untouched'
  <2>1. pc # "idle" /\ work.rv = api'.rv => api' = api
    BY TypeFacts DEF IndInv, Lag, InputStep
  <2> QED BY <1>1, <2>1 DEF LoadedInv, Untouched
<1> QED BY <1>2, <1>3, <1>4, <1>5, <1>6 DEF LoadedInv

\* Reconcile starts from the cached object, which is the current one if it may be updated.
LEMMA StartKeepsLoaded ==
  ASSUME TypeOK, IndInv, LoadedInv, Get \/ InitializeNodeStatus \/ InitializeNodeStatusFails PROVE LoadedInv'
<1>1. /\ pc \in {"idle", "init"} /\ idx = 1 /\ updated = {}
      /\ pc' \in {"init", "file", "status"} /\ UNCHANGED <<api, nodes, idx, updated, disk, loaded>>
  BY DEF Get, InitializeNodeStatus, InitializeNodeStatusFails, input, machine, TypeOK, LoadedInv, ReloadsEnd
<1>2. \A f \in Files : ~Handled(f)' /\ ~Writing(f)' /\ ~Handled(f) /\ ~Writing(f)
  BY <1>1 DEF Handled, Writing
<1>3. work'.rv = api.rv => \A f \in Files : work'.hashes[f] = api.hashes[f]
  <2>1. CASE Get
    BY <2>1, TypeFacts DEF Get, IndInv, Lag
  <2>2. CASE InitializeNodeStatus \/ InitializeNodeStatusFails
    <3>1. pc = "init" /\ work'.rv = work.rv /\ work'.hashes = work.hashes
      BY <2>2 DEF InitializeNodeStatus, InitializeNodeStatusFails, WithNodesMap, TypeOK, Objects
    <3> QED BY <1>2, <3>1 DEF LoadedInv, Untouched
  <2> QED BY <2>1, <2>2
<1>4. ReloadsEnd' /\ RecordedLoaded'
  BY <1>1 DEF LoadedInv, ReloadsEnd, RecordedLoaded, Shows, Wanted
<1>5. HandledIntact'
  BY <1>2 DEF HandledIntact
<1>6. WorkLoaded' /\ Untouched'
  BY <1>1, <1>3, <1>4 DEF WorkLoaded, Untouched, RecordedLoaded
<1> QED BY <1>4, <1>5, <1>6 DEF LoadedInv

\* A file is done: it is intact if its text is claimed, and reloaded if it was written.
LEMMA FileKeepsLoaded ==
  ASSUME TypeOK, LoadedInv, pc \in {"file", "write"}, FileDone,
         UNCHANGED <<api, nodes, work, loaded>>,
         updated \subseteq updated', pc = "write" => ServiceOf[CurrentFile] \in updated',
         \A f \in Files : f # CurrentFile => disk'[f] = disk[f],
         Claimed(CurrentFile) => disk'[CurrentFile] # Dirty
  PROVE  LoadedInv'
<1>1. /\ pc' \in {"file", "reload"} /\ (pc' = "reload" => idx' = Len(FileSeq) + 1)
      /\ \A f \in Files : (Handled(f)' <=> Handled(f) \/ f = CurrentFile) /\ ~Writing(f)'
      /\ \A f \in Files : (Claimed(f)' <=> Claimed(f)) /\ Wanted(f)' = Wanted(f)
  BY FileDoneWhole, HandledNext DEF Writing, Claimed, Wanted
<1>2. ReloadsEnd' /\ RecordedLoaded'
  BY <1>1 DEF LoadedInv, ReloadsEnd, RecordedLoaded, Shows
<1>3. HandledIntact'
  BY <1>1 DEF LoadedInv, HandledIntact, Writing
<1>4. WorkLoaded'
  BY <1>1 DEF LoadedInv, WorkLoaded, Shows, Writing
<1>5. Untouched'
  BY <1>1 DEF LoadedInv, Untouched, Writing
<1> QED BY <1>2, <1>3, <1>4, <1>5 DEF LoadedInv

\* A file whose claimed text is wanted can be rendered.
LEMMA ClaimedRenders ==
  ASSUME NoABA(Renders), Determined(Renders), TypeOK, IndInv, pc # "idle",
         NEW f \in Files, api.hashes[f] \in Wanted(f)
  PROVE  RenderError \notin Renderings(f)
<1>1. /\ work.spec <= api.spec /\ cred <= InputVersion(f) /\ InputVersion(f) <= nodes
      /\ InputVersion(f) \in NodeVersions /\ work.spec <= work.spec
  BY TypeFacts DEF IndInv, Lag, InputVersion
<1>2. Comes(api.hashes[f], f, work.spec, cred)
  BY DEF IndInv, Provenance
<1>3. Renders[work.spec][InputVersion(f)][f] = Wanted(f)
  BY <1>1, <1>2, TypeFacts, NoReturn DEF Wanted
<1>4. api.hashes[f] \in Data
  BY TypeFacts, WantedFacts
<1>5. Wanted(f) \subseteq Data
  BY <1>4, TypeFacts DEF Determined, Wanted
<1> QED BY <1>3, <1>5, SentinelAssumption DEF Renderings

LEMMA CompareKeepsLoaded ==
  ASSUME NoABA(Renders), Determined(Renders), "render" \notin Faults, TypeOK, IndInv, LoadedInv,
         RenderFails \/ CompareEqual \/ CompareDifferent
  PROVE  LoadedInv'
<1> USE DEF input, caches, machine
<1>0. pc = "file" /\ CurrentFile \in Files
  BY CurrentFileType DEF RenderFails, CompareEqual, CompareDifferent
<1>1. CASE RenderFails
  <2>1. RenderError \in Renderings(CurrentFile) /\ UNCHANGED <<api, nodes, work, loaded, updated, disk>>
    BY <1>1 DEF RenderFails, Fault
  <2>2. api.hashes[CurrentFile] \notin Wanted(CurrentFile)
    BY <1>0, <2>1, ClaimedRenders
  <2>3. Claimed(CurrentFile) => disk[CurrentFile] # Dirty
    BY <1>0, <2>2 DEF LoadedInv, Untouched, HandledIntact, Claimed, Writing
  <2> QED BY <1>0, <1>1, <2>1, <2>3, FileKeepsLoaded DEF RenderFails
<1>2. CASE CompareEqual
  <2>1. disk[CurrentFile] # Dirty
    BY <1>2 DEF CompareEqual, NeedsNoWrite, IsFileModified
  <2> QED BY <1>0, <1>2, <2>1, FileKeepsLoaded DEF CompareEqual
<1>3. CASE CompareDifferent
  <2>1. PICK data \in Renderings(CurrentFile) \cap Data :
          /\ work' = [work EXCEPT !.hashes[CurrentFile] = data]
          /\ pc' = "write"
          /\ UNCHANGED <<api, nodes, idx, updated, disk, loaded>>
    BY <1>3 DEF CompareDifferent
  <2>2. /\ work'.rv = work.rv
        /\ \A f \in Files : f # CurrentFile => work'.hashes[f] = work.hashes[f]
    BY <1>0, <2>1 DEF TypeOK, Objects
  <2>3. /\ \A f \in Files : (Handled(f)' <=> Handled(f)) /\ (Writing(f)' <=> f = CurrentFile) /\ ~Writing(f)
        /\ \A f \in Files : Wanted(f)' = Wanted(f)
        /\ \A f \in Files : f # CurrentFile => (Claimed(f)' <=> Claimed(f))
    BY <1>0, <2>1, <2>2 DEF Handled, Writing, CurrentFile, Wanted, Claimed
  <2>4. ReloadsEnd' /\ RecordedLoaded'
    BY <2>1, <2>3 DEF LoadedInv, ReloadsEnd, RecordedLoaded, Shows
  <2>5. HandledIntact'
    BY <1>0, <2>1, <2>3 DEF LoadedInv, HandledIntact
  <2>6. WorkLoaded' /\ Untouched'
    BY <1>0, <2>1, <2>2, <2>3 DEF LoadedInv, WorkLoaded, Untouched, Shows
  <2> QED BY <2>4, <2>5, <2>6 DEF LoadedInv
<1> QED BY <1>1, <1>2, <1>3

LEMMA WriteKeepsLoaded ==
  ASSUME TypeOK, LoadedInv, WriteConfig PROVE LoadedInv'
<1>1. pc = "write" /\ CurrentFile \in Files
      /\ disk' = [disk EXCEPT ![CurrentFile] = RenderFinalConfig(work.spec, pending)]
      /\ updated' = updated \cup {ServiceOf[CurrentFile]} /\ FileDone
      /\ UNCHANGED <<api, nodes, work, loaded>>
  BY CurrentFileType DEF WriteConfig, input
<1>2. RenderFinalConfig(work.spec, pending) # Dirty
  BY <1>1, RenderedFacts, SentinelAssumption DEF TypeOK, Objects
<1>3. disk'[CurrentFile] # Dirty /\ \A f \in Files : f # CurrentFile => disk'[f] = disk[f]
  BY <1>1, <1>2 DEF TypeOK
<1> QED BY <1>1, <1>3, FileKeepsLoaded

\* A reload loads intact files wherever a text is claimed.
LEMMA ReloadKeepsLoaded ==
  ASSUME ConfigRootIsSlash, TypeOK, IndInv, LoadedInv, NoMoreReloads \/ \E s \in Services : Reload(s)
  PROVE  LoadedInv'
<1> USE DEF input, local, machine
<1>1. /\ pc = "reload" /\ pc' \in {"reload", "status"}
      /\ UNCHANGED <<api, nodes, idx, work, disk>>
  BY DEF NoMoreReloads, Reload
<1>2. /\ \A f \in Files : Handled(f) /\ (Handled(f)' <=> Handled(f)) /\ ~Writing(f) /\ ~Writing(f)'
      /\ \A f \in Files : Wanted(f)' = Wanted(f) /\ (Claimed(f)' <=> Claimed(f))
  BY <1>1, AllHandled DEF LoadedInv, ReloadsEnd, Handled, Writing, Wanted, Claimed
<1>3. \A f \in Files : Claimed(f) => Shows(disk[f], f)
  BY <1>1, <1>2 DEF LoadedInv, HandledIntact, IndInv, RecordedGood, WorkGood, Good, Claimed, Writing
<1>4. HandledIntact' /\ Untouched'
  BY <1>1, <1>2 DEF LoadedInv, HandledIntact, Untouched
<1>5. CASE NoMoreReloads
  <2>1. updated = {} /\ updated' = {} /\ loaded' = loaded /\ pc' = "status"
    BY <1>5 DEF NoMoreReloads
  <2>2. ReloadsEnd' /\ RecordedLoaded' /\ WorkLoaded'
    BY <1>1, <1>2, <2>1 DEF LoadedInv, ReloadsEnd, RecordedLoaded, WorkLoaded, Shows
  <2> QED BY <1>4, <2>2 DEF LoadedInv
<1>6. ASSUME NEW s \in Services, Reload(s) PROVE LoadedInv'
  <2>1. /\ pc' = "reload" /\ updated' = updated \ {s}
        /\ \A f \in Files : loaded'[f] = IF ServiceOf[f] = s THEN disk[f] ELSE loaded[f]
    BY <1>6 DEF Reload
  <2>2. ReloadsEnd'
    BY <1>1, <2>1 DEF LoadedInv, ReloadsEnd
  <2>3. RecordedLoaded'
    BY <1>1, <1>2, <1>3, <2>1 DEF LoadedInv, RecordedLoaded, Claimed, Shows
  <2>4. WorkLoaded'
    BY <1>1, <1>2, <1>3, <2>1 DEF LoadedInv, WorkLoaded, Claimed, Shows
  <2> QED BY <1>4, <2>2, <2>3, <2>4 DEF LoadedInv
<1> QED BY <1>5, <1>6

\* What is recorded is what the pass had in hand, after all its reloads.
LEMMA StatusKeepsLoaded ==
  ASSUME TypeOK, LoadedInv, StatusUpdate \/ StatusUpdateFails PROVE LoadedInv'
<1>1. /\ pc = "status" /\ work.rv = api.rv /\ api' \in {api, StatusStored}
      /\ pc' = "idle" /\ updated' = {} /\ UNCHANGED <<nodes, loaded>>
  BY DEF StatusUpdate, StatusUpdateFails, UpdateAccepted, Return, ResetLocals, machine
<1>2. CASE api' = api
  BY <1>1, <1>2, IdleKeepsLoaded
<1>3. CASE api' = StatusStored
  <2>1. api'.hashes = work.hashes /\ api'.spec = api.spec
    <3> DEFINE new == [api EXCEPT !.own = TRUE, !.status = FinalStatus, !.hashes = work.hashes]
    <3>1. new.hashes = work.hashes /\ new.spec = api.spec
      BY DEF TypeOK, Objects
    <3>2. [new EXCEPT !.rv = @ + 1].hashes = work.hashes /\ [new EXCEPT !.rv = @ + 1].spec = api.spec
      BY DEF TypeOK, Objects
    <3>3. api' = IF new = api THEN api ELSE [new EXCEPT !.rv = @ + 1]
      BY <1>3 DEF StatusStored
    <3> HIDE DEF new
    <3> QED BY <3>1, <3>2, <3>3
  <2>2. RecordedLoaded'
    BY <1>1, <2>1 DEF LoadedInv, ReloadsEnd, WorkLoaded, RecordedLoaded, Shows, Wanted, Writing
  <2> QED BY <1>1, <2>2 DEF LoadedInv, ReloadsEnd, HandledIntact, WorkLoaded, Untouched
<1> QED BY <1>1, <1>2, <1>3

LEMMA LoadedStep ==
  ASSUME NoABA(Renders), Determined(Renders), ConfigRootIsSlash,
         Faults \cap {"open", "write", "render", "reload", "reboot", "edit"} = {},
         TypeOK, TypeOK', IndInv, LoadedInv, [Next]_vars
  PROVE  LoadedInv'
<1> USE DEF input, caches, local, machine
<1>1. CASE GetNotFound \/ CacheSync \/ NodeSync \/ RetryDue \/ Resync \/ UNCHANGED vars
  BY <1>1, FrameKeepsLoaded DEF GetNotFound, CacheSync, NodeSync, RetryDue, Resync, vars
<1>2. CASE GetSecretFails \/ InitializeNodeStatusPanics \/ RenderPanics \/ StatusUpdateConflict \/ Crash
  <2>1. pc' = "idle" /\ updated' = {} /\ UNCHANGED <<api, nodes, loaded>>
    BY <1>2
    DEF GetSecretFails, InitializeNodeStatusPanics, RenderPanics, StatusUpdateConflict, Crash, Restarted, Return,
        ResetLocals
  <2> QED BY <2>1, IdleKeepsLoaded
<1>3. CASE Get \/ InitializeNodeStatus \/ InitializeNodeStatusFails
  BY <1>3, StartKeepsLoaded
<1>4. CASE RenderFails \/ CompareEqual \/ CompareDifferent
  BY <1>4, CompareKeepsLoaded
<1>5. CASE WriteConfig
  BY <1>5, WriteKeepsLoaded
<1>6. CASE NoMoreReloads \/ \E s \in Services : Reload(s)
  BY <1>6, ReloadKeepsLoaded
<1>7. CASE WriteConfigFails \/ Reboot
           \/ (\E s \in Services : ReloadFails(s)) \/ (\E f \in Files : AdminEdit(f))
  BY <1>7 DEF WriteConfigFails, FailedWrites, Reboot, ReloadFails, AdminEdit, Fault
<1>8. CASE StatusUpdate \/ StatusUpdateFails
  BY <1>8, StatusKeepsLoaded
<1>9. CASE UserEdit \/ UserDelete \/ UserCreate \/ NodesChange \/ OtherWrite \/ PeerRegisters
  <2>1. UNCHANGED <<updated, loaded>>
    BY <1>9 DEF UserEdit, UserDelete, UserCreate, NodesChange, OtherWrite, PeerRegisters
  <2> QED BY <1>9, <2>1, InputSteps, InputKeepsLoaded
<1> QED
  BY <1>1, <1>2, <1>3, <1>4, <1>5, <1>6, <1>7, <1>8, <1>9
  DEF Next, ReconcileStep, Environment

\* The status tells the truth about the services: where nothing but crashes, conflicts,
\* lost responses, failed lookups, deletions, other clients and a peer disturb the
\* controller, and whether a file can be rendered depends on its inputs alone, a node
\* that reports Ready with the hashes of the current configuration runs it.
THEOREM ReadyCorrect ==
  ASSUME NoABA(Renders), Determined(Renders), ConfigRootIsSlash,
         Faults \cap {"open", "write", "render", "reload", "reboot", "edit"} = {}
  PROVE  BootstrapSpec => []ReadyIsRunning
<1>1. BootstrapInit => LoadedInv
  <2> SUFFICES ASSUME BootstrapInit PROVE LoadedInv
    OBVIOUS
  <2>1. \A f \in Files : api.hashes[f] \notin Wanted(f)
    <3>1. \A f \in Files : api.hashes[f] = NoHash
      BY DEF BootstrapInit, Unconfigured, Created, Absent
    <3> QED BY <3>1, BootstrapStart, WantedFacts
  <2>2. pc = "idle" /\ updated = {}
    BY DEF BootstrapInit, Unconfigured
  <2> QED BY <2>1, <2>2 DEF LoadedInv, ReloadsEnd, RecordedLoaded, HandledIntact, WorkLoaded, Untouched
<1>2. TypeOK /\ TypeOK' /\ IndInv /\ LoadedInv /\ [Next]_vars => LoadedInv'
  BY LoadedStep
<1>3. LoadedInv => ReadyIsRunning
  BY DEF LoadedInv, RecordedLoaded, ReadyIsRunning
<1>4. BootstrapSpec => [](TypeOK /\ IndInv)
  BY BootstrapInductive
<1> QED BY <1>1, <1>2, <1>3, <1>4, PTL DEF BootstrapSpec
===============================================================================
