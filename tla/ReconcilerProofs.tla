--------------------------- MODULE ReconcilerProofs ---------------------------
(***************************************************************************)
(* Proofs about Reconciler, for any files, services, texts, versions and   *)
(* number of disturbances.                                                 *)
(***************************************************************************)
EXTENDS Reconciler, TLAPS

-------------------------------------------------------------------------------
(* Types.                                                                      *)

LEMMA FileFacts ==
  /\ Len(FileSeq) \in Nat \ {0}
  /\ \A i \in 1..Len(FileSeq) : FileSeq[i] \in Files
  BY FileAssumption

LEMMA VersionFacts == 1 \in Versions /\ 1 \in NodeVersions /\ 0 \in 0..MaxFaults
  BY BoundAssumption DEF Versions, NodeVersions

LEMMA ObjectFacts ==
  /\ Absent \in Objects
  /\ \A i \in Versions, rv \in Nat : Created(i, rv) \in Objects
  BY VersionFacts DEF Absent, Created, Objects, Statuses

\* The updates the API server applies to an object, each of which makes a new version.
LEMMA ObjectUpdates ==
  ASSUME NEW o \in Objects
  PROVE  /\ o.rv + 1 \in Nat
         /\ \A n \in Nat : [o EXCEPT !.rv = n] \in Objects
         /\ \A n \in Nat, i \in Versions : [o EXCEPT !.spec = i, !.rv = n] \in Objects
         /\ \A n \in Nat : [o EXCEPT !.peer = TRUE, !.rv = n] \in Objects
<1>1. o.rv + 1 \in Nat
  BY DEF Objects
<1>2. \A n \in Nat : [o EXCEPT !.rv = n] \in Objects
  BY DEF Objects
<1>3. \A n \in Nat, i \in Versions : [o EXCEPT !.spec = i, !.rv = n] \in Objects
  BY DEF Objects
<1>4. \A n \in Nat : [o EXCEPT !.peer = TRUE, !.rv = n] \in Objects
  BY DEF Objects
<1> QED BY <1>1, <1>2, <1>3, <1>4

LEMMA RenderedFacts ==
  /\ \A i \in Versions, data \in Data : RenderFinalConfig(i, data) \in Rendered
  /\ NoHash \notin Data
  BY SentinelAssumption DEF RenderFinalConfig, Rendered, Outcomes

\* Returning from Reconcile and restarting leave well-typed locals.
LEMMA ResetTypes ==
  ASSUME TypeOK, pc' = "idle", ResetLocals
  PROVE  /\ pc' \in PCs
         /\ idx' \in 1..(Len(FileSeq) + 1)
         /\ pc' \in {"idle", "init"} => idx' = 1
         /\ pc' \in {"file", "write"} => idx' \in 1..Len(FileSeq)
         /\ work' \in Objects /\ cred' \in NodeVersions
         /\ pending' \in Data \cup {NoHash}
         /\ pc' = "write" <=> pending' # NoHash
         /\ updated' \subseteq Services
         /\ err' \in BOOLEAN /\ reloadErr' \in BOOLEAN
<1>1. /\ pc' \in PCs
      /\ idx' \in 1..(Len(FileSeq) + 1)
      /\ pc' \in {"idle", "init"} => idx' = 1
      /\ pc' \in {"file", "write"} => idx' \in 1..Len(FileSeq)
  BY FileFacts DEF ResetLocals, PCs
<1>2. /\ work' \in Objects /\ cred' \in NodeVersions
      /\ pending' \in Data \cup {NoHash}
      /\ pc' = "write" <=> pending' # NoHash
      /\ updated' \subseteq Services
      /\ err' \in BOOLEAN /\ reloadErr' \in BOOLEAN
  BY VersionFacts, ObjectFacts DEF ResetLocals
<1> QED BY <1>1, <1>2

\* Going on to the next file, or to the reloads after the last one.
LEMMA FileDoneTypes ==
  ASSUME TypeOK, pc \in {"file", "write"}, FileDone
  PROVE  /\ pc' \in {"file", "reload"}
         /\ idx' \in 1..(Len(FileSeq) + 1)
         /\ pc' = "file" => idx' \in 1..Len(FileSeq)
  BY FileFacts DEF FileDone, TypeOK

LEMMA CurrentFileType == TypeOK /\ pc \in {"file", "write"} => CurrentFile \in Files
  BY FileFacts DEF TypeOK, CurrentFile

LEMMA FaultType == ASSUME TypeOK, NEW class, Fault(class) PROVE faults' \in 0..MaxFaults
  BY BoundAssumption DEF TypeOK, Fault

LEMMA StatusStoredType == TypeOK => StatusStored \in Objects
<1> SUFFICES ASSUME TypeOK PROVE StatusStored \in Objects
  OBVIOUS
<1> DEFINE new == [api EXCEPT !.own = TRUE, !.status = FinalStatus, !.hashes = work.hashes]
<1>1. FinalStatus \in Statuses /\ work.hashes \in [Files -> Data \cup {NoHash}] /\ api \in Objects
  BY DEF TypeOK, FinalStatus, Objects, Statuses
<1>2. new \in Objects
  BY <1>1 DEF Objects
<1>3. [new EXCEPT !.rv = @ + 1] \in Objects
  <2> HIDE DEF new
  <2> QED BY <1>2, ObjectUpdates
<1> QED BY <1>1, <1>3 DEF StatusStored

\* What a crash leaves on the disk is well typed.
LEMMA CrashedDiskTypes == TypeOK => CrashedDisks \subseteq [Files -> Rendered \cup {Dirty}]
<1> SUFFICES ASSUME TypeOK PROVE CrashedDisks \subseteq [Files -> Rendered \cup {Dirty}]
  OBVIOUS
<1>1. CASE pc = "write"
  <2>1. pending \in Data /\ work.spec \in Versions
    BY <1>1 DEF TypeOK, Objects
  <2>2. RenderFinalConfig(work.spec, pending) \in Rendered
    BY <2>1, RenderedFacts
  <2> QED BY <1>1, <2>2, CurrentFileType DEF CrashedDisks, TypeOK
<1>2. CASE pc # "write"
  BY <1>2 DEF CrashedDisks, TypeOK
<1> QED BY <1>1, <1>2

LEMMA TypeStep == TypeOK /\ [Next]_vars => TypeOK'
<1> SUFFICES ASSUME TypeOK, [Next]_vars PROVE TypeOK'
  OBVIOUS
<1> USE DEF input, caches, local, machine
<1>1. CASE GetNotFound
  BY <1>1 DEF GetNotFound, TypeOK
<1>2. CASE GetSecretFails
  BY <1>2, ResetTypes DEF GetSecretFails, Return, TypeOK
<1>3. CASE Get
  BY <1>3 DEF Get, TypeOK, PCs
<1>4. CASE InitializeNodeStatus
  <2>1. work' \in Objects
    <3>1. WithNodesMap(work) \in Objects
      BY DEF WithNodesMap, TypeOK, Objects
    <3> QED BY <1>4, <3>1 DEF InitializeNodeStatus, Objects, Statuses
  <2>2. idx \in 1..Len(FileSeq)
    BY <1>4, FileFacts DEF InitializeNodeStatus, TypeOK
  <2> QED BY <1>4, <2>1, <2>2 DEF InitializeNodeStatus, TypeOK, PCs
<1>5. CASE InitializeNodeStatusFails
  BY <1>5, FaultType DEF InitializeNodeStatusFails, WithNodesMap, TypeOK, PCs, Objects
<1>6. CASE InitializeNodeStatusPanics
  BY <1>6, ResetTypes DEF InitializeNodeStatusPanics, Return, TypeOK
<1>7. CASE RenderFails
  BY <1>7, FileDoneTypes, FaultType DEF RenderFails, TypeOK, PCs
<1>8. CASE RenderPanics
  BY <1>8, ResetTypes DEF RenderPanics, Return, TypeOK
<1>9. CASE CompareEqual
  BY <1>9, FileDoneTypes DEF CompareEqual, TypeOK, PCs
<1>10. CASE CompareDifferent
  BY <1>10, CurrentFileType, RenderedFacts DEF CompareDifferent, TypeOK, PCs, Objects
<1>11. CASE WriteConfig
  <2>1. RenderFinalConfig(work.spec, pending) \in Rendered /\ ServiceOf[CurrentFile] \in Services
    BY <1>11, RenderedFacts, CurrentFileType, FileAssumption DEF WriteConfig, TypeOK, Objects
  <2> QED BY <1>11, <2>1, FileDoneTypes, RenderedFacts DEF WriteConfig, TypeOK, PCs
<1>12. CASE WriteConfigFails
  <2>1. RenderFinalConfig(work.spec, pending) \in Rendered /\ CurrentFile \in Files
    BY <1>12, RenderedFacts, CurrentFileType DEF WriteConfigFails, TypeOK, Objects
  <2>2. disk' \in [Files -> Rendered \cup {Dirty}] /\ faults' \in 0..MaxFaults
    BY <1>12, <2>1, FaultType DEF WriteConfigFails, FailedWrites, TypeOK
  <2> QED BY <1>12, <2>2, FileDoneTypes DEF WriteConfigFails, TypeOK, PCs
<1>13. CASE NoMoreReloads
  BY <1>13 DEF NoMoreReloads, TypeOK, PCs
<1>14. ASSUME NEW s \in Services, Reload(s) PROVE TypeOK'
  BY <1>14 DEF Reload, TypeOK
<1>15. ASSUME NEW s \in Services, ReloadFails(s) PROVE TypeOK'
  BY <1>15, FaultType DEF ReloadFails, TypeOK
<1>16. CASE StatusUpdate
  BY <1>16, ResetTypes, StatusStoredType DEF StatusUpdate, Return, TypeOK
<1>17. CASE StatusUpdateConflict
  BY <1>17, ResetTypes DEF StatusUpdateConflict, Return, TypeOK
<1>18. CASE StatusUpdateFails
  BY <1>18, ResetTypes, StatusStoredType, FaultType DEF StatusUpdateFails, Return, TypeOK
<1>19. CASE CacheSync \/ NodeSync \/ RetryDue \/ Resync
  BY <1>19 DEF CacheSync, NodeSync, RetryDue, Resync, TypeOK
<1>20. CASE UserEdit \/ OtherWrite \/ PeerRegisters
  <2>1. api \in Objects /\ (UserEdit => api.spec + 1 \in Versions)
    BY BoundAssumption DEF TypeOK, UserEdit, Objects, Versions
  <2>2. api' \in Objects
    BY <1>20, <2>1, ObjectUpdates DEF UserEdit, OtherWrite, PeerRegisters
  <2> QED BY <1>20, <2>2, FaultType DEF UserEdit, OtherWrite, PeerRegisters, TypeOK
<1>21. CASE UserDelete \/ UserCreate
  <2>1. /\ api.rv + 1 \in Nat /\ api.spec \in Versions
        /\ UserCreate => api.spec + 1 \in Versions
    BY BoundAssumption DEF TypeOK, UserCreate, Objects, Versions
  <2>2. [Absent EXCEPT !.spec = api.spec, !.rv = api.rv + 1] \in Objects
    BY <2>1, ObjectFacts, ObjectUpdates
  <2>3. UserCreate => Created(api.spec + 1, api.rv + 1) \in Objects
    BY <2>1, ObjectFacts
  <2> QED BY <1>21, <2>2, <2>3, FaultType DEF UserDelete, UserCreate, TypeOK
<1>22. CASE NodesChange
  BY <1>22, BoundAssumption DEF NodesChange, TypeOK, NodeVersions
<1>23. ASSUME NEW f \in Files, AdminEdit(f) PROVE TypeOK'
  BY <1>23, FaultType DEF AdminEdit, TypeOK
<1>24. CASE Crash \/ Reboot
  <2>1. disk' \in [Files -> Rendered \cup {Dirty}] /\ loaded' \in [Files -> Rendered \cup {Dirty}]
    BY <1>24, CrashedDiskTypes DEF Crash, Reboot, TypeOK
  <2> QED BY <1>24, <2>1, ResetTypes, FaultType DEF Crash, Reboot, Restarted, TypeOK, Objects
<1>25. CASE UNCHANGED vars
  BY <1>25 DEF vars, TypeOK
<1> QED
  BY <1>1, <1>2, <1>3, <1>4, <1>5, <1>6, <1>7, <1>8, <1>9, <1>10, <1>11, <1>12, <1>13,
     <1>14, <1>15, <1>16, <1>17, <1>18, <1>19, <1>20, <1>21, <1>22, <1>23, <1>24, <1>25
  DEF Next, ReconcileStep, Environment

\* Only rendered texts are recorded, written and loaded: a failed rendering leaves no trace
\* but the error, in any order of failures, panics, crashes and retries.
THEOREM TypeCorrect == Spec => []TypeOK
<1>1. Init => TypeOK
  <2> SUFFICES ASSUME Init PROVE TypeOK
    OBVIOUS
  <2>1. api \in Objects /\ cache \in Objects /\ work \in Objects
    BY VersionFacts, ObjectFacts DEF Init, Unconfigured, NoFiles
  <2>2. idx \in 1..(Len(FileSeq) + 1)
    BY FileFacts DEF Init, Unconfigured, NoFiles
  <2> QED BY <2>1, <2>2, VersionFacts DEF Init, Unconfigured, NoFiles, TypeOK, PCs
<1> QED
  BY <1>1, TypeStep, PTL DEF Spec

-------------------------------------------------------------------------------
(* The inductive invariant behind RecordedIsInstalled.                         *)

\* Caches lag behind the API server and a running Reconcile behind the caches;
\* an object of the current version is the current object.
Lag ==
  /\ cache.rv <= api.rv /\ cache.spec <= api.spec
  /\ cache.rv = api.rv => cache = api
  /\ nodeCache <= nodes
  /\ pc # "idle" => /\ work.rv <= api.rv
                    /\ work.spec <= cache.spec
                    /\ cred <= nodeCache

\* A hash of f is that of a text some inputs up to spec version m and node
\* version v render to.
Comes(h, f, m, v) ==
  h # NoHash => \E i \in 1..m, u \in 1..v : h \in Renders[i][u][f]

\* Recorded hashes are those of texts rendered by Reconciles before the running
\* one, the hashes in its hands those of texts it could have rendered itself.
Provenance ==
  \A f \in Files :
    /\ Comes(cache.hashes[f], f, cache.spec, nodeCache)
    /\ pc = "idle" => Comes(api.hashes[f], f, cache.spec, nodeCache)
    /\ pc # "idle" => /\ Comes(api.hashes[f], f, work.spec, cred)
                      /\ Comes(work.hashes[f], f, work.spec, nodeCache)

\* The text being written is rendered from the inputs of this Reconcile, and its
\* hash is already in the status.
PendingIsRendered ==
  pc = "write" =>
    /\ work.hashes[CurrentFile] = pending
    /\ \E v \in cred..nodeCache : pending \in Renders[work.spec][v][CurrentFile]

Good(f) == disk[f] = Dirty \/ Shows(disk[f], f)

\* What the API server has recorded is on the disk, and so is what a Reconcile that
\* will be allowed to record it has in its hands, but for the file it is writing.
RecordedGood == \A f \in Files : api.hashes[f] \in Wanted(f) => Good(f)
WorkGood ==
  pc # "idle" /\ work.rv = api.rv =>
    \A f \in Files : work.hashes[f] \in Wanted(f) /\ ~(pc = "write" /\ f = CurrentFile) => Good(f)

IndInv == Lag /\ Provenance /\ PendingIsRendered /\ RecordedGood /\ WorkGood

\* An older hash of a text wanted now: all inputs in between render to it too.
LEMMA NoReturn ==
  ASSUME NoABA(Renders), NEW f \in Files,
         NEW m \in Versions, NEW j \in Versions, NEW k \in Versions,
         NEW v \in NodeVersions, NEW u \in NodeVersions, NEW w \in NodeVersions,
         m <= j, j <= k, v <= u, u <= w,
         NEW h \in Data \cup {NoHash}, Comes(h, f, m, v), h \in Renders[k][w][f]
  PROVE  Renders[j][u][f] = Renders[k][w][f]
<1>1. h # NoHash
  BY RenderAssumption, SentinelAssumption
<1>2. PICK i \in 1..m, t \in 1..v : h \in Renders[i][t][f]
  BY <1>1 DEF Comes
<1>3. i \in Versions /\ t \in NodeVersions /\ i <= j /\ t <= u
  BY BoundAssumption DEF Versions, NodeVersions
<1>4. Renders[i][t][f] \cap Renders[k][w][f] \cap Data # {}
  BY <1>1, <1>2
<1> QED BY <1>3, <1>4 DEF NoABA

LEMMA ComesLater ==
  ASSUME NEW h, NEW f \in Files, NEW m \in Versions, NEW n \in Versions, m <= n,
         NEW v \in NodeVersions, NEW w \in NodeVersions, v <= w, Comes(h, f, m, v)
  PROVE  Comes(h, f, n, w)
<1>1. 1..m \subseteq 1..n /\ 1..v \subseteq 1..w
  BY DEF Versions, NodeVersions
<1> QED BY <1>1 DEF Comes

\* A step that changes at most the locals: back to idle, nothing of interest, or on
\* to another phase with the same object.
LocalStep ==
  /\ UNCHANGED <<api, nodes, cache, nodeCache, disk>>
  /\ \/ pc' = "idle"
     \/ UNCHANGED <<pc, idx, work, cred, pending>>
     \/ /\ pc \notin {"idle", "write"} /\ pc' \notin {"idle", "write"}
        /\ work'.rv = work.rv /\ work'.spec = work.spec /\ work'.hashes = work.hashes
        /\ UNCHANGED cred

LEMMA TypeFacts ==
  ASSUME TypeOK
  PROVE  /\ api.rv \in Nat /\ api.spec \in Versions /\ nodes \in NodeVersions
         /\ cache.rv \in Nat /\ cache.spec \in Versions /\ nodeCache \in NodeVersions
         /\ work.rv \in Nat /\ work.spec \in Versions /\ cred \in NodeVersions
         /\ \A f \in Files : /\ api.hashes[f] \in Data \cup {NoHash}
                             /\ cache.hashes[f] \in Data \cup {NoHash}
                             /\ work.hashes[f] \in Data \cup {NoHash}
         /\ Versions \subseteq Nat /\ NodeVersions \subseteq Nat
  BY DEF TypeOK, Objects, Versions, NodeVersions

LEMMA LocalKeeps ==
  ASSUME TypeOK, TypeOK', IndInv, LocalStep PROVE IndInv'
<1> USE DEF LocalStep
<1>1. Lag'
  BY DEF IndInv, Lag
<1>2. Provenance'
  <2>1. CASE pc' = "idle"
    <3>1. ASSUME NEW f \in Files, pc # "idle" PROVE Comes(api.hashes[f], f, cache.spec, nodeCache)
      BY <3>1, TypeFacts, ComesLater DEF IndInv, Lag, Provenance
    <3> QED BY <2>1, <3>1 DEF IndInv, Provenance, Comes
  <2>2. CASE UNCHANGED <<pc, idx, work, cred, pending>>
    BY <2>2 DEF IndInv, Provenance, Comes
  <2>3. CASE pc # "idle" /\ pc' # "idle" /\ work'.spec = work.spec /\ work'.hashes = work.hashes
             /\ cred' = cred
    BY <2>3 DEF IndInv, Provenance, Comes
  <2> QED BY <2>1, <2>2, <2>3
<1>3. PendingIsRendered'
  BY DEF IndInv, PendingIsRendered, CurrentFile
<1>4. RecordedGood'
  BY DEF IndInv, RecordedGood, Wanted, Good, Shows
<1>5. WorkGood'
  BY DEF IndInv, WorkGood, Wanted, Good, Shows, CurrentFile
<1> QED BY <1>1, <1>2, <1>3, <1>4, <1>5 DEF IndInv

\* Get: the object in hand is the cached one.
LEMMA GetKeeps ==
  ASSUME TypeOK, TypeOK', IndInv, Get PROVE IndInv'
<1> USE DEF Get, input, caches, machine
<1>1. Lag'
  BY TypeFacts DEF IndInv, Lag
<1>2. Provenance'
  BY DEF IndInv, Provenance, Comes
<1>3. PendingIsRendered'
  BY DEF PendingIsRendered
<1>4. RecordedGood'
  BY DEF IndInv, RecordedGood, Wanted, Good, Shows
<1>5. WorkGood'
  BY DEF IndInv, Lag, RecordedGood, WorkGood, Wanted, Good, Shows
<1> QED BY <1>1, <1>2, <1>3, <1>4, <1>5 DEF IndInv

\* CompareAndWrite records the hash of what it is about to write.
LEMMA CompareKeeps ==
  ASSUME TypeOK, TypeOK', IndInv, CompareDifferent PROVE IndInv'
<1> USE DEF CompareDifferent, input, caches, machine
<1>0. PICK data \in Renderings(CurrentFile) \cap Data :
        work' = [work EXCEPT !.hashes[CurrentFile] = data] /\ pending' = data
  OBVIOUS
<1>1. CurrentFile \in Files /\ CurrentFile' = CurrentFile
  BY CurrentFileType DEF CurrentFile
<1>2. /\ work'.rv = work.rv /\ work'.spec = work.spec
      /\ work'.hashes = [work.hashes EXCEPT ![CurrentFile] = data]
      /\ work'.hashes[CurrentFile] = data
      /\ \A f \in Files : f # CurrentFile => work'.hashes[f] = work.hashes[f]
  BY <1>0, <1>1 DEF TypeOK, Objects
<1>3. PICK v \in {cred, nodeCache} : data \in Renders[work.spec][v][CurrentFile]
  BY <1>0 DEF Renderings, InputVersion
<1>4. v \in NodeVersions /\ v \in cred..nodeCache
  BY <1>3, TypeFacts DEF IndInv, Lag, NodeVersions
<1>5. Lag'
  BY <1>2 DEF IndInv, Lag
<1>6. Provenance'
  <2>1. Comes(data, CurrentFile, work.spec, nodeCache)
    <3>1. work.spec \in 1..work.spec /\ v \in 1..nodeCache
      BY <1>4, TypeFacts DEF Versions, NodeVersions
    <3> QED BY <1>3, <3>1 DEF Comes
  <2>2. \A f \in Files : Comes(work'.hashes[f], f, work.spec, nodeCache)
    BY <1>2, <2>1 DEF IndInv, Provenance
  <2> QED BY <1>2, <2>2 DEF IndInv, Provenance, Comes
<1>7. PendingIsRendered'
  BY <1>0, <1>1, <1>2, <1>3, <1>4 DEF PendingIsRendered
<1>8. RecordedGood'
  BY DEF IndInv, RecordedGood, Wanted, Good, Shows
<1>9. WorkGood'
  BY <1>1, <1>2 DEF IndInv, WorkGood, Wanted, Good, Shows
<1> QED BY <1>5, <1>6, <1>7, <1>8, <1>9 DEF IndInv

\* If the API server has recorded a hash wanted now, then what is being written is
\* wanted too, however stale the inputs it was rendered from.
LEMMA PendingIsWanted ==
  ASSUME NoABA(Renders), TypeOK, IndInv, pc = "write",
         api.hashes[CurrentFile] \in Wanted(CurrentFile)
  PROVE  pending \in Wanted(CurrentFile)
<1>1. PICK v \in cred..nodeCache : pending \in Renders[work.spec][v][CurrentFile]
  BY DEF IndInv, PendingIsRendered
<1>2. CurrentFile \in Files
  BY CurrentFileType
<1>3. v \in NodeVersions /\ cred <= v /\ v <= nodes /\ work.spec <= api.spec
  <2>1. /\ cred \in 1..MaxNodes /\ nodeCache \in 1..MaxNodes /\ nodes \in 1..MaxNodes
        /\ work.spec \in Nat /\ cache.spec \in Nat /\ api.spec \in Nat
    BY TypeFacts DEF NodeVersions
  <2>2. nodeCache <= nodes /\ work.spec <= cache.spec /\ cache.spec <= api.spec
    BY DEF IndInv, Lag
  <2> QED BY <1>1, <2>1, <2>2, BoundAssumption DEF NodeVersions
<1>4. Comes(api.hashes[CurrentFile], CurrentFile, work.spec, cred)
  BY <1>2 DEF IndInv, Provenance
<1>5. Renders[work.spec][v][CurrentFile] = Renders[api.spec][nodes][CurrentFile]
  <2>1. /\ work.spec \in Versions /\ api.spec \in Versions /\ work.spec <= work.spec
        /\ cred \in NodeVersions /\ nodes \in NodeVersions
        /\ api.hashes[CurrentFile] \in Data \cup {NoHash}
    BY <1>2, TypeFacts
  <2>2. api.hashes[CurrentFile] \in Renders[api.spec][nodes][CurrentFile]
    BY DEF Wanted
  <2> QED BY <1>2, <1>3, <1>4, <2>1, <2>2, NoReturn
<1> QED BY <1>1, <1>5 DEF Wanted

\* The values a write or a crash can give the file being written are good if its
\* hash is wanted, for the API server's hash as for the one in hand.
LEMMA WrittenIsGood ==
  ASSUME NoABA(Renders), TypeOK, IndInv, pc = "write",
         NEW c \in {Dirty, RenderFinalConfig(work.spec, pending)},
         \/ api.hashes[CurrentFile] \in Wanted(CurrentFile)
         \/ work.hashes[CurrentFile] \in Wanted(CurrentFile)
  PROVE  c = Dirty \/ Shows(c, CurrentFile)
<1>1. pending \in Wanted(CurrentFile)
  BY PendingIsWanted DEF IndInv, PendingIsRendered
<1> QED BY <1>1 DEF RenderFinalConfig, Shows

\* WriteConfig, successful or failing after the file was opened.
LEMMA WriteKeeps ==
  ASSUME NoABA(Renders), "open" \notin Faults, TypeOK, TypeOK', IndInv, WriteConfig \/ WriteConfigFails PROVE IndInv'
<1>0. PICK c \in {Dirty, RenderFinalConfig(work.spec, pending)} :
        disk' = [disk EXCEPT ![CurrentFile] = c]
  BY DEF WriteConfig, WriteConfigFails, FailedWrites, Fault
<1>1. /\ UNCHANGED <<api, nodes, cache, nodeCache, work, cred>>
      /\ pc = "write" /\ pc' \notin {"idle", "write"}
  BY DEF WriteConfig, WriteConfigFails, FileDone, input, caches
<1>2. CurrentFile \in Files
  BY <1>1, CurrentFileType
<1>3. disk'[CurrentFile] = c /\ \A f \in Files : f # CurrentFile => disk'[f] = disk[f]
  BY <1>0, <1>2 DEF TypeOK
<1>4. Lag'
  BY <1>1 DEF IndInv, Lag
<1>5. Provenance'
  BY <1>1 DEF IndInv, Provenance, Comes
<1>6. PendingIsRendered'
  BY <1>1 DEF PendingIsRendered
<1>7. ASSUME NEW f \in Files, f # CurrentFile, Good(f) PROVE Good(f)'
  BY <1>1, <1>3, <1>7 DEF Good, Shows, Wanted
<1>8. ASSUME api.hashes[CurrentFile] \in Wanted(CurrentFile)
             \/ work.hashes[CurrentFile] \in Wanted(CurrentFile),
             NEW g \in Files, g = CurrentFile
      PROVE  Good(g)'
  <2>1. c = Dirty \/ Shows(c, g)
    BY <1>1, <1>8, WrittenIsGood
  <2> QED BY <1>1, <1>3, <1>8, <2>1 DEF Good, Shows, Wanted
<1>9. \A f \in Files : Wanted(f)' = Wanted(f)
  BY <1>1 DEF Wanted
<1>10. RecordedGood'
  BY <1>1, <1>2, <1>7, <1>8, <1>9 DEF IndInv, RecordedGood
<1>11. WorkGood'
  BY <1>1, <1>2, <1>7, <1>8, <1>9 DEF IndInv, WorkGood
<1> QED BY <1>4, <1>5, <1>6, <1>10, <1>11 DEF IndInv

\* The status update, whether or not its response arrives.
LEMMA StatusKeeps ==
  ASSUME TypeOK, TypeOK', IndInv, StatusUpdate \/ StatusUpdateFails PROVE IndInv'
<1>1. /\ pc = "status" /\ pc' = "idle" /\ work.rv = api.rv
      /\ UNCHANGED <<nodes, cache, nodeCache, disk>>
      /\ api' \in {api, StatusStored}
  BY DEF StatusUpdate, StatusUpdateFails, UpdateAccepted, Return, caches, machine
<1>2. \/ api' = api
      \/ api'.spec = api.spec /\ api'.hashes = work.hashes /\ api'.rv = api.rv + 1
  BY <1>1 DEF StatusStored, TypeOK, Objects
<1>3. Lag'
  BY <1>1, <1>2, TypeFacts DEF IndInv, Lag
<1>4. Provenance'
  <2>1. ASSUME NEW f \in Files
        PROVE  /\ Comes(api.hashes[f], f, cache.spec, nodeCache)
               /\ Comes(work.hashes[f], f, cache.spec, nodeCache)
    <3>1. work.spec <= cache.spec /\ cred <= nodeCache /\ nodeCache <= nodeCache
      BY <1>1, TypeFacts DEF IndInv, Lag
    <3>2. /\ Comes(api.hashes[f], f, work.spec, cred)
          /\ Comes(work.hashes[f], f, work.spec, nodeCache)
      BY <1>1 DEF IndInv, Provenance
    <3> QED BY <3>1, <3>2, TypeFacts, ComesLater
  <2> QED BY <1>1, <1>2, <2>1 DEF IndInv, Provenance, Comes
<1>5. PendingIsRendered'
  BY <1>1 DEF PendingIsRendered
<1>6. RecordedGood'
  BY <1>1, <1>2 DEF IndInv, RecordedGood, WorkGood, Wanted, Good, Shows
<1>7. WorkGood'
  BY <1>1 DEF WorkGood
<1> QED BY <1>3, <1>4, <1>5, <1>6, <1>7 DEF IndInv

\* The informers deliver newer objects.
LEMMA SyncKeeps ==
  ASSUME TypeOK, TypeOK', IndInv, CacheSync \/ NodeSync PROVE IndInv'
<1>1. /\ UNCHANGED <<api, nodes, disk, pc, idx, work, cred, pending>>
      /\ cache' \in {cache, api} /\ nodeCache' \in {nodeCache, nodes}
  BY DEF CacheSync, NodeSync, input, local, machine
<1>2. cache.spec <= cache'.spec /\ nodeCache <= nodeCache'
  BY <1>1, TypeFacts DEF IndInv, Lag
<1>3. Lag'
  BY <1>1, <1>2, TypeFacts DEF IndInv, Lag
<1>4. Provenance'
  <2>0. /\ cache.spec \in Versions /\ cache'.spec \in Versions
        /\ nodeCache \in NodeVersions /\ nodeCache' \in NodeVersions
        /\ work.spec \in Versions /\ cred \in NodeVersions /\ work.spec <= work.spec
    BY TypeFacts DEF TypeOK, Objects
  <2>1. ASSUME NEW f \in Files PROVE Comes(cache'.hashes[f], f, cache'.spec, nodeCache')
    <3>1. Comes(cache.hashes[f], f, cache'.spec, nodeCache')
      BY <1>2, <2>0, ComesLater DEF IndInv, Provenance
    <3>2. Comes(api.hashes[f], f, cache'.spec, nodeCache')
      <4>1. CASE pc = "idle"
        BY <1>2, <2>0, <4>1, ComesLater DEF IndInv, Provenance
      <4>2. CASE pc # "idle"
        <5>1. work.spec <= cache'.spec /\ cred <= nodeCache'
          BY <1>2, <2>0, <4>2, TypeFacts DEF IndInv, Lag
        <5> QED BY <2>0, <4>2, <5>1, ComesLater DEF IndInv, Provenance
      <4> QED BY <4>1, <4>2
    <3> QED BY <1>1, <3>1, <3>2
  <2>2. ASSUME NEW f \in Files, pc = "idle"
        PROVE  Comes(api.hashes[f], f, cache'.spec, nodeCache')
    BY <1>2, <2>0, <2>2, ComesLater DEF IndInv, Provenance
  <2>3. ASSUME NEW f \in Files, pc # "idle"
        PROVE  Comes(work.hashes[f], f, work.spec, nodeCache')
    BY <1>2, <2>0, <2>3, ComesLater DEF IndInv, Provenance
  <2> QED BY <1>1, <2>1, <2>2, <2>3 DEF IndInv, Provenance, Comes
<1>5. PendingIsRendered'
  <2>1. cred..nodeCache \subseteq cred..nodeCache'
    BY <1>1, <1>2, TypeFacts DEF IndInv, Lag
  <2> QED BY <1>1, <2>1 DEF IndInv, PendingIsRendered, CurrentFile
<1>6. RecordedGood'
  BY <1>1 DEF IndInv, RecordedGood, Wanted, Good, Shows
<1>7. WorkGood'
  BY <1>1 DEF IndInv, WorkGood, Wanted, Good, Shows, CurrentFile
<1> QED BY <1>3, <1>4, <1>5, <1>6, <1>7 DEF IndInv

\* Users, other clients and the cluster change the inputs; hashes stay or vanish
\* with the object.
InputStep ==
  /\ UNCHANGED <<cache, nodeCache, disk, pc, idx, work, cred, pending>>
  /\ api.spec <= api'.spec /\ nodes <= nodes'
  /\ \A f \in Files : api'.hashes[f] \in {api.hashes[f], NoHash}
  /\ api' = api \/ api'.rv = api.rv + 1

\* Every change of the inputs is such a step.
LEMMA InputSteps ==
  ASSUME TypeOK, UserEdit \/ UserDelete \/ UserCreate \/ NodesChange \/ OtherWrite \/ PeerRegisters
  PROVE  InputStep
<1> USE DEF caches, local, machine
<1>1. CASE UserEdit
  BY <1>1, TypeFacts DEF UserEdit, InputStep, TypeOK, Objects
<1>2. CASE UserDelete
  BY <1>2, TypeFacts DEF UserDelete, Absent, InputStep, TypeOK, Objects
<1>3. CASE UserCreate
  BY <1>3, TypeFacts DEF UserCreate, Created, Absent, InputStep, TypeOK, Objects
<1>4. CASE NodesChange
  BY <1>4, TypeFacts DEF NodesChange, InputStep
<1>5. CASE OtherWrite
  <2>1. api'.rv = api.rv + 1 /\ api'.spec = api.spec /\ api'.hashes = api.hashes
    BY <1>5 DEF OtherWrite, TypeOK, Objects
  <2> QED BY <1>5, <2>1, TypeFacts DEF OtherWrite, InputStep
<1>6. CASE PeerRegisters
  BY <1>6, TypeFacts DEF PeerRegisters, InputStep, TypeOK, Objects
<1> QED BY <1>1, <1>2, <1>3, <1>4, <1>5, <1>6

\* What is recorded was rendered from inputs up to the current ones.
LEMMA RecordedComes ==
  ASSUME TypeOK, IndInv, NEW f \in Files
  PROVE  Comes(api.hashes[f], f, api.spec, nodes)
<1>1. CASE pc = "idle"
  BY <1>1, TypeFacts, ComesLater DEF IndInv, Lag, Provenance
<1>2. CASE pc # "idle"
  <2>1. work.spec <= api.spec /\ cred <= nodes
    BY <1>2, TypeFacts DEF IndInv, Lag
  <2> QED BY <1>2, <2>1, TypeFacts, ComesLater DEF IndInv, Provenance
<1> QED BY <1>1, <1>2

\* A hash wanted after a change of the inputs was wanted before.
LEMMA WantedBefore ==
  ASSUME NoABA(Renders), TypeOK, TypeOK', InputStep, NEW f \in Files, NEW h \in Data \cup {NoHash},
         NEW m \in Versions, NEW v \in NodeVersions, m <= api.spec, v <= nodes, Comes(h, f, m, v), h \in Wanted(f)'
  PROVE  Wanted(f)' = Wanted(f)
<1>0. api'.spec \in Versions /\ nodes' \in NodeVersions
  BY DEF TypeOK, Objects
<1>1. h \in Renders[api'.spec][nodes'][f]
  BY DEF Wanted
<1>2. Renders[api.spec][nodes][f] = Renders[api'.spec][nodes'][f]
  <2>1. /\ api.spec \in Versions /\ nodes \in NodeVersions
        /\ api.spec <= api'.spec /\ nodes <= nodes'
    BY TypeFacts DEF InputStep
  <2> QED BY <1>0, <1>1, <2>1, NoReturn
<1> QED BY <1>2 DEF Wanted

\* A recorded hash that is wanted after a change of the inputs was recorded, and wanted,
\* before.
LEMMA RecordedBefore ==
  ASSUME NoABA(Renders), TypeOK, TypeOK', IndInv, InputStep, NEW f \in Files, api'.hashes[f] \in Wanted(f)'
  PROVE  api'.hashes[f] = api.hashes[f] /\ Wanted(f)' = Wanted(f)
<1>0. api'.spec \in Versions /\ nodes' \in NodeVersions
  BY DEF TypeOK, Objects
<1>1. api'.hashes[f] = api.hashes[f]
  <2>1. NoHash \notin Renders[api'.spec][nodes'][f]
    BY <1>0, RenderAssumption, SentinelAssumption
  <2> QED BY <2>1 DEF Wanted, InputStep
<1>2. api.spec \in Versions /\ nodes \in NodeVersions /\ api.hashes[f] \in Data \cup {NoHash}
      /\ api.spec <= api.spec /\ nodes <= nodes
  BY TypeFacts
<1>3. Comes(api.hashes[f], f, api.spec, nodes)
  BY RecordedComes
<1> QED BY <1>1, <1>2, <1>3, WantedBefore

\* So was a hash in the hands of a Reconcile that may still record it.
LEMMA InHandBefore ==
  ASSUME NoABA(Renders), TypeOK, TypeOK', IndInv, InputStep, pc # "idle", work.rv = api'.rv,
         NEW f \in Files, work.hashes[f] \in Wanted(f)'
  PROVE  api' = api /\ Wanted(f)' = Wanted(f)
<1>1. api' = api
  BY TypeFacts DEF IndInv, Lag, InputStep
<1>2. Comes(work.hashes[f], f, work.spec, nodeCache) /\ work.spec <= api.spec /\ nodeCache <= nodes
  BY TypeFacts DEF IndInv, Lag, Provenance
<1> QED BY <1>1, <1>2, TypeFacts, WantedBefore

LEMMA InputKeeps ==
  ASSUME NoABA(Renders), TypeOK, TypeOK', IndInv, InputStep PROVE IndInv'
<1> USE DEF InputStep
<1>0. /\ api'.rv \in Nat /\ api'.spec \in Versions /\ nodes' \in NodeVersions
      /\ \A f \in Files : api'.hashes[f] \in Data \cup {NoHash}
  BY DEF TypeOK, Objects
<1>1. Lag'
  BY <1>0, TypeFacts DEF IndInv, Lag
<1>2. Provenance'
  BY DEF IndInv, Provenance, Comes
<1>3. PendingIsRendered'
  BY DEF IndInv, PendingIsRendered, CurrentFile
<1>4. ASSUME NEW f \in Files, Good(f), Wanted(f)' = Wanted(f) PROVE Good(f)'
  BY <1>4 DEF Good, Shows
<1>5. RecordedGood'
  <2> SUFFICES ASSUME NEW f \in Files, api'.hashes[f] \in Wanted(f)' PROVE Good(f)'
    BY DEF RecordedGood
  <2>1. api'.hashes[f] = api.hashes[f] /\ Wanted(f)' = Wanted(f)
    BY RecordedBefore
  <2> QED BY <1>4, <2>1 DEF IndInv, RecordedGood
<1>6. WorkGood'
  <2> SUFFICES ASSUME pc # "idle", work.rv = api'.rv, NEW f \in Files,
                      work.hashes[f] \in Wanted(f)', ~(pc = "write" /\ f = CurrentFile)
               PROVE  Good(f)'
    BY DEF WorkGood, CurrentFile
  <2>1. api' = api /\ Wanted(f)' = Wanted(f)
    BY InHandBefore
  <2> QED BY <1>4, <2>1 DEF IndInv, WorkGood
<1> QED BY <1>1, <1>2, <1>3, <1>5, <1>6 DEF IndInv

\* An edited file is seen to be modified.
LEMMA EditKeeps ==
  ASSUME TypeOK, IndInv, NEW f \in Files, AdminEdit(f) PROVE IndInv'
<1>1. /\ UNCHANGED <<api, nodes, cache, nodeCache, pc, idx, work, cred, pending>>
      /\ disk' = [disk EXCEPT ![f] = Dirty]
  BY DEF AdminEdit, input, caches, local
<1>2. Lag' /\ Provenance' /\ PendingIsRendered'
  BY <1>1 DEF IndInv, Lag, Provenance, Comes, PendingIsRendered, CurrentFile
<1>3. ASSUME NEW g \in Files, Good(g) PROVE Good(g)'
  BY <1>1, <1>3 DEF Good, Shows, Wanted, TypeOK
<1>4. RecordedGood'
  BY <1>1, <1>3 DEF IndInv, RecordedGood, Wanted
<1>5. WorkGood'
  BY <1>1, <1>3 DEF IndInv, WorkGood, Wanted, CurrentFile
<1> QED BY <1>2, <1>4, <1>5 DEF IndInv

\* The process dies, possibly inside WriteConfig, and starts again.
LEMMA CrashKeeps ==
  ASSUME NoABA(Renders), TypeOK, TypeOK', IndInv, Crash \/ Reboot PROVE IndInv'
<1>1. /\ UNCHANGED <<api, nodes>> /\ cache' = api /\ nodeCache' = nodes /\ pc' = "idle"
      /\ disk' \in CrashedDisks
  BY DEF Crash, Reboot, Restarted, input
<1>2. Lag'
  BY <1>1, TypeFacts DEF Lag
<1>3. Provenance'
  <2>1. \A f \in Files : Comes(api.hashes[f], f, api.spec, nodes)
    BY RecordedComes
  <2> QED BY <1>1, <2>1 DEF Provenance, Comes
<1>4. PendingIsRendered' /\ WorkGood'
  BY <1>1 DEF PendingIsRendered, WorkGood
<1>5. RecordedGood'
  <2> SUFFICES ASSUME NEW f \in Files, api.hashes[f] \in Wanted(f)
               PROVE  disk'[f] = Dirty \/ Shows(disk'[f], f)
    BY <1>1 DEF RecordedGood, Good, Shows, Wanted
  <2>1. CASE disk' = disk
    BY <2>1 DEF IndInv, RecordedGood, Good
  <2>2. CASE disk' # disk
    <3>1. PICK c \in {Dirty, RenderFinalConfig(work.spec, pending)} :
            pc = "write" /\ disk' = [disk EXCEPT ![CurrentFile] = c]
      BY <1>1, <2>2 DEF CrashedDisks
    <3>2. CASE f = CurrentFile
      <4>1. c = Dirty \/ Shows(c, f)
        BY <3>1, <3>2, WrittenIsGood
      <4> QED BY <3>1, <3>2, <4>1 DEF TypeOK
    <3>3. CASE f # CurrentFile
      BY <3>1, <3>3 DEF IndInv, RecordedGood, Good, TypeOK
    <3> QED BY <3>2, <3>3
  <2> QED BY <2>1, <2>2
<1> QED BY <1>2, <1>3, <1>4, <1>5 DEF IndInv

LEMMA IndInvStep ==
  ASSUME NoABA(Renders), "open" \notin Faults, TypeOK, TypeOK', IndInv, [Next]_vars
  PROVE  IndInv'
<1> USE DEF input, caches, local, machine
<1>1. CASE GetNotFound \/ GetSecretFails \/ RetryDue \/ Resync \/ UNCHANGED vars
  <2>1. LocalStep
    BY <1>1 DEF GetNotFound, GetSecretFails, RetryDue, Resync, Return, vars, LocalStep
  <2> QED BY <2>1, LocalKeeps
<1>2. CASE Get
  BY <1>2, GetKeeps
<1>3. CASE InitializeNodeStatus \/ InitializeNodeStatusFails \/ InitializeNodeStatusPanics
  <2>1. LocalStep
    BY <1>3
    DEF InitializeNodeStatus, InitializeNodeStatusFails, InitializeNodeStatusPanics,
        WithNodesMap, Return, LocalStep, TypeOK, Objects
  <2> QED BY <2>1, LocalKeeps
<1>4. CASE RenderFails \/ RenderPanics \/ CompareEqual
  <2>1. LocalStep
    BY <1>4 DEF RenderFails, RenderPanics, CompareEqual, FileDone, Return, LocalStep
  <2> QED BY <2>1, LocalKeeps
<1>5. CASE CompareDifferent
  BY <1>5, CompareKeeps
<1>6. CASE WriteConfig \/ WriteConfigFails
  BY <1>6, WriteKeeps
<1>7. ASSUME NEW s \in Services, Reload(s) \/ ReloadFails(s) PROVE IndInv'
  <2>1. LocalStep
    BY <1>7 DEF Reload, ReloadFails, LocalStep
  <2> QED BY <2>1, LocalKeeps
<1>8. CASE NoMoreReloads
  <2>1. LocalStep
    BY <1>8 DEF NoMoreReloads, LocalStep
  <2> QED BY <2>1, LocalKeeps
<1>9. CASE StatusUpdate \/ StatusUpdateFails
  BY <1>9, StatusKeeps
<1>10. CASE StatusUpdateConflict
  <2>1. LocalStep
    BY <1>10 DEF StatusUpdateConflict, Return, LocalStep
  <2> QED BY <2>1, LocalKeeps
<1>11. CASE CacheSync \/ NodeSync
  BY <1>11, SyncKeeps
<1>12. CASE UserEdit \/ UserDelete \/ UserCreate \/ NodesChange \/ OtherWrite \/ PeerRegisters
  BY <1>12, InputSteps, InputKeeps
<1>13. ASSUME NEW f \in Files, AdminEdit(f) PROVE IndInv'
  BY <1>13, EditKeeps
<1>14. CASE Crash \/ Reboot
  BY <1>14, CrashKeeps
<1> QED
  BY <1>1, <1>2, <1>3, <1>4, <1>5, <1>6, <1>7, <1>8, <1>9, <1>10, <1>11, <1>12, <1>13, <1>14
  DEF Next, ReconcileStep, Environment

\* The comparison in CompareAndWrite is sound: if no text ever returns after another
\* and a config file can always be opened, then a hash recorded for the text wanted
\* now means that the file holds that text or is seen to be modified.  Both
\* hypotheses are needed: the run "revert" drops the first, and a file that cannot be
\* opened keeps its old text under the new hash.
THEOREM RecordedCorrect ==
  ASSUME NoABA(Renders), "open" \notin Faults
  PROVE  Spec => []RecordedIsInstalled
<1>1. Init => IndInv
  <2> SUFFICES ASSUME Init PROVE IndInv
    OBVIOUS
  <2>1. Lag
    <3>1. api.rv = 1 /\ api.spec = 1
      BY DEF Init, Unconfigured, NoFiles, Created, Absent
    <3> QED BY <3>1 DEF Init, Unconfigured, NoFiles, Lag
  <2>2. \A f \in Files : api.hashes[f] = NoHash /\ cache.hashes[f] = NoHash
    BY DEF Init, Unconfigured, NoFiles, Created, Absent
  <2>3. Provenance
    BY <2>2 DEF Init, Unconfigured, NoFiles, Provenance, Comes
  <2>4. PendingIsRendered /\ RecordedGood /\ WorkGood
    BY DEF Init, Unconfigured, NoFiles, PendingIsRendered, RecordedGood, WorkGood, Good
  <2> QED BY <2>1, <2>3, <2>4 DEF IndInv
<1>2. TypeOK /\ TypeOK' /\ IndInv /\ [Next]_vars => IndInv'
  BY IndInvStep
<1>3. IndInv => RecordedIsInstalled
  BY DEF IndInv, RecordedGood, Good, RecordedIsInstalled
<1> QED
  BY <1>1, <1>2, <1>3, TypeCorrect, PTL DEF Spec

-------------------------------------------------------------------------------
(* The stamps.                                                                 *)

Stamped(c, f) == c # Dirty => c.gen <= api.spec /\ \E v \in 1..nodes : c.data \in Renders[c.gen][v][f]

StampInv == Lag /\ PendingIsRendered /\ \A f \in Files : Stamped(disk[f], f) /\ Stamped(loaded[f], f)

\* The part of the invariant that needs no hypothesis: who lags behind whom, and where the
\* text in hand comes from.
LEMMA LagStep ==
  ASSUME TypeOK, TypeOK', Lag, PendingIsRendered, [Next]_vars PROVE Lag' /\ PendingIsRendered'
<1> USE DEF input, caches, local, machine
<1>1. ASSUME LocalStep PROVE Lag' /\ PendingIsRendered'
  BY <1>1 DEF LocalStep, Lag, PendingIsRendered, CurrentFile
<1>2. CASE GetNotFound \/ GetSecretFails \/ RetryDue \/ Resync \/ UNCHANGED vars
  BY <1>1, <1>2 DEF GetNotFound, GetSecretFails, RetryDue, Resync, Return, vars, LocalStep
<1>3. CASE Get
  BY <1>3, TypeFacts DEF Get, Lag, PendingIsRendered
<1>4. CASE InitializeNodeStatus \/ InitializeNodeStatusFails \/ InitializeNodeStatusPanics
  <2>1. LocalStep
    BY <1>4
    DEF InitializeNodeStatus, InitializeNodeStatusFails, InitializeNodeStatusPanics,
        WithNodesMap, Return, LocalStep, TypeOK, Objects
  <2> QED BY <1>1, <2>1
<1>5. CASE RenderFails \/ RenderPanics \/ CompareEqual \/ NoMoreReloads \/ StatusUpdateConflict
           \/ \E s \in Services : Reload(s) \/ ReloadFails(s)
  <2>1. Lag'
    BY <1>5
    DEF RenderFails, RenderPanics, CompareEqual, NoMoreReloads, StatusUpdateConflict, Reload, ReloadFails,
        FileDone, Return, Lag
  <2>2. pc' # "write"
    BY <1>5
    DEF RenderFails, RenderPanics, CompareEqual, NoMoreReloads, StatusUpdateConflict, Reload, ReloadFails,
        FileDone, Return
  <2> QED BY <2>1, <2>2 DEF PendingIsRendered
<1>6. CASE CompareDifferent
  <2>1. PICK data \in Renderings(CurrentFile) \cap Data :
          /\ work' = [work EXCEPT !.hashes[CurrentFile] = data] /\ pending' = data
          /\ UNCHANGED <<api, nodes, cache, nodeCache, cred, idx>>
    BY <1>6 DEF CompareDifferent
  <2>2. CurrentFile \in Files /\ CurrentFile' = CurrentFile /\ pc = "file"
    BY <1>6, <2>1, CurrentFileType DEF CurrentFile, CompareDifferent
  <2>3. work'.rv = work.rv /\ work'.spec = work.spec /\ work'.hashes[CurrentFile] = data
    BY <2>1, <2>2 DEF TypeOK, Objects
  <2>4. \E v \in cred..nodeCache : data \in Renders[work.spec][v][CurrentFile]
    <3>1. PICK v \in {cred, nodeCache} : data \in Renders[work.spec][v][CurrentFile]
      BY <2>1 DEF Renderings, InputVersion
    <3>2. v \in cred..nodeCache
      BY <2>2, <3>1, TypeFacts DEF Lag, NodeVersions
    <3> QED BY <3>1, <3>2
  <2> QED BY <2>1, <2>2, <2>3, <2>4 DEF Lag, PendingIsRendered
<1>7. CASE WriteConfig \/ WriteConfigFails
  BY <1>7 DEF WriteConfig, WriteConfigFails, FileDone, Lag, PendingIsRendered
<1>8. CASE StatusUpdate \/ StatusUpdateFails
  <2>1. /\ pc' = "idle" /\ UNCHANGED <<nodes, cache, nodeCache>> /\ api' \in {api, StatusStored}
    BY <1>8 DEF StatusUpdate, StatusUpdateFails, Return
  <2>2. api' = api \/ (api'.spec = api.spec /\ api'.rv = api.rv + 1)
    BY <2>1 DEF StatusStored, TypeOK, Objects
  <2> QED BY <2>1, <2>2, TypeFacts DEF Lag, PendingIsRendered
<1>9. CASE CacheSync \/ NodeSync
  <2>1. /\ UNCHANGED <<api, nodes, pc, idx, work, cred, pending>>
        /\ cache' \in {cache, api} /\ nodeCache' \in {nodeCache, nodes}
    BY <1>9 DEF CacheSync, NodeSync
  <2>2. Lag' /\ cred..nodeCache \subseteq cred..nodeCache'
    BY <2>1, TypeFacts DEF Lag
  <2> QED BY <2>1, <2>2 DEF PendingIsRendered, CurrentFile
<1>10. CASE UserEdit \/ UserDelete \/ UserCreate \/ NodesChange \/ OtherWrite \/ PeerRegisters
  <2>1. InputStep
    BY <1>10, InputSteps
  <2>2. api'.rv \in Nat /\ api'.spec \in Versions /\ nodes' \in NodeVersions
    BY DEF TypeOK, Objects
  <2> QED BY <2>1, <2>2, TypeFacts DEF InputStep, Lag, PendingIsRendered, CurrentFile
<1>11. ASSUME NEW f \in Files, AdminEdit(f) PROVE Lag' /\ PendingIsRendered'
  BY <1>11 DEF AdminEdit, Lag, PendingIsRendered, CurrentFile
<1>12. CASE Crash \/ Reboot
  BY <1>12, TypeFacts DEF Crash, Reboot, Restarted, Lag, PendingIsRendered
<1> QED
  BY <1>2, <1>3, <1>4, <1>5, <1>6, <1>7, <1>8, <1>9, <1>10, <1>11, <1>12
  DEF Next, ReconcileStep, Environment

\* A text that was rendered from known inputs stays one.
LEMMA StampedLater ==
  ASSUME TypeOK, TypeOK', [Next]_vars, NEW c, NEW f \in Files, Stamped(c, f), c # Dirty => c.gen \in Versions
  PROVE  Stamped(c, f)'
<1>1. api.spec <= api'.spec /\ nodes <= nodes'
  <2>1. CASE api' = api /\ nodes' = nodes
    BY <2>1, TypeFacts
  <2>2. CASE UserEdit \/ UserDelete \/ UserCreate \/ NodesChange \/ OtherWrite \/ PeerRegisters
    BY <2>2, InputSteps DEF InputStep
  <2>3. CASE StatusUpdate \/ StatusUpdateFails
    <3>1. nodes' = nodes /\ api' \in {api, StatusStored}
      BY <2>3 DEF StatusUpdate, StatusUpdateFails
    <3>2. api'.spec = api.spec
      BY <3>1 DEF StatusStored, TypeOK, Objects
    <3> QED BY <3>1, <3>2, TypeFacts
  <2> QED
    BY <2>1, <2>2, <2>3
    DEF Next, ReconcileStep, Environment, vars, input, GetNotFound, GetSecretFails, Get, InitializeNodeStatus,
        InitializeNodeStatusFails, InitializeNodeStatusPanics, RenderFails, RenderPanics, CompareEqual,
        CompareDifferent, WriteConfig, WriteConfigFails, NoMoreReloads, Reload, ReloadFails, StatusUpdateConflict,
        CacheSync, NodeSync, RetryDue, Resync, AdminEdit, Crash, Reboot
<1>2. api'.spec \in Nat /\ nodes' \in Nat
  <2>1. api'.spec \in Versions /\ nodes' \in NodeVersions
    BY DEF TypeOK, Objects
  <2> QED BY <2>1 DEF Versions, NodeVersions
<1>3. 1..nodes \subseteq 1..nodes'
  BY <1>1, <1>2, TypeFacts
<1> QED BY <1>1, <1>2, <1>3, TypeFacts DEF Stamped, Versions

\* What a write, a failed one or a crash puts in the file in hand carries a true stamp.
LEMMA WrittenIsStamped ==
  ASSUME TypeOK, Lag, PendingIsRendered, pc = "write"
  PROVE  Stamped(RenderFinalConfig(work.spec, pending), CurrentFile)
<1>1. PICK v \in cred..nodeCache : pending \in Renders[work.spec][v][CurrentFile]
  BY DEF PendingIsRendered
<1>2. v \in 1..nodes /\ work.spec <= api.spec
  BY TypeFacts DEF Lag, NodeVersions
<1> QED BY <1>1, <1>2 DEF Stamped, RenderFinalConfig

LEMMA StampStep ==
  ASSUME TypeOK, TypeOK', StampInv, [Next]_vars PROVE StampInv'
<1> USE DEF input, caches, local, machine
<1>1. Lag' /\ PendingIsRendered'
  BY LagStep DEF StampInv
<1>2. \A f \in Files : disk[f] # Dirty => disk[f].gen \in Versions
  BY DEF TypeOK, Rendered
<1>3. \A f \in Files : loaded[f] # Dirty => loaded[f].gen \in Versions
  BY DEF TypeOK, Rendered
<1>4. \A f \in Files : Stamped(disk[f], f)
  BY DEF StampInv
<1>5. ASSUME NEW f \in Files PROVE Stamped(disk'[f], f)
  <2>1. CASE disk'[f] \in {disk[f], Dirty}
    BY <1>4, <2>1 DEF Stamped
  <2>2. CASE pc = "write" /\ f = CurrentFile /\ disk'[f] = RenderFinalConfig(work.spec, pending)
    BY <2>2, WrittenIsStamped DEF StampInv
  <2>3. CASE Crash \/ Reboot \/ WriteConfig \/ WriteConfigFails
    <3>1. \/ disk' = disk
          \/ /\ pc = "write"
             /\ \E c \in {disk[CurrentFile], Dirty, RenderFinalConfig(work.spec, pending)} :
                  disk' = [disk EXCEPT ![CurrentFile] = c]
      BY <2>3 DEF Crash, Reboot, WriteConfig, WriteConfigFails, FailedWrites, CrashedDisks
    <3> QED BY <2>1, <2>2, <3>1 DEF TypeOK
  <2>4. ASSUME NEW g \in Files, AdminEdit(g) PROVE Stamped(disk'[f], f)
    BY <2>1, <2>4 DEF AdminEdit, TypeOK
  <2>5. CASE disk' = disk
    BY <2>1, <2>5
  <2> QED
    BY <2>3, <2>4, <2>5
    DEF Next, ReconcileStep, Environment, vars, GetNotFound, GetSecretFails, Get, InitializeNodeStatus,
        InitializeNodeStatusFails, InitializeNodeStatusPanics, RenderFails, RenderPanics, CompareEqual,
        CompareDifferent, NoMoreReloads, Reload, ReloadFails, StatusUpdate, StatusUpdateConflict,
        StatusUpdateFails, CacheSync, NodeSync, RetryDue, Resync, UserEdit, UserDelete, UserCreate, NodesChange,
        OtherWrite, PeerRegisters
<1>6. ASSUME NEW f \in Files PROVE Stamped(loaded'[f], f)
  <2>1. loaded'[f] \in {loaded[f], disk[f], disk'[f]}
    <3>1. CASE loaded' = loaded
      BY <3>1
    <3>2. ASSUME NEW s \in Services, Reload(s) PROVE loaded'[f] \in {loaded[f], disk[f]}
      BY <3>2 DEF Reload
    <3>3. CASE Reboot
      BY <3>3 DEF Reboot
    <3> QED
      BY <3>1, <3>2, <3>3
      DEF Next, ReconcileStep, Environment, vars, GetNotFound, GetSecretFails, Get, InitializeNodeStatus,
          InitializeNodeStatusFails, InitializeNodeStatusPanics, RenderFails, RenderPanics, CompareEqual,
          CompareDifferent, WriteConfig, WriteConfigFails, NoMoreReloads, ReloadFails, StatusUpdate,
          StatusUpdateConflict, StatusUpdateFails, CacheSync, NodeSync, RetryDue, Resync, UserEdit, UserDelete,
          UserCreate, NodesChange, OtherWrite, PeerRegisters, AdminEdit, Crash
  <2> QED BY <1>4, <1>5, <2>1 DEF StampInv
<1>7. \A f \in Files : /\ disk'[f] # Dirty => disk'[f].gen \in Versions
                       /\ loaded'[f] # Dirty => loaded'[f].gen \in Versions
  BY DEF TypeOK, Rendered
<1>8. ASSUME NEW f \in Files, NEW c, Stamped(c, f), c # Dirty => c.gen \in Versions
      PROVE  c # Dirty => c.gen <= api'.spec /\ \E v \in 1..nodes' : c.data \in Renders[c.gen][v][f]
  BY <1>8, StampedLater DEF Stamped
<1>9. \A f \in Files : Stamped(disk[f], f)' /\ Stamped(loaded[f], f)'
  BY <1>5, <1>6, <1>7, <1>8 DEF Stamped
<1> QED BY <1>1, <1>9 DEF StampInv

\* The header of every intact file names the generation its text was rendered from, and so
\* does what every service has loaded, after any stale caches, torn and refused writes,
\* crashes and deletions: there is no hypothesis about faults or texts.
THEOREM StampCorrect == Spec => []StampIsTrue
<1>1. Init => StampInv
  <2> SUFFICES ASSUME Init PROVE StampInv
    OBVIOUS
  <2>1. api.rv = 1 /\ api.spec = 1
    BY DEF Init, Unconfigured, Created, Absent
  <2> QED BY <2>1 DEF Init, Unconfigured, NoFiles, StampInv, Lag, PendingIsRendered, Stamped
<1>2. TypeOK /\ TypeOK' /\ StampInv /\ [Next]_vars => StampInv'
  BY StampStep
<1>3. StampInv => StampIsTrue
  BY DEF StampInv, Stamped, StampIsTrue
<1> QED
  BY <1>1, <1>2, <1>3, TypeCorrect, PTL DEF Spec
===============================================================================
