-------------------------- MODULE ConfigWriterProofs --------------------------
(***************************************************************************)
(* Proofs about ConfigWriter, for any number of files, writers, texts and  *)
(* generations.                                                            *)
(***************************************************************************)
EXTENDS ConfigWriter, TLAPS

-------------------------------------------------------------------------------
(* Types.                                                                      *)

\* Rendering, digesting and merging stay within the types.
LEMMA HelperTypes ==
  /\ \A gen \in Gens, data \in Data : RenderFinalConfig(gen, data) \in Rendered
  /\ \A old \in Contents, new \in Rendered : Overwritten(old, new) \subseteq Contents
  BY DEF RenderFinalConfig, Rendered, Overwritten, Contents

\* Every system call of every writer, and every edit, keeps the types.
LEMMA TypeStep == TypeOK /\ [Next]_vars => TypeOK'
<1> SUFFICES ASSUME TypeOK, [Next]_vars PROVE TypeOK'
  OBVIOUS
<1> USE DEF TypeOK, Goto, Return, Touch, Calls
<1>1. ASSUME NEW w \in Writers, NEW f \in Files, NEW gen \in Gens, NEW data \in Data,
             WriteConfig(w, f, gen, data)
      PROVE  TypeOK'
  <2>1. RenderFinalConfig(gen, data) \in Rendered
    BY HelperTypes
  <2> QED BY <1>1, <2>1 DEF WriteConfig
<1>2. ASSUME NEW w \in Writers, OpenConfig(w) PROVE TypeOK'
  BY <1>2 DEF OpenConfig, Contents
<1>3. ASSUME NEW w \in Writers, OpenConfigFails(w) PROVE TypeOK'
  BY <1>3 DEF OpenConfigFails
<1>4. ASSUME NEW w \in Writers, WriteString(w) PROVE TypeOK'
  <2>1. Overwritten(content[file[w]], cfg[w]) \subseteq Contents
    BY HelperTypes
  <2> QED BY <1>4, <2>1 DEF WriteString
<1>5. ASSUME NEW w \in Writers, WriteStringFails(w) PROVE TypeOK'
  BY <1>5 DEF WriteStringFails, Contents
<1>6. ASSUME NEW w \in Writers, CloseConfig(w) PROVE TypeOK'
  BY <1>6 DEF CloseConfig
<1>7. ASSUME NEW w \in Writers, OpenDigest(w) PROVE TypeOK'
  BY <1>7 DEF OpenDigest, Digests
<1>8. ASSUME NEW w \in Writers, WriteDigest(w) PROVE TypeOK'
  BY <1>8 DEF WriteDigest, Digests, DigestToStore, Sha256
<1>9. ASSUME NEW w \in Writers, WriteDigestFails(w) PROVE TypeOK'
  BY <1>9 DEF WriteDigestFails, Digests
<1>10. ASSUME NEW w \in Writers, CloseDigest(w) PROVE TypeOK'
  BY <1>10 DEF CloseDigest
<1>11. ASSUME NEW w \in Writers, Crash(w) PROVE TypeOK'
  BY <1>11 DEF Crash
<1>12. ASSUME NEW f \in Files, AdminEdit(f) PROVE TypeOK'
  BY <1>12 DEF AdminEdit, Contents
<1>13. CASE UNCHANGED vars
  BY <1>13 DEF vars
<1> QED
  BY <1>1, <1>2, <1>3, <1>4, <1>5, <1>6, <1>7, <1>8, <1>9, <1>10, <1>11, <1>12, <1>13
  DEF Next, WriterStep

\* The variables of write_config.go keep their types: in particular a digest file
\* never holds anything but a whole digest of a rendering or an unusable stub.
THEOREM TypeCorrect == Spec => []TypeOK
<1>1. Init => TypeOK
  BY DEF Init, TypeOK, Contents, Digests, Calls
<1> QED
  BY <1>1, TypeStep, PTL DEF Spec

-------------------------------------------------------------------------------
(* A successful call.                                                          *)

\* How far the file and its digest are once writer w stands at a given call, if
\* nobody else has touched the file since w entered WriteConfig.
Progress(w) ==
  /\ pc[w] = "write" => content[file[w]] = Empty /\ linked[w]
  /\ pc[w] \in {"close", "opendigest", "writedigest", "closedigest"}
       => content[file[w]] = cfg[w]
  /\ pc[w] = "closedigest" => digest[file[w]] = cfg[w]
  /\ pc[w] = "idle" /\ res[w] = "ok" => content[file[w]] = cfg[w] /\ digest[file[w]] = cfg[w]
  /\ pc[w] # "idle" => res[w] = "none"

ProgressInv == \A w \in Writers : disturbed[w] \/ Progress(w)

\* A step of writer w leaves the writers of other files alone and disturbs the
\* other writers of its own file whenever it touches that file.
LEMMA OthersKept ==
  ASSUME TypeOK, ProgressInv, NEW w \in Writers, NEW v \in Writers, v # w,
         file'[v] = file[v], cfg'[v] = cfg[v], pc'[v] = pc[v], res'[v] = res[v],
         linked'[v] = linked[v],
         \A f \in Files : f # file[w] => content'[f] = content[f] /\ digest'[f] = digest[f],
         \/ disturbed'[v] = disturbed[v] /\ content' = content /\ digest' = digest
         \/ disturbed'[v] = (disturbed[v] \/ file[v] = file[w])
  PROVE  disturbed'[v] \/ Progress(v)'
<1>1. file[v] \in Files /\ disturbed[v] \in BOOLEAN
  BY DEF TypeOK
<1>2. CASE disturbed[v]
  BY <1>1, <1>2
<1>3. CASE ~disturbed[v]
  <2>1. Progress(v)
    BY <1>3 DEF ProgressInv
  <2> QED BY <1>1, <1>3, <2>1 DEF Progress
<1> QED BY <1>2, <1>3

LEMMA ProgressStep == TypeOK /\ ProgressInv /\ [Next]_vars => ProgressInv'
<1> SUFFICES ASSUME TypeOK, ProgressInv, [Next]_vars PROVE ProgressInv'
  OBVIOUS
<1>1. ASSUME NEW w \in Writers, WriterStep(w) PROVE ProgressInv'
  <2>1. disturbed'[w] \/ Progress(w)'
    <3> USE DEF TypeOK, ProgressInv, Progress, Goto, Return, Touch
    <3>1. ASSUME NEW f \in Files, NEW gen \in Gens, NEW data \in Data,
                 WriteConfig(w, f, gen, data)
          PROVE  disturbed'[w] \/ Progress(w)'
      BY <3>1 DEF WriteConfig
    <3>2. CASE OpenConfig(w)
      BY <3>2 DEF OpenConfig
    <3>3. CASE OpenConfigFails(w)
      BY <3>3 DEF OpenConfigFails
    <3>4. CASE WriteString(w)
      BY <3>4 DEF WriteString, Overwritten
    <3>5. CASE WriteStringFails(w)
      BY <3>5 DEF WriteStringFails
    <3>6. CASE CloseConfig(w)
      BY <3>6 DEF CloseConfig
    <3>7. CASE OpenDigest(w)
      BY <3>7 DEF OpenDigest
    <3>8. CASE WriteDigest(w)
      BY <3>8 DEF WriteDigest, DigestToStore, Sha256
    <3>9. CASE WriteDigestFails(w)
      BY <3>9 DEF WriteDigestFails
    <3>10. CASE CloseDigest(w)
      BY <3>10 DEF CloseDigest
    <3>11. CASE Crash(w)
      BY <3>11 DEF Crash
    <3> QED
      BY <1>1, <3>1, <3>2, <3>3, <3>4, <3>5, <3>6, <3>7, <3>8, <3>9, <3>10, <3>11
      DEF WriterStep
  <2>2. ASSUME NEW v \in Writers, v # w PROVE disturbed'[v] \/ Progress(v)'
    <3>1. /\ file'[v] = file[v] /\ cfg'[v] = cfg[v] /\ pc'[v] = pc[v] /\ res'[v] = res[v]
          /\ linked'[v] = linked[v]
          /\ \A f \in Files : f # file[w] => content'[f] = content[f] /\ digest'[f] = digest[f]
          /\ \/ disturbed'[v] = disturbed[v] /\ content' = content /\ digest' = digest
             \/ disturbed'[v] = (disturbed[v] \/ file[v] = file[w])
      BY <1>1, <2>2
      DEF WriterStep, WriteConfig, OpenConfig, OpenConfigFails, WriteString, WriteStringFails,
          CloseConfig, OpenDigest, WriteDigest, WriteDigestFails, CloseDigest, Crash, Goto,
          Return, Touch, TypeOK
    <3> QED BY <2>2, <3>1, OthersKept
  <2> QED BY <2>1, <2>2 DEF ProgressInv
<1>2. ASSUME NEW f \in Files, AdminEdit(f) PROVE ProgressInv'
  <2>1. ASSUME NEW v \in Writers, ~disturbed'[v] PROVE Progress(v)'
    <3>1. ~disturbed[v] /\ file[v] # f /\ file[v] \in Files
      BY <1>2, <2>1 DEF AdminEdit, TypeOK
    <3>2. content'[file[v]] = content[file[v]] /\ linked'[v] = linked[v]
      BY <1>2, <3>1 DEF AdminEdit, TypeOK
    <3>3. UNCHANGED <<digest, pc, file, cfg, res>>
      BY <1>2 DEF AdminEdit
    <3> QED BY <3>1, <3>2, <3>3 DEF ProgressInv, Progress
  <2> QED BY <2>1 DEF ProgressInv
<1>3. CASE UNCHANGED vars
  BY <1>3 DEF vars, ProgressInv, Progress
<1> QED BY <1>1, <1>2, <1>3 DEF Next

\* A call of WriteConfig that returned nil undisturbed installed its rendering, for
\* any number of writers and files.
THEOREM SuccessCorrect == Spec => []SuccessIsInstalled
<1>1. Init => ProgressInv
  BY DEF Init, ProgressInv
<1>2. TypeOK /\ ProgressInv => SuccessIsInstalled
  BY SentinelAssumption
  DEF ProgressInv, Progress, SuccessIsInstalled, IsFileModified, Sha256, TypeOK
<1> QED
  BY <1>1, <1>2, TypeCorrect, ProgressStep, PTL DEF Spec

-------------------------------------------------------------------------------
(* WriteConfig implements ManagedFile.                                         *)

\* The abstract value of a file and of a writer.
InstalledIn(f) == IF IsFileModified(f) THEN Dirty ELSE content[f]
RequestOf(w) == IF pc[w] = "idle" THEN Idle ELSE [file |-> file[w], cfg |-> cfg[w]]

\* A step of writer w inside WriteConfig, seen from ManagedFile: only its own file
\* can change, to its own rendering or to Dirty, and it stays inside or returns.
AbstractStep(w) ==
  /\ pc[w] # "idle"
  /\ \A f \in Files : f # file[w] => InstalledIn(f)' = InstalledIn(f)
  /\ InstalledIn(file[w])' \in {InstalledIn(file[w]), Dirty, cfg[w]}
  /\ file' = file /\ cfg' = cfg
  /\ \A v \in Writers : v # w => pc'[v] = pc[v]

\* Every system call of WriteConfig is such a step.
LEMMA CallIsAbstractStep ==
  ASSUME TypeOK, TypeOK', NEW w \in Writers, WriterStep(w),
         ~ \E f \in Files, gen \in Gens, data \in Data : WriteConfig(w, f, gen, data)
  PROVE  AbstractStep(w)
<1> DEFINE g == file[w]
<1>0. g \in Files /\ cfg[w] \in Rendered /\ content[g] \in Contents /\ digest[g] \in Digests
  BY DEF TypeOK
<1>1. ASSUME content' = content, digest' = digest
      PROVE  \A f \in Files : InstalledIn(f)' = InstalledIn(f)
  BY <1>1 DEF InstalledIn, IsFileModified
<1>2. ASSUME NEW c, content' = [content EXCEPT ![g] = c], digest' = digest
      PROVE  \A f \in Files : f # g => InstalledIn(f)' = InstalledIn(f)
  BY <1>2 DEF InstalledIn, IsFileModified, TypeOK
<1>3. ASSUME NEW d, digest' = [digest EXCEPT ![g] = d], content' = content
      PROVE  \A f \in Files : f # g => InstalledIn(f)' = InstalledIn(f)
  BY <1>3 DEF InstalledIn, IsFileModified, TypeOK
<1>4. ASSUME content'[g] = cfg[w], file' = file PROVE InstalledIn(g)' \in {Dirty, cfg[w]}
  BY <1>4 DEF InstalledIn
\* Damaged contents match no digest, and a stub of a digest matches no contents.
<1>5. ASSUME content'[g] \in {NoFile, Empty, Torn, Foreign} \/ digest'[g] \in {NoFile, BadDigest},
             file' = file
      PROVE  InstalledIn(g)' = Dirty
  BY <1>0, <1>5, SentinelAssumption
  DEF TypeOK, InstalledIn, IsFileModified, Sha256, Contents, Digests
<1>6. ASSUME digest'[g] = cfg[w], file' = file PROVE InstalledIn(g)' \in {Dirty, cfg[w]}
  BY <1>6 DEF InstalledIn, IsFileModified, Sha256
<1>7. CASE OpenConfig(w)
  <2>1. content' = [content EXCEPT ![g] = Empty] /\ digest' = digest /\ content'[g] = Empty
        /\ file' = file
    BY <1>0, <1>7 DEF OpenConfig, Goto, TypeOK
  <2> QED BY <1>0, <1>2, <1>5, <1>7, <2>1 DEF OpenConfig, AbstractStep, Goto, TypeOK
<1>8. CASE OpenConfigFails(w)
  BY <1>0, <1>1, <1>8 DEF OpenConfigFails, AbstractStep, Return, TypeOK
<1>9. CASE WriteString(w)
  <2>1. CASE content' = content
    BY <1>0, <1>1, <1>9, <2>1 DEF WriteString, AbstractStep, Goto, TypeOK
  <2>2. ASSUME NEW c \in Overwritten(content[g], cfg[w]), content' = [content EXCEPT ![g] = c]
        PROVE  AbstractStep(w)
    <3>1. content'[g] = c /\ digest' = digest /\ file' = file
      BY <1>0, <1>9, <2>2 DEF WriteString, Goto, TypeOK
    <3>2. c \in {cfg[w], Torn}
      BY <2>2 DEF Overwritten
    <3>3. InstalledIn(g)' \in {Dirty, cfg[w]}
      BY <1>4, <1>5, <3>1, <3>2
    <3> QED BY <1>0, <1>2, <1>9, <2>2, <3>1, <3>3 DEF WriteString, AbstractStep, Goto, TypeOK
  <2> QED BY <1>9, <2>1, <2>2 DEF WriteString
<1>10. CASE WriteStringFails(w)
  <2>1. CASE content' = content
    BY <1>0, <1>1, <1>10, <2>1 DEF WriteStringFails, AbstractStep, Return, TypeOK
  <2>2. CASE content' = [content EXCEPT ![g] = Torn]
    <3>1. content'[g] = Torn /\ digest' = digest /\ file' = file
      BY <1>0, <1>10, <2>2 DEF WriteStringFails, Return, TypeOK
    <3> QED BY <1>0, <1>2, <1>5, <1>10, <2>2, <3>1
            DEF WriteStringFails, AbstractStep, Return, TypeOK
  <2> QED BY <1>10, <2>1, <2>2 DEF WriteStringFails
<1>11. CASE CloseConfig(w)
  BY <1>0, <1>1, <1>11 DEF CloseConfig, AbstractStep, Goto, Return, TypeOK
<1>12. CASE OpenDigest(w)
  <2>1. CASE digest' = digest
    BY <1>0, <1>1, <1>12, <2>1 DEF OpenDigest, AbstractStep, Goto, Return, TypeOK
  <2>2. CASE digest' = [digest EXCEPT ![g] = BadDigest]
    <3>1. digest'[g] = BadDigest /\ content' = content /\ file' = file
      BY <1>0, <1>12, <2>2 DEF OpenDigest, Goto, Return, TypeOK
    <3> QED BY <1>0, <1>3, <1>5, <1>12, <2>2, <3>1
            DEF OpenDigest, AbstractStep, Goto, Return, TypeOK
  <2> QED BY <1>12, <2>1, <2>2 DEF OpenDigest
<1>13. CASE WriteDigest(w)
  <2>1. digest' = [digest EXCEPT ![g] = cfg[w]] /\ digest'[g] = cfg[w] /\ content' = content
        /\ file' = file
    BY <1>0, <1>13 DEF WriteDigest, DigestToStore, Sha256, Goto, TypeOK
  <2> QED BY <1>0, <1>3, <1>6, <1>13, <2>1 DEF WriteDigest, AbstractStep, Goto, TypeOK
<1>14. CASE WriteDigestFails(w)
  <2>1. CASE digest' = digest
    BY <1>0, <1>1, <1>14, <2>1 DEF WriteDigestFails, AbstractStep, Return, TypeOK
  <2>2. CASE digest' = [digest EXCEPT ![g] = BadDigest]
    <3>1. digest'[g] = BadDigest /\ content' = content /\ file' = file
      BY <1>0, <1>14, <2>2 DEF WriteDigestFails, Return, TypeOK
    <3> QED BY <1>0, <1>3, <1>5, <1>14, <2>2, <3>1
            DEF WriteDigestFails, AbstractStep, Return, TypeOK
  <2> QED BY <1>14, <2>1, <2>2 DEF WriteDigestFails
<1>15. CASE CloseDigest(w)
  BY <1>0, <1>1, <1>15 DEF CloseDigest, AbstractStep, Return, TypeOK
<1>16. CASE Crash(w)
  BY <1>0, <1>1, <1>16 DEF Crash, AbstractStep, Return, TypeOK
<1> QED
  BY <1>7, <1>8, <1>9, <1>10, <1>11, <1>12, <1>13, <1>14, <1>15, <1>16 DEF WriterStep

\* Such a step is a step of ManagedFile: Install, Damage, Finish or no step at all.
LEMMA AbstractStepManaged ==
  ASSUME TypeOK, TypeOK', NEW w \in Writers, AbstractStep(w)
  PROVE  [Managed!Next]_(Managed!vars)
<1> SUFFICES ASSUME NEW g \in Files, g = file[w], NEW new \in Rendered, new = cfg[w]
             PROVE  [Managed!Next]_(Managed!vars)
  BY DEF TypeOK
<1> DEFINE inst == [f \in Files |-> InstalledIn(f)]
           req == [v \in Writers |-> RequestOf(v)]
<1>0. [file |-> g, cfg |-> new] \in [file : Files, cfg : Rendered]
  OBVIOUS
<1>1. req[w] = [file |-> g, cfg |-> new] /\ req[w] # Idle
  BY <1>0, IdleAssumption DEF AbstractStep, RequestOf
<1>2. req[w].file = g /\ req[w].cfg = new
  <2> HIDE DEF req
  <2> QED BY <1>1
<1>3. inst' = [inst EXCEPT ![g] = InstalledIn(g)']
  BY <1>0 DEF AbstractStep
<1>4. req' = [req EXCEPT ![w] = RequestOf(w)']
  BY DEF AbstractStep, RequestOf
<1>5. RequestOf(w)' \in {Idle, req[w]}
  BY <1>1 DEF AbstractStep, RequestOf
<1>6. InstalledIn(g)' \in {inst[g], Dirty, new}
  BY <1>0 DEF AbstractStep
<1>7. CASE RequestOf(w)' = req[w]
  <2>1. req' = req
    BY <1>4, <1>7
  <2>2. CASE InstalledIn(g)' = inst[g]
    <3>1. inst' = inst
      BY <1>3, <2>2
    <3> QED BY <2>1, <3>1 DEF Managed!vars, InstalledIn, RequestOf
  <2>3. CASE InstalledIn(g)' = Dirty
    <3>1. inst' = [inst EXCEPT ![g] = Dirty]
      BY <1>3, <2>3
    <3>2. Managed!Damage(g)
      BY <2>1, <3>1 DEF Managed!Damage, InstalledIn, RequestOf
    <3> QED BY <1>0, <3>2 DEF Managed!Next
  <2>4. CASE InstalledIn(g)' = new
    <3>1. inst' = [inst EXCEPT ![req[w].file] = req[w].cfg]
      BY <1>2, <1>3, <2>4
    <3>2. Managed!Install(w)
      BY <1>1, <2>1, <3>1 DEF Managed!Install, InstalledIn, RequestOf
    <3> QED BY <3>2 DEF Managed!Next
  <2> QED BY <1>6, <2>2, <2>3, <2>4
<1>8. CASE RequestOf(w)' = Idle
  <2>1. req' = [req EXCEPT ![w] = Idle]
    BY <1>4, <1>8
  <2>2. inst' = inst \/ \E c \in {Dirty, req[w].cfg} : inst' = [inst EXCEPT ![req[w].file] = c]
    BY <1>2, <1>3, <1>6
  <2>3. Managed!Finish(w)
    BY <1>1, <2>1, <2>2 DEF Managed!Finish, InstalledIn, RequestOf
  <2> QED BY <2>3 DEF Managed!Next
<1> QED BY <1>5, <1>7, <1>8

\* WriteConfig implements ManagedFile: whatever fails, dies or interferes, a file
\* that IsFileModified takes for intact is a complete rendering, and became so
\* while a writer was installing exactly that rendering.
THEOREM WriterRefinement == Spec => ImplementsManagedFile
<1>1. Init => Managed!Init
  <2> SUFFICES ASSUME Init PROVE Managed!Init
    OBVIOUS
  <2>1. \A f \in Files : IsFileModified(f)
    BY DEF Init, IsFileModified
  <2> QED BY <2>1 DEF Init, Managed!Init
<1>2. TypeOK /\ TypeOK' /\ [Next]_vars => [Managed!Next]_(Managed!vars)
  <2> SUFFICES ASSUME TypeOK, TypeOK', [Next]_vars PROVE [Managed!Next]_(Managed!vars)
    OBVIOUS
  <2>1. ASSUME NEW w \in Writers, NEW f \in Files, NEW gen \in Gens, NEW data \in Data,
               WriteConfig(w, f, gen, data)
        PROVE  Managed!Next
    <3> DEFINE c == RenderFinalConfig(gen, data)
    <3>1. c \in Rendered
      BY HelperTypes
    <3>2. Managed!Request(w, f, c)
      <4>1. content' = content /\ digest' = digest
            /\ pc[w] = "idle" /\ pc' = [pc EXCEPT ![w] = "open"]
            /\ file' = [file EXCEPT ![w] = f] /\ cfg' = [cfg EXCEPT ![w] = c]
        BY <2>1 DEF WriteConfig
      <4>2. \A h \in Files : IsFileModified(h)' = IsFileModified(h)
        BY <4>1 DEF IsFileModified
      <4>3. [v \in Writers |-> RequestOf(v)]'
              = [[v \in Writers |-> RequestOf(v)] EXCEPT ![w] = [file |-> f, cfg |-> c]]
        BY <4>1 DEF RequestOf, TypeOK
      <4> QED BY <4>1, <4>2, <4>3 DEF Managed!Request, RequestOf
    <3> QED BY <3>1, <3>2 DEF Managed!Next
  <2>2. ASSUME NEW w \in Writers, WriterStep(w) PROVE [Managed!Next]_(Managed!vars)
    BY <2>1, <2>2, CallIsAbstractStep, AbstractStepManaged
  <2>3. ASSUME NEW f \in Files, AdminEdit(f) PROVE Managed!Next
    <3> DEFINE inst == [h \in Files |-> InstalledIn(h)]
    <3>1. IsFileModified(f)'
      BY <2>3, SentinelAssumption
      DEF AdminEdit, IsFileModified, Sha256, TypeOK, Digests, Contents
    <3>2. \A h \in Files : h # f => InstalledIn(h)' = InstalledIn(h)
      BY <2>3 DEF AdminEdit, InstalledIn, IsFileModified, TypeOK
    <3>3. inst' = [inst EXCEPT ![f] = Dirty]
      BY <3>1, <3>2 DEF InstalledIn
    <3>4. Managed!Damage(f)
      BY <2>3, <3>3 DEF Managed!Damage, AdminEdit, InstalledIn
    <3> QED BY <3>4 DEF Managed!Next
  <2>4. CASE UNCHANGED vars
    <3>1. \A f \in Files : IsFileModified(f)' = IsFileModified(f)
      BY <2>4 DEF vars, IsFileModified
    <3> QED BY <2>4, <3>1 DEF vars, Managed!vars
  <2> QED BY <2>2, <2>3, <2>4 DEF Next
<1> QED
  BY <1>1, <1>2, TypeCorrect, PTL DEF Spec, ImplementsManagedFile, Managed!Spec
===============================================================================
