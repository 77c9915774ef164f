----------------------------- MODULE ConfigWriter -----------------------------
(***************************************************************************)
(* write_config.go at the granularity of its system calls.  A writer is a  *)
(* process executing WriteConfig: the controller's only reconcile worker,  *)
(* or a "--render-from-file" run beside it.  Both truncate and rewrite the *)
(* file in place and then the digest file next to it; any call can fail,   *)
(* the process can die between and within calls, and an administrator can  *)
(* edit or remove the config file at any time.                             *)
(*                                                                         *)
(* sha256 is collision free here: a digest is represented by the contents  *)
(* it is the digest of.                                                    *)
(***************************************************************************)
EXTENDS Naturals

CONSTANTS
  Files,      \* config files, without their digest files
  Writers,    \* processes that run WriteConfig
  Data,       \* configuration texts, before header and stamp
  Gens,       \* generations of the LoadBalancerConfig named in the stamp
  NoFile,     \* the file does not exist
  Empty,      \* the file was truncated and nothing is written yet
  Torn,       \* a proper part of a rendering, or a mix of two
  Foreign,    \* contents written by somebody else
  BadDigest,  \* a digest file that is empty or cut short
  Dirty,      \* abstract value: not an installed rendering
  Idle        \* abstract value: writer outside WriteConfig

VARIABLES
  content,    \* [Files -> contents of the config file]
  digest,     \* [Files -> contents of the .sha256 file]
  pc,         \* [Writers -> next system call]
  file,       \* [Writers -> parameter configfile]
  cfg,        \* [Writers -> local variable cfgfilecontents]
  res,        \* [Writers -> what the last call returned]
  linked,     \* [Writers -> whether the file opened last is still the one of that name]
  disturbed   \* history: somebody else touched the file during or since the call

vars == <<content, digest, pc, file, cfg, res, linked, disturbed>>

\* RenderFinalConfig: the stamp names the generation, so rendering the same data
\* for another generation gives another file.
RenderFinalConfig(gen, data) == [gen |-> gen, data |-> data]

Rendered == [gen : Gens, data : Data]
Contents == Rendered \cup {NoFile, Empty, Torn, Foreign}
Digests == Rendered \cup {NoFile, BadDigest}
Calls == {"idle", "open", "write", "close", "opendigest", "writedigest", "closedigest"}

ASSUME SentinelAssumption ==
  /\ {NoFile, Empty, Torn, Foreign, BadDigest, Dirty} \cap Rendered = {}
  /\ NoFile # Empty /\ NoFile # Torn /\ NoFile # Foreign /\ NoFile # BadDigest
  /\ BadDigest # Empty /\ BadDigest # Torn /\ BadDigest # Foreign
  /\ Empty # Torn /\ Empty # Foreign /\ Torn # Foreign
ASSUME IdleAssumption == Idle \notin [file : Files, cfg : Rendered]

Sha256(c) == c

\* Mutant: an empty or cut short digest file is taken for "not modified".
IsFileModifiedTrustsBadDigest(f) ==
  \/ content[f] = NoFile
  \/ digest[f] = NoFile
  \/ digest[f] # BadDigest /\ Sha256(content[f]) # digest[f]

\* An unreadable config or digest file counts as modified.
IsFileModified(f) ==
  \/ content[f] = NoFile
  \/ digest[f] = NoFile
  \/ Sha256(content[f]) # digest[f]

-------------------------------------------------------------------------------
Init ==
  /\ content \in [Files -> {NoFile, Foreign}]
  /\ digest = [f \in Files |-> NoFile]
  /\ pc = [w \in Writers |-> "idle"]
  /\ file \in [Writers -> Files]
  /\ cfg \in [Writers -> Rendered]
  /\ res = [w \in Writers |-> "none"]
  /\ linked = [w \in Writers |-> FALSE]
  /\ disturbed = [w \in Writers |-> TRUE]

\* Writer w touches file f: every other writer of f is no longer alone.
Touch(w, f) == disturbed' = [v \in Writers |-> disturbed[v] \/ (v # w /\ file[v] = f)]

Goto(w, call) == /\ pc' = [pc EXCEPT ![w] = call]
                 /\ UNCHANGED <<file, cfg, res>>

Return(w, result) == /\ pc' = [pc EXCEPT ![w] = "idle"]
                     /\ res' = [res EXCEPT ![w] = result]
                     /\ UNCHANGED <<file, cfg>>

\* WriteConfig is entered and renders the final contents.
WriteConfig(w, f, gen, data) ==
  /\ pc[w] = "idle"
  /\ pc' = [pc EXCEPT ![w] = "open"]
  /\ file' = [file EXCEPT ![w] = f]
  /\ cfg' = [cfg EXCEPT ![w] = RenderFinalConfig(gen, data)]
  /\ res' = [res EXCEPT ![w] = "none"]
  /\ disturbed' = [disturbed EXCEPT ![w] = \E v \in Writers \ {w} : pc[v] # "idle" /\ file[v] = f]
  /\ UNCHANGED <<content, digest, linked>>

\* Mutant: OpenFile without O_TRUNC.
OpenConfigKeepsContents(w) ==
  /\ pc[w] = "open"
  /\ content' = [content EXCEPT ![file[w]] = IF @ = NoFile THEN Empty ELSE @]
  /\ linked' = [linked EXCEPT ![w] = TRUE]
  /\ Touch(w, file[w])
  /\ Goto(w, "write")
  /\ UNCHANGED digest

\* MkdirAll and OpenFile with O_TRUNC.
OpenConfig(w) ==
  /\ pc[w] = "open"
  /\ content' = [content EXCEPT ![file[w]] = Empty]
  /\ linked' = [linked EXCEPT ![w] = TRUE]
  /\ Touch(w, file[w])
  /\ Goto(w, "write")
  /\ UNCHANGED digest

OpenConfigFails(w) ==
  /\ pc[w] = "open"
  /\ Return(w, "err")
  /\ UNCHANGED <<content, digest, linked, disturbed>>

\* What one write at offset 0 leaves: over a truncated file exactly the new text, over
\* the text of somebody else possibly its longer tail.
Overwritten(old, new) == IF old = Empty THEN {new} ELSE {new, Torn}

\* Nobody sees what is written to a file that was removed meanwhile, even if the other
\* writer has created a new one of that name.
WriteString(w) ==
  /\ pc[w] = "write"
  /\ \/ /\ linked[w]
        /\ \E c \in Overwritten(content[file[w]], cfg[w]) : content' = [content EXCEPT ![file[w]] = c]
     \/ /\ ~linked[w]
        /\ UNCHANGED content
  /\ Touch(w, file[w])
  /\ Goto(w, "close")
  /\ UNCHANGED <<digest, linked>>

\* A failed write may have written a part.
WriteStringFails(w) ==
  /\ pc[w] = "write"
  /\ \/ linked[w] /\ content' = [content EXCEPT ![file[w]] = Torn]
     \/ UNCHANGED content
  /\ Touch(w, file[w])
  /\ Return(w, "err")
  /\ UNCHANGED <<digest, linked>>

CloseConfig(w) ==
  /\ pc[w] = "close"
  /\ \/ Goto(w, "opendigest")
     \/ Return(w, "err")
  /\ UNCHANGED <<content, digest, linked, disturbed>>

OpenDigest(w) ==
  /\ pc[w] = "opendigest"
  /\ \/ /\ digest' = [digest EXCEPT ![file[w]] = BadDigest]
        /\ Touch(w, file[w])
        /\ Goto(w, "writedigest")
     \/ /\ Return(w, "err")
        /\ UNCHANGED <<digest, disturbed>>
  /\ UNCHANGED <<content, linked>>

\* Mutant: the digest is computed from the file, whatever it holds by now.
DigestOfFile(w) == Sha256(content[file[w]])

\* The digest is computed from the contents in memory, not from the file.
DigestToStore(w) == Sha256(cfg[w])

WriteDigest(w) ==
  /\ pc[w] = "writedigest"
  /\ digest' = [digest EXCEPT ![file[w]] = DigestToStore(w)]
  /\ Touch(w, file[w])
  /\ Goto(w, "closedigest")
  /\ UNCHANGED <<content, linked>>

WriteDigestFails(w) ==
  /\ pc[w] = "writedigest"
  /\ \/ digest' = [digest EXCEPT ![file[w]] = BadDigest]
     \/ UNCHANGED digest
  /\ Touch(w, file[w])
  /\ Return(w, "err")
  /\ UNCHANGED <<content, linked>>

CloseDigest(w) ==
  /\ pc[w] = "closedigest"
  /\ Return(w, "ok") \/ Return(w, "err")
  /\ UNCHANGED <<content, digest, linked, disturbed>>

\* The process dies between two calls; dying inside one has the effect of that
\* call failing.
Crash(w) ==
  /\ pc[w] # "idle"
  /\ Return(w, "none")
  /\ UNCHANGED <<content, digest, linked, disturbed>>

\* An administrator edits the config file in place, replaces it, as many editors do, or
\* removes it.
AdminEdit(f) ==
  /\ \/ /\ content' = [content EXCEPT ![f] = Foreign]
        /\ UNCHANGED linked
     \/ /\ \E c \in {NoFile, Foreign} : content' = [content EXCEPT ![f] = c]
        /\ linked' = [v \in Writers |-> linked[v] /\ file[v] # f]
  /\ disturbed' = [v \in Writers |-> disturbed[v] \/ file[v] = f]
  /\ UNCHANGED <<digest, pc, file, cfg, res>>

WriterStep(w) ==
  \/ \E f \in Files, gen \in Gens, data \in Data : WriteConfig(w, f, gen, data)
  \/ OpenConfig(w) \/ OpenConfigFails(w)
  \/ WriteString(w) \/ WriteStringFails(w)
  \/ CloseConfig(w)
  \/ OpenDigest(w)
  \/ WriteDigest(w) \/ WriteDigestFails(w)
  \/ CloseDigest(w)
  \/ Crash(w)

Next ==
  \/ \E w \in Writers : WriterStep(w)
  \/ \E f \in Files : AdminEdit(f)

Spec == Init /\ [][Next]_vars

-------------------------------------------------------------------------------
\* A digest file holds the digest of a rendering or is recognisably bad, and every writer
\* is at one of WriteConfig's system calls with a complete rendering in hand.
TypeOK ==
  /\ content \in [Files -> Contents]
  /\ digest \in [Files -> Digests]
  /\ pc \in [Writers -> Calls]
  /\ file \in [Writers -> Files]
  /\ cfg \in [Writers -> Rendered]
  /\ res \in [Writers -> {"none", "ok", "err"}]
  /\ linked \in [Writers -> BOOLEAN]
  /\ disturbed \in [Writers -> BOOLEAN]

\* A call of WriteConfig that returned nil while nobody else touched the file left
\* exactly the rendering it was given, and IsFileModified agrees.
SuccessIsInstalled ==
  \A w \in Writers :
    res[w] = "ok" /\ ~disturbed[w]
      => content[file[w]] = cfg[w] /\ ~IsFileModified(file[w])

\* The promise of ManagedFile: whatever crashes, failed calls, edits and a second
\* writer do, a file that IsFileModified takes for intact holds a complete
\* rendering, and became intact while a writer was installing that rendering.
Managed == INSTANCE ManagedFile WITH
  installed <- [f \in Files |-> IF IsFileModified(f) THEN Dirty ELSE content[f]],
  request <- [w \in Writers |-> IF pc[w] = "idle" THEN Idle
                                ELSE [file |-> file[w], cfg |-> cfg[w]]]

ImplementsManagedFile == Managed!Spec
===============================================================================
