----------------------------- MODULE ManagedFile -----------------------------
(***************************************************************************)
(* What the pair "config file + .sha256 file" promises to the reconciler,  *)
(* abstracted from how WriteConfig gets there.  A file is either intact,   *)
(* holding one complete rendering, or Dirty: absent, truncated, garbled or *)
(* edited by hand, all of which IsFileModified reports.  A file becomes    *)
(* intact only as the rendering some writer is installing at that moment,  *)
(* so an intact file never shows a rendering nobody asked for.             *)
(***************************************************************************)
CONSTANTS
  Files,      \* config files
  Writers,    \* processes that run WriteConfig
  Rendered,   \* complete file contents
  Dirty,      \* the file is not a rendering we installed
  Idle        \* a writer that is not inside WriteConfig

VARIABLES
  installed,  \* [Files -> Rendered \cup {Dirty}]
  request     \* [Writers -> the file and rendering being written, or Idle]

vars == <<installed, request>>

Init ==
  /\ installed = [f \in Files |-> Dirty]
  /\ request = [w \in Writers |-> Idle]

\* WriteConfig is called.
Request(w, f, c) ==
  /\ request[w] = Idle
  /\ request' = [request EXCEPT ![w] = [file |-> f, cfg |-> c]]
  /\ UNCHANGED installed

\* The file becomes what writer w was asked to install.
Install(w) ==
  /\ request[w] # Idle
  /\ installed' = [installed EXCEPT ![request[w].file] = request[w].cfg]
  /\ UNCHANGED request

\* The file is no longer intact, and IsFileModified will say so.
Damage(f) ==
  /\ installed' = [installed EXCEPT ![f] = Dirty]
  /\ UNCHANGED request

\* WriteConfig returns, or its process dies, and the file is as it was, installed
\* or Dirty.
Finish(w) ==
  /\ request[w] # Idle
  /\ request' = [request EXCEPT ![w] = Idle]
  /\ \/ UNCHANGED installed
     \/ \E c \in {Dirty, request[w].cfg} :
          installed' = [installed EXCEPT ![request[w].file] = c]

Next ==
  \/ \E w \in Writers : \/ \E f \in Files, c \in Rendered : Request(w, f, c)
                        \/ Install(w)
                        \/ Finish(w)
  \/ \E f \in Files : Damage(f)

Spec == Init /\ [][Next]_vars
===============================================================================
