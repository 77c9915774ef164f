----------------------------- MODULE MCReconciler -----------------------------
(***************************************************************************)
(* Small instances of Reconciler: one file that depends on the spec and    *)
(* the Nodes (haproxy), one that depends on the spec only (keepalived) and *)
(* one that depends on the spec and the Secret (floaty), over two services *)
(* with floaty and keepalived sharing one, as in ReconcileLBConfig.        *)
(***************************************************************************)
EXTENDS Reconciler

MCFiles == {"haproxy", "keepalived", "floaty"}
MCFileSeq == <<"haproxy", "keepalived", "floaty">>
MCServices == {"HAProxy", "Keepalived"}
MCServiceOf == [f \in MCFiles |-> IF f = "haproxy" THEN "HAProxy" ELSE "Keepalived"]
MCCredFiles == {"floaty"}

MCData == 1..11

AllRenders(R(_, _, _)) ==
  [i \in 1..MaxSpec |-> [v \in 1..MaxNodes |-> [f \in MCFiles |-> R(i, v, f)]]]

\* Every version of a file's inputs renders to a text of its own.
Fresh(i, v, f) ==
  CASE f = "haproxy"    -> {MaxNodes * (i - 1) + v}
    [] f = "keepalived" -> {i}
    [] f = "floaty"     -> {v}
FreshRenders == AllRenders(Fresh)
ASSUME FreshIsNoABA == NoABA(FreshRenders)

\* The first spec cannot be rendered (keepalived: a VIP that is no CIDR, haproxy: a
\* nil IngressBackend), the next ones can.
Unrenderable(i, v, f) ==
  IF i = 1 /\ f = "keepalived" THEN {RenderError}
  ELSE IF i = 1 /\ v = 2 /\ f = "haproxy" THEN {RenderPanic}
  ELSE Fresh(i, v, f)

\* The same, and the last version of the Nodes has two of them, which the cache lists in
\* either order.
Reordered(i, v, f) ==
  IF f = "haproxy" /\ i = MaxSpec /\ v = MaxNodes
    THEN Unrenderable(i, v, f) \cup {11}
    ELSE Unrenderable(i, v, f)
ReorderedRenders == AllRenders(Reordered)
ASSUME ReorderedIsSettled == NoABA(ReorderedRenders) /\ Determined(ReorderedRenders)

\* The user reverts the second edit: versions 1 and 3 are the same.
Reverting(i, v, f) == Fresh(IF i = 3 THEN 1 ELSE i, v, f)
RevertingRenders == AllRenders(Reverting)
===============================================================================
