----------------------------- MODULE MCRendering ------------------------------
(***************************************************************************)
(* Instances of Rendering: addresses of four bits.                         *)
(***************************************************************************)
EXTENDS Rendering

TwoAddresses == {9, 14}

\* Half of the address space, named by its own address and by another one of its
\* addresses, and a network at the end of the address space with no address after its own.
MCNetworks == {[addr |-> 8, bits |-> 1], [addr |-> 13, bits |-> 1], [addr |-> 15, bits |-> 4]}

\* The smallest network with three addresses after its own.
OneNetwork == {[addr |-> 4, bits |-> 2]}

Address(type, ip) == [type |-> type, ip |-> ip]

\* An API server with two internal addresses, and an ingress node without any.
MCNodeStates ==
  {[roles |-> {"api", "ingress"},
    addresses |-> <<Address("ExternalIP", 9), Address("InternalIP", 14), Address("InternalIP", 9)>>],
   [roles |-> {"ingress"}, addresses |-> <<Address("ExternalIP", 9)>>]}

\* A flag that is not set and a list of two.
MCBackendFlags == {<<Bad>>, <<9, 14>>}
===============================================================================
