------------------------------ MODULE Rendering -------------------------------
(***************************************************************************)
(* Which addresses the rendered files of the two load balancers show: the  *)
(* computations of vip.go and the Render functions that use them, run over *)
(* a LoadBalancerConfig that users edit, Nodes and routes that change, by  *)
(* the controller or by a process started with --render-from-file.         *)
(*                                                                         *)
(* A text is the addresses its template prints, by role; the lists of      *)
(* virtual addresses are sorted, so a set stands for a list.  The backends *)
(* are a set too: their order is arbitrary and the templates number the    *)
(* servers, whatever name a backend has.  "texts" are what was last        *)
(* rendered for each file; that the disk shows them is the subject of      *)
(* Reconciler, as are the interleavings: a pass of ReconcileLBConfig works *)
(* on one copy of the object and is one step here.  The sysctl file and    *)
(* the connection of the public interface show no address.                 *)
(***************************************************************************)
EXTENDS Naturals, Sequences

CONSTANTS
  AddrBits,        \* width of an IPv4 address
  V4, V6,          \* addresses users choose from
  ClusterNetworks, \* values of --cluster-network, which main requires to be IPv4
  Bad,             \* a string that is no CIDR
  NodeNames,       \* cluster nodes
  NodeStates,      \* labels and addresses a node may have
  BackendFlags,    \* values of --api-backends and --ingress-backends
  Nil,             \* an optional field is omitted; no address in a file
  InvalidIP,       \* netip.Addr{}
  NotRendered,     \* no pass has rendered the file
  Error, Panic,    \* a Render function returns an error, or panics
  MaxEvents        \* bound: edits, failed lookups and bootstraps

Hosts == {"primary", "secondary"}  \* with and without --primary
NetworkSize(bits) == 2^(AddrBits - bits)
IPv4 == 0..(NetworkSize(0) - 1)
Addresses == IPv4 \cup V6
Networks == [addr : IPv4, bits : 0..AddrBits]

Single(ip) == [ip |-> ip, single |-> TRUE]
Wide(ip) == [ip |-> ip, single |-> FALSE]
Cidrs == {Single(ip) : ip \in V4 \cup V6} \cup {Wide(ip) : ip \in V4} \cup {Bad}
Clouds == {"cloudscale", "exoscale"}
Distributions == {"openshift", "talos"}
SecretKeys == {"token", "key", "secret"}
VirtualAddresses == [type : {"private", "public"}, address : Cidrs]

\* +listMapKey=address
Keyed(vas) == \A a, b \in vas : a.address = b.address => a = b

ASSUME NetworkAssumption ==
  /\ AddrBits \in Nat \ {0}
  /\ V4 \subseteq IPv4
  /\ NodeStates \subseteq [roles : SUBSET {"api", "ingress"},
                          addresses : Seq([type : {"InternalIP", "ExternalIP"}, ip : V4])]
  /\ BackendFlags \subseteq Seq(V4 \cup {Bad})
  /\ ClusterNetworks \subseteq Networks
  /\ MaxEvents \in Nat

\* The prover has no theory of powers: the laws of 2^n it is told.
ASSUME PowerAssumption ==
  /\ \A bits \in 0..AddrBits : /\ NetworkSize(bits) \in Nat \ {0}
                               /\ NetworkSize(0) % NetworkSize(bits) = 0
  /\ \A bits \in 0..AddrBits : /\ bits < AddrBits => NetworkSize(bits) >= 2
                               /\ bits + 2 <= AddrBits => NetworkSize(bits) >= 4

ASSUME SentinelAssumption == InvalidIP \notin IPv4

VARIABLES
  clusterNetwork, \* the flag both load balancers are started with
  spec,           \* the LoadBalancerConfig
  secret,         \* keys of the credentials Secret
  nodes,          \* [NodeNames -> NodeStates]
  texts,          \* [Hosts -> [FileNames -> text]]
  outcome,        \* [Hosts -> how the last pass ended]
  rendered,       \* [Hosts -> inputs of the last pass]
  events          \* edits, failed lookups and bootstraps so far

inputs == <<clusterNetwork, spec, secret, nodes>>
vars == <<inputs, texts, outcome, rendered, events>>

-------------------------------------------------------------------------------
(* vip.go                                                                      *)

IsVIP(va) == va.address # Bad /\ va.address.single

parseVIP(va) == IF IsVIP(va) THEN va.address.ip ELSE Error

\* Every address is parsed and one bad address fails the whole computation.
ParseAll(vas) ==
  IF \A va \in vas : IsVIP(va) THEN {parseVIP(va) : va \in vas} ELSE Error

OfType(type, vas) == {va \in vas : va.type = type}

NATs(s) == {s.nat} \ {Nil}

getHAProxyFrontends(s) ==
  IF ParseAll(s.api \cup s.ingress) = Error THEN Error
  ELSE [api |-> ParseAll(s.api),
        ignition |-> ParseAll(OfType("private", s.api)),
        ingress |-> ParseAll(s.ingress)]

\* Mutant: private ingress addresses are forgotten.
privateVIPsOfAPI(s, additional) ==
  LET own == ParseAll(OfType("private", s.api \cup NATs(s)))
  IN IF own = Error THEN Error ELSE own \cup additional

privateVIPs(s, additional) ==
  LET own == ParseAll(OfType("private", s.api \cup s.ingress \cup NATs(s)))
  IN IF own = Error THEN Error ELSE own \cup additional

\* Mutant: a public NAT address is forgotten.
publicVIPsWithoutNAT(s) == ParseAll(OfType("public", s.api \cup s.ingress))

publicVIPs(s) == ParseAll(OfType("public", s.api \cup s.ingress \cup NATs(s)))

\* netip.Addr.Next: the last address has no successor, nor has the invalid one.
NextIP(ip) == IF ip = InvalidIP \/ ip = NetworkSize(0) - 1 THEN InvalidIP ELSE ip + 1

Masked(net) == net.addr - (net.addr % NetworkSize(net.bits))

\* Mutant: arithmetic on the bare number.
internalIPsByAddition ==
  LET base == Masked(clusterNetwork)
  IN [gateway |-> base + 1, primary |-> base + 2, secondary |-> base + 3]

internalIPs ==
  LET gateway == NextIP(Masked(clusterNetwork))
      primary == NextIP(gateway)
  IN [gateway |-> gateway, primary |-> primary, secondary |-> NextIP(primary)]

Peer(h) == IF h = "primary" THEN "secondary" ELSE "primary"
myInternalIP(h) == internalIPs[h]

\* Mutant: the primary's peer is the primary.
peerIsPrimary(h) == internalIPs.primary

peerInternalIP(h) == internalIPs[Peer(h)]

-------------------------------------------------------------------------------
(* Backends: Nodes of the cluster or, for --render-from-file, the flags.       *)

InternalAt(n, i) == nodes[n].addresses[i].type = "InternalIP"

\* The loop over the addresses ends with the first internal one.
FirstInternalIP(n, ip) ==
  \E i \in DOMAIN nodes[n].addresses :
    /\ InternalAt(n, i) /\ nodes[n].addresses[i].ip = ip
    /\ \A j \in 1..(i - 1) : ~InternalAt(n, j)

\* Nodes without an internal address are left out.
getHAProxyBackends(role) ==
  {ip \in V4 : \E n \in NodeNames : role \in nodes[n].roles /\ FirstInternalIP(n, ip)}

\* One bad address fails the flag; the empty flag is one bad address.
parseBackendString(flag) ==
  IF \E i \in DOMAIN flag : flag[i] = Bad THEN Error ELSE {flag[i] : i \in DOMAIN flag}

-------------------------------------------------------------------------------
(* The Render functions, of the inputs of a pass: the spec, the keys of the    *)
(* credentials, the backends by role and missing, the files during whose       *)
(* rendering ClusterNetworkInterface finds no route.                           *)

RenderHAProxyAPIConfig(in) ==
  LET frontends == getHAProxyFrontends(in.spec)
  IN IF frontends = Error THEN Error
     ELSE [api |-> frontends.api,
           ignition |-> IF in.spec.distribution = "openshift" THEN frontends.ignition ELSE {},
           backends |-> in.backends.api]

\* The selector is taken from IngressBackend, which may be nil.
RenderHAProxyIngressConfig(in) ==
  LET frontends == getHAProxyFrontends(in.spec)
  IN IF ~in.spec.ingressBackend THEN Panic
     ELSE IF frontends = Error THEN Error
     ELSE [ingress |-> frontends.ingress, backends |-> in.backends.ingress]

\* The gateway address of the cluster network is held only with a NAT address.
RenderKeepalivedConfig(h, in) ==
  LET vips == privateVIPs(in.spec, IF in.spec.nat = Nil THEN {} ELSE {internalIPs.gateway})
  IN IF "keepalived" \in in.missing \/ vips = Error THEN Error
     ELSE [prio |-> IF h = "primary" THEN 200 ELSE 100,
           src |-> myInternalIP(h), dst |-> peerInternalIP(h), vips |-> vips]

Credentials(cloud) == IF cloud = "cloudscale" THEN {"token"} ELSE {"key", "secret"}

RenderFloatyConfig(in) ==
  IF publicVIPs(in.spec) = Error \/ ~(Credentials(in.spec.cloud) \subseteq in.creds) THEN Error
  ELSE [vips |-> publicVIPs(in.spec)]

\* Without a route the text is empty, and that is no error.
RenderConntrackdConfig(h, in) ==
  IF "conntrackd" \in in.missing THEN [src |-> Nil, dst |-> Nil]
  ELSE [src |-> myInternalIP(h), dst |-> peerInternalIP(h)]

RenderClusterNetNMConnection(h, in) ==
  IF "clusterNet" \in in.missing THEN Error ELSE [ip |-> myInternalIP(h)]

\* Mutant: only IPv4 addresses are kept.
RenderDummyIPv4Only(s) ==
  IF publicVIPs(s) = Error THEN Error
  ELSE [v4 |-> publicVIPs(s) \cap IPv4, v6 |-> {}]

RenderKeepalivedDummyNMConnection(s) ==
  IF publicVIPs(s) = Error THEN Error
  ELSE [v4 |-> publicVIPs(s) \cap IPv4, v6 |-> publicVIPs(s) \ IPv4]

RenderFirewallExternalZone(s) ==
  IF publicVIPs(s) = Error THEN Error
  ELSE [v4 |-> publicVIPs(s) \cap IPv4, v6 |-> publicVIPs(s) \ IPv4]

\* ParsePrefix accepts what parseVIP does not, and NAT may be nil.
RenderFirewallDirectRules(s) ==
  IF s.nat = Nil THEN Panic
  ELSE IF s.nat.address = Bad THEN Error
  ELSE [snat |-> s.nat.address.ip]

-------------------------------------------------------------------------------
(* One pass of ReconcileLBConfig, for the controller or for RenderFile.        *)

FileSeq == <<"haproxyAPI", "haproxyIngress", "keepalived", "floaty", "conntrackd",
             "clusterNet", "dummy", "externalZone", "directRules">>
FileNames == {FileSeq[i] : i \in 1..Len(FileSeq)}
Lookups == {"keepalived", "conntrackd", "clusterNet"}

Render(h, in) ==
  [haproxyAPI |-> RenderHAProxyAPIConfig(in),
   haproxyIngress |-> RenderHAProxyIngressConfig(in),
   keepalived |-> RenderKeepalivedConfig(h, in),
   floaty |-> RenderFloatyConfig(in),
   conntrackd |-> RenderConntrackdConfig(h, in),
   clusterNet |-> RenderClusterNetNMConnection(h, in),
   dummy |-> RenderKeepalivedDummyNMConnection(in.spec),
   externalZone |-> RenderFirewallExternalZone(in.spec),
   directRules |-> RenderFirewallDirectRules(in.spec)]

\* The files before the first one that panics.
Reached(new) ==
  {FileSeq[j] : j \in {k \in 1..Len(FileSeq) : \A i \in 1..k : new[FileSeq[i]] # Panic}}

Outcome(new) ==
  IF \E f \in FileNames : new[f] = Panic THEN "panic"
  ELSE IF \E f \in FileNames : new[f] = Error THEN "failed"
  ELSE "ok"

Happens(n) == events + n <= MaxEvents /\ events' = events + n

\* A route's destination is a masked prefix and is compared with the flag as it was given.
RouteMatches == clusterNetwork.addr = Masked(clusterNetwork)

ReconcileLBConfig(h, creds, backends, cost) ==
  \E missing \in SUBSET Lookups :
    /\ Happens(IF missing = {} THEN cost ELSE cost + 1)
    /\ RouteMatches
    /\ rendered' = [rendered EXCEPT ![h] = [spec |-> spec, creds |-> creds,
                                            backends |-> backends, missing |-> missing]]
    /\ \E new \in {Render(h, rendered'[h])} :
         /\ outcome' = [outcome EXCEPT ![h] = Outcome(new)]
         /\ texts' = [texts EXCEPT ![h] =
                        [f \in FileNames |-> IF f \in Reached(new) /\ new[f] # Error
                                               THEN new[f] ELSE texts[h][f]]]
    /\ UNCHANGED inputs

\* No file is rendered.
Fails(h, cost) ==
  /\ Happens(cost)
  /\ outcome' = [outcome EXCEPT ![h] = "failed"]
  /\ UNCHANGED <<inputs, texts, rendered>>

\* The controller's pass.
Reconcile(h) ==
  ReconcileLBConfig(h, secret,
    [api |-> getHAProxyBackends("api"), ingress |-> getHAProxyBackends("ingress")], 0)

\* InitializeNodeStatus finds no route or address, which it never does for a flag that
\* is not the network's own address.
InitializeNodeStatusFails(h) == Fails(h, IF RouteMatches THEN 1 ELSE 0)

\* stringData of the Secret in the file is merged into its data.
FileCredentials(data, stringData) == data \cup stringData

\* The process is started with --render-from-file, for the same object.  The backends of
\* the ingress are parsed from the API's flag, too.
RenderFile(h, data, stringData, apiBackends, ingressBackends) ==
  LET api == parseBackendString(apiBackends)
      ingress == parseBackendString(apiBackends)
  IN /\ api # Error /\ ingress # Error
     /\ ReconcileLBConfig(h, FileCredentials(data, stringData),
                          [api |-> api, ingress |-> ingress], 1)

\* A bad flag, no kubeconfig, which is wanted although the file has all the inputs, or no
\* file.
RenderFileFails(h) == Fails(h, 1)

-------------------------------------------------------------------------------
(* Users, within the validation of the custom resource definition.             *)

Edit(new) ==
  /\ Happens(1)
  /\ Keyed(new.api) /\ Keyed(new.ingress) /\ new.api # {}
  /\ spec' = new
  /\ UNCHANGED <<clusterNetwork, secret, nodes, texts, outcome, rendered>>

AddVIP(va) == Edit([spec EXCEPT !.api = @ \cup {va}]) \/ Edit([spec EXCEPT !.ingress = @ \cup {va}])
RemoveVIP(va) == Edit([spec EXCEPT !.api = @ \ {va}]) \/ Edit([spec EXCEPT !.ingress = @ \ {va}])
SetNAT(va) == Edit([spec EXCEPT !.nat = va])
SetIngressBackend(set) == Edit([spec EXCEPT !.ingressBackend = set])
SetPlatform(cloud, distribution) ==
  Edit([spec EXCEPT !.cloud = cloud, !.distribution = distribution])

EditSecret(keys) ==
  /\ Happens(1)
  /\ secret' = keys
  /\ UNCHANGED <<clusterNetwork, spec, nodes, texts, outcome, rendered>>

ChangeNode(n, state) ==
  /\ Happens(1)
  /\ nodes' = [nodes EXCEPT ![n] = state]
  /\ UNCHANGED <<clusterNetwork, spec, secret, texts, outcome, rendered>>

\* A private API address and a higher, public ingress address that is the SNAT source too.
Init ==
  /\ clusterNetwork \in ClusterNetworks
  /\ \E p, q \in V4 : p < q /\
       spec = [cloud |-> "cloudscale", distribution |-> "openshift",
               api |-> {[type |-> "private", address |-> Single(p)]},
               ingress |-> {[type |-> "public", address |-> Single(q)]},
               nat |-> [type |-> "public", address |-> Single(q)],
               ingressBackend |-> TRUE]
  /\ secret = {"token"}
  /\ nodes \in [NodeNames -> NodeStates]
  /\ texts = [h \in Hosts |-> [f \in FileNames |-> NotRendered]]
  /\ outcome = [h \in Hosts |-> "none"]
  /\ rendered = [h \in Hosts |-> Nil]
  /\ events = 0

Next ==
  \/ \E h \in Hosts : Reconcile(h) \/ InitializeNodeStatusFails(h)
  \/ \E h \in Hosts, data, stringData \in {{}, secret}, apiBackends, ingressBackends \in BackendFlags :
       RenderFile(h, data, stringData, apiBackends, ingressBackends)
  \/ \E h \in Hosts : RenderFileFails(h)
  \/ \E va \in VirtualAddresses : AddVIP(va) \/ RemoveVIP(va) \/ SetNAT(va)
  \/ SetNAT(Nil)
  \/ \E set \in BOOLEAN : SetIngressBackend(set)
  \/ \E cloud \in Clouds, distribution \in Distributions : SetPlatform(cloud, distribution)
  \/ \E keys \in SUBSET SecretKeys : EditSecret(keys)
  \/ \E n \in NodeNames, state \in NodeStates : ChangeNode(n, state)

Spec == Init /\ [][Next]_vars

-------------------------------------------------------------------------------
Specs == [cloud : Clouds, distribution : Distributions,
          api : SUBSET VirtualAddresses, ingress : SUBSET VirtualAddresses,
          nat : VirtualAddresses \cup {Nil}, ingressBackend : BOOLEAN]

Outcomes == {"none", "ok", "failed", "panic"}

ShownIPs == Addresses \cup {InvalidIP}

\* What the templates print.
Texts ==
  [haproxyAPI |-> [api : SUBSET Addresses, ignition : SUBSET Addresses, backends : SUBSET V4],
   haproxyIngress |-> [ingress : SUBSET Addresses, backends : SUBSET V4],
   keepalived |-> [prio : {100, 200}, src : ShownIPs, dst : ShownIPs, vips : SUBSET ShownIPs],
   floaty |-> [vips : SUBSET Addresses],
   conntrackd |-> [src : ShownIPs \cup {Nil}, dst : ShownIPs \cup {Nil}],
   clusterNet |-> [ip : ShownIPs],
   dummy |-> [v4 : SUBSET IPv4, v6 : SUBSET V6],
   externalZone |-> [v4 : SUBSET IPv4, v6 : SUBSET V6],
   directRules |-> [snat : Addresses]]

\* Only addresses are ever printed where a file needs one: InvalidIP is what the
\* internal addresses become past the end of the address space.
TypeOK ==
  /\ clusterNetwork \in ClusterNetworks
  /\ spec \in Specs
  /\ secret \subseteq SecretKeys
  /\ outcome \in [Hosts -> Outcomes]
  /\ nodes \in [NodeNames -> NodeStates]
  /\ \A h \in Hosts : rendered[h] # Nil =>
       /\ rendered[h].spec \in Specs /\ rendered[h].creds \subseteq SecretKeys
       /\ rendered[h].missing \subseteq Lookups
  /\ events \in 0..MaxEvents
  /\ \A h \in Hosts, f \in FileNames : texts[h][f] # NotRendered => texts[h][f] \in Texts[f]

Ok(h) == outcome[h] = "ok"

\* The addresses keepalived or Floaty brings to the host that is master.
Held(h) == texts[h].keepalived.vips \cup texts[h].floaty.vips

\* HAProxy binds only addresses that keepalived or Floaty holds, and serves ignition
\* only on private ones.  The frontends are computed by one function and the held
\* addresses by two others, for files rendered one after the other.
FrontendsAreHeld ==
  \A h \in Hosts : Ok(h) =>
    /\ texts[h].haproxyAPI.api \cup texts[h].haproxyIngress.ingress \subseteq Held(h)
    /\ texts[h].haproxyAPI.ignition \subseteq texts[h].keepalived.vips

SameNetwork(ip, net) ==
  LET size == NetworkSize(net.bits)
  IN ip \in IPv4 /\ ip \div size = net.addr \div size

\* The SNAT rule uses an address the load balancer holds, although its own parser
\* accepts ranges, and holds a gateway for the cluster nodes, which is an address of their
\* network if that has more than one.
SnatIsHeld ==
  \A h \in Hosts : Ok(h) =>
    /\ texts[h].directRules.snat \in Held(h)
    /\ internalIPs.gateway \in texts[h].keepalived.vips
    /\ clusterNetwork.bits < AddrBits => SameNetwork(internalIPs.gateway, clusterNetwork)

\* Floaty, the dummy interface and the firewall agree on the public addresses.
PublicFilesAgree ==
  \A h \in Hosts : Ok(h) =>
    /\ texts[h].floaty.vips = texts[h].dummy.v4 \cup texts[h].dummy.v6
    /\ texts[h].floaty.vips = texts[h].externalZone.v4 \cup texts[h].externalZone.v6

\* The files that are the same on both load balancers.
SharedFiles == FileNames \ {"keepalived", "conntrackd", "clusterNet"}

\* The two load balancers are VRRP peers whatever they have rendered last, from the API
\* or from a file: each has the other's address as its peer and one has the higher
\* priority.  In a network of four addresses or more these are two addresses of the
\* network the flag names, set on the interfaces NetworkManager configures; conntrackd
\* uses the same ones, unless its lookup of the route failed, which is no error.  From
\* equal inputs both render the same services and compete for the same addresses.
PairAgrees ==
  Ok("primary") /\ Ok("secondary") =>
    LET p == texts["primary"]
        s == texts["secondary"]
    IN /\ p.keepalived.src = s.keepalived.dst /\ p.keepalived.dst = s.keepalived.src
       /\ p.keepalived.prio > s.keepalived.prio
       /\ p.clusterNet.ip = p.keepalived.src /\ s.clusterNet.ip = s.keepalived.src
       /\ \A h \in Hosts : rendered[h].missing = {} =>
            /\ texts[h].conntrackd.src = texts[h].keepalived.src
            /\ texts[h].conntrackd.dst = texts[h].keepalived.dst
       /\ clusterNetwork.bits + 2 <= AddrBits =>
            /\ p.keepalived.src # s.keepalived.src
            /\ \A ip \in {p.keepalived.src, s.keepalived.src, internalIPs.gateway} :
                 SameNetwork(ip, clusterNetwork)
       /\ rendered["primary"] = rendered["secondary"] =>
            /\ p.keepalived.vips = s.keepalived.vips
            /\ \A f \in SharedFiles : p[f] = s[f]

\* The API documents NAT ("If omitted, the LBs are configured without NAT gateway
\* functionality.") and IngressBackend ("+optional") as fields a user may leave out:
\* RenderFirewallDirectRules and RenderHAProxyIngressConfig must cope with that.
OptionalFieldsMayBeOmitted == \A h \in Hosts : outcome[h] # "panic"
===============================================================================
