--------------------------- MODULE RenderingProofs ----------------------------
(***************************************************************************)
(* Proofs about Rendering, for any width of the addresses, any networks,   *)
(* nodes, flags and number of edits.                                       *)
(***************************************************************************)
EXTENDS Rendering, TLAPS

-------------------------------------------------------------------------------
(* Arithmetic of networks.                                                     *)

LEMMA Multiples ==
  ASSUME NEW z \in Nat \ {0}, NEW q \in Nat, NEW k \in Nat, q < k
  PROVE  q * z + z <= k * z
<1>1. PICK d \in Nat : k = q + 1 + d
  <2>1. k - q - 1 \in Nat /\ k = q + 1 + (k - q - 1)
    OBVIOUS
  <2> QED BY <2>1
<1>2. k * z = q * z + z + d * z
  BY <1>1
<1>3. d * z \in Nat
  OBVIOUS
<1> QED BY <1>2, <1>3

LEMMA Division ==
  ASSUME NEW z \in Nat \ {0}, NEW a \in Nat
  PROVE  /\ a \div z \in Nat /\ a % z \in 0..(z - 1)
         /\ a = (a \div z) * z + (a % z)
  OBVIOUS

LEMMA DivisionUnique ==
  ASSUME NEW z \in Nat \ {0}, NEW q \in Nat, NEW r \in 0..(z - 1)
  PROVE  (q * z + r) \div z = q
  OBVIOUS

LEMMA FileNamesAre ==
  FileNames = {"haproxyAPI", "haproxyIngress", "keepalived", "floaty", "conntrackd",
               "clusterNet", "dummy", "externalZone", "directRules"}
<1>1. Len(FileSeq) = 9
  BY DEF FileSeq
<1>2. 1..9 = {1, 2, 3, 4, 5, 6, 7, 8, 9}
  OBVIOUS
<1> QED BY <1>1, <1>2 DEF FileNames, FileSeq

\* The masked address is the first one of its network, which lies in the address space.
LEMMA MaskedFacts ==
  ASSUME NEW net \in Networks
  PROVE  /\ Masked(net) \in IPv4
         /\ Masked(net) + NetworkSize(net.bits) <= NetworkSize(0)
         /\ \A i \in 0..(NetworkSize(net.bits) - 1) : SameNetwork(Masked(net) + i, net)
<1> DEFINE z == NetworkSize(net.bits)
           n == NetworkSize(0)
           a == net.addr
           q == a \div z
           k == n \div z
<1>1. z \in Nat \ {0} /\ n \in Nat \ {0} /\ n % z = 0
  <2>1. net.bits \in 0..AddrBits /\ 0 \in 0..AddrBits
    BY NetworkAssumption DEF Networks
  <2> QED BY <2>1, PowerAssumption
<1>2. a \in Nat /\ a < n
  BY <1>1 DEF Networks, IPv4
<1> HIDE DEF z, n, a
<1>3. q \in Nat /\ k \in Nat /\ a % z \in 0..(z - 1) /\ a = q * z + (a % z) /\ n = k * z
  <2>1. q \in Nat /\ a % z \in 0..(z - 1) /\ a = q * z + (a % z)
    BY <1>1, <1>2, Division
  <2>2. k \in Nat /\ n = k * z + (n % z)
    BY <1>1, Division
  <2>3. k * z \in Nat
    BY <1>1, <2>2
  <2> HIDE DEF q, k
  <2> QED BY <1>1, <2>1, <2>2, <2>3
<1> HIDE DEF q, k
<1>4. Masked(net) = q * z
  <2>1. Masked(net) = a - (a % z)
    BY DEF Masked, a, z
  <2>2. q * z \in Nat /\ a % z \in Nat
    BY <1>1, <1>3
  <2> QED BY <1>3, <2>1, <2>2
<1>5. q < k
  <2> SUFFICES ASSUME k <= q PROVE FALSE
    BY <1>3
  <2>1. k = q \/ k * z + z <= q * z
    BY <1>1, <1>3, Multiples
  <2> QED BY <1>1, <1>2, <1>3, <2>1
<1>6. q * z + z <= n
  BY <1>1, <1>3, <1>5, Multiples
<1>7. q * z \in Nat
  BY <1>1, <1>3
<1>8. Masked(net) \in IPv4
  BY <1>1, <1>4, <1>6, <1>7 DEF IPv4, n
<1>9. ASSUME NEW i \in 0..(z - 1) PROVE SameNetwork(Masked(net) + i, net)
  <2>1. (Masked(net) + i) \div z = q
    BY <1>1, <1>3, <1>4, DivisionUnique
  <2>2. Masked(net) + i \in IPv4
    BY <1>1, <1>4, <1>6, <1>7 DEF IPv4, n
  <2> QED BY <2>1, <2>2 DEF SameNetwork, q, a, z
<1> QED BY <1>4, <1>6, <1>8, <1>9 DEF z, n

\* The internal addresses are addresses, or none past the end of the address space.
LEMMA NextFacts ==
  ASSUME NEW ip \in IPv4 \cup {InvalidIP}
  PROVE  NextIP(ip) \in IPv4 \cup {InvalidIP}
<1>1. NetworkSize(0) \in Nat \ {0}
  BY PowerAssumption, NetworkAssumption
<1> QED BY <1>1 DEF NextIP, IPv4

LEMMA InternalFacts ==
  ASSUME clusterNetwork \in ClusterNetworks
  PROVE  /\ internalIPs.gateway \in IPv4 \cup {InvalidIP}
         /\ internalIPs.primary \in IPv4 \cup {InvalidIP}
         /\ internalIPs.secondary \in IPv4 \cup {InvalidIP}
  BY NetworkAssumption, MaskedFacts, NextFacts DEF internalIPs

\* The address after a network's own is one of it, unless it has no other.
LEMMA GatewayFacts ==
  ASSUME clusterNetwork \in ClusterNetworks, clusterNetwork.bits < AddrBits
  PROVE  SameNetwork(internalIPs.gateway, clusterNetwork)
<1> DEFINE base == Masked(clusterNetwork)
           z == NetworkSize(clusterNetwork.bits)
           n == NetworkSize(0)
<1>1. clusterNetwork \in Networks /\ clusterNetwork.bits \in 0..AddrBits
  BY NetworkAssumption DEF Networks
<1>2. z \in Nat /\ z >= 2 /\ n \in Nat
  BY <1>1, PowerAssumption, NetworkAssumption
<1>3. /\ base \in IPv4 /\ base + z <= n
      /\ \A i \in 0..(z - 1) : SameNetwork(base + i, clusterNetwork)
  BY <1>1, MaskedFacts
<1>4. internalIPs.gateway = NextIP(base)
  BY DEF internalIPs
<1> HIDE DEF base, z
<1>5. base \in Nat /\ base + 2 <= n
  BY <1>2, <1>3 DEF IPv4
<1>6. NextIP(base) = base + 1
  BY <1>2, <1>3, <1>5, SentinelAssumption DEF NextIP, n
<1> QED BY <1>2, <1>3, <1>4, <1>6

\* A network of four addresses has room for the gateway and both load balancers.
LEMMA InternalDistinct ==
  ASSUME clusterNetwork \in ClusterNetworks, clusterNetwork.bits + 2 <= AddrBits
  PROVE  /\ internalIPs.primary # internalIPs.secondary
         /\ \A ip \in {internalIPs.gateway, internalIPs.primary, internalIPs.secondary} :
              SameNetwork(ip, clusterNetwork)
<1> DEFINE base == Masked(clusterNetwork)
           z == NetworkSize(clusterNetwork.bits)
           n == NetworkSize(0)
<1>1. clusterNetwork \in Networks /\ clusterNetwork.bits \in 0..AddrBits
  BY NetworkAssumption DEF Networks
<1>2. z \in Nat /\ z >= 4 /\ n \in Nat
  BY <1>1, PowerAssumption, NetworkAssumption
<1>3. /\ base \in IPv4 /\ base + z <= n
      /\ \A i \in 0..(z - 1) : SameNetwork(base + i, clusterNetwork)
  BY <1>1, MaskedFacts
<1>4. internalIPs = [gateway |-> NextIP(base), primary |-> NextIP(NextIP(base)),
                     secondary |-> NextIP(NextIP(NextIP(base)))]
  BY DEF internalIPs
<1> HIDE DEF base, z
<1>5. base \in Nat /\ base + 4 <= n
  BY <1>2, <1>3 DEF IPv4
<1>6. NextIP(base) = base + 1 /\ NextIP(base + 1) = base + 2 /\ NextIP(base + 2) = base + 3
  <2>1. base \in IPv4 /\ base + 1 \in IPv4 /\ base + 2 \in IPv4
    BY <1>2, <1>5 DEF IPv4
  <2> QED BY <1>2, <1>5, <2>1, SentinelAssumption DEF NextIP
<1>7. 1 \in 0..(z - 1) /\ 2 \in 0..(z - 1) /\ 3 \in 0..(z - 1)
  BY <1>2
<1>8. internalIPs.gateway = base + 1 /\ internalIPs.primary = base + 2 /\ internalIPs.secondary = base + 3
  BY <1>4, <1>6
<1> QED BY <1>3, <1>5, <1>7, <1>8

-------------------------------------------------------------------------------
(* vip.go                                                                      *)

LEMMA AddressFacts ==
  ASSUME NEW va \in VirtualAddresses
  PROVE  /\ va.type \in {"private", "public"}
         /\ va.address # Bad => va.address.ip \in V4 \cup V6
<1>1. va.type \in {"private", "public"} /\ va.address \in Cidrs
  BY DEF VirtualAddresses
<1>2. ASSUME va.address # Bad PROVE va.address.ip \in V4 \cup V6
  BY <1>1, <1>2 DEF Cidrs, Single, Wide
<1> QED BY <1>1, <1>2

LEMMA ParseAllGood ==
  ASSUME NEW vas, \A va \in vas : IsVIP(va)
  PROVE  ParseAll(vas) = {va.address.ip : va \in vas}
  BY DEF ParseAll, parseVIP

LEMMA ParseAllError ==
  ASSUME NEW vas, ParseAll(vas) # Error
  PROVE  \A va \in vas : IsVIP(va)
  BY DEF ParseAll

LEMMA ParsedAddresses ==
  ASSUME NEW vas \in SUBSET VirtualAddresses, ParseAll(vas) # Error
  PROVE  ParseAll(vas) \subseteq V4 \cup V6
<1>1. \A va \in vas : IsVIP(va)
  BY ParseAllError
<1>2. \A va \in vas : va.address.ip \in V4 \cup V6
  BY <1>1, AddressFacts DEF IsVIP
<1> QED BY <1>1, <1>2, ParseAllGood

\* The virtual addresses of a spec.
LEMMA SpecFacts ==
  ASSUME NEW s \in Specs
  PROVE  /\ s.api \subseteq VirtualAddresses /\ s.ingress \subseteq VirtualAddresses
         /\ s.nat \in VirtualAddresses \cup {Nil} /\ NATs(s) \subseteq VirtualAddresses
         /\ \A type \in {"private", "public"} :
              OfType(type, s.api \cup s.ingress \cup NATs(s)) \subseteq VirtualAddresses
<1>1. s.api \subseteq VirtualAddresses /\ s.ingress \subseteq VirtualAddresses
      /\ s.nat \in VirtualAddresses \cup {Nil}
  BY DEF Specs
<1>2. NATs(s) \subseteq VirtualAddresses
  BY <1>1 DEF NATs
<1> QED BY <1>1, <1>2 DEF OfType

LEMMA PublicFacts ==
  ASSUME NEW s \in Specs, publicVIPs(s) # Error
  PROVE  /\ publicVIPs(s) \subseteq V4 \cup V6
         /\ \A va \in s.api \cup s.ingress \cup NATs(s) :
              va.type = "public" => IsVIP(va) /\ va.address.ip \in publicVIPs(s)
<1> DEFINE vas == OfType("public", s.api \cup s.ingress \cup NATs(s))
<1>1. publicVIPs(s) = ParseAll(vas) /\ vas \in SUBSET VirtualAddresses
  BY SpecFacts DEF publicVIPs
<1>2. \A va \in s.api \cup s.ingress \cup NATs(s) : va.type = "public" => va \in vas
  BY DEF OfType
<1> HIDE DEF vas
<1>3. \A va \in vas : IsVIP(va)
  BY <1>1, ParseAllError
<1>4. publicVIPs(s) = {va.address.ip : va \in vas}
  BY <1>1, <1>3, ParseAllGood
<1>5. publicVIPs(s) \subseteq V4 \cup V6
  BY <1>1, ParsedAddresses
<1> QED BY <1>2, <1>3, <1>4, <1>5

LEMMA PrivateFacts ==
  ASSUME NEW s \in Specs, NEW additional, privateVIPs(s, additional) # Error
  PROVE  /\ privateVIPs(s, additional) \subseteq V4 \cup V6 \cup additional
         /\ additional \subseteq privateVIPs(s, additional)
         /\ \A va \in s.api \cup s.ingress \cup NATs(s) :
              va.type = "private" => IsVIP(va) /\ va.address.ip \in privateVIPs(s, additional)
<1> DEFINE vas == OfType("private", s.api \cup s.ingress \cup NATs(s))
<1>1. /\ ParseAll(vas) # Error /\ privateVIPs(s, additional) = ParseAll(vas) \cup additional
      /\ vas \in SUBSET VirtualAddresses
  BY SpecFacts DEF privateVIPs
<1>2. \A va \in s.api \cup s.ingress \cup NATs(s) : va.type = "private" => va \in vas
  BY DEF OfType
<1> HIDE DEF vas
<1>3. \A va \in vas : IsVIP(va)
  BY <1>1, ParseAllError
<1>4. ParseAll(vas) = {va.address.ip : va \in vas}
  BY <1>3, ParseAllGood
<1>5. ParseAll(vas) \subseteq V4 \cup V6
  BY <1>1, ParsedAddresses
<1> QED BY <1>1, <1>2, <1>3, <1>4, <1>5

LEMMA FrontendFacts ==
  ASSUME NEW s \in Specs, getHAProxyFrontends(s) # Error
  PROVE  /\ getHAProxyFrontends(s).api = {va.address.ip : va \in s.api}
         /\ getHAProxyFrontends(s).ingress = {va.address.ip : va \in s.ingress}
         /\ getHAProxyFrontends(s).ignition = {va.address.ip : va \in OfType("private", s.api)}
         /\ \A va \in s.api \cup s.ingress : IsVIP(va) /\ va.address.ip \in V4 \cup V6
<1>1. /\ ParseAll(s.api \cup s.ingress) # Error
      /\ getHAProxyFrontends(s) = [api |-> ParseAll(s.api), ignition |-> ParseAll(OfType("private", s.api)),
                                   ingress |-> ParseAll(s.ingress)]
  BY DEF getHAProxyFrontends
<1>2. \A va \in s.api \cup s.ingress : IsVIP(va)
  BY <1>1, ParseAllError
<1>3. \A va \in s.api \cup s.ingress : va.address.ip \in V4 \cup V6
  BY <1>2, SpecFacts, AddressFacts DEF IsVIP
<1>4. /\ \A va \in s.api : IsVIP(va)
      /\ \A va \in s.ingress : IsVIP(va)
      /\ \A va \in OfType("private", s.api) : IsVIP(va)
  BY <1>2 DEF OfType
<1>5. /\ ParseAll(s.api) = {va.address.ip : va \in s.api}
      /\ ParseAll(s.ingress) = {va.address.ip : va \in s.ingress}
      /\ ParseAll(OfType("private", s.api)) = {va.address.ip : va \in OfType("private", s.api)}
  BY <1>4, ParseAllGood
<1> QED BY <1>1, <1>2, <1>3, <1>5

-------------------------------------------------------------------------------
(* Backends.                                                                   *)

LEMMA NodeBackends == \A role : getHAProxyBackends(role) \subseteq V4
  BY DEF getHAProxyBackends

LEMMA FlagBackends ==
  ASSUME NEW flag \in BackendFlags, parseBackendString(flag) # Error
  PROVE  parseBackendString(flag) \subseteq V4
<1>1. /\ \A i \in DOMAIN flag : flag[i] # Bad
      /\ parseBackendString(flag) = {flag[i] : i \in DOMAIN flag}
  BY DEF parseBackendString
<1>2. flag \in Seq(V4 \cup {Bad})
  BY NetworkAssumption
<1> QED BY <1>1, <1>2

-------------------------------------------------------------------------------
(* The texts that Render returns for the inputs a pass can have.               *)

GoodInputs(in) ==
  /\ in.spec \in Specs
  /\ in.creds \subseteq SecretKeys
  /\ in.missing \subseteq Lookups
  /\ in.backends.api \subseteq V4
  /\ in.backends.ingress \subseteq V4

LEMMA HAProxyTexts ==
  ASSUME NEW in, GoodInputs(in)
  PROVE  /\ RenderHAProxyAPIConfig(in) # Error => RenderHAProxyAPIConfig(in) \in Texts["haproxyAPI"]
         /\ RenderHAProxyIngressConfig(in) \notin {Error, Panic} =>
              RenderHAProxyIngressConfig(in) \in Texts["haproxyIngress"]
<1> DEFINE fr == getHAProxyFrontends(in.spec)
<1>1. V4 \cup V6 \subseteq Addresses
  BY NetworkAssumption DEF Addresses
<1>2. in.backends.api \subseteq V4 /\ in.backends.ingress \subseteq V4 /\ in.spec \in Specs
  BY DEF GoodInputs
<1>3. ASSUME fr # Error
      PROVE  fr.api \subseteq Addresses /\ fr.ignition \subseteq Addresses /\ fr.ingress \subseteq Addresses
  BY <1>1, <1>2, <1>3, FrontendFacts DEF OfType
<1>4. ASSUME RenderHAProxyAPIConfig(in) # Error
      PROVE  RenderHAProxyAPIConfig(in) \in Texts["haproxyAPI"]
  <2>1. fr # Error
    BY <1>4 DEF RenderHAProxyAPIConfig
  <2>2. /\ RenderHAProxyAPIConfig(in).api = fr.api
        /\ RenderHAProxyAPIConfig(in) =
             [api |-> fr.api, ignition |-> IF in.spec.distribution = "openshift" THEN fr.ignition ELSE {},
              backends |-> in.backends.api]
    BY <2>1 DEF RenderHAProxyAPIConfig
  <2> HIDE DEF fr
  <2> QED BY <1>2, <1>3, <2>1, <2>2 DEF Texts
<1>5. ASSUME RenderHAProxyIngressConfig(in) \notin {Error, Panic}
      PROVE  RenderHAProxyIngressConfig(in) \in Texts["haproxyIngress"]
  <2>1. fr # Error
    BY <1>5 DEF RenderHAProxyIngressConfig
  <2>2. RenderHAProxyIngressConfig(in) = [ingress |-> fr.ingress, backends |-> in.backends.ingress]
    BY <1>5, <2>1 DEF RenderHAProxyIngressConfig
  <2> HIDE DEF fr
  <2> QED BY <1>2, <1>3, <2>1, <2>2 DEF Texts
<1> QED BY <1>4, <1>5

LEMMA InternalTexts ==
  ASSUME clusterNetwork \in ClusterNetworks, NEW h \in Hosts, NEW in, GoodInputs(in)
  PROVE  /\ RenderKeepalivedConfig(h, in) # Error => RenderKeepalivedConfig(h, in) \in Texts["keepalived"]
         /\ RenderConntrackdConfig(h, in) \in Texts["conntrackd"]
         /\ RenderClusterNetNMConnection(h, in) # Error =>
              RenderClusterNetNMConnection(h, in) \in Texts["clusterNet"]
<1> DEFINE gate == IF in.spec.nat = Nil THEN {} ELSE {internalIPs.gateway}
           vips == privateVIPs(in.spec, gate)
<1>1. V4 \cup V6 \subseteq Addresses
  BY NetworkAssumption DEF Addresses
<1>2. in.spec \in Specs
  BY DEF GoodInputs
<1>3. internalIPs.gateway \in ShownIPs /\ internalIPs.primary \in ShownIPs /\ internalIPs.secondary \in ShownIPs
  BY InternalFacts DEF ShownIPs, Addresses
<1>4. myInternalIP(h) \in ShownIPs /\ peerInternalIP(h) \in ShownIPs
  <2>1. CASE h = "primary"
    BY <1>3, <2>1 DEF myInternalIP, peerInternalIP, Peer
  <2>2. CASE h = "secondary"
    BY <1>3, <2>2 DEF myInternalIP, peerInternalIP, Peer
  <2> QED BY <2>1, <2>2 DEF Hosts
<1>5. ASSUME vips # Error PROVE vips \subseteq ShownIPs
  <2>1. gate \subseteq ShownIPs
    BY <1>3
  <2> HIDE DEF gate
  <2>2. vips \subseteq V4 \cup V6 \cup gate
    BY <1>2, <1>5, PrivateFacts
  <2> QED BY <1>1, <2>1, <2>2 DEF ShownIPs
<1>6. ASSUME RenderKeepalivedConfig(h, in) # Error
      PROVE  RenderKeepalivedConfig(h, in) \in Texts["keepalived"]
  <2>1. /\ vips # Error
        /\ RenderKeepalivedConfig(h, in) = [prio |-> IF h = "primary" THEN 200 ELSE 100,
                 src |-> myInternalIP(h), dst |-> peerInternalIP(h), vips |-> vips]
    BY <1>6 DEF RenderKeepalivedConfig
  <2> HIDE DEF vips
  <2> QED BY <1>4, <1>5, <2>1 DEF Texts
<1>7. RenderConntrackdConfig(h, in) \in Texts["conntrackd"]
  BY <1>4 DEF RenderConntrackdConfig, Texts
<1>8. ASSUME RenderClusterNetNMConnection(h, in) # Error
      PROVE  RenderClusterNetNMConnection(h, in) \in Texts["clusterNet"]
  BY <1>4, <1>8 DEF RenderClusterNetNMConnection, Texts
<1> QED BY <1>6, <1>7, <1>8

LEMMA PublicTexts ==
  ASSUME NEW in, GoodInputs(in)
  PROVE  /\ RenderFloatyConfig(in) # Error => RenderFloatyConfig(in) \in Texts["floaty"]
         /\ RenderKeepalivedDummyNMConnection(in.spec) # Error =>
              RenderKeepalivedDummyNMConnection(in.spec) \in Texts["dummy"]
         /\ RenderFirewallExternalZone(in.spec) # Error =>
              RenderFirewallExternalZone(in.spec) \in Texts["externalZone"]
         /\ RenderFirewallDirectRules(in.spec) \notin {Error, Panic} =>
              RenderFirewallDirectRules(in.spec) \in Texts["directRules"]
<1> DEFINE vips == publicVIPs(in.spec)
<1>1. V4 \cup V6 \subseteq Addresses /\ V4 \subseteq IPv4
  BY NetworkAssumption DEF Addresses
<1>2. in.spec \in Specs
  BY DEF GoodInputs
<1>3. ASSUME vips # Error
      PROVE  vips \subseteq Addresses /\ vips \cap IPv4 \subseteq IPv4 /\ vips \ IPv4 \subseteq V6
  BY <1>1, <1>2, <1>3, PublicFacts
<1>4. ASSUME RenderFloatyConfig(in) # Error PROVE RenderFloatyConfig(in) \in Texts["floaty"]
  <2>1. vips # Error /\ RenderFloatyConfig(in) = [vips |-> vips]
    BY <1>4 DEF RenderFloatyConfig
  <2> HIDE DEF vips
  <2> QED BY <1>3, <2>1 DEF Texts
<1>5. ASSUME RenderKeepalivedDummyNMConnection(in.spec) # Error
      PROVE  RenderKeepalivedDummyNMConnection(in.spec) \in Texts["dummy"]
  <2>1. vips # Error /\ RenderKeepalivedDummyNMConnection(in.spec) = [v4 |-> vips \cap IPv4, v6 |-> vips \ IPv4]
    BY <1>5 DEF RenderKeepalivedDummyNMConnection
  <2> HIDE DEF vips
  <2> QED BY <1>3, <2>1 DEF Texts
<1>6. ASSUME RenderFirewallExternalZone(in.spec) # Error
      PROVE  RenderFirewallExternalZone(in.spec) \in Texts["externalZone"]
  <2>1. vips # Error /\ RenderFirewallExternalZone(in.spec) = [v4 |-> vips \cap IPv4, v6 |-> vips \ IPv4]
    BY <1>6 DEF RenderFirewallExternalZone
  <2> HIDE DEF vips
  <2> QED BY <1>3, <2>1 DEF Texts
<1>7. ASSUME RenderFirewallDirectRules(in.spec) \notin {Error, Panic}
      PROVE  RenderFirewallDirectRules(in.spec) \in Texts["directRules"]
  <2>1. /\ in.spec.nat # Nil /\ in.spec.nat.address # Bad
        /\ RenderFirewallDirectRules(in.spec) = [snat |-> in.spec.nat.address.ip]
    BY <1>7 DEF RenderFirewallDirectRules
  <2>2. in.spec.nat \in VirtualAddresses
    BY <1>2, <2>1, SpecFacts
  <2>3. in.spec.nat.address.ip \in Addresses
    BY <1>1, <2>1, <2>2, AddressFacts
  <2> QED BY <2>1, <2>3 DEF Texts
<1> QED BY <1>4, <1>5, <1>6, <1>7

LEMMA RenderTexts ==
  ASSUME clusterNetwork \in ClusterNetworks, NEW h \in Hosts, NEW in, GoodInputs(in),
         NEW f \in FileNames, Render(h, in)[f] \notin {Error, Panic}
  PROVE  Render(h, in)[f] \in Texts[f]
<1>1. CASE f = "haproxyAPI"
  BY <1>1, HAProxyTexts DEF Render
<1>2. CASE f = "haproxyIngress"
  BY <1>2, HAProxyTexts DEF Render
<1>3. CASE f = "keepalived"
  BY <1>3, InternalTexts DEF Render
<1>4. CASE f = "floaty"
  BY <1>4, PublicTexts DEF Render
<1>5. CASE f = "conntrackd"
  BY <1>5, InternalTexts DEF Render
<1>6. CASE f = "clusterNet"
  BY <1>6, InternalTexts DEF Render
<1>7. CASE f = "dummy"
  BY <1>7, PublicTexts DEF Render
<1>8. CASE f = "externalZone"
  BY <1>8, PublicTexts DEF Render
<1>9. CASE f = "directRules"
  BY <1>9, PublicTexts DEF Render
<1> QED BY <1>1, <1>2, <1>3, <1>4, <1>5, <1>6, <1>7, <1>8, <1>9, FileNamesAre

-------------------------------------------------------------------------------
(* The inductive invariant: after a pass that ended well every text is the one *)
(* its Render function returned for the inputs of that pass, whatever users,   *)
(* nodes and the other load balancer have done since.                          *)

TextsOfInputs(h) ==
  \A in \in {rendered[h]} :
    /\ GoodInputs(in)
    /\ \A f \in FileNames : texts[h][f] = Render(h, in)[f] /\ texts[h][f] \notin {Error, Panic}

RenderInv ==
  /\ TypeOK
  /\ DOMAIN rendered = Hosts /\ DOMAIN texts = Hosts
  /\ \A h \in Hosts : Ok(h) => TextsOfInputs(h)

\* The files of a pass show no state but the cluster network, a flag.
LEMMA RenderStable ==
  ASSUME clusterNetwork' = clusterNetwork, NEW h, NEW in
  PROVE  Render(h, in)' = Render(h, in)
<1>1. internalIPs' = internalIPs
  BY DEF internalIPs, Masked, NextIP
<1>2. myInternalIP(h)' = myInternalIP(h) /\ peerInternalIP(h)' = peerInternalIP(h)
  BY <1>1 DEF myInternalIP, peerInternalIP
<1>3. RenderKeepalivedConfig(h, in)' = RenderKeepalivedConfig(h, in)
  BY <1>1, <1>2 DEF RenderKeepalivedConfig
<1>4. /\ RenderConntrackdConfig(h, in)' = RenderConntrackdConfig(h, in)
      /\ RenderClusterNetNMConnection(h, in)' = RenderClusterNetNMConnection(h, in)
  BY <1>2 DEF RenderConntrackdConfig, RenderClusterNetNMConnection
<1> QED BY <1>3, <1>4 DEF Render

\* Steps that render nothing.
LEMMA Frame ==
  ASSUME RenderInv, TypeOK', clusterNetwork' = clusterNetwork, UNCHANGED <<texts, rendered>>,
         \A h \in Hosts : outcome'[h] = "ok" => outcome[h] = "ok"
  PROVE  RenderInv'
<1>1. ASSUME NEW h \in Hosts, Ok(h)' PROVE TextsOfInputs(h)'
  <2>1. Ok(h) /\ TextsOfInputs(h)
    BY <1>1 DEF Ok, RenderInv
  <2> SUFFICES ASSUME NEW in \in {rendered'[h]}
               PROVE  /\ GoodInputs(in)
                      /\ \A f \in FileNames : /\ texts'[h][f] = (Render(h, in)')[f]
                                              /\ texts'[h][f] \notin {Error, Panic}
    BY DEF TextsOfInputs
  <2>2. Render(h, in)' = Render(h, in)
    BY RenderStable
  <2> QED BY <2>1, <2>2 DEF TextsOfInputs
<1> QED BY <1>1 DEF RenderInv

LEMMA EditStep ==
  ASSUME RenderInv, NEW new, new \in Specs, Edit(new)
  PROVE  RenderInv'
<1>1. TypeOK'
  BY NetworkAssumption DEF RenderInv, TypeOK, Edit, Happens
<1> QED BY <1>1, Frame DEF Edit

LEMMA FailsStep ==
  ASSUME RenderInv, NEW h \in Hosts, NEW cost \in {0, 1}, Fails(h, cost)
  PROVE  RenderInv'
<1>1. outcome' = [outcome EXCEPT ![h] = "failed"] /\ outcome \in [Hosts -> Outcomes]
  BY DEF RenderInv, TypeOK, Fails
<1>2. outcome' \in [Hosts -> Outcomes] /\ \A g \in Hosts : outcome'[g] = "ok" => outcome[g] = "ok"
  BY <1>1 DEF Outcomes
<1>3. TypeOK'
  BY <1>2, NetworkAssumption DEF RenderInv, TypeOK, Fails, Happens, inputs
<1> QED BY <1>2, <1>3, Frame DEF Fails, inputs

LEMMA ReachedFacts ==
  ASSUME NEW new
  PROVE  /\ \A f \in Reached(new) : new[f] # Panic
         /\ Outcome(new) = "ok" => /\ Reached(new) = FileNames
                                   /\ \A f \in FileNames : new[f] \notin {Error, Panic}
<1>1. Len(FileSeq) \in Nat
  BY DEF FileSeq
<1>2. \A f \in Reached(new) : new[f] # Panic
  BY <1>1 DEF Reached
<1>3. ASSUME Outcome(new) = "ok"
      PROVE  Reached(new) = FileNames /\ \A f \in FileNames : new[f] \notin {Error, Panic}
  <2>1. \A f \in FileNames : new[f] \notin {Error, Panic}
    BY <1>3 DEF Outcome
  <2>2. \A i \in 1..Len(FileSeq) : new[FileSeq[i]] # Panic
    BY <2>1 DEF FileNames
  <2> QED BY <1>1, <2>1, <2>2 DEF Reached, FileNames
<1> QED BY <1>2, <1>3

LEMMA ReconcileStep ==
  ASSUME RenderInv, NEW h \in Hosts, NEW creds, NEW backends, NEW cost \in {0, 1},
         creds \subseteq SecretKeys,
         backends.api \subseteq V4, backends.ingress \subseteq V4,
         ReconcileLBConfig(h, creds, backends, cost)
  PROVE  RenderInv'
<1>1. PICK missing \in SUBSET Lookups :
        /\ Happens(IF missing = {} THEN cost ELSE cost + 1)
        /\ rendered' = [rendered EXCEPT ![h] = [spec |-> spec, creds |-> creds,
                                                backends |-> backends, missing |-> missing]]
        /\ \E new \in {Render(h, rendered'[h])} :
             /\ outcome' = [outcome EXCEPT ![h] = Outcome(new)]
             /\ texts' = [texts EXCEPT ![h] =
                            [f \in FileNames |-> IF f \in Reached(new) /\ new[f] # Error
                                                   THEN new[f] ELSE texts[h][f]]]
        /\ UNCHANGED inputs
  BY DEF ReconcileLBConfig
<1>2. PICK in : in = rendered'[h]
  OBVIOUS
<1>3. PICK new : new = Render(h, in)
  OBVIOUS
<1>4. /\ DOMAIN rendered = Hosts /\ DOMAIN texts = Hosts /\ outcome \in [Hosts -> Outcomes]
      /\ TypeOK
  BY DEF RenderInv, TypeOK
<1>5. /\ in = [spec |-> spec, creds |-> creds, backends |-> backends, missing |-> missing]
      /\ \A g \in Hosts \ {h} : rendered'[g] = rendered[g]
      /\ DOMAIN rendered' = Hosts
  BY <1>1, <1>2, <1>4
<1>6. GoodInputs(in)
  <2>1. spec \in Specs
    BY <1>4 DEF TypeOK
  <2> QED BY <1>5, <2>1 DEF GoodInputs
<1>7. /\ outcome' = [outcome EXCEPT ![h] = Outcome(new)]
      /\ texts' = [texts EXCEPT ![h] =
                      [f \in FileNames |-> IF f \in Reached(new) /\ new[f] # Error
                                             THEN new[f] ELSE texts[h][f]]]
  BY <1>1, <1>2, <1>3
<1>8. outcome' \in [Hosts -> Outcomes] /\ outcome'[h] = Outcome(new)
  BY <1>4, <1>7 DEF Outcomes, Outcome
<1>9. /\ DOMAIN texts' = Hosts
      /\ \A g \in Hosts \ {h} : texts'[g] = texts[g] /\ outcome'[g] = outcome[g]
      /\ \A f \in FileNames : texts'[h][f] = IF f \in Reached(new) /\ new[f] # Error
                                              THEN new[f] ELSE texts[h][f]
  BY <1>4, <1>7
<1>10. clusterNetwork \in ClusterNetworks /\ clusterNetwork' = clusterNetwork
  BY <1>1, <1>4 DEF TypeOK, inputs
<1>11. \A g \in Hosts, f \in FileNames : texts'[g][f] # NotRendered => texts'[g][f] \in Texts[f]
  <2> SUFFICES ASSUME NEW g \in Hosts, NEW f \in FileNames, texts'[g][f] # NotRendered
               PROVE  texts'[g][f] \in Texts[f]
    OBVIOUS
  <2>1. CASE texts'[g][f] = texts[g][f]
    BY <1>4, <2>1 DEF TypeOK
  <2>2. CASE texts'[g][f] # texts[g][f]
    <3>1. g = h /\ f \in Reached(new) /\ new[f] # Error /\ texts'[g][f] = new[f]
      BY <1>9, <2>2
    <3>2. new[f] \notin {Error, Panic}
      BY <3>1, ReachedFacts
    <3> QED BY <1>3, <1>6, <1>10, <3>1, <3>2, RenderTexts
  <2> QED BY <2>1, <2>2
<1>12. events' \in 0..MaxEvents
  BY <1>1, <1>4, NetworkAssumption DEF TypeOK, Happens
<1>13. TypeOK'
  <2>1. UNCHANGED <<clusterNetwork, spec, secret, nodes>>
    BY <1>1 DEF inputs
  <2>2. \A g \in Hosts : rendered'[g] # Nil =>
          /\ rendered'[g].spec \in Specs /\ rendered'[g].creds \subseteq SecretKeys
          /\ rendered'[g].missing \subseteq Lookups
    BY <1>2, <1>4, <1>5, <1>6 DEF TypeOK, GoodInputs
  <2> QED BY <1>4, <1>8, <1>11, <1>12, <2>1, <2>2 DEF TypeOK
<1>14. ASSUME NEW g \in Hosts, Ok(g)' PROVE TextsOfInputs(g)'
  <2> SUFFICES ASSUME NEW i \in {rendered'[g]}
               PROVE  /\ GoodInputs(i)
                      /\ \A f \in FileNames : /\ texts'[g][f] = (Render(g, i)')[f]
                                              /\ texts'[g][f] \notin {Error, Panic}
    BY DEF TextsOfInputs
  <2>1. Render(g, i)' = Render(g, i)
    BY <1>10, RenderStable
  <2>2. CASE g = h
    <3>1. i = in /\ Outcome(new) = "ok"
      BY <1>2, <1>8, <1>14, <2>2 DEF Ok
    <3>2. \A f \in FileNames : texts'[g][f] = new[f] /\ new[f] \notin {Error, Panic}
      BY <1>9, <2>2, <3>1, ReachedFacts
    <3> QED BY <1>3, <1>6, <2>1, <2>2, <3>1, <3>2
  <2>3. CASE g # h
    <3>1. Ok(g) /\ i = rendered[g] /\ texts'[g] = texts[g]
      BY <1>5, <1>9, <1>14, <2>3 DEF Ok
    <3>2. TextsOfInputs(g)
      BY <3>1 DEF RenderInv
    <3> QED BY <2>1, <3>1, <3>2 DEF TextsOfInputs
  <2> QED BY <2>2, <2>3
<1> QED BY <1>5, <1>9, <1>13, <1>14 DEF RenderInv

LEMMA InitStep == Init => RenderInv
<1> SUFFICES ASSUME Init PROVE RenderInv
  OBVIOUS
<1>1. PICK p \in V4, q \in V4 :
        spec = [cloud |-> "cloudscale", distribution |-> "openshift",
                api |-> {[type |-> "private", address |-> Single(p)]},
                ingress |-> {[type |-> "public", address |-> Single(q)]},
                nat |-> [type |-> "public", address |-> Single(q)],
                ingressBackend |-> TRUE]
  BY DEF Init
<1>2. Single(p) \in Cidrs /\ Single(q) \in Cidrs
  BY DEF Cidrs
<1>3. /\ [type |-> "private", address |-> Single(p)] \in VirtualAddresses
      /\ [type |-> "public", address |-> Single(q)] \in VirtualAddresses
  BY <1>2 DEF VirtualAddresses
<1> HIDE DEF Single
<1>4. spec \in Specs
  BY <1>1, <1>3 DEF Specs, Clouds, Distributions
<1>5. outcome \in [Hosts -> Outcomes] /\ \A h \in Hosts : ~Ok(h)
  BY DEF Init, Outcomes, Ok
<1>6. TypeOK
  BY <1>4, <1>5, NetworkAssumption DEF Init, TypeOK, SecretKeys
<1> QED BY <1>5, <1>6 DEF Init, RenderInv

LEMMA NextStep == RenderInv /\ [Next]_vars => RenderInv'
<1> SUFFICES ASSUME RenderInv, [Next]_vars PROVE RenderInv'
  OBVIOUS
<1>1. TypeOK /\ spec \in Specs /\ secret \subseteq SecretKeys /\ nodes \in [NodeNames -> NodeStates]
  BY DEF RenderInv, TypeOK
<1>2. ASSUME NEW h \in Hosts, Reconcile(h) PROVE RenderInv'
  <2>1. /\ getHAProxyBackends("api") \subseteq V4
        /\ getHAProxyBackends("ingress") \subseteq V4
    BY NodeBackends
  <2>2. PICK backends : backends = [api |-> getHAProxyBackends("api"), ingress |-> getHAProxyBackends("ingress")]
    OBVIOUS
  <2>3. ReconcileLBConfig(h, secret, backends, 0)
    BY <1>2, <2>2 DEF Reconcile
  <2> QED BY <1>1, <2>1, <2>2, <2>3, ReconcileStep
<1>3. ASSUME NEW h \in Hosts, InitializeNodeStatusFails(h) PROVE RenderInv'
  <2>1. PICK cost \in {0, 1} : Fails(h, cost)
    BY <1>3 DEF InitializeNodeStatusFails
  <2> QED BY <2>1, FailsStep
<1>4. ASSUME NEW h \in Hosts, NEW data \in {{}, secret}, NEW stringData \in {{}, secret},
             NEW apiBackends \in BackendFlags, NEW ingressBackends \in BackendFlags,
             RenderFile(h, data, stringData, apiBackends, ingressBackends)
      PROVE  RenderInv'
  <2>1. PICK api, ingress : /\ api = parseBackendString(apiBackends)
                            /\ ingress = parseBackendString(apiBackends)
    OBVIOUS
  <2>2. PICK creds, backends : /\ creds = FileCredentials(data, stringData)
                               /\ backends = [api |-> api, ingress |-> ingress]
    OBVIOUS
  <2>3. /\ api # Error /\ ingress # Error
        /\ ReconcileLBConfig(h, creds, backends, 1)
    BY <1>4, <2>1, <2>2 DEF RenderFile
  <2>4. api \subseteq V4 /\ ingress \subseteq V4
    BY <2>1, <2>3, FlagBackends
  <2>5. creds \subseteq SecretKeys
    BY <1>1, <2>2 DEF FileCredentials
  <2> QED BY <2>2, <2>3, <2>4, <2>5, ReconcileStep
<1>5. ASSUME NEW h \in Hosts, RenderFileFails(h) PROVE RenderInv'
  BY <1>5, FailsStep DEF RenderFileFails
<1>6. ASSUME NEW va \in VirtualAddresses, AddVIP(va) PROVE RenderInv'
  <2>1. PICK new : /\ Edit(new)
                   /\ new \in {[spec EXCEPT !.api = @ \cup {va}], [spec EXCEPT !.ingress = @ \cup {va}]}
    BY <1>6 DEF AddVIP
  <2>2. new \in Specs
    BY <1>1, <2>1 DEF Specs
  <2> QED BY <2>1, <2>2, EditStep
<1>7. ASSUME NEW va \in VirtualAddresses, RemoveVIP(va) PROVE RenderInv'
  <2>1. PICK new : /\ Edit(new)
                   /\ new \in {[spec EXCEPT !.api = @ \ {va}], [spec EXCEPT !.ingress = @ \ {va}]}
    BY <1>7 DEF RemoveVIP
  <2>2. new \in Specs
    BY <1>1, <2>1 DEF Specs
  <2> QED BY <2>1, <2>2, EditStep
<1>8. ASSUME NEW va \in VirtualAddresses \cup {Nil}, SetNAT(va) PROVE RenderInv'
  <2>1. PICK new : Edit(new) /\ new = [spec EXCEPT !.nat = va]
    BY <1>8 DEF SetNAT
  <2>2. new \in Specs
    BY <1>1, <2>1 DEF Specs
  <2> QED BY <2>1, <2>2, EditStep
<1>9. ASSUME NEW set \in BOOLEAN, SetIngressBackend(set) PROVE RenderInv'
  <2>1. PICK new : Edit(new) /\ new = [spec EXCEPT !.ingressBackend = set]
    BY <1>9 DEF SetIngressBackend
  <2>2. new \in Specs
    BY <1>1, <2>1 DEF Specs
  <2> QED BY <2>1, <2>2, EditStep
<1>10. ASSUME NEW cloud \in Clouds, NEW distribution \in Distributions, SetPlatform(cloud, distribution)
       PROVE  RenderInv'
  <2>1. PICK new : Edit(new) /\ new = [spec EXCEPT !.cloud = cloud, !.distribution = distribution]
    BY <1>10 DEF SetPlatform
  <2>2. new \in Specs
    BY <1>1, <2>1 DEF Specs
  <2> QED BY <2>1, <2>2, EditStep
<1>11. ASSUME NEW keys \in SUBSET SecretKeys, EditSecret(keys) PROVE RenderInv'
  <2>1. TypeOK'
    BY <1>1, <1>11, NetworkAssumption DEF TypeOK, EditSecret, Happens
  <2> QED BY <1>11, <2>1, Frame DEF EditSecret
<1>12. ASSUME NEW n \in NodeNames, NEW state \in NodeStates, ChangeNode(n, state) PROVE RenderInv'
  <2>1. TypeOK'
    BY <1>1, <1>12, NetworkAssumption DEF TypeOK, ChangeNode, Happens
  <2> QED BY <1>12, <2>1, Frame DEF ChangeNode
<1>13. ASSUME UNCHANGED vars PROVE RenderInv'
  <2>1. TypeOK'
    BY <1>1, <1>13 DEF TypeOK, vars, inputs
  <2> QED BY <1>13, <2>1, Frame DEF vars, inputs
<1> QED BY <1>2, <1>3, <1>4, <1>5, <1>6, <1>7, <1>8, <1>9, <1>10, <1>11, <1>12, <1>13 DEF Next

LEMMA RenderInvCorrect == Spec => []RenderInv
  BY InitStep, NextStep, PTL DEF Spec

\* Whatever users and nodes do, what the templates print has its type: in particular an
\* address where a template needs one, or the invalid address for a load balancer's own.
THEOREM TypeCorrect == Spec => []TypeOK
<1>1. RenderInv => TypeOK
  BY DEF RenderInv
<1> QED BY <1>1, RenderInvCorrect, PTL

-------------------------------------------------------------------------------
(* What a pass that ended well has written.                                    *)

LEMMA OkTexts ==
  ASSUME RenderInv, NEW h \in Hosts, Ok(h)
  PROVE  /\ GoodInputs(rendered[h])
         /\ texts[h].haproxyAPI = RenderHAProxyAPIConfig(rendered[h])
         /\ texts[h].haproxyIngress = RenderHAProxyIngressConfig(rendered[h])
         /\ texts[h].keepalived = RenderKeepalivedConfig(h, rendered[h])
         /\ texts[h].floaty = RenderFloatyConfig(rendered[h])
         /\ texts[h].conntrackd = RenderConntrackdConfig(h, rendered[h])
         /\ texts[h].clusterNet = RenderClusterNetNMConnection(h, rendered[h])
         /\ texts[h].dummy = RenderKeepalivedDummyNMConnection(rendered[h].spec)
         /\ texts[h].externalZone = RenderFirewallExternalZone(rendered[h].spec)
         /\ texts[h].directRules = RenderFirewallDirectRules(rendered[h].spec)
         /\ \A f \in FileNames : texts[h][f] \notin {Error, Panic}
<1>1. /\ GoodInputs(rendered[h])
      /\ \A f \in FileNames : texts[h][f] = Render(h, rendered[h])[f] /\ texts[h][f] \notin {Error, Panic}
  BY DEF RenderInv, TextsOfInputs
<1> QED BY <1>1, FileNamesAre DEF Render

\* The addresses behind the texts.
LEMMA OkAddresses ==
  ASSUME RenderInv, NEW h \in Hosts, Ok(h), NEW s, s = rendered[h].spec
  PROVE  /\ s \in Specs
         /\ s.nat # Nil /\ s.nat \in NATs(s)
         /\ getHAProxyFrontends(s) # Error
         /\ texts[h].haproxyAPI.api = getHAProxyFrontends(s).api
         /\ texts[h].haproxyAPI.ignition \subseteq getHAProxyFrontends(s).ignition
         /\ texts[h].haproxyAPI.backends = rendered[h].backends.api
         /\ texts[h].haproxyIngress.ingress = getHAProxyFrontends(s).ingress
         /\ texts[h].haproxyIngress.backends = rendered[h].backends.ingress
         /\ privateVIPs(s, {internalIPs.gateway}) # Error
         /\ texts[h].keepalived.vips = privateVIPs(s, {internalIPs.gateway})
         /\ publicVIPs(s) # Error
         /\ texts[h].floaty.vips = publicVIPs(s)
         /\ texts[h].dummy.v4 \cup texts[h].dummy.v6 = publicVIPs(s)
         /\ texts[h].externalZone.v4 \cup texts[h].externalZone.v6 = publicVIPs(s)
         /\ texts[h].directRules.snat = s.nat.address.ip
<1>1. PICK in : in = rendered[h]
  OBVIOUS
<1>2. PICK t : t = texts[h]
  OBVIOUS
<1>3. /\ GoodInputs(in) /\ s = in.spec
      /\ t.haproxyAPI = RenderHAProxyAPIConfig(in)
      /\ t.haproxyIngress = RenderHAProxyIngressConfig(in)
      /\ t.keepalived = RenderKeepalivedConfig(h, in)
      /\ t.floaty = RenderFloatyConfig(in)
      /\ t.dummy = RenderKeepalivedDummyNMConnection(s)
      /\ t.externalZone = RenderFirewallExternalZone(s)
      /\ t.directRules = RenderFirewallDirectRules(s)
      /\ \A f \in FileNames : t[f] \notin {Error, Panic}
  BY <1>1, <1>2, OkTexts
<1>4. s \in Specs
  BY <1>3 DEF GoodInputs
<1>5. /\ t.haproxyAPI \notin {Error, Panic} /\ t.haproxyIngress \notin {Error, Panic}
      /\ t.keepalived \notin {Error, Panic} /\ t.floaty \notin {Error, Panic}
      /\ t.dummy \notin {Error, Panic} /\ t.externalZone \notin {Error, Panic}
      /\ t.directRules \notin {Error, Panic}
  BY <1>3, FileNamesAre
<1>6. s.nat # Nil /\ s.nat \in NATs(s) /\ t.directRules.snat = s.nat.address.ip
  BY <1>3, <1>5 DEF RenderFirewallDirectRules, NATs
<1>7. /\ getHAProxyFrontends(s) # Error
      /\ t.haproxyAPI.api = getHAProxyFrontends(s).api
      /\ t.haproxyAPI.ignition \subseteq getHAProxyFrontends(s).ignition
      /\ t.haproxyAPI.backends = in.backends.api
  BY <1>3, <1>5 DEF RenderHAProxyAPIConfig
<1>8. /\ t.haproxyIngress.ingress = getHAProxyFrontends(s).ingress
      /\ t.haproxyIngress.backends = in.backends.ingress
  BY <1>3, <1>5 DEF RenderHAProxyIngressConfig
<1>9. /\ privateVIPs(s, {internalIPs.gateway}) # Error
      /\ t.keepalived.vips = privateVIPs(s, {internalIPs.gateway})
  BY <1>3, <1>5, <1>6 DEF RenderKeepalivedConfig
<1>10. publicVIPs(s) # Error /\ t.floaty.vips = publicVIPs(s)
  BY <1>3, <1>5 DEF RenderFloatyConfig
<1>11. /\ t.dummy.v4 \cup t.dummy.v6 = publicVIPs(s)
       /\ t.externalZone.v4 \cup t.externalZone.v6 = publicVIPs(s)
  <2>1. /\ t.dummy = [v4 |-> publicVIPs(s) \cap IPv4, v6 |-> publicVIPs(s) \ IPv4]
        /\ t.externalZone = [v4 |-> publicVIPs(s) \cap IPv4, v6 |-> publicVIPs(s) \ IPv4]
    BY <1>3, <1>5 DEF RenderKeepalivedDummyNMConnection, RenderFirewallExternalZone
  <2> QED BY <2>1
<1> QED BY <1>1, <1>2, <1>4, <1>6, <1>7, <1>8, <1>9, <1>10, <1>11

\* Every address HAProxy binds is an address keepalived or Floaty holds, and ignition is
\* served only on private ones: what getHAProxyFrontends computes is covered by what
\* privateVIPs and publicVIPs compute, for every spec a pass can succeed with.
THEOREM FrontendsCorrect == Spec => []FrontendsAreHeld
<1>1. ASSUME RenderInv, NEW h \in Hosts, Ok(h)
      PROVE  /\ texts[h].haproxyAPI.api \cup texts[h].haproxyIngress.ingress \subseteq Held(h)
             /\ texts[h].haproxyAPI.ignition \subseteq texts[h].keepalived.vips
  <2>1. PICK s : s = rendered[h].spec
    OBVIOUS
  <2>2. PICK private : private = privateVIPs(s, {internalIPs.gateway})
    OBVIOUS
  <2>3. /\ s \in Specs /\ getHAProxyFrontends(s) # Error /\ private # Error /\ publicVIPs(s) # Error
        /\ texts[h].haproxyAPI.api = getHAProxyFrontends(s).api
        /\ texts[h].haproxyAPI.ignition \subseteq getHAProxyFrontends(s).ignition
        /\ texts[h].haproxyIngress.ingress = getHAProxyFrontends(s).ingress
        /\ Held(h) = private \cup publicVIPs(s) /\ texts[h].keepalived.vips = private
    BY <1>1, <2>1, <2>2, OkAddresses DEF Held
  <2>4. \A va \in s.api \cup s.ingress : va.type \in {"private", "public"}
    BY <2>3, SpecFacts, AddressFacts
  <2>5. /\ \A va \in s.api \cup s.ingress : va.type = "private" => va.address.ip \in private
        /\ \A va \in s.api \cup s.ingress : va.type = "public" => va.address.ip \in publicVIPs(s)
    BY <2>2, <2>3, PrivateFacts, PublicFacts
  <2>6. /\ getHAProxyFrontends(s).api \subseteq Held(h) /\ getHAProxyFrontends(s).ingress \subseteq Held(h)
        /\ getHAProxyFrontends(s).ignition \subseteq private
    BY <2>3, <2>4, <2>5, FrontendFacts DEF OfType
  <2> QED BY <2>3, <2>6
<1>2. RenderInv => FrontendsAreHeld
  BY <1>1 DEF FrontendsAreHeld
<1> QED BY <1>2, RenderInvCorrect, PTL

\* The source address of the SNAT rule is held, although RenderFirewallDirectRules parses
\* it by rules of its own, and so is the gateway, an address of the cluster network unless
\* that has only one.
THEOREM SnatCorrect == Spec => []SnatIsHeld
<1>1. ASSUME RenderInv, NEW h \in Hosts, Ok(h)
      PROVE  /\ texts[h].directRules.snat \in Held(h)
             /\ internalIPs.gateway \in texts[h].keepalived.vips
             /\ clusterNetwork.bits < AddrBits => SameNetwork(internalIPs.gateway, clusterNetwork)
  <2>1. PICK s : s = rendered[h].spec
    OBVIOUS
  <2>2. PICK private : private = privateVIPs(s, {internalIPs.gateway})
    OBVIOUS
  <2>3. /\ s \in Specs /\ s.nat # Nil /\ s.nat \in NATs(s) /\ private # Error /\ publicVIPs(s) # Error
        /\ texts[h].directRules.snat = s.nat.address.ip
        /\ Held(h) = private \cup publicVIPs(s) /\ texts[h].keepalived.vips = private
    BY <1>1, <2>1, <2>2, OkAddresses DEF Held
  <2>4. s.nat.type \in {"private", "public"}
    BY <2>3, SpecFacts, AddressFacts
  <2>5. internalIPs.gateway \in private
    BY <2>2, <2>3, PrivateFacts
  <2>6. s.nat.address.ip \in private \cup publicVIPs(s)
    BY <2>2, <2>3, <2>4, PrivateFacts, PublicFacts
  <2>7. clusterNetwork.bits < AddrBits => SameNetwork(internalIPs.gateway, clusterNetwork)
    BY <1>1, GatewayFacts DEF RenderInv, TypeOK
  <2> QED BY <2>3, <2>5, <2>6, <2>7
<1>2. RenderInv => SnatIsHeld
  BY <1>1 DEF SnatIsHeld
<1> QED BY <1>2, RenderInvCorrect, PTL

\* Floaty, the dummy interface and the firewall show the same public addresses, of one
\* spec, after any history of passes that failed halfway.
THEOREM PublicCorrect == Spec => []PublicFilesAgree
<1>1. RenderInv => PublicFilesAgree
  BY OkAddresses DEF PublicFilesAgree
<1> QED BY <1>1, RenderInvCorrect, PTL

\* The internal addresses of a load balancer's files.
LEMMA OkInternal ==
  ASSUME RenderInv, NEW h \in Hosts, Ok(h)
  PROVE  /\ texts[h].keepalived.src = internalIPs[h]
         /\ texts[h].keepalived.dst = internalIPs[Peer(h)]
         /\ texts[h].keepalived.prio = IF h = "primary" THEN 200 ELSE 100
         /\ texts[h].clusterNet.ip = internalIPs[h]
         /\ rendered[h].missing = {} => /\ texts[h].conntrackd.src = internalIPs[h]
                                        /\ texts[h].conntrackd.dst = internalIPs[Peer(h)]
<1>1. PICK in : in = rendered[h]
  OBVIOUS
<1>2. PICK t : t = texts[h]
  OBVIOUS
<1>3. /\ t.keepalived = RenderKeepalivedConfig(h, in)
      /\ t.conntrackd = RenderConntrackdConfig(h, in)
      /\ t.clusterNet = RenderClusterNetNMConnection(h, in)
      /\ \A f \in FileNames : t[f] \notin {Error, Panic}
  BY <1>1, <1>2, OkTexts
<1>4. t.keepalived # Error /\ t.clusterNet # Error
  BY <1>3, FileNamesAre
<1>5. /\ t.keepalived.src = internalIPs[h] /\ t.keepalived.dst = internalIPs[Peer(h)]
      /\ t.keepalived.prio = IF h = "primary" THEN 200 ELSE 100
  BY <1>3, <1>4 DEF RenderKeepalivedConfig, myInternalIP, peerInternalIP
<1>6. t.clusterNet.ip = internalIPs[h]
  BY <1>3, <1>4 DEF RenderClusterNetNMConnection, myInternalIP
<1>7. in.missing = {} => t.conntrackd.src = internalIPs[h] /\ t.conntrackd.dst = internalIPs[Peer(h)]
  BY <1>3 DEF RenderConntrackdConfig, myInternalIP, peerInternalIP
<1> QED BY <1>1, <1>2, <1>5, <1>6, <1>7

\* The two load balancers are VRRP peers with the addresses of the network the flag names,
\* whenever both have ended a pass well, and render the same services from equal inputs.
THEOREM PairCorrect == Spec => []PairAgrees
<1> DEFINE p == texts["primary"]
           s == texts["secondary"]
<1>1. ASSUME RenderInv, Ok("primary"), Ok("secondary")
      PROVE  PairAgrees
  <2>1. /\ p.keepalived.src = internalIPs.primary /\ p.keepalived.dst = internalIPs.secondary
        /\ p.keepalived.prio = 200 /\ p.clusterNet.ip = internalIPs.primary
    BY <1>1, OkInternal DEF Hosts, Peer
  <2>2. /\ s.keepalived.src = internalIPs.secondary /\ s.keepalived.dst = internalIPs.primary
        /\ s.keepalived.prio = 100 /\ s.clusterNet.ip = internalIPs.secondary
    BY <1>1, OkInternal DEF Hosts, Peer
  <2>3. \A h \in Hosts : rendered[h].missing = {} =>
          /\ texts[h].conntrackd.src = texts[h].keepalived.src
          /\ texts[h].conntrackd.dst = texts[h].keepalived.dst
    BY <1>1, OkInternal DEF Hosts
  <2>4. ASSUME clusterNetwork.bits + 2 <= AddrBits
        PROVE  /\ p.keepalived.src # s.keepalived.src
               /\ \A ip \in {p.keepalived.src, s.keepalived.src, internalIPs.gateway} :
                    SameNetwork(ip, clusterNetwork)
    <3>1. clusterNetwork \in ClusterNetworks
      BY <1>1 DEF RenderInv, TypeOK
    <3>2. /\ internalIPs.primary # internalIPs.secondary
          /\ \A ip \in {internalIPs.gateway, internalIPs.primary, internalIPs.secondary} :
               SameNetwork(ip, clusterNetwork)
      BY <2>4, <3>1, InternalDistinct
    <3> QED BY <2>1, <2>2, <3>2
  <2>5. ASSUME rendered["primary"] = rendered["secondary"]
        PROVE  p.keepalived.vips = s.keepalived.vips /\ \A f \in SharedFiles : p[f] = s[f]
    <3>1. "primary" \in Hosts /\ "secondary" \in Hosts
      BY DEF Hosts
    <3>2. p.keepalived.vips = s.keepalived.vips
      BY <1>1, <2>5, <3>1, OkAddresses
    <3>3. SharedFiles = {"haproxyAPI", "haproxyIngress", "floaty", "dummy", "externalZone", "directRules"}
      BY FileNamesAre DEF SharedFiles
    <3>4. /\ p.haproxyAPI = s.haproxyAPI /\ p.haproxyIngress = s.haproxyIngress
          /\ p.floaty = s.floaty /\ p.dummy = s.dummy /\ p.externalZone = s.externalZone
          /\ p.directRules = s.directRules
      BY <1>1, <2>5, <3>1, OkTexts
    <3> HIDE DEF p, s
    <3> QED BY <3>2, <3>3, <3>4
  <2> QED BY <2>1, <2>2, <2>3, <2>4, <2>5 DEF PairAgrees
<1>2. RenderInv => PairAgrees
  BY <1>1 DEF PairAgrees
<1> QED BY <1>2, RenderInvCorrect, PTL
===============================================================================
