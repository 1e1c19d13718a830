----------------------------- MODULE PacketPolicy -----------------------------
(***************************************************************************)
(* Which packets of the peers sshuttle gets: the rules of a configuration  *)
(* (config.py), the subnets that sshuttle is started with (runtime.py) and *)
(* the order of the TPROXY rules made of them (nft_tproxy.py).  An address *)
(* is a pair of IP version and number; a network is known by its version,  *)
(* its prefix length and the addresses in it.                              *)
(***************************************************************************)
EXTENDS Naturals

CONSTANTS Networks,         \* the networks that can be written
          Multicast,        \* 224.0.0.0/4 and ff00::/8
          LimitedBroadcast, \* 255.255.255.255/32
          MaxWidth,         \* no prefix is longer
          NoUpstream        \* DNS is not enabled

\* What prefixes are: of two networks that meet, the one with the longer prefix
\* lies in the other, and every version has its network of width 0.
ASSUME PrefixAssumption ==
  /\ \A n \in Networks : /\ n.width \in 0..MaxWidth
                         /\ \A a \in n.members : a[1] = n.version
  /\ \A m, n \in Networks :
       m.members \cap n.members # {} =>
         /\ m.version = n.version
         /\ m.width >= n.width => m.members \subseteq n.members
         /\ m.members = n.members => m.width = n.width
  /\ \A n \in Networks : \E d \in Networks : d.version = n.version /\ d.width = 0
  /\ Multicast \cup LimitedBroadcast \subseteq Networks
  /\ \A n \in LimitedBroadcast : \A a, b \in n.members : a = b
  /\ MaxWidth \in Nat

-------------------------------------------------------------------------------
(* config.py *)

Versions(networks) == {n.version : n \in networks}
In(a, networks) == \E n \in networks : a \in n.members

GatewayIps(c) == {g.ip : g \in c.gateways}
GatewayNetworks(c) == {g.network : g \in c.gateways}
EffectiveRoutes(c) ==
  IF c.mode = "selected" THEN c.networks
  ELSE {n \in Networks : n.width = 0 /\ n.version \in Versions(GatewayNetworks(c))}

Unicast(a) == a[2] # 0 /\ ~In(a, Multicast)
FirstOf(n) == CHOOSE a \in n.members : \A b \in n.members : a[2] <= b[2]
LastOf(n) == CHOOSE a \in n.members : \A b \in n.members : a[2] >= b[2]

ValidGateways(c) ==
  /\ c.gateways # {}
  /\ \A g \in c.gateways :
       /\ \A h \in c.gateways : g.network.version = h.network.version => g = h
       /\ g.ip \in g.network.members \ {FirstOf(g.network)} /\ Unicast(g.ip)
       /\ g.network.version = 4 => g.ip # LastOf(g.network)

\* A peer is the set of its addresses.
ValidPeer(p) == p # {} /\ \A a, b \in p : a[1] = b[1] => a = b

ValidPeers(c) ==
  /\ c.peers # {}
  /\ \A p \in c.peers : ValidPeer(p) /\ \A a \in p :
       /\ Unicast(a) /\ In(a, GatewayNetworks(c)) /\ a \notin GatewayIps(c)
       /\ \A q \in c.peers : a \in q => p = q

ValidRoutes(c) ==
  /\ c.mode = "selected" <=> c.networks # {}
  /\ \A n \in c.networks : ~ \E m \in Multicast : n.members \subseteq m.members
RoutesHaveGateways(c) ==
  Versions(EffectiveRoutes(c)) \subseteq Versions(GatewayNetworks(c))

ValidUpstream(c) == c.upstream # NoUpstream => Unicast(c.upstream)
ValidDns(c) ==
  c.upstream # NoUpstream =>
    /\ ~In(c.upstream, GatewayNetworks(c)) /\ In(c.upstream, EffectiveRoutes(c))
    /\ \A p \in c.peers : \E a \in p : a[1] = c.upstream[1]

\* What load_config lets pass
ValidConfig(c) ==
  /\ c.networks \subseteq Networks /\ GatewayNetworks(c) \subseteq Networks
  /\ ValidGateways(c) /\ ValidPeers(c) /\ ValidRoutes(c) /\ RoutesHaveGateways(c)
  /\ ValidUpstream(c) /\ ValidDns(c)

-------------------------------------------------------------------------------
(* sshuttle_arguments and the adapter *)

Excluded(c) == Multicast \cup LimitedBroadcast \cup GatewayNetworks(c)

\* The subnets of one version, as sshuttle hands them to setup_firewall
Subnets(c, version) ==
  {s \in [network : Excluded(c), exclude : {TRUE}]
           \cup [network : EffectiveRoutes(c), exclude : {FALSE}] :
     s.network.version = version}

\* Mutant: exclusions do not come before routes of the same width.
ByWidth(s, t) == s.network.width > t.network.width

\* _subnet_weight, in the reverse order of sorted(); no subnet has ports.
Before(s, t) ==
  \/ s.network.width > t.network.width
  \/ s.network.width = t.network.width /\ s.exclude /\ ~t.exclude

\* The first rule that matches is one that captures.  Rules of one weight are
\* all of one kind, so their order among each other does not matter.
Captures(subnets, a) ==
  \E s \in subnets :
    /\ ~s.exclude /\ a \in s.network.members
    /\ \A t \in subnets : a \in t.network.members => ~Before(t, s)

-------------------------------------------------------------------------------
(* The same without an order of rules *)

\* In a declared route, and in no excluded network that is part of it.  A route
\* inside a gateway network counts: there the rules do not exclude the peers'
\* networks.
Routed(c, a) ==
  \E r \in EffectiveRoutes(c) :
    /\ a \in r.members
    /\ \A e \in Excluded(c) : a \in e.members => ~(e.members \subseteq r.members)
===============================================================================
