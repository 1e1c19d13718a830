-------------------------- MODULE PacketPolicyProofs --------------------------
(***************************************************************************)
(* Theorems about the TPROXY rules of every valid configuration, over any  *)
(* number of networks and addresses.                                       *)
(***************************************************************************)
EXTENDS PacketPolicy, TLAPS, WellFoundedInduction

\* A set of numbers up to a bound has a greatest member.
LEMMA GreatestNumber ==
  ASSUME NEW T \in SUBSET (0..MaxWidth), T # {}
  PROVE  \E x \in T : \A y \in T : y <= x
<1> DEFINE R == OpToRel(<, Nat)
           U == {MaxWidth - t : t \in T}
<1>1. MaxWidth \in Nat BY PrefixAssumption
<1>2. U \subseteq Nat /\ U # {}
  <2>1. \A t \in T : MaxWidth - t \in Nat BY <1>1
  <2> QED BY <2>1
<1>3. \E u \in U : \A w \in U : ~(<<w, u>> \in R)
  <2> HIDE DEF R, U
  <2> QED BY <1>2, NatLessThanWellFounded, WFMin DEF R
<1>4. PICK u \in U : \A w \in U : ~(<<w, u>> \in R) BY <1>3
<1>5. \A w \in U : ~(w < u) BY <1>2, <1>4 DEF OpToRel
<1>6. PICK t \in T : u = MaxWidth - t OBVIOUS
<1>7. \A y \in T : y <= t
  <2> TAKE y \in T
  <2>1. ~(MaxWidth - y < MaxWidth - t) BY <1>5, <1>6
  <2> QED BY <2>1, <1>1
<1> QED BY <1>7

\* The networks that the rules of a valid configuration name
LEMMA KnownNetworks ==
  ASSUME NEW c, ValidConfig(c)
  PROVE  EffectiveRoutes(c) \subseteq Networks /\ Excluded(c) \subseteq Networks
BY PrefixAssumption DEF ValidConfig, EffectiveRoutes, Excluded

\* The rules for an address are those of the networks that contain it.
LEMMA MatchingSubnets ==
  ASSUME NEW c, ValidConfig(c), NEW a
  PROVE  /\ \A s \in Subnets(c, a[1]) :
              /\ s.network \in Networks /\ s.network.width \in 0..MaxWidth
              /\ s.exclude \in BOOLEAN
              /\ s.exclude => s.network \in Excluded(c)
              /\ ~s.exclude => s.network \in EffectiveRoutes(c)
         /\ \A e \in Excluded(c) : a \in e.members =>
              [network |-> e, exclude |-> TRUE] \in Subnets(c, a[1])
         /\ \A r \in EffectiveRoutes(c) : a \in r.members =>
              [network |-> r, exclude |-> FALSE] \in Subnets(c, a[1])
BY KnownNetworks, PrefixAssumption DEF Subnets

\* The rules capture an address in a declared route, unless an excluded network
\* that is part of that route contains it.  The order by _subnet_weight decides
\* every overlap of routes, gateway networks and multicast that way.
THEOREM CaptureIsRouting ==
  ASSUME NEW c, ValidConfig(c), NEW a
  PROVE  Captures(Subnets(c, a[1]), a) <=> Routed(c, a)
<1> USE KnownNetworks, MatchingSubnets
<1>1. ASSUME Captures(Subnets(c, a[1]), a) PROVE Routed(c, a)
  <2>1. PICK s \in Subnets(c, a[1]) :
          /\ ~s.exclude /\ a \in s.network.members
          /\ \A t \in Subnets(c, a[1]) : a \in t.network.members => ~Before(t, s)
    BY <1>1 DEF Captures
  <2>2. s.network \in EffectiveRoutes(c) BY <2>1
  <2>3. ASSUME NEW e \in Excluded(c), a \in e.members, e.members \subseteq s.network.members
        PROVE  FALSE
    <3> DEFINE t == [network |-> e, exclude |-> TRUE]
    <3>1. t \in Subnets(c, a[1]) /\ t.network = e /\ t.exclude BY <2>3
    <3>2. ~Before(t, s) BY <2>1, <2>3, <3>1
    <3>3. e.width < s.network.width BY <2>1, <3>1, <3>2 DEF Before
    <3>4. s.network.members \subseteq e.members
      BY <2>1, <2>3, <3>3, <3>1, PrefixAssumption
    <3>5. e.members = s.network.members BY <2>3, <3>4
    <3>6. e.width = s.network.width BY <2>1, <2>3, <3>1, <3>5, PrefixAssumption
    <3> QED BY <3>1, <3>3, <3>6, PrefixAssumption
  <2> QED BY <2>1, <2>2, <2>3 DEF Routed
<1>2. ASSUME Routed(c, a) PROVE Captures(Subnets(c, a[1]), a)
  <2>1. PICK r \in EffectiveRoutes(c) :
          /\ a \in r.members
          /\ \A e \in Excluded(c) : a \in e.members => ~(e.members \subseteq r.members)
    BY <1>2 DEF Routed
  <2> DEFINE M == {n \in EffectiveRoutes(c) : a \in n.members}
             W == {n.width : n \in M}
  <2>2. W \in SUBSET (0..MaxWidth) /\ W # {} BY <2>1, PrefixAssumption
  <2>3. PICK w \in W : \A y \in W : y <= w
    <3> HIDE DEF W
    <3> QED BY <2>2, GreatestNumber
  <2>4. PICK n \in M : n.width = w BY <2>3
  <2>5. \A m \in M : m.width <= n.width BY <2>3, <2>4
  <2> DEFINE s == [network |-> n, exclude |-> FALSE]
  <2>6. s \in Subnets(c, a[1]) /\ ~s.exclude /\ s.network = n /\ a \in s.network.members
    BY <2>4
  <2>7. n.members \subseteq r.members /\ n \in Networks /\ r \in Networks
    BY <2>1, <2>4, <2>5, PrefixAssumption
  <2>8. ASSUME NEW t \in Subnets(c, a[1]), a \in t.network.members, Before(t, s)
        PROVE  FALSE
    <3>1. CASE ~t.exclude
      <4>1. t.network \in M BY <2>8, <3>1
      <4>2. t.network.width > n.width BY <2>8, <2>6, <3>1 DEF Before
      <4> QED BY <4>1, <4>2, <2>5, <2>7, PrefixAssumption
    <3>2. CASE t.exclude
      <4>1. t.network.width >= n.width BY <2>8, <2>6, <2>7, PrefixAssumption DEF Before
      <4>2. t.network.members \subseteq n.members
        BY <2>8, <4>1, <2>4, <2>7, PrefixAssumption
      <4> QED BY <2>1, <2>7, <2>8, <3>2, <4>2
    <3> QED BY <3>1, <3>2, <2>8
  <2> QED BY <2>6, <2>8 DEF Captures
<1> QED BY <1>1, <1>2

\* No configuration that passes validation lets the rules capture multicast or
\* limited broadcast, however narrow its routes are.
THEOREM NeverCaptured ==
  ASSUME NEW c, ValidConfig(c), NEW a, In(a, Multicast \cup LimitedBroadcast)
  PROVE  ~Captures(Subnets(c, a[1]), a)
<1>1. PICK e \in Multicast \cup LimitedBroadcast : a \in e.members BY DEF In
<1>2. e \in Excluded(c) /\ e \in Networks BY PrefixAssumption DEF Excluded
<1>3. ASSUME NEW r \in EffectiveRoutes(c), a \in r.members
      PROVE  e.members \subseteq r.members
  <2>1. r \in Networks BY KnownNetworks
  <2>2. CASE e.width >= r.width BY <1>1, <1>2, <1>3, <2>1, <2>2, PrefixAssumption
  <2>3. CASE e.width < r.width
    <3>1. r.members \subseteq e.members
      BY <1>1, <1>2, <1>3, <2>1, <2>3, PrefixAssumption
    <3>2. CASE e \in LimitedBroadcast BY <1>1, <1>3, <3>2, PrefixAssumption
    <3>3. CASE e \in Multicast
      <4>1. r \notin c.networks BY <3>1, <3>3 DEF ValidConfig, ValidRoutes
      <4>2. r.width = 0 BY <4>1 DEF EffectiveRoutes
      <4> QED BY <4>2, <2>3, <1>2, PrefixAssumption
    <3> QED BY <1>1, <3>2, <3>3
  <2> QED BY <2>2, <2>3, <1>2, <2>1, PrefixAssumption
<1>4. ~Routed(c, a) BY <1>1, <1>2, <1>3 DEF Routed
<1> QED BY <1>4, CaptureIsRouting

\* An enabled DNS upstream of a valid configuration reaches sshuttle, unless it
\* is the limited broadcast address, which validation lets pass.
THEOREM DnsCaptured ==
  ASSUME NEW c, ValidConfig(c), c.upstream # NoUpstream,
         ~In(c.upstream, LimitedBroadcast)
  PROVE  Captures(Subnets(c, c.upstream[1]), c.upstream)
<1>1. /\ ~In(c.upstream, Multicast) /\ ~In(c.upstream, GatewayNetworks(c))
      /\ In(c.upstream, EffectiveRoutes(c))
  BY DEF ValidConfig, ValidDns, ValidUpstream, Unicast
<1>2. \A e \in Excluded(c) : c.upstream \notin e.members BY <1>1 DEF In, Excluded
<1>3. Routed(c, c.upstream) BY <1>1, <1>2 DEF In, Routed
<1> QED BY <1>3, CaptureIsRouting

\* The peers' own networks are left out of the capture as long as no route is
\* declared inside of one.
THEOREM PeersNotCaptured ==
  ASSUME NEW c, ValidConfig(c), NEW a, In(a, GatewayNetworks(c)),
         \A r \in EffectiveRoutes(c), g \in GatewayNetworks(c) :
           r.members \subseteq g.members => r.members = g.members
  PROVE  ~Captures(Subnets(c, a[1]), a)
<1>1. PICK g \in GatewayNetworks(c) : a \in g.members BY DEF In
<1>2. g \in Excluded(c) /\ g \in Networks BY DEF Excluded, ValidConfig
<1>3. ASSUME NEW r \in EffectiveRoutes(c), a \in r.members
      PROVE  g.members \subseteq r.members
  <2>1. r \in Networks BY KnownNetworks
  <2>2. g.width >= r.width \/ r.width >= g.width BY <1>2, <2>1, PrefixAssumption
  <2> QED BY <1>1, <1>2, <1>3, <2>1, <2>2, PrefixAssumption
<1>4. ~Routed(c, a) BY <1>1, <1>2, <1>3 DEF Routed
<1> QED BY <1>4, CaptureIsRouting
===============================================================================
