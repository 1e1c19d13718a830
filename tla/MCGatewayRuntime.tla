--------------------------- MODULE MCGatewayRuntime ---------------------------
(* Instance of GatewayRuntime for TLC: IPv4 with four bits, IPv6 with three. *)
EXTENDS GatewayRuntime

Net(version, bits, width, prefix) ==
  LET size == 2^(bits - width)
  IN  [version |-> version, width |-> width,
       members |-> {<<version, n>> : n \in (prefix * size)..((prefix + 1) * size - 1)}]
Net4(width, prefix) == Net(4, 4, width, prefix)
Net6(width, prefix) == Net(6, 3, width, prefix)

AllNetworks ==
  UNION {{Net4(w, p) : p \in 0..(2^w - 1)} : w \in 0..4}
    \cup UNION {{Net6(w, p) : p \in 0..(2^w - 1)} : w \in 0..3}
Multicast4And6 == {Net4(2, 2), Net6(2, 3)}
Broadcast == {Net4(4, 15)}
Uplink == {<<4, 4>>}

Gateway4 == [ip |-> <<4, 1>>, network |-> Net4(2, 0)]
Gateway6 == [ip |-> <<6, 1>>, network |-> Net6(1, 0)]

\* Full routing of both versions; gateways of both versions with routes of one,
\* which are equal to the gateway network, inside of it, and around the uplink;
\* one version with routes around and inside the excluded networks.
Choices ==
  {[gateways |-> {Gateway4, Gateway6}, peers |-> {{<<4, 2>>, <<6, 2>>}},
    mode |-> "full", networks |-> {}, upstream |-> <<4, 6>>],
   [gateways |-> {Gateway4, Gateway6}, peers |-> {{<<4, 2>>}, {<<6, 2>>}},
    mode |-> "selected", networks |-> {Net4(2, 0), Net4(4, 3), Net4(2, 1)},
    upstream |-> "none"],
   [gateways |-> {Gateway4}, peers |-> {{<<4, 2>>}, {<<4, 3>>}},
    mode |-> "selected", networks |-> {Net4(1, 1), Net4(4, 15), Net4(3, 3)},
    upstream |-> <<4, 12>>]}
===============================================================================
