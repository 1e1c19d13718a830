SPECIFICATION Spec
CONSTANTS
  Networks <- AllNetworks
  Multicast <- Multicast4And6
  LimitedBroadcast <- Broadcast
  MaxWidth = 4
  NoUpstream = "none"
  Configs <- Choices
  UplinkAddresses <- Uplink
  MaxFaults = 0
INVARIANT
  IngressAlwaysFiltered
