SPECIFICATION FairSpec
CONSTANTS
  Networks <- AllNetworks
  Multicast <- Multicast4And6
  LimitedBroadcast <- Broadcast
  MaxWidth = 4
  NoUpstream = "none"
  Configs <- Choices
  UplinkAddresses <- Uplink
  MaxFaults = 3
INVARIANTS
  TypeOK
  IngressGuarded
  RoutesServed
  ReadyIsTrue
  StatusMatchesExit
  IndependentCleanup
PROPERTIES
  ImplementsAttempt
  StopEnds
  ProxyDeathEnds
