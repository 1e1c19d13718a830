SPECIFICATION FairSpec
CONSTANTS
  Commands = {1, 2}
  Sockets = {s1, s2}
  Phones = {p1}
  Rests = {r1}
  Initial <- OneConfig
  Burst = 2
  MaxEdits = 1
  MaxMutations = 1
  MaxLaunches = 2
  MaxInterrupts = 1
INVARIANTS
  TypeOK
  ServesClaimedSockets
  KeysPinned
  FilesBelongToUnit
PROPERTIES
  ReportedAsAsked
  CommandsEnd
