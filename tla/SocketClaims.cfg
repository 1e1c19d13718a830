SPECIFICATION FairSpec
CONSTANTS
  Instances = {a, b, c}
  Sockets = {1, 2}
  None = None
  MaxRestarts = 1
  MaxStops = 1
INVARIANTS
  TypeOK
  NoSharedSocket
  NoLeakedClaim
PROPERTY
  SomeoneWins
