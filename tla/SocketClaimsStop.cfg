SPECIFICATION Spec
CONSTANTS
  Instances = {a, b}
  Sockets = {1, 2}
  None = None
  MaxRestarts = 1
  MaxStops = 1
INVARIANT
  ClaimsCoverChild
