SPECIFICATION Spec
CONSTANTS
  Commands = {1}
  Sockets = {s1}
  Phones = {p1, p2}
  Rests = {r1}
  Initial <- OneConfig
  Burst = 1
  MaxEdits = 1
  MaxMutations = 0
  MaxLaunches = 1
  MaxInterrupts = 0
INVARIANT StartupRequiresCurrent
