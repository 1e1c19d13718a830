SPECIFICATION Spec
CONSTANTS
  Writers = {w1}
  Readers = {}
  Gens = {g1, g2, g3}
  Ids = {i1}
  Kinds = {k1}
  NoId = NoId
  NoGen = NoGen
  Unbound = Unbound
  Ordered = FALSE
  Faults = {"kill", "power"}
  MaxFaults = 2
INVARIANT
  PointerUsable
