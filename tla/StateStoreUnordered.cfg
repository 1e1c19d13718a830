SPECIFICATION Spec
CONSTANTS
  Writers = {w1, w2}
  Readers = {r1}
  Gens = {g1, g2, g3}
  Ids = {i1}
  Kinds = {k1, k2}
  NoId = NoId
  NoGen = NoGen
  Unbound = Unbound
  Ordered = FALSE
  Faults = {"power"}
  MaxFaults = 2
SYMMETRY Symmetry
INVARIANT
  CurrentResolves
PROPERTY
  ImplementsAtomicStore
