SPECIFICATION FairSpec
CONSTANTS
  Writers = {w1, w2}
  Readers = {r1}
  Gens = {g1, g2, g3}
  Ids = {i1}
  Kinds = {k1}
  NoId = NoId
  NoGen = NoGen
  Unbound = Unbound
  Ordered = TRUE
  Faults = {"fail", "kill", "power"}
  MaxFaults = 2
INVARIANTS
  TypeOK
  CurrentResolves
  ReceiptsMatchEffects
  AckedSurvive
  LegacyPreserved
  ReaderViewStable
PROPERTIES
  RetryConverges
  ImplementsAtomicStore
