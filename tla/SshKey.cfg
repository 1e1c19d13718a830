SPECIFICATION FairSpec
CONSTANTS
  Keys = {k1, k2, k3}
  Original = Original
  None = None
  Ids = {i1, i2}
  Filesystems <- Supported
  MaxFaults = 3
INVARIANTS
  TypeOK
  NeverStuck
  AtMostOneKey
  AckedSurvive
  NoRollback
PROPERTIES
  JournalResolved
  ImplementsAtomicKeyPair
