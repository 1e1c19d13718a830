SPECIFICATION Spec
CONSTANTS
  Keys = {k1, k2, k3}
  Original = Original
  None = None
  Ids = {i1, i2}
  Filesystems <- Unordered
  MaxFaults = 2
INVARIANT
  AtMostOneKey
