SPECIFICATION Spec
CONSTANTS
  Peers = {p1, p2}
  Addresses = {a1, a2}
  Settings = {s1}
  Ids = {i1}
  None = None
  Commands = {c1, c2}
  MaxPublished = 3
  MaxEdits = 1
SYMMETRY Symmetry
INVARIANTS
  TypeOK
  PhoneFilesAgree
  ServesPublished
  PhonesKeepWorking
