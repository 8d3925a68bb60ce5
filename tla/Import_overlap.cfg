SPECIFICATION FairSpec
CONSTANTS
  i1 = i1
  i2 = i2
  p = p
  q = q
  Imports = {i1, i2}
  Problems = {p, q}
  Package <- Files
  Method <- Methods
  MaxFaults = 1
INVARIANTS
  TypeOK
  RelatedIsWhole
  DoneIsComplete
PROPERTIES
  CatalogSpec
  ImportEnds
CHECK_DEADLOCK FALSE
