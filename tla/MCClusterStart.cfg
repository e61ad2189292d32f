SPECIFICATION FairSpec
CONSTANTS
  n1 = n1
  n2 = n2
  n3 = n3
  Unset = Unset
  Nodes = {n1, n2}
  Founders = {n1}
  SubnetCount = 2
  MaxEvents = 1
INVARIANTS
  TypeOK
  MeshAtRest
  FoundersServed
PROPERTIES
  KeepsRegistry
  Settles
CHECK_DEADLOCK FALSE
