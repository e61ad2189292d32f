SPECIFICATION Spec
CONSTANTS
  n1 = n1
  n2 = n2
  n3 = n3
  Unset = Unset
  Nodes = {n1, n2}
  Founders = {n1, n2}
  SubnetCount = 2
  MaxEvents = 1
INVARIANTS
  MembersReach
CHECK_DEADLOCK FALSE
