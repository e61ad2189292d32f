SPECIFICATION Spec
CONSTANTS
  t1 = t1
  t2 = t2
  p1 = p1
  p2 = p2
  Nobody = Nobody
  Tenants = {t1, t2}
  Pods = {p1, p2}
  Subnets = 2
  HostCount = 3
  MaxCommands = 3
  MaxEvents = 2
SYMMETRY Symmetry
INVARIANTS
  TypeOK
  AddressesApart
  GatewayServed
  CleanRemoval
CHECK_DEADLOCK FALSE
