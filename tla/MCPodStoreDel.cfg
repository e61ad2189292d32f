SPECIFICATION FairSpec
CONSTANTS
  p1 = p1
  p2 = p2
  h = h
  red = red
  default = default
  n1 = n1
  n2 = n2
  nh = nh
  None = None
  Daemon = Daemon
  Pods = {p1, p2, h}
  HostNetwork = {h}
  Names = {n1, n2, nh}
  Tenants = {red, default}
  DefaultTenant = default
  NameOf <- OwnNames
  Annotation <- MCAnnotation
  MaxFaults = 1
PROPERTIES
  DelCompletes
CONSTRAINT
  FewFaultsOnceTorn
CHECK_DEADLOCK FALSE
