SPECIFICATION FairSpec
CONSTANTS
  red = red
  green = green
  s1 = s1
  s2 = s2
  s3 = s3
  None = None
  Remote = Remote
  Blank = Blank
  Default = Default
  Tenants = {red, green}
  NodeSubnets <- ThreeSubnets
  Recreates = FALSE
  MaxChanges = 3
  MaxFaults = 1
INVARIANTS
  TypeOK
  SubnetsApart
  StoresAgree
  TenantsIsolated
  RestMeansConfigured
PROPERTIES
  Settles
CHECK_DEADLOCK FALSE
