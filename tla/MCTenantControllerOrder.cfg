SPECIFICATION Spec
CONSTANTS
  red = red
  green = green
  s1 = s1
  s2 = s2
  s3 = s3
  None = None
  Remote = Remote
  Blank = Blank
  Default = Default
  Tenants = {red}
  NodeSubnets <- ThreeSubnets
  Recreates = TRUE
  MaxChanges = 4
  MaxFaults = 0
INVARIANT RestMeansProvisioned
CHECK_DEADLOCK FALSE
