SPECIFICATION FairSpec
CONSTANTS
  red = red
  green = green
  s1 = s1
  s2 = s2
  s3 = s3
  None = None
  Remote = Remote
  Blank = Blank
  Default = Default
  Tenants = {red, green}
  NodeSubnets <- OneSubnet
  Recreates = FALSE
  MaxChanges = 2
  MaxFaults = 0
PROPERTY Settles
CHECK_DEADLOCK FALSE
