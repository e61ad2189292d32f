SPECIFICATION FairSpec
CONSTANTS
  Containers = {c1, c2}
  Nobody = Nobody
  N = 4
  Restarts = FALSE
PROPERTIES
  AllocateReturns
