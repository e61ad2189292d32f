SPECIFICATION Spec
CONSTANTS
  Containers = {c1, c2}
  Nobody = Nobody
  N = 4
  Restarts = TRUE
PROPERTIES
  RestartKeepsLeases
