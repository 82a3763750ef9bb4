SPECIFICATION Spec
CONSTANTS
  Client = {c1}
  Capture = {}
  CoalesceLimit = 1
  SlowestRefresh = 1
PROPERTIES
  StopLeaves
CHECK_DEADLOCK FALSE
