SPECIFICATION Spec
CONSTANTS
  Client = {c1}
  Capture = {k1}
  CoalesceLimit = 1
  SlowestRefresh = 2
INVARIANTS
  NoStrandedRequest
  NoExtraFrame
  UndrawnIsScheduled
PROPERTIES
  Drawn
  ConnectionComesRound
  Answered
  ExitLeaves
CHECK_DEADLOCK FALSE
