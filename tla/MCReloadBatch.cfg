SPECIFICATION Spec
CONSTANTS
  Name = {a}
  Outsider = {o1, o2}
  MaxRuns = 1
  MaxEntities = 3
INVARIANTS
  IndexInStep
