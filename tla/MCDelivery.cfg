SPECIFICATION DeliverySpec
CONSTANTS
  Source = {s1, s2}
  Interests = {{s1}, {s1, s2}}
  DrainBudget = 1
  MaxEvents = 2
  MaxPorts = 2
INVARIANTS
  NoStrandedEvent
  OnceInOrder
PROPERTIES
  NeverDropped
  ComesToRest
