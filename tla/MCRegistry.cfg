SPECIFICATION Spec
CONSTANTS
  Item = {bar, a}
  Bar = bar
  Kind = {"system_woke", "config_reloaded", "app_launched", "custom"}
  BarWants = {"system_woke"}
  Custom = {"custom"}
  Source = {"power", "config", "notifications"}
  Notifications = "notifications"
  Fixed <- MCFixed
  Pinned = {"config"}
  Notification = {n1, n2}
  Unbridged = unbridged
INVARIANTS
  ServesDemand
  StaleCounts
  OnlyHoldersReceive
PROPERTIES
  IdleSourceStops
