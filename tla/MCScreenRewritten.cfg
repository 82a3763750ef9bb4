SPECIFICATION ScreenSpec
CONSTANTS
  AliasItems = {"a"}
  Specs = {"h", "n"}
  Hosted = {"h"}
  Native = {"n"}
  Windows = {1}
  MaxChanges = 1
  Mirrored = {e1, e2}
  Pids = {7}
  Frames = {1, 2}
  MaxContexts = 2
  Screens = {1, 2}
  Traits = {"frame", "hidden"}
  PanelItems = {"i"}
  Spots = {1}
  MaxPanelChanges = 3
  Hoverables = {"i", "j"}
  Places = {"p", "off"}
  Outside = "off"
  Nobody = "none"
  DrainBudget = 1
  MaxPointerSteps = 3
  MaxClicks = 2
  Lengths <- MCLengths
  BarWidth = 8
  Runs = 2
  Drawables = {"a", "b"}
  Brackets = {"k", "l"}
  Host = "a"
  LayBuckets = {"left", "right"}
  LayWidths = {2, 6}
  PanelX = 2
  MaxRestyles = 3
  ItemNames = {"i", "j", "g"}
  Graphs = {"g"}
  OnBar = "bar"
  Capacity = 2
  MaxItemRequests = 3
  ModuleNames = {"m", "n"}
  Candidates = 2
  ModuleRuns = 2
  MaxDepth = 1
  MaxEdits = 1
  AddKinds = {"alias", "bracket", "slider"}
  ExplicitNames = {"a"}
  MaxVerbs = 2
  LuaRuns = 2
  LuaItems = {"i"}
  LuaKinds = {"k"}
  MaxCalls = 1
  MaxFired = 1
CHECK_DEADLOCK FALSE
INVARIANTS
  MirrorsWhatIsNamed
