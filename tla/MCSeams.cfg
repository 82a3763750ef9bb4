SPECIFICATION SeamsSpec
CONSTANTS
  Worker = {w1, w2}
  MaxSends = 3
  MaxBatch = 2
  Errands = {e1}
  Calls = {c1}
  Deadlines = {d1}
  Reclaimed = {r1}
  Outliving = {o1}
  Handlers = {h1}
  MaxPosts = 2
  BatchMost = 2
  Platforms = {"displays", "wifi", "brightness", "volume", "power", "accessibility", "spaces", "media"}
  Runs = 2
  MaxTicks = 2
  OutputDevices = {d1, d2}
  NO_DEVICE = none
  WrittenValues = {"x", "y", "toggle", "", "/x/"}
  MaxPairs = 2
  Commands = {"--set", "--add", "--remove", "--subscribe", "--trigger", "--move", "--push", "--reload"}
  MaxTokens = 4
  ScriptItems = {i1, i2}
  Frequencies = {0, 1, 2}
  ScriptWorkers = 1
  MaxTime = 3
  MaxScriptInputs = 2
CHECK_DEADLOCK FALSE
INVARIANTS
  SeamsTypeOK
  NothingStranded
  NoWorkStranded
  NeverDangling
  SourcesListen
PROPERTIES
  ImplementsMailbox
  HandedOverIsDone
  CommandsMeanWhatTheySay
