CONSTANTS
  c1 = c1
  c2 = c2
  speed = speed
  CallSites = {c1, c2}
  Configs <- MCConfigs
  Buses = {0, 1}
  Bauds = {500}
  Modules = {speed}
  Bound <- MCBound
  Messages = {speed}
  ModuleOf <- MCModuleOf
  Dlc <- MCDlc
  Identity <- MCIdentity
  Direction <- MCDirection
  Signals <- MCSignals
  Identifiers <- MCIdentifiers
  Requests = {65281}
  Destinations = {1, 255}
  Offsets = {3, 4, 59}
  Widths = {2}
  Lengths = {1}
  Grain = 4
  Slack = 1
  LastTick = 1
  MaxHandle = 4
  MaxCount = 1
  Scenarios <- MCScenarios
  None = None
  MaxTransfers = 3
  MaxWork = 2
SPECIFICATION MCSpec
INVARIANTS
  LastWriteWins
  HandlesAreSound
PROPERTIES
  ReceptionIsExact
  FramesReachTheirGroup
CHECK_DEADLOCK FALSE
