SPECIFICATION MCSpec
CONSTANTS
  Functions = {1, 2, 3}
  Channels = {0, 1, 2, 3}
  Divisors = {0, 1, 2}
  NoDivisor = 0
  Ticks = 2
  MaxReads = 4
  LogChoices = {{0}, {0, 1, 2}}
  OverrideChoices = {{}, {0}, {0, 2}}
INVARIANTS
  ConeIsDownstream
  WritersRunFirst
  ConeSeesThisTick
PROPERTIES
  ReplayEnds
CHECK_DEADLOCK FALSE
