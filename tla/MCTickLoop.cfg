SPECIFICATION MCSpec
CONSTANTS
  Functions = {1, 2, 3}
  Channels = {1, 2, 3}
  Periodic = {1, 2}
  StartupOrder <- MCStartup
  Reads <- MCReads
  Writes <- MCWrites
  DirectWrites <- MCDirectWrites
  Divisors = {1, 2}
  Ticks = 3
  AllowDefaults = FALSE
INVARIANTS
  ProvenanceIsTrue
  CurrentInputsFollowThePlan
  ColumnsAreHeld
CHECK_DEADLOCK FALSE
