SPECIFICATION MCSpec
CONSTANTS
  Functions = {1, 2, 3}
  Channels = {1, 2, 3}
  Rates = {1, 2}
  Unscripted = {4}
INVARIANTS
  DroppedIsFeedback
  PlanHonoursSelection
  FoldIsReachableIO
  RefusalIsJustified
PROPERTIES
  Spec
CHECK_DEADLOCK FALSE
