SPECIFICATION MCSpec
CONSTANTS
  Inputs <- MCInputs
  Periods = {1, 2}
  Limits = {0, 1, 2, 3}
  NoFilter = 99
  Deltas = {0, 1, 2}
  Low <- MCLow
  High = 1
  Least = 0
  Most = 1
  Smoothing = 1
  MaxCalls = 5
INVARIANTS
  DelaysAreExact
  AcceptedWhenStable
  OnePulsePerChange
  HysteresisIsTimely
  SmoothedStaysInside
  TimersAreExact
CHECK_DEADLOCK FALSE
