SPECIFICATION Spec
CONSTANTS
  MaxTaps = 2
  MaxReloads = 0
  MaxClears = 1
  MaxStrays = 0
INVARIANTS
  ReplayKeepsTaps
CHECK_DEADLOCK FALSE
