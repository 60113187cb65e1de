SPECIFICATION FaultlessSpec
CONSTANTS
  Cap = 2
  MaxTaps = 1
  MaxStarts = 1
  MaxMishaps = 0
  MaxCalls = 2
  MaxFeed = 1
INVARIANTS
  FinalIsConfirmed
CHECK_DEADLOCK FALSE
