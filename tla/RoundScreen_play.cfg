SPECIFICATION CarefulSpec
CONSTANTS
  Cap = 2
  MaxTaps = 3
  MaxStarts = 3
  MaxMishaps = 2
  MaxCalls = 2
  MaxFeed = 1
INVARIANTS
  TypeOK
  OfficialIsMeant
  ScreenAgrees
  FinalIsConfirmed
CHECK_DEADLOCK FALSE
