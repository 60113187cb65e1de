SPECIFICATION FairSpec
CONSTANTS
  MaxTaps = 3
  MaxReloads = 1
  MaxClears = 1
  MaxStrays = 1
INVARIANTS
  TypeOK
  NoTapLost
  LandedInOrder
  IdleMeansEmpty
PROPERTIES
  ClearedStaysCleared
  EveryTapSettles
CHECK_DEADLOCK FALSE
