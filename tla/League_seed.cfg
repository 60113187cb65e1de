SPECIFICATION Spec
CONSTANTS
  Demo <- MCDemo
  RoundsPerWeek = 2
  Seeds = {s1, s2}
  Nights <- MCNights
  StartsAt <- MCStartsAt
  Status <- MCStatus
  activeWindow = 2
  MaxTime = 5
INVARIANTS
  NothingHidden
PROPERTIES
  DashboardMovesForward
CHECK_DEADLOCK FALSE
