SPECIFICATION DeviceSpec
CONSTANTS
  t1 = t1
  t2 = t2
  t3 = t3
  Requests = {r1}
  ClientIds = {t1, t2}
  ThrowIds = {i1, i2}
  ThrowOf <- MCThrowOf
  TeamFlags <- MCTeam
  SeasonFormat <- MCBestOne
INVARIANTS
  WriteHealsTotal
  FeedIsCurrent
PROPERTIES
  ImplementsScoreSheet
