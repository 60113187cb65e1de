SPECIFICATION FairSpec
CONSTANTS
  s1 = s1
  s2 = s2
  v1 = v1
  Sessions = {s1, s2}
  Viewers = {v1}
  Watched <- MCWatched
  subscriberBuffer = 2
  replayWindow = 3
  MaxEvents = 4
  MaxLosses = 2
  MaxRefusals = 1
  MaxRestarts = 1
INVARIANTS
  TypeOK
  NeverTwice
  NoGap
PROPERTIES
  ViewersCatchUp
CHECK_DEADLOCK FALSE
