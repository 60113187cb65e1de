SPECIFICATION Spec
CONSTANTS
  t1 = t1
  t2 = t2
  t3 = t3
  Requests = {r1, r2}
  ClientIds = {t1, t2}
  ThrowIds = {i1, i2}
  ThrowOf <- MCSameThrow
  TeamFlags <- MCTeam
  SeasonFormat <- MCFormat60All
SYMMETRY MCSymmetry
INVARIANTS
  TypeOK
  OneRowPerTap
  AckedThrowsAreStored
PROPERTIES
  UndoSticks
