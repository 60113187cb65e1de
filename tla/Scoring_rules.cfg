SPECIFICATION SeasonSpec
CONSTANTS
  Throws <- MCAllThrows
  Teams <- MCTeams
  Formats <- MCFormats
  MaxThrows = 3
  WeekScores = {0, 3, 7, 20}
  MaxWeeks = 4
INVARIANTS
  RoundIsBestSelection
  OptimisticTotalAgrees
  HandicapOnTopOfCap
  SeasonDropsOneWeek
CHECK_DEADLOCK FALSE
