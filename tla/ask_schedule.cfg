CONSTANTS
  MaxProbe = 4
  MaxRecall = 2
  Scores <- TwoScores
  NoVerdict = NoVerdict
  LocalKeeps = {0, 2}
  MaxRetries = 1
SPECIFICATION MCSpec
INVARIANTS CostExact RunBounded
PROPERTY ScheduleInvisible Terminates
CHECK_DEADLOCK FALSE
