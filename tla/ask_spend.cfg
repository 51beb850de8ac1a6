CONSTANTS
  MaxProbe = 3
  MaxRecall = 2
  Scores <- TwoScores
  NoVerdict = NoVerdict
  LocalKeeps = {0, 2}
  MaxRetries = 1
SPECIFICATION Spec
INVARIANTS SpendCounted
CHECK_DEADLOCK FALSE
