CONSTANTS
  c1 = c1
  c2 = c2
  w1 = w1
  w2 = w2
  None = None
  Claims = {c1, c2}
  Workers = {w1}
  Rounds = 2
  Conditions <- AllConditions
SPECIFICATION FairSpec
PROPERTIES
  DismissedIsSettled
  WaitEnds
CHECK_DEADLOCK FALSE
