CONSTANTS
  c1 = c1
  c2 = c2
  w1 = w1
  w2 = w2
  None = None
  Claims = {c1, c2}
  Workers = {w1, w2}
  Rounds = 2
  Conditions <- OrderlyConditions
SPECIFICATION FairSpec
INVARIANTS
  TypeOK
  WorksOnItsDispatch
  UnscheduledWasNotDispatched
  NoDumbWait
  DismissalStands
PROPERTIES
  DismissedByOwnClaim
  ImplementsWorkerPool
  DispatchReaches
CHECK_DEADLOCK FALSE
