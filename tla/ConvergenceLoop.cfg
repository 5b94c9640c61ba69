CONSTANTS
  c1 = c1
  c2 = c2
  q = q
  w1 = w1
  w2 = w2
  v1 = v1
  None = None
  Claims <- MCClaims
  Workers <- MCWorkers
  ClaimOf <- OwnClaim
  Matches <- OwnClaimOnly
  Questions = {q}
  Question <- OneQuestion
  Held <- OneExternal
  Gates = {"CARRIER_DRIFT"}
  Cap = 2
  MaxMishaps = 2
  Conditions = {}
SPECIFICATION FairSpec
INVARIANTS
  TypeOK
PROPERTIES
  ImplementsSerialSteps
  NoDeliveryOverWork
  ConvergedIsFinal
  LostClaimsAreFreed
  LoopEnds
