CONSTANTS
  c1 = c1
  c2 = c2
  d1 = d1
  d2 = d2
  d3 = d3
  None = None
  Claims = {c1, c2}
  Dispatches = {d1, d2, d3}
  ClaimOf <- MCClaimOf
  AnchorCap = 1
  Conditions <- Adverse
SPECIFICATION FairSpec
INVARIANTS
  RollbackStaysOnClaim
PROPERTY ChainEnds
CONSTRAINT TwoChains
CHECK_DEADLOCK FALSE
