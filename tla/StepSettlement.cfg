CONSTANTS
  c1 = c1
  c2 = c2
  a1 = a1
  a2 = a2
  a3 = a3
  a4 = a4
  x = x
  None = None
  Claims = {c1, c2}
  Bystanders = {x}
  Attempts = {a1, a2, a3, a4}
  ClaimOf <- MCClaimOf
  Conditions <- Nothing
SPECIFICATION Spec
INVARIANTS
  BankedOnce
  SettlesOwnStep
PROPERTY ImplementsSettledLoop
CHECK_DEADLOCK FALSE
