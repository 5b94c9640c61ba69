CONSTANTS
  c1 = c1
  c2 = c2
  f1 = f1
  h1 = h1
  None = None
  Claims = {c1, c2}
  Files = {f1}
  Hooks = {h1}
  MaxActs = 5
  MaxWrites = 2
  MaxDeaths = 1
  Conditions = {}
SPECIFICATION FairSpec
INVARIANTS
  TypeOK
  CreditIsBlinded
  RegisterFollowsLedger
PROPERTIES
  ImplementsBlindRuling
  RulingTakesEffect
