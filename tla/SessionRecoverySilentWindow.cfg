CONSTANTS
  s1 = s1
  s2 = s2
  k1 = k1
  k2 = k2
  Sessions = {s1, s2}
  Kickers = {k1, k2}
  TickEvery = 1
  Stale = 2
  Fresh = 4
  Interval = 3
  Ttl = 6
  BootTime = 1
  Horizon = 7
  MaxExtra = 0
  MaxLost = 0
  Patience = 8
  Conditions = {"workers"}
SPECIFICATION FairSpec
INVARIANTS
  NoSilentWindow
