SPECIFICATION Spec
CONSTANTS
  u1 = u1
  u2 = u2
  amp = amp
  b = b
  Users = {u1}
  Admins = {adm}
  BondingAssets = {amp}
  GrowthRates = {1}
  RateUnit = 1
  UnbondingPeriods = {2}
  TicksPerSecond = 1
  PageLimit = 30
  StartTime = 1
  MaxTime = 4
  Funds <- MCFunds
INVARIANTS
  NothingLost
CHECK_DEADLOCK FALSE
