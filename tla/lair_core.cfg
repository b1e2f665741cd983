SPECIFICATION FairSpec
CONSTANTS
  u1 = u1
  u2 = u2
  amp = amp
  b = b
  Users = {u1, u2}
  Admins = {adm}
  BondingAssets = {amp, b}
  GrowthRates = {1}
  RateUnit = 1
  UnbondingPeriods = {1, 2}
  TicksPerSecond = 2
  PageLimit = 1
  StartTime = 2
  MaxTime = 6
  Funds <- MCFunds
INVARIANTS
  TypeOK
  GlobalMatchesBonds
  Solvent
  WeightsAgree
PROPERTIES
  OnlyCollisionsLose
  RequestsArePaid
CHECK_DEADLOCK FALSE
