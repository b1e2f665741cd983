SPECIFICATION Spec
CONSTANTS
  u1 = u1
  u2 = u2
  amp = amp
  NoAsset = NoAsset
  Users = {u1, u2}
  Admins = {adm}
  BondingAssets = {amp}
  GrowthRates = {0, 1}
  RateUnit = 1
  UnbondingPeriods = {4}
  TicksPerSecond = 1
  PageLimit = 2
  Funds <- MCFunds
  Assets = {whale}
  FeeAmounts = {3}
  ShareUnit = 3
  GracePeriods = {2}
  Duration = 2
  Genesis = 1
  StartTime = 1
  MaxTime = 5
PROPERTIES
  PaidOnlyBonders
  DistributorSpec
CHECK_DEADLOCK FALSE
