SPECIFICATION Spec
CONSTANTS
  u1 = u1
  u2 = u2
  amp = amp
  NoAsset = NoAsset
  Users = {u1, u2}
  Admins = {adm}
  BondingAssets = {amp}
  GrowthRates = {1}
  RateUnit = 1
  UnbondingPeriods = {2}
  TicksPerSecond = 1
  PageLimit = 2
  Funds <- MCFunds
  Assets = {whale}
  FeeAmounts = {3}
  ShareUnit = 3
  GracePeriods = {1}
  Duration = 2
  Genesis = 1
  StartTime = 1
  MaxTime = 5
INVARIANT ClaimableCanBeClaimed
