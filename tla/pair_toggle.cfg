SPECIFICATION Spec
CONSTANTS
  alice = alice
  bob = bob
  Users = {alice, bob}
  Pair = Pair
  Admins = {adm}
  Toggles <- MCToggles
  Fees <- MCFees
  Unit = 50
  NoLimit = NoLimit
  Slippages = {25}
  Spreads = {10}
  Beliefs = {50}
  MinLiquidity = 1
  FactoryLp = TRUE
  FactoryAsset = FALSE
  Funds <- MCFunds
PROPERTY NoWithdrawalWhileDisabled
