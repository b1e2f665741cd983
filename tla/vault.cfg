SPECIFICATION RouterSpec
CONSTANTS
  alice = alice
  bob = bob
  f1 = f1
  f2 = f2
  Users = {alice, bob, rtr}
  Router = rtr
  Factories = {f1, f2}
  Listing = {f1}
  Messages <- MCMessages
  Payloads <- MCPayloads
  MaxCoins = 5
  Admins = {adm}
  Switches <- MCSwitches
  Fees <- MCFees
  FeeUnit = 2
  Funds <- MCFunds
  MaxDepth = 2
  MaxAllTime = 1
INVARIANTS
  TypeOK
  CounterCountsLoans
  FeesForwardedOnce
PROPERTIES
  ShareValueKept
  ProfitToInitiator
  RouterPaysInFull
