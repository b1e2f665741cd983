SPECIFICATION Spec
CONSTANTS
  alice = alice
  bob = bob
  luna = luna
  whale = whale
  usdc = usdc
  luna_whale = luna_whale
  whale_usdc = whale_usdc
  usdc_luna = usdc_luna
  Users = {alice, bob}
  Router = Router
  RouterAdmin = RouterAdmin
  Assets = {luna, whale, usdc}
  Pools = {luna_whale, whale_usdc, usdc_luna}
  AssetsOf <- MCAssetsOf
  AmpOf <- MCAmpOf
  ScaleOf <- MCScaleOf
  FeesOf <- MCFeesOf
  Reserves <- MCReserves
  Funds <- MCFunds
  Operations <- MCOperations
  RouteOptions <- MCRoutes
  Offers = {0, 2, 3}
  Minimums = {1}
  MaxCalls = 3
  NoAdmin = NoAdmin
  NoMinimum = NoMinimum
  NoCall = NoCall
  One = 10
  Unit = 50
  Undefined = Undefined
INVARIANTS
  StableCurveKept
  OneMoreIsEnough
PROPERTIES
  NothingLeftBehind
  MinimumReceived
  SimulationHolds
CHECK_DEADLOCK FALSE
