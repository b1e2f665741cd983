SPECIFICATION FactoriesSpec
CONSTANTS
  Admins = {adm}
  Collectors = {col}
  MaxLimit = 2
  Limits = {1, 3}
  VaultFactoryAddr = VaultFactoryAddr
  Denoms = {1, 2, 3}
  NoAsset = NoAsset
  OldVersions = {113, 120}
  VaultFees = {0, 10}
  VaultFeeUnit = 10
  MaxVaults = 3
  PoolFactoryAddr = PoolFactoryAddr
  Tokens = {1, 2, 3, 4}
  Base = 5
  FormOf <- MCFormOf
  Decimals = {6}
  Cw20Decimals = 8
  Verified = {3, 4}
  PairTypes = {"ConstantProduct", "StableSwap"}
  OldPairVersions = {104, 110, 120}
  MaxPairs = 2
INVARIANTS
  FactoriesTypeOK
  VaultsMatchAssets
  PairsAgree
  ContractsReadable
  WalkFindsAll
