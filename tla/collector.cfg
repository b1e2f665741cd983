SPECIFICATION Spec
CONSTANTS
  v1 = v1
  p1 = p1
  p2 = p2
  p3 = p3
  whale = whale
  atom = atom
  ibc1 = ibc1
  ibc2 = ibc2
  Admins = {adm}
  Distributors = {dist}
  NoAddress = NoAddress
  Assets = {whale, atom, ibc1, ibc2}
  Natives = {whale, ibc1, ibc2}
  Vaults <- MCVaults
  Pairs <- MCPairs
  AssetsOf <- MCAssetsOf
  Label <- MCLabel
  Routes <- MCRoutes
  PageLimit = 2
  Epochs = {e1}
  NoEpoch = NoEpoch
  NoSnapshot = NoSnapshot
  MaxEarned = 4
INVARIANTS
  TypeOK
  CollectionForetold
PROPERTY ForwardingSpec
