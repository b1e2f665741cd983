SPECIFICATION FairSpec
CONSTANTS
  NoAsset = NoAsset
  Users = {u1, u2}
  Admins = {owner}
  Assets = {whale, amp}
  FeeAmounts = {0, 3}
  ShareUnit = 2
  Shares = {1, 2}
  GracePeriods = {1, 2}
  Duration = 2
  Genesis = 2
  StartTime = 3
  MaxTime = 8
INVARIANTS
  TypeOK
  Backed
  NoStrandedFees
PROPERTIES
  ClaimOnce
  FeesHandedOver
  EmptiedEpochsLockOut
  FeesMoveOn
CHECK_DEADLOCK FALSE
