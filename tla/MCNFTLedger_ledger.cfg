SPECIFICATION Spec
CONSTANTS
  ana = ana
  ben = ben
  shop = shop
  leo = leo
  s1 = s1
  s2 = s2
  s3 = s3
  Accounts <- MCAccounts
  Shards = {s1, s2}
  ShardOf <- MCShardOf
  Contracts = {shop}
  Nonces = {1, 2, 3}
  Amounts = {1, 2}
  RoleHolders <- MCRoles
  Barred = {}
  Freezable <- KindFreezes
  Deletable = {3}
  Schedule <- OnlyAlways
  Launch <- AnyTime
  MaxTokens = 1
  MaxSupply <- KindSupply
  MaxVersion <- KindVersions
  TransferIds = {t1, t2}
SYMMETRY Interchangeable
INVARIANTS TypeOK LiquidityCounted LiquidityCovered HoldersHaveMetadata
PROPERTIES StoppedTokensStay ImplementsEscrow
