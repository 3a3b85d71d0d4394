SPECIFICATION Spec
CONSTANTS
  ana = ana
  ben = ben
  shop = shop
  leo = leo
  s1 = s1
  s2 = s2
  s3 = s3
  Accounts <- EpochAccounts
  Shards = {s1, s2, s3}
  ShardOf <- EpochShardOf
  Contracts = {leo}
  Nonces = {1, 2}
  Amounts = {1, 2}
  RoleHolders <- EpochRoles
  Barred = {}
  Freezable = {}
  Deletable = {}
  Schedule <- AllEpochs
  Launch <- EpochLaunch
  MaxTokens = 1
  MaxSupply <- EpochSupply
  MaxVersion <- EpochVersions
  TransferIds = {t1, t2}
SYMMETRY Interchangeable
INVARIANTS HolderSeesLatest SentShardsGetMetadata
