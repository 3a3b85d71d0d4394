SPECIFICATION Spec
CONSTANTS
  ana = ana
  ben = ben
  shop = shop
  leo = leo
  s1 = s1
  s2 = s2
  s3 = s3
  Accounts <- MCAccounts
  Shards = {s1, s2}
  ShardOf <- MCShardOf
  Contracts = {}
  Nonces = {1}
  Amounts = {1}
  RoleHolders <- MCRoles
  Barred = {}
  Freezable = {}
  Deletable = {}
  Schedule <- AllEpochs
  Launch <- AnyTime
  MaxTokens = 1
  MaxSupply <- OldSupply
  MaxVersion <- OldSupply
  TransferIds = {t1}
PROPERTIES OldTokensNotCounted
