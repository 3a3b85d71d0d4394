SPECIFICATION Spec
CONSTANTS
  ana = ana
  ben = ben
  shop = shop
  leo = leo
  s1 = s1
  s2 = s2
  s3 = s3
  Accounts <- MCAccounts
  Shards = {s1, s2}
  ShardOf <- MCShardOf
  Contracts = {}
  Nonces = {1, 45}
  Amounts = {1}
  RoleHolders <- MCRoles
  Barred = {}
  Freezable <- WipeFreezes
  Deletable = {}
  Schedule <- OnlyAlways
  Launch <- AnyTime
  MaxTokens = 1
  MaxSupply <- WipeSupply
  MaxVersion <- WipeSupply
  TransferIds = {t1}
PROPERTIES WipeDecreasesLiquidity
