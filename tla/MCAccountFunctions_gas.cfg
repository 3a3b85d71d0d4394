SPECIFICATION Spec
CONSTANTS
  ann = ann
  bob = bob
  reg = reg
  shop = shop
  s1 = s1
  s2 = s2
  k = k
  secret = secret
  short = short
  long = long
  Users = {ann, bob}
  Contracts = {reg, shop}
  ShardOf <- MCShardOf
  Deployer <- MCDeployer
  DNS = {reg, shop}
  Names = {reg, shop}
  NoName = NoName
  EnableChange = FALSE
  Cost <- MCCost
  PersistPerByte = 1
  StorePerByte = 4
  Word = 256
  Keys = {k, secret}
  Protected = {secret}
  Values <- MCValues
  Length <- MCLength
  Requests <- MCRequests
  Saves <- MCSaves
  MaxEarned = 2
  CallIds = {c1, c2}
SYMMETRY Interchangeable
INVARIANTS GasRemainingIsRest
