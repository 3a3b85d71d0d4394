SPECIFICATION FairSpec
CONSTANTS
  alice = alice
  bob = bob
  vault = vault
  s1 = s1
  s2 = s2
  Accounts <- MCAccounts
  DCTSC = DCTSC
  Shards <- MCShards
  Meta = Meta
  ShardOf <- MCShardOf
  Contracts <- MCContracts
  Payable <- MCPayable
  Amounts = {1}
  CallTypes = {"direct", "async"}
  Followups = {"none", "named"}
  Freezable = {alice, vault}
  Toggles <- MCToggles
  Grantable <- Grants
  Listable <- MCListable
  MaxListed = 1
  Flags = {"FixAsyncCallbackCheck", "CheckFunctionArgument", "TransferToMeta", "GlobalMintBurn", "SendAlways", "CheckCorrectTokenIDForTransferRole"}
  MaxSupply = 2
  MaxInForce = 2
  TransferIds = {t1, t2}
INVARIANTS TypeOK Conservation RefundsAccepted
PROPERTIES StoppedFundsStay LimitedTransferNeedsRole ImplementsEscrow TransfersSettle
