SPECIFICATION Spec
CONSTANTS
  ana = ana
  ben = ben
  shop = shop
  s1 = s1
  s2 = s2
  gold = gold
  art = art
  Accounts = {ana, ben, shop}
  Shards = {s1, s2}
  ShardOf <- MCShardOf
  Contracts = {shop}
  Payable = {ana, ben}
  Fungibles = {gold}
  NFTs = {art}
  Endowment <- MCEndowment
  Barred = {}
  Freezable <- MCFreezable
  Pausable <- MCPausable
  Amounts = {0, 1, 2, 3}
  MaxEntries = 2
  CallTypes = {"direct", "async"}
  Followups = {"none", "named"}
  Flags = {"FixAsyncCallbackCheck", "CheckFunctionArgument"}
  TransferIds = {t1}
  BytesOf <- MCBytesOf
  MarshalledLength = 5
  AddressLength = 4
  MaxLengthForValueToOptTransfer = 2
INVARIANTS TypeOK Conservation LiquidityCounted ListsAddUp ReturnsAccepted ParserReadsTransfers
