SPECIFICATION FairSpec
CONSTANTS
  ann = ann
  ben = ben
  cid = cid
  dan = dan
  s1 = s1
  s2 = s2
  Accounts = {ann, ben, cid, dan}
  ShardOf <- MCShardOf
  None = None
  MaxTokens = 3
  MaxMoves = 2
INVARIANTS TypeOK RoleNotLost ConsecutiveNonces SingleCreator
PROPERTIES NewOwnerCreates
