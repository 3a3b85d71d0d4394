SPECIFICATION Spec
CONSTANTS
  ann = ann
  ben = ben
  dan = dan
  Accounts = {ann, ben, dan}
  LastByte <- MCLastByte
  Stride = 2
  MaxResets = 3
  MaxTokens = 4
INVARIANTS TypeOK DistinctNonces NoncesRepeatOnlyIfPutBack
