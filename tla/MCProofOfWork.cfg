CONSTANTS
  WordBits = 2
  Words = 2
  Payloads = {1, 2}
  MaxSeconds = 3
  MaxNonce = 2
  Hash <- MCHash
  AstrisWorkLevel = 2
  Difficulties = {0, 1, 2, 3}
  GenesisTime = 1
  Now = 2
  NoTime = NoTime
  MaxBlocks = 3

SPECIFICATION Spec

INVARIANTS
  TypeOK
  OpenFailsOnlyAtGenesis
  SearchSkipsNothing
  CheckCountsZeroBits
PROPERTY
  SearchEnds
