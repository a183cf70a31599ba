CONSTANTS
  alice = alice
  bob = bob
  null = null
  unsigned = unsigned
  absent = absent
  Wallet <- MCWallet
  WalletOrder <- MCOrder
  NullAddress <- null
  Absent <- absent
  Unsigned <- unsigned
  AmountLimit = 64
  Tx <- MCCoinbaseTx
  Nonce = {0}
  Body <- MCCoinbaseBody
  BlockTime = {1, 3, 8}
  NetworkTime = {1, 6}
  FutureSlack = 2
  BlockDifficulty = {2, 3, 4}
  WorkOf <- MCWork
  Genesis <- MCGenesis
  GenesisDifficulty = 4
  MinDifficulty = 2
  MaxRetarget = 4
  MiningFee <- MCFee
  MaxBlockTxs = 3
  MedianSpan = 2
  Lookback = 1
  DesiredTime = 2
  WaivedHeights = {4}
  WaivedDifficulty = 4
  NullHash = NullHash
  MaxHeight = 5
  MaxCrashes = 0
  CallsWhenTorn = TRUE
SPECIFICATION Spec
INVARIANTS
  WorkMatchesChain
  MedianRespected
PROPERTIES
  RetargetDirection
