CONSTANTS
  alice = alice
  bob = bob
  null = null
  unsigned = unsigned
  absent = absent
  Wallet <- MCWallet
  WalletOrder <- MCOrder
  NullAddress <- null
  Absent <- absent
  Unsigned <- unsigned
  AmountLimit = 64
  Tx <- MCTx
  Nonce = {0}
  Body <- MCBody
  BlockTime = {1}
  NetworkTime = {1}
  FutureSlack = 0
  BlockDifficulty = {2, 3}
  WorkOf <- MCWork
  Genesis <- MCGenesis
  GenesisDifficulty = 3
  MinDifficulty = 2
  MaxRetarget = 3
  MiningFee <- MCFee
  MaxBlockTxs = 3
  MedianSpan = 10
  Lookback = 100
  DesiredTime = 1
  WaivedHeights = {}
  WaivedDifficulty = 3
  NullHash = NullHash
  MaxHeight = 3
  MaxCrashes = 0
  CallsWhenTorn = FALSE
SPECIFICATION Spec
INVARIANT
  StatusInChain
