CONSTANTS
  MinDifficulty = 2
  MaxRetarget = 9
  Difficulties <- MCDifficulties
  Times <- MCTimes
  Targets = {1, 6, 9, 12}
  Calls <- MCCalls
  Key = {k1, k2}
  Wallet = {w1, w2, null}
  WalletOf <- MCWalletOf
  Terms = {1, 2}
  Nonce = {0, 1}
  None = none
  k1 = k1
  k2 = k2
  w1 = w1
  w2 = w2
  null = null
SPECIFICATION MCSpec
INVARIANTS
  LoopComputes
  ClosestDifficulty
  ProofsHold
  RootIsOfTransactions
  ArrivesAsSent
  AcceptedAsSent
CHECK_DEADLOCK FALSE
