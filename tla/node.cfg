CONSTANTS
  MaxHeight = 4
  PopCount = 1
  MaxRetries = 2
  Free = Free
  alice = alice
  bob = bob
  Wallet = {alice, bob}
  Payment <- MCPayment
  Grant <- MCGrant
  MinFee = 1
  Expiry = 1
  PoolTime = 3
  MaxBlocks = 2
  CopiedPayment <- MCCopiedPayment
  CopyNonce = {0, 1}
  CopyTime = 2
  HttpHeight = 3
  MaxBuffer = 1
  MaxChunks = 3
  FetchLimit = 2
  MaxItems = 1
  Block = {"g", "f", "a3", "b3", "c4"}
  Height <- MCHeight
  TxsOf <- MCTxsOf
  Base <- MCBase
  NoBlock = NoBlock
  Ip = {ip1, ip2}
  N = 2
  seconds = 5
  MaxIps = 1
  LimiterTime = 4
  t1 = t1
  t2 = t2
  Verifier = {x1, x2}
  Target = {t1, t2}
  Nonce = {1, 2}
  Solves <- MCSolves
  NoHash = NoHash
SPECIFICATION MCSpec
INVARIANTS
  NoTwoThreadsDeadlock
  OutgoingIsQueued
  NothingMinedPending
  AnsweredOnce
  BatchWhole
  BlockWhole
  AnswerWasSo
  Paced
  RefusedBriefly
  VerdictOfAsked
PROPERTIES
  CallsReturn
  QueueDrains
CHECK_DEADLOCK FALSE
