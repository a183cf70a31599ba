CONSTANTS
  Header <- MCHeader
  NullHash = NullHash
  HeaderPrev <- MCHeaderPrev
  HeaderWork <- MCHeaderWork
  Id <- MCId
  GoodNonce <- MCGoodNonce
  checkPoints <- MCcheckPoints
  bannedHashes <- MCbannedHashes
  HeaderBatch = 1
  MaxAnswer = 2
  HeaderChains <- MCHeaderChains
  Block <- MCBlock
  Genesis = "g"
  Work <- MCWork
  Peer = {p1, p2}
  NoHost = NoHost
  Chains <- MCChains
  PopCount = 1
  MaxRetries = 2
  Host = {h1, h2, h3, h4, bad}
  Localhost = h1
  blacklist = {bad}
  Offset <- MCOffset
  MaxPeers = 2
  Freshness = 1
  MaxTime = 1
  ListedHost = {h1, h2, h3, bad}
  whitelist = {h1, h2, bad}
  ListedFreshness = 2
  ListedTime = 2
  Node = {n1, n2, n3}
  Sources <- MCSources
  MaxFollowed = 1
  h1 = h1
  h2 = h2
  h3 = h3
  h4 = h4
  bad = bad
  n1 = n1
  n2 = n2
  n3 = n3
  p1 = p1
  p2 = p2
SPECIFICATION MCSpec
INVARIANTS
  Linked
  NeverOverstated
  PeersVetted
  MajorityMirrored
PROPERTIES
  FollowsPeer
  ComesToFork
  
  OnlyCirclesBlock
CHECK_DEADLOCK FALSE
