SPECIFICATION MCSpec
CONSTANTS
  Parts = {"permits", "round", "inbound", "discovery", "metadata"}
  o1 = o1
  o2 = o2
  i1 = i1
  t1 = t1
  Sessions = {o1, o2, i1}
  Outbound = {o1, o2}
  Torrents = {t1}
  TorrentOf <- MCTorrentOf
  Global = "global"
  MaxGeneration = 2
  MaxPeers <- MCMaxPeers
  MaxPeersPerTorrent <- MCMaxPeersPerTorrent
  Rounders = {"s1", "s2"}
  Pieces = {1, 2}
  Priority <- MCPriority
  Blocks = 2
  Offers = {{1, 2}, {2}}
  PieceWindow = 2
  Budgets = {1, 2}
  Served = {"v1", "v2"}
  Wire <- MCWire
  V2Only = {"v2"}
  Slots = {1}
  MaxWatches = 3
  DsPeers = {p, q}
  DhtOn = TRUE
  Tracked = TRUE
  Webseeds = TRUE
  MaxProgress = 1
  MtPeers = {"honest", "other"}
  Honest = {"honest"}
  Speaks <- MCSpeaks
  Transports <- MCTransports
  Encryption = "preferred"
  MetaPieces = 2
  Layers = 2
  Concurrency = 1
  MaxRounds = 2
  MaxCuts = 1
INVARIANTS Accounted LimitsHold ResultsAreEvidenced NothingIsKept
 
CHECK_DEADLOCK FALSE
