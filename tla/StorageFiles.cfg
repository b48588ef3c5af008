SPECIFICATION MCSpec
CONSTANTS
  Parts = {"handles", "move", "payload", "watch", "store"}
  Files = {1, 2}
  Writers = {"w1", "w2"}
  Evictors = {"e"}
  CacheLimit = 1
  MaxHandles = 2
  MaxObjects = 2
  MaxMishaps = 1
  PayloadFiles = {1, 2, 3}
  EmptyFiles = {3}
  MaxMoves = 2
  MaxMoveFaults = 3
  Layouts <- MCLayouts
  Addressing = {"v1", "v2"}
  PieceLength = 2
  MaxStoreFaults = 1
  Roots = {1, 2}
  AfterImport <- MCAfter
  AfterFailure <- MCFailure
  TorrentOf <- MCTorrents
  Malformed = "bad"
  MaxWtFaults = 1
  SsTorrents = {t1, t2}
  SsStarts = {"missing", "json", "v1"}
  HistoryRows = 1
  SampleRows = 1
  SsFaultKinds = {"crash", "error", "busy", "close", "damage"}
  MaxSsFaults = 1
  MaxSsChanges = 2
  MaxMoved = 1
INVARIANTS HandlesBounded MoveIsSafe 
 
CHECK_DEADLOCK FALSE
