SPECIFICATION MCSpec
CONSTANTS
  Parts = {"utp", "handshake", "wire", "endgame", "upload", "bencode", "metainfo"}
  SeqBits = 3
  FirstSeq = 6
  Units <- MCUnits
  SendCap = 2
  MaxWindow = 2
  NetCap = 2
  PhModes = {"disabled", "preferred", "required"}
  PhOrder <- MCTransports
  PhListens = {"tcp"}
  PhHashes = {"t"}
  PhWanted = "t"
  PhSettings <- MCSettings
  PhAddrs = {5, 6, 10}
  PhThere = 6
  AddrBytes = 2
  ByteBits = 2
  MaxLapses = 1
  Byte = 16
  ByteWidth = 4
  Width = 2
  MaxFrame = 8
  PwScripts <- MCScripts
  PwPrefixes = {0, 1, 3}
  SocketRoom = 8
  Readers = {"pinned", "ending", "resuming"}
  Announced = {0, 1, 3, 4}
  PwPieceCount = 5
  PieceData <- MCData
  Block = 2
  MaxTimeouts = 1
  EgPeers = {"s1", "s2", "s3"}
  EgPieces = {1}
  EgPriority <- MCEgPriority
  EgBlocks = 2
  MaxDuplicates = 3
  UpPieces = {1, 2}
  Kinds = {"seed1", "seed2", "down1", "down2", "duplex"}
  Fan = 1
  Drain = 2
  QueueCap = 1
  MaxAsks = 2
  MaxUpFaults = 1
  LayerCounts = {2, 3, 5, 7, 8}
  PieceLayer = 1
  HashRequestMax = 4
  BnDocuments <- MCBnDocuments
  BnAlphabet = {"i", "l", "d", "e", ":", "0", "1", "-"}
  InfoKey <- MCInfoKey
  MaxDepth = 3
  MaxNodes = 8
  MaxInt = 99
  MaxBnEdits = 2
  MiTorrents <- MCMiTorrents
  MiKinds = {"v1", "v2", "hybrid"}
  MiPieceLength = 2
  MaxPieceLength = 4
  MaxPieces = 5
  MaxFiles = 4
  MaxDirect = 2
  BadNames = {"", ".."}
  MagnetPairs <- MCMagnetPairs
  MaxQuery = 4
  MaxMiEdits = 2
INVARIANTS ConnectionsAreSound NothingForgotten BlocksAreExact DocumentsAreRead
CHECK_DEADLOCK FALSE
