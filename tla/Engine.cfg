SPECIFICATION EngineSpec
CONSTANTS
  p1 = p1
  p2 = p2
  Pieces <- MCPieces
  TorrentKinds <- MCTorrents
  Window = 2
  Threshold = 1
  MaxStarts = 2
  MaxFaults = 1
INVARIANTS ClaimsAreBacked ResumeIsSound FinishedIsWhole
PROPERTY EngineProceeds
CHECK_DEADLOCK FALSE
