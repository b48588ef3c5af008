SPECIFICATION MCSpec
CONSTANTS
  Parts = {"gate", "net", "mapping", "test", "trackers", "dht"}
  Callers = {c1, c2}
  Tasks = {t1}
  MaxGeneration = 4
  NetConfigs <- MCNetConfigs
  Machines <- MCMachines
  Urls = {"u1", "u2", "u3"}
  Scheme <- MCScheme
  HostOf <- MCHosts
  Asked <- MCAsked
  Declarable <- MCDeclarable
  Nothing = Nothing
  BodyLimit = 2
  MaxRedirects = 2
  MaxChanges = 1
  Configs <- MCConfigs
  Protocols <- MCProtocols
  Refreshers = {r}
  MaxUpdates = 1
  Lossy = TRUE
  Testers = {x, y}
  Endpoints = {"e", "f"}
  MaxRequests = 2
  Order <- MCOrder
  Gap <- MCGap
  Udp = {"udp"}
  Retries = 1
  StepLimit = 2
  AnnounceLimit = 1
  MaxGap = 3
  Keys = {"a", "b"}
  NodeAddrs = {"n1", "n2", "s1"}
  Family <- MCFamily
  NodeId <- MCId
  Knows <- MCKnows
  PeersOf <- MCPeersOf
  Specs <- MCSpecs
  TableCap = 2
  Alpha = 2
  MaxQueries = 3
  MaxPeers = 2
  MaxRoundsDht = 2
  MaxLookups = 2
INVARIANTS NoStrandedTask BlockCancels NetOperationsAreSound
PROPERTIES CancelledEventually ImplementsTrafficGate  MappingsAreReleased AnnounceEnds
CHECK_DEADLOCK FALSE
