SPECIFICATION FairSpec
CONSTANTS
  Monitors = {m}
  Users = {u}
  Admins = {}
  Binders = {}
  Paths = {TRUE, FALSE}
  MaxEngines = 1
INVARIANT PausedIsQuiet
PROPERTIES OperationsTerminate EnginesFollowTorrents
