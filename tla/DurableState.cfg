SPECIFICATION MCSpec
CONSTANTS
  Parts = {"durable", "policy"}
  t1 = t1
  t2 = t2
  api = api
  task = task
  Torrents <- MCTorrents
  Savers <- MCSavers
  Does <- MCDoes
  MaxRecord <- MCMaxRecord
  PolicyConfigs <- MCConfigs
  Profiles = {"p"}
  Modes = {"required", "preferred"}
  Elsewhere = {"m"}
  None = "-"
  Fallback = "temp"
  MaxEdits = 2
  MaxPolicyFaults = 1
INVARIANTS SkipIsSound AddedSurvives RemovedStaysRemoved PoliciesHold
CHECK_DEADLOCK FALSE
