SPECIFICATION FairSpec
CONSTANTS
  Torrents = {1, 2, 3}
  Callers = {"api"}
  Magnets = {2}
  AutoStart = {1, 2}
  Outcomes = {"Completed", "TrackerError"}
  Restored <- MCRestored
  MaxEvents = 3
  max_active_downloads = 1
  max_active_metadata_fetches = 1
  Priority <- MCPriority
INVARIANTS QueueIsExact PlanIsBest
PROPERTY PassesSettle
