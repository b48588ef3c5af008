SPECIFICATION FairSpec
CONSTANTS
  Torrents = {"m1", "m2", "t1"}
  Magnets = {"m1", "m2"}
  Size <- MCSize
  Placeholder = 1
  Rechecks = {"r1", "r2"}
  Controls <- MCOneControl
INVARIANTS Balanced WithinControl
PROPERTY NoLostWakeUp
