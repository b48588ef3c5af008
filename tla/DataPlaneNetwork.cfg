SPECIFICATION FairSpec
CONSTANTS
  Monitors = {m}
  Users = {}
  Admins = {m}
  Binders = {b}
  Paths = {TRUE, FALSE}
  MaxEngines = 2
 
PROPERTY GateFollowsPath
