SPECIFICATION Spec
CONSTANTS
  Monitors = {m}
  Users = {u}
  Admins = {}
  Binders = {}
  Paths = {TRUE, FALSE}
  MaxEngines = 1
PROPERTY PauseHolds
