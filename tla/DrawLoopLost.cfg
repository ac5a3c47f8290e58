SPECIFICATION Spec
CONSTANTS
  Screens = {c1, clock}
  Plugins = {clock}
  Wbmp = {}
  MaxRequests = 1
  MaxPlugs = 0
  NULL = NULL
PROPERTY UpdateShown
CHECK_DEADLOCK FALSE
