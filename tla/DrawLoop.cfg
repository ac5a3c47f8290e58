SPECIFICATION Spec
CONSTANTS
  Screens = {c1, clock}
  Plugins = {clock}
  Wbmp = {c1}
  MaxRequests = 1
  MaxPlugs = 2
  NULL = NULL
INVARIANTS
  DrawSound
CHECK_DEADLOCK FALSE
