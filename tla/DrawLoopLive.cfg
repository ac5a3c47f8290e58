SPECIFICATION Spec
CONSTANTS
  Screens = {c1}
  Plugins = {}
  Wbmp = {c1}
  MaxRequests = 3
  MaxPlugs = 2
  NULL = NULL
PROPERTIES
  AwakeDrawsNewest
  ClientNotBlocked
  ShutdownCompletes
CHECK_DEADLOCK FALSE
