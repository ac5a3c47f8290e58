SPECIFICATION Spec
CONSTANTS
  Models = {g15, g510, g11, g13}
  First = g15
  Shared = {g510}
  G510s = {g510}
  G13s = {g13}
  Keypads = {g11}
  Chunks = 2
  MaxPlugs = 2
  MaxFailures = 1
  MaxDraws = 2
INVARIANTS
  UsbSound
PROPERTIES
  CallsReturn
  UnplugNoticed
  Reopened
CHECK_DEADLOCK FALSE
