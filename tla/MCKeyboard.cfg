SPECIFICATION KeyboardSpec
CONSTANTS
  Keys = {L1, G1}
  CycleKey = L1
  Mapped = {G1}
  Clients = {a, b}
  TailScreen = tail
  ListClients = {a, b}
  ListTail = tail
  NULL = NULL
INVARIANTS
  KeysSound
PROPERTIES
  ClickNotReplayed
  OsCatchesUp
  HandlerIsTold
  CycleServes
CHECK_DEADLOCK FALSE
