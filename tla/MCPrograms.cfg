SPECIFICATION PartsSpec
CONSTANTS
  Screens = {"clock", "stats"}
  Keyboards = {"uinput"}
  Servers = {"net"}
INVARIANTS
  ThreadsServe
PROPERTIES
  RemoteSettles
  ComposerEnds
  ScriptServed
  TailCatchesUp
CHECK_DEADLOCK FALSE
