SPECIFICATION ClientsSpec
CONSTANTS
  GKeys = {g1}
  Strokes = {a}
  Lines <- LinesWithBlank
  MaxConfigs = 3
  NPalettes = 2
  MaxSteps = 1
  MaxKeys = 2
  MaxStrokes = 2
  MaxKeysStats = 2
  MaxChanges = 3
  MaxTurns = 2
  MaxDelays = 1
PROPERTIES
  EndComes
  PanelSettles
  MessageShown
  PanelFollowsPower
CHECK_DEADLOCK FALSE
