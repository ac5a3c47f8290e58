SPECIFICATION Spec
CONSTANTS
  GKeys = {g1}
  Strokes = {a}
  Lines <- ConfigLines
  MaxConfigs = 2
  NPalettes = 2
  MaxSteps = 1
  MaxKeys = 3
  MaxStrokes = 2
INVARIANT SavedAtRest
PROPERTY MacrosKept
CHECK_DEADLOCK FALSE
