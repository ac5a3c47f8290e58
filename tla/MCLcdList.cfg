SPECIFICATION Spec
CONSTANTS
  Clients = {a, b, c}
  Tail0 = tail
  NULL = NULL
SYMMETRY NodeSymmetry
INVARIANTS
  ListSound
  RingIntact
PROPERTY
  ImplementsScreenStack
CHECK_DEADLOCK FALSE
