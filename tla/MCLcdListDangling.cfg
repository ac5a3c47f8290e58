SPECIFICATION Spec
CONSTANTS
  Clients = {a, b, c}
  Tail0 = tail
  NULL = NULL
INVARIANT ClosedScreenNotShown
CHECK_DEADLOCK FALSE
