SPECIFICATION Spec
CONSTANTS
  Clients = {a, b}
  Fds = {3, 4}
  Nobody = nobody
  Askers = {a}
  Flaky = {b}
  Texters = {b}
  MaxUnread = 1
INVARIANTS
  NetSound
  AnswersMatch
CHECK_DEADLOCK FALSE
PROPERTIES
  ClientsServed
