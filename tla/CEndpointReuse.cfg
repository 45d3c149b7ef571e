SPECIFICATION Spec
CHECK_DEADLOCK FALSE
CONSTANTS
  h1 = h1
  h2 = h2
  k1 = k1
  k2 = k2
  App = App
  None = None
  Handles = {h1, h2}
  Conns = {k1, k2}
  Fds = {0, 1}
  MaxWords = 1
  MaxCalls = 1
  Moves = {"reuse", "long", "signal", "ask"}
INVARIANTS
  TypeOK
  NothingLeaks
