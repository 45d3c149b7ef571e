SPECIFICATION Spec
CHECK_DEADLOCK FALSE
CONSTANTS
  h1 = h1
  h2 = h2
  k1 = k1
  k2 = k2
  App = App
  None = None
  Handles = {h1}
  Conns = {k1}
  Fds = {0, 1, 2}
  MaxWords = 1
  MaxCalls = 2
  Moves = {"signal"}
INVARIANTS
  AnswerIsOwn
