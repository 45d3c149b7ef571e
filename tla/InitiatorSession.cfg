SPECIFICATION Spec
CHECK_DEADLOCK FALSE
CONSTANTS
  c1 = c1
  c2 = c2
  r1 = r1
  r2 = r2
  v = v
  None = None
  Values = {v}
  Clients = {c1}
  Callers = {r1, r2}
  PeerFrames <- Anything
  MaxQueue = 2
  Moves = {"attached"}
INVARIANTS
  NoOrphanedCall
  CloseComplete
PROPERTIES
  ResponsesKeepReader
