SPECIFICATION SessionSpec
CHECK_DEADLOCK FALSE
CONSTANTS
  c1 = c1
  r1 = r1
  r2 = r2
  o1 = o1
  o2 = o2
  a1 = a1
  a2 = a2
  None = None
  Clients = {c1}
  Callers = {r1, r2}
  Objects = {o1, o2}
  Addresses = {a1, a2}
  MaxHandle = 2
  MaxFrames = 0
  Asks <- OpenAndCall
  Values <- Replies
  PeerFrames = {}
  MaxQueue = 0
  Moves = {"cancel", "attached"}
INVARIANTS
  HandlesGood
PROPERTIES
  ImplementsRpc
  CloseEnds
  InitEnds
