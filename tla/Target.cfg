SPECIFICATION Spec
CHECK_DEADLOCK FALSE
CONSTANTS
  c1 = c1
  r1 = r1
  r2 = r2
  r3 = r3
  o1 = o1
  o2 = o2
  a1 = a1
  a2 = a2
  None = None
  Clients = {c1}
  Callers = {r1, r2, r3}
  Objects = {o1, o2, o3}
  Addresses = {a1, a2}
  MaxHandle = 3
  o3 = o3
  MaxFrames = 4
  Asks <- OpenFindCall
INVARIANTS
  AnswersInOrder
  HandlesHold
  HandleDesignates
PROPERTIES
  HandlesStable
  EndsWithConnection
