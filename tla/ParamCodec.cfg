SPECIFICATION Spec
CHECK_DEADLOCK FALSE
CONSTANTS
  None = None
  H8 = 4
  H16 = 8
  H32 = 32
  H64 = 1024
  Exact = 256
  Epsilon = 128
  Twos = {1, 2, 4, 8, 16, 32, 64}
  Tens = {1, 10, 100, 1000}
  Short = 100
  Long = 10000
INVARIANTS
  WellTyped
  PythonExact
  ArgumentsExact
  ResultsExact
  NumbersNear
