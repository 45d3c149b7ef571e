SPECIFICATION JsonSpec
CHECK_DEADLOCK FALSE
SYMMETRY Alike
CONSTANTS
  n1 = n1
  n2 = n2
  n3 = n3
  n4 = n4
  None = None
  Stale = Stale
  Nodes = {n1, n2, n3, n4}
  n5 = n5
  n6 = n6
  Spare = {n5, n6}
  Keys = {"a", "A"}
  Fold <- FoldCase
  Scalars = {"x"}
  MaxMarked = 2
  CircularLimit = 2
  Words = {"a", "x"}
  MaxText = 7
  MaxBlanks = 2
  NestingLimit = 2
  Spelling <- Spell
  Numbers = {"x"}
  Bytes = {"x"}
  Pieces <- TwoPieces
  IntMax = 20
  DefaultSize = 2
  MaxSize = 20
  MaxMemory = 3
  Chunks <- Pool
  MaxChunks = 3
INVARIANTS
  TypeOK
  ListsSound
  OneOwner
  NothingLeaks
  CopyEqual
  CompareExact
  WithinBuffer
  ParsesJson
  PrintsText
  InBounds
  BlocksFreed
  OutputFits
  DecodesUtf16
  RoundTrip
PROPERTIES
  ImplementsTree
