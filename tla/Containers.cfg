CONSTANTS
  INITIAL_CAPACITY = 2
  GROWTH_RATE = 2
  Width = 8
  Elements = {"a", "b"}
  Sources <- MCSources
  Keys = {1, 2, 3}
  Values = {"p", "q"}
  Threads = {"t1", "t2"}
  Vars = {1, 2, 3}
  Objects = {1, 2}
  Alphabet <- MCAlphabet
  Arguments <- MCArguments
  Kinds = {"string", "vector", "list", "min", "max", "shared", "path", "format", "escape", "number"}
  MaxLen = 5
  MaxHeap = 6
  MaxText = 6
  MaxLeaks = 2
SPECIFICATION Spec
CHECK_DEADLOCK FALSE
INVARIANTS LinksAndCounts AlgorithmsAgree
PROPERTIES DeviatesOnlyThere PopsBest IsSequence
