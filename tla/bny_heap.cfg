SPECIFICATION RoomySpec
CONSTANTS
  v1 = v1
  v2 = v2
  Vars <- MCVars
  Values = {1, 2}
  Keys = {3, 4}
  Functions = {5, 6}
  Nothing = 0
  ListSeed = 1
  DictSeed = 1
  EventSlots = 2
  RegionWords = 7
  Literals <- MCLiterals
  Ranges <- MCRanges
  DictPairs <- MCPairs
  MaxWords = 15
  MaxMade = 2
SYMMETRY VarsAlike
INVARIANTS
  RoomIsOwn
  NeverFull
PROPERTY
  ImplementsObjects
CHECK_DEADLOCK FALSE
