CONSTANTS
  Globals = {"x", "y", "z"}
  Answer = 3
  MaxSteps = 60
  MaxDepth = 64
  Programs <- Freed
  Library <- MCLibrary
  Modes <- AllModes
SPECIFICATION Spec
CHECK_DEADLOCK FALSE
INVARIANT LevelsSame
