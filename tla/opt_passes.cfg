CONSTANTS
  Globals = {"x", "y", "z"}
  Answer = 3
  MaxSteps = 60
  MaxDepth = 64
  Programs <- Mixtures
  Library <- MCLibrary
  Modes <- AllModes
SPECIFICATION Spec
CHECK_DEADLOCK FALSE
INVARIANTS
  TameSame
  TempsDefined
  AliasesTogether
