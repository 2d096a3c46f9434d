CONSTANTS
  Backends = {C, GO}
  C = C
  GO = GO
  Functions <- MCFunctions
  Programs <- SequentialAndRacing
  MaxRounds = 50
SPECIFICATION FairSpec
CHECK_DEADLOCK FALSE
INVARIANTS
  OwnUsesKept
  AloneDeclared
PROPERTY Ends
