CONSTANTS
  Backends = {C, GO}
  C = C
  GO = GO
  Functions <- MCFunctions
  Programs <- Racing
  MaxRounds = 50
SPECIFICATION Spec
CHECK_DEADLOCK FALSE
INVARIANT AllDeclared
