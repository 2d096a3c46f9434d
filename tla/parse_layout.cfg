CONSTANTS
  Sources <- MCSources
  Words <- MCWords
  Broken <- MCBroken
  Garbled <- MCGarbled
  Greedy <- MCGreedy
  MaxErrors = 3
SPECIFICATION Spec
INVARIANTS Balanced OutlineKept ErrorsExact SpinsOnOpen OperatorsBind
CHECK_DEADLOCK FALSE
