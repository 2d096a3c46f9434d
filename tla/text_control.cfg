SPECIFICATION Spec
CONSTANTS
  Dialects = {"PY", "CPP", "C", "Java"}
  Variables <- MCVariables
  Programs <- MCPrograms
INVARIANTS
  SavesPair
  TextAccepted
  HandlersMatch
  DoesAsAc
CHECK_DEADLOCK FALSE
