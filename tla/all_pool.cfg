CONSTANTS
  Backends <- Apart
  Workers = {w1, w2}
  Programs <- AnyProgram
  AllowInfinite = FALSE
  NoCache = FALSE
  MayFail = {"BNY", "RS"}
  None = None
SPECIFICATION FairSpec
CHECK_DEADLOCK FALSE
INVARIANTS
  NoCollateral
  CompilesOwnText
  AllDelivered
PROPERTIES
  ImplementsJobs
  Reports
