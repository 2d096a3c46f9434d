SPECIFICATION Spec
CONSTANTS
  Texts = {t1, bad}
  BadTexts = {bad}
  AngleTexts = {t1}
  SidecarTexts = {t1}
  ForeignTexts = {}
  InfiniteTexts = {}
  LibTexts = {t1}
  Garbage = Garbage
  Deps = {d1, d2}
  Builds = {b1}
  Stamps = {s1}
  Targets <- MCTargets
  NativeTargets <- MCNative
  Requests <- ConcurrentRequests
  Unsupported = {}
  Entryless = {}
  StrLen <- Long16
  AttrCount <- Whole8
  ChildCount <- Whole16
  ConstLen <- IrLong16
  OperandCount <- IrLong8
  Procs = {p1, p2}
  MaxStarts = 3
  MaxEdits = 1
  MaxCrashes = 1
INVARIANT EntriesKeyed
INVARIANT OutcomeFromInputs
INVARIANT BypassIsFresh
INVARIANT StrictRejectsBad
SYMMETRY ProcSymmetry
CHECK_DEADLOCK FALSE
