SPECIFICATION Spec
CONSTANTS
  Texts = {t1, t2, bad}
  BadTexts = {bad}
  AngleTexts = {}
  SidecarTexts = {}
  ForeignTexts = {t1}
  InfiniteTexts = {t2}
  LibTexts = {t2}
  Garbage = Garbage
  Deps = {d1, d2}
  Builds = {b1, b2}
  Stamps = {s1, s2}
  Targets <- MCTargets
  NativeTargets <- MCNative
  Requests <- SequentialRequests
  Unsupported <- CyclingInBny
  Entryless <- BadNoMainloop
  StrLen <- Whole16
  AttrCount <- Whole8
  ChildCount <- Whole16
  ConstLen <- IrWhole16
  OperandCount <- IrWhole8
  Procs = {p1}
  MaxStarts = 3
  MaxEdits = 2
  MaxCrashes = 1
INVARIANT IrcWhole
PROPERTY ImplementsUncached
CONSTRAINT AccWhole
CONSTRAINT FewEvents
CHECK_DEADLOCK FALSE
