SPECIFICATION FairSpec
CONSTANTS
  PoolSize = 2
  Temps <- MCTemps
  NoTemp = 0
  Codes <- MCCodes
  Programs <- MCPrograms
  TrySlots = 3
  RangeScratch = {2}
  NewScratch = {1}
  LoopBound = 2
INVARIANTS
  NeverShared
  UsesFind
  HandlersLive
  SwapsHome
PROPERTY
  Ends
CHECK_DEADLOCK FALSE
