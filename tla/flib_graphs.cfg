CONSTANTS
  Files <- MCFiles
  Root = "R"
  Dirs = {"src", "lib"}
  Programs <- GraphsAndData
  Keys <- MCKeys
  TailOf <- MCTailOf
SPECIFICATION FairImportSpec
INVARIANTS
  OnceEach
  HelpersFollow
  NothingDangles
  LibVarsOrdered
  DataAsWritten
PROPERTY Ends
CHECK_DEADLOCK FALSE
