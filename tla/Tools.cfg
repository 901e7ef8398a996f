SPECIFICATION FairSpec
CONSTANTS
  Names = {"f", "g", "L"}
  Paths <- MCPaths
  Learned = "a"
  Sources <- MCSources
  Calls <- MCCalls
  Returns <- MCReturns
  MaxWrites = 3
  MaxTape = 2
  MaxFailures = 1
INVARIANT OutputIsCurrent
PROPERTIES OutputCatchesUp FixesOnlyReturns
CHECK_DEADLOCK FALSE
