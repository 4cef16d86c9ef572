SPECIFICATION FairSpec
CONSTANTS
  Node = {1, 2}
  Comp = {1, 2}
  Files <- MCFiles
  Usage <- MCUsage
  OldData <- MCOldData
  Patterns = {"roundrobin", "memory"}
  NoFile = NoFile
  FailOnError = {TRUE, FALSE}
  MaxCollectors = 2
  MaxCalls = 3
  MaxPolls = 1
  MaxFaults = 1
INVARIANTS Placed SharesRead Balanced Remembered
PROPERTIES CallsEnd
CHECK_DEADLOCK FALSE
