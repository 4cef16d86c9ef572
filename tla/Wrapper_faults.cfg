SPECIFICATION OutputFairSpec
CONSTANTS
  RunTypes = {"continuous", "once"}
  MaxRetries = 1
  RetryWindow = 2
  MaxTime = 4
  Faults = {"forkFails", "noPipes", "notExecutable", "unreadable", "slowExec", "early", "execFails", "noLogSpace", "noLogFile", "noReader"}
INVARIANTS OutputTypeOK LeavesNoChild RestartsBounded
PROPERTIES StopEnds KeepsRunning Drained
CHECK_DEADLOCK FALSE
