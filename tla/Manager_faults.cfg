SPECIFICATION ReportSpec
CONSTANTS
  None = None
  Comps = {1, 2}
  Versions = {1, 2}
  Shares <- SomeShares
  Ops = {"START", "STOP", "CONFIGURE", "RESTART", "FAILSTART"}
  Faults = {"unreadable", "leftover", "startFails", "signal"}
  MaxCommands = 3
INVARIANTS ReportTypeOK  AsConfigured ExitLeavesNone StatusComplete
PROPERTIES QueueDrains ShutdownEnds
CHECK_DEADLOCK FALSE
