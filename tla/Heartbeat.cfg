SPECIFICATION FairSpec
CONSTANTS
  RecvTimeout = 2
  Pulse = 1
  DirectorFails = 2
  DaemonFails = 3
  CheckSleep = 1
  RetrySleep = 1
  MaxFaults = 4
PROPERTIES Patient Settled
