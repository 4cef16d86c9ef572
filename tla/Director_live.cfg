SPECIFICATION LiveSpec
CONSTANTS
  n1 = n1  n2 = n2  n3 = n3  c1 = c1  c2 = c2
  Node = {n1, n2, n3}
  Host = n1
  Comp = {c1, c2}
  Moveable = {c1}
  Ops = {"start", "stop", "reconfigure", "force", "status", "shutdown"}
  Faults = {"crash"}
  MaxRequests = 2
  MaxFaults = 2
  NoNode = NoNode
PROPERTIES Settles Adopted StopReachesAll OperationsEnd StartedReallocated
CHECK_DEADLOCK FALSE
