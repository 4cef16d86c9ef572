SPECIFICATION SafetySpec
CONSTANTS
  n1 = n1  n2 = n2  n3 = n3  c1 = c1  c2 = c2
  Node = {n1, n2}
  Host = n1
  Comp = {c1, c2}
  Moveable = {c1}
  Ops = {"start", "stop", "reconfigure", "force", "failstart", "status", "shutdown"}
  Faults = {"crash", "silence"}
  MaxRequests = 2
  MaxFaults = 2
  NoNode = NoNode
INVARIANTS TypeOK Agreement EachComponentOnce LockedShares
PROPERTIES PinnedStay StopIsFinal ImplementsAssignment
CHECK_DEADLOCK FALSE
