SPECIFICATION TakeoverSpec
CONSTANTS
  n1 = n1  n2 = n2  n3 = n3  c1 = c1  c2 = c2
  Node = {n1, n2, n3}
  Host = n1
  Comp = {c1, c2}
  Moveable = {c1, c2}
  Ops = {}
  Faults = {}
  MaxRequests = 0
  MaxFaults = 0
  NoNode = NoNode
PROPERTIES Reallocated
CHECK_DEADLOCK FALSE
