SPECIFICATION LessSpec
CONSTANTS
  Node = {1, 2}
  Faults = {"start"}
  MaxFaults = 1
PROPERTIES OnlyLeader
CHECK_DEADLOCK FALSE
