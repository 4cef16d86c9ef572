SPECIFICATION SituationSpec
CONSTANTS
  Node = {1, 2, 3}
  Faults = {"crash", "start", "stopDirector", "deaf"}
  MaxFaults = 3
  RingFaults = 1
  LedFaults = 2
INVARIANTS ElectionTypeOK NeverBelow LeadersServe
PROPERTIES EveryoneServed Failover
CHECK_DEADLOCK FALSE
