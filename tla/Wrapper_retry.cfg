SPECIFICATION OutputSpec
CONSTANTS
  RunTypes = {"continuous"}
  MaxRetries = 1
  RetryWindow = 2
  MaxTime = 5
  Faults = {}
PROPERTIES GivesUpJustly
CHECK_DEADLOCK FALSE
