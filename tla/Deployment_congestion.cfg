SPECIFICATION Spec
CONSTANTS
  Flags <- MCCongestedFlags
  StartWindow = 2
  StopTime = 3
CHECK_DEADLOCK FALSE
INVARIANTS CongestionMayBeGiven
