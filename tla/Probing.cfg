SPECIFICATION FairSpec
CONSTANTS
  c1 = c1
  c2 = c2
  Clients = {c1, c2}
  Interval <- MCInterval
  BurstSize <- MCBurstSize
  Horizon = 3
  StartTimes = {0, 1}
  StopTimes <- MCStopTimes
INVARIANTS TypeOK OnSchedule TrueRtt AccountedOnce
PROPERTIES MeasuredWhileRunning Resolved
CHECK_DEADLOCK FALSE
