SPECIFICATION FairSpec
CONSTANTS
  s1 = s1
  bg = bg
  n1 = n1
  x = x
  A = A
  B = B
  Sources = {s1}
  Congestion = bg
  Devices = {n1, x, A, B}
  Route <- MCRoute
  QueueSize <- MCQueueSize
  SegmentSize = 2
  Sizes = {1, 3}
  Horizon = 1
  MaxMsgs <- MCMaxMsgs
  MaxSends <- MCMaxSends
  MaxCongestion = 1
CHECK_DEADLOCK FALSE
INVARIANTS TypeOK StreamIntact JoinsSenderLog QueuesLogged
PROPERTIES DropsOnlyWhenFull SendTimesInOrder ImplementsFifo Drains
