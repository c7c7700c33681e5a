SPECIFICATION Spec
CONSTANTS
  Horizon = 3
  StartTimes = {1, 2}
  StopTimes = {0, 1, 2}
  Waits = {0, 1}
  Rates = {1, 2}
  Files <- MCFiles
  Missing <- MCMissing
  Garbage <- MCGarbage
  AverageOf <- MCAverageOf
  SizesOf <- MCSizesOf
  SndBufSize = 2
  MaxDatagram = 2
  IdSpace = 2
  MaxMsgs = 2
INVARIANTS TypeOK ChainIntact SendHasSocket Numbered MeanFresh
PROPERTIES MessagesOnlyWhenReady ImplementsSource
CHECK_DEADLOCK FALSE
