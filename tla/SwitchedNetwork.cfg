SPECIFICATION FairSpec
CONSTANTS
  Networks <- MCNetworks
  FlowSets <- MCFlowSets
  Senders <- MCSenders
  MaxData <- MCMaxData
CHECK_DEADLOCK FALSE
INVARIANTS TypeOK TablesTrue DataNotFlooded CongestionLocal
PROPERTIES Reached ImplementsRoutes
