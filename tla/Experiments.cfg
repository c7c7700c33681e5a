SPECIFICATION Spec
CONSTANTS
  Seeds = {1, 2}
  Records = 2
  Lines = 1
  TestSenders = {4, 5, 6}
  Terminals = {t1, t2}
  MaxRuns = 2
  BuildBindings = TRUE
  MaxKills = 1
  Campaigns <- MCCampaigns
SYMMETRY Symmetry
INVARIANTS
  TypeOK
  OwnedUnlessLost
  ReadsNoOlder
  ReportOfSeed
  RerunCompletes
  PacketsCounted
  PlotsOnePort
CHECK_DEADLOCK FALSE
