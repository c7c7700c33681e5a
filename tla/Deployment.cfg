SPECIFICATION Spec
CONSTANTS
  Flags <- MCFlags
  StartWindow = 2
  StopTime = 3
CHECK_DEADLOCK FALSE
INVARIANTS TypeOK AddressesFree RowNamesSource LoadAsAsked
PROPERTIES SinkBeforeSource
