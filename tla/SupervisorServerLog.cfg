SPECIFICATION Spec
CONSTANTS
  ConfigFiles <- LogFiles
  MaxSets = 4
INVARIANT ServerLoggerOpen
CHECK_DEADLOCK FALSE
