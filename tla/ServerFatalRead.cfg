SPECIFICATION FairSpec
CONSTANTS
  Workers = {w1, w2}
  QueueSize = 1
  MaxReceived = 3
PROPERTY FatalReadReturns
CHECK_DEADLOCK FALSE
