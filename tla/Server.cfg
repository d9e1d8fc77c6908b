SPECIFICATION FairSpec
CONSTANTS
  Workers = {w1, w2}
  QueueSize = 1
  MaxReceived = 3
INVARIANTS TypeOK EveryPacketAccounted DepthTracksQueue
PROPERTIES QuietAfterReturn ShutdownReturns EveryPacketSettled CleanupServed
CHECK_DEADLOCK FALSE
