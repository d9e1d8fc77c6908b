SPECIFICATION Spec
CONSTANTS
  Limit = 1
  Workers = {w1, w2}
  Packets <- ReloadPackets
  Configs <- TwoConfigs
  Faulty = {"nms"}
  MaxEvents = 2
  MaxTime = 1
INVARIANTS TypeOK AlertedOnce AlertsComplete LostOnlyToFaultOrReload HandledAsLoaded
CHECK_DEADLOCK FALSE
