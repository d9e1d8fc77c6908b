SPECIFICATION Spec
CONSTANTS
  Limit = 10
  Workers = {w1}
  Packets <- LinkPackets
  Configs <- TwoConfigs
  Faulty = {}
  MaxEvents = 3
  MaxTime = 1
INVARIANT SuppressedAfterDelivery
CHECK_DEADLOCK FALSE
