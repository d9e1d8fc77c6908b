SPECIFICATION Spec
CONSTANTS
  Limit = 10
  Workers = {w1, w2}
  Packets <- LinkPackets
  Configs <- OneConfig
  Faulty = {}
  MaxEvents = 3
  MaxTime = 1
INVARIANT SuppressedInsideWindow
CHECK_DEADLOCK FALSE
