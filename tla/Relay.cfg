SPECIFICATION Spec
CONSTANTS
  Limit = 1
  Workers = {w1, w2}
  QueueSize = 1
  MaxReceived = 2
  Packets <- SomeTraps
  Configs <- NoAlerts
  Faulty = {"nms"}
  MaxTime = 1
INVARIANTS CountersTellOutcomes NothingHalfHandled
SYMMETRY AnyWorker
CHECK_DEADLOCK FALSE
