SPECIFICATION FairSpec
CONSTANTS
  Limit = 1
  Workers = {w1, w2}
  Packets <- ConcurrentPackets
  Configs <- OneConfig
  Faulty = {}
  MaxEvents = 3
  MaxTime = 2
INVARIANTS StoreBounded DuplicateOfOpened ClearTakesEffect SuppressedUnlessRaced
PROPERTIES RemovalJustified WindowFixed EveryEventDecided
CHECK_DEADLOCK FALSE
