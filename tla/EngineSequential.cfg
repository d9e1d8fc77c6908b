SPECIFICATION Spec
CONSTANTS
  Limit = 2
  Workers = {w1}
  Packets <- SequentialPackets
  Configs <- RekeyedConfigs
  Faulty = {}
  MaxEvents = 4
  MaxTime = 2
INVARIANTS SuppressedInsideWindow SuppressionJustified
PROPERTIES FirstTrapStable ImplementsWindows
CHECK_DEADLOCK FALSE
