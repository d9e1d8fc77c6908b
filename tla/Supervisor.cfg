SPECIFICATION Spec
CONSTANTS
  ConfigFiles <- Files
  MaxSets = 4
INVARIANTS TypeOK NoHandleLeaked EngineHandlesOpen OneSetInForce RunnableInForce MemoryLimitPositive
PROPERTY MetricsKept
CHECK_DEADLOCK FALSE
