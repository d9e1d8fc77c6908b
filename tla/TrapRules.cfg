SPECIFICATION Spec
CONSTANTS
  IntBits = 16
  AlarmOIDs <- Undotted
  Instances <- Ports
  Alarms <- AlarmForms
  Decoders <- AllDecoders
  RaisedBy <- AlarmTraps
  ClearedBy <- ClearTraps
  EventOf <- DecodedEvents
  CutVerdicts <- AcceptedCuts
INVARIANTS RoutesByKind OneKeyPerInstance DecodersAgree IncompleteRejected
PROPERTIES ClearResets ClearIsPrecise
