SPECIFICATION Spec
CONSTANTS
  IntBits = 16
  AlarmOIDs <- Dotted
  Instances <- Ports
  Alarms <- AlarmForms
  Decoders <- AllDecoders
  RaisedBy <- AlarmTraps
  ClearedBy <- ClearTraps
  EventOf <- DecodedEvents
  CutVerdicts <- AcceptedCuts
PROPERTY ClearResets
