CONSTANTS
  MaxCalls = 4

SPECIFICATION Spec

PROPERTY SwitchAcknowledged
