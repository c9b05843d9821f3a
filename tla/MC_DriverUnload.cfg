CONSTANTS
  Mods <- MCMods
  Holds <- MCHolds
  SoftHolds <- MCSoftHolds
  Builtin <- MCBuiltin
  Targets <- MCMods
  MaxTries = 2
  Driver = "i915"
  Pinnable <- MCPinnable
  Initing <- MCIniting

SPECIFICATION SpecD

INVARIANT TypeOKD
INVARIANT FailureExplained
INVARIANT DriverGone
INVARIANT SequenceFailureExplained
PROPERTY SequenceReturns
