CONSTANTS
  Mods <- MC_Mods
  Holds <- MC_DiamondHolds
  SoftHolds = {}
  Builtin <- MC_Builtin
  Targets <- MC_Targets
  MaxTries = 2

SPECIFICATION Spec

INVARIANT FailureExplained
