CONSTANTS
  Handles = {h1, h2, h3}
  Sizes <- MC_Sizes
  Alignments <- MC_Alignments
  PatIndexes <- MC_PatIndexes
  StartArg = 5
  EndArg = 12
  BIAS = 4
  AddrBits = 5
  InvalidAddress = InvalidAddress
  NoRecord = NoRecord

SPECIFICATION Spec
SYMMETRY MC_Symmetry

INVARIANT NoOverlap
