CONSTANTS
  MaxCalls = 4
  StrShows <- MCShows
  Writes <- MCWrites
  U32Writes = {300, 1100, 2000}
  FreqLo = 100
  FreqHi = 1100
  MaxReallocs = 2
  BlinkTails <- MCTails

SPECIFICATION SpecP

INVARIANT TypeOK
INVARIANT AckMeansSampled
INVARIANT TypeOKS
INVARIANT GetMatchesShow
INVARIANT GetTerminatedInBounds
INVARIANT SetReadsBack
INVARIANT BlinkRestored
PROPERTY StopTerminates
