CONSTANTS
  NumNodes = 3
  NodeDriver <- MCNodeDriver
  Loaded <- MCLoaded
  FilterChoices <- MCFilterChoices
  RenderNodes <- MCRenderNodes
  Forced = "none"
  Chipsets <- MCChipsets
  TableSize = 3
  MaxIdx = 2
  MaxCalls = 5

SPECIFICATION Spec

INVARIANT TypeOK
INVARIANT DistinctOpened
INVARIANT I915ExitFdsClosed
INVARIANT ModuleLookupCorrect
