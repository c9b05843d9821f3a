CONSTANTS
  Cases = 3
  SavedOutcomes = {"valid"}
  CaseList <- MCCaseList
  Filters <- MCFilters

SPECIFICATION SpecR

INVARIANT TypeOKR
INVARIANT ThreadGoneAtReturn
INVARIANT ErrorNeverPasses
INVARIANT SigchldRestored
INVARIANT DynamicPassMatchesReport
INVARIANT ListedCasesReported
PROPERTY RunnerTerminates
