CONSTANTS
  MaxJobs = 20
  Recovery = TRUE

SPECIFICATION Spec

INVARIANT TypeOK
INVARIANT SignalsHandled
 
INVARIANT WriteAfterHang
PROPERTY HelperReturns
