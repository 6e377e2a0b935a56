SPECIFICATION Spec
CONSTANTS
  j1 = j1
  j2 = j2
  r1 = r1
  r2 = r2
  JobIds = {j1, j2}
  MaxAttempts = 2
  AttemptCap = 2
  ConcurrencyLimit = 1
  RequestLimit = 3
  MaxFaults = 2
  ResponseIds = {r1, r2}
  MaxProviderRequests = 2
  MaxTokens = 1
  Priced = TRUE
SYMMETRY CallSymmetry
CONSTRAINT FewFaults
CHECK_DEADLOCK FALSE
INVARIANTS
  UsageLedger
  ResponseUsedOnce
PROPERTY
  OutputKept
