SPECIFICATION Spec
CONSTANTS
  s1 = s1
  s2 = s2
  x = x
  y = y
  JobIds = {s1, s2}
  MaxAttempts = 2
  AttemptCap = 2
  ConcurrencyLimit = 1
  RequestLimit = 2
  MaxFaults = 2
  SourceIds = {x, y}
  Count = 1
  MaxSearchRequests = 2
  MaxSources = 2
  ManualCap = 1
SYMMETRY SearchSymmetry
CHECK_DEADLOCK FALSE
INVARIANTS
  PermitDiscipline
  SearchesWithinBudget
  CommittedOnce
PROPERTY
  SearchCommitsSafely
