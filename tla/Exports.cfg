SPECIFICATION Spec
CONSTANTS
  Questions = {q1, q2}
  Planned = {q1}
  Gates = {"claims"}
  MaxRevisions = 2
  MaxCommits = 1
  JobIds = {j1, j2}
  MaxAttempts = 2
  AttemptCap = 2
  Formats = {"ZIP"}
  MaxFaults = 1
SYMMETRY JobSymmetry
CONSTRAINT Bounded
VIEW ExportsView
CHECK_DEADLOCK FALSE
INVARIANTS
  ApprovalCoversEdits
  CurrentExports
  DeliveredPackage
PROPERTIES
  BecomesCurrentFresh
  DeletedStaysDeleted
