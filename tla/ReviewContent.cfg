SPECIFICATION Spec
CONSTANTS
  Questions = {q1}
  Planned = {q1}
  Gates = {"claims"}
  MaxRevisions = 2
  MaxCommits = 1
  JobIds = {j1}
  MaxAttempts = 1
  AttemptCap = 1
  Formats = {"ZIP"}
  MaxFaults = 0
CHECK_DEADLOCK FALSE
INVARIANT ApprovalCoversContent
