SPECIFICATION Spec
CONSTANTS
  Modes = {"ORCHESTRATED"}
  StageCount = 2
  MaxAttempts = 2
  GenCap = 2
  MaxJobs = 3
VIEW PipelineView
CHECK_DEADLOCK FALSE
INVARIANT ExecutingRunHasJob
