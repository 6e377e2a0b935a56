SPECIFICATION Spec
CONSTANTS
  Modes = {"ASSISTED", "ORCHESTRATED", "DRAFT_ONLY"}
  StageCount = 2
  MaxAttempts = 2
  GenCap = 2
  MaxJobs = 3
CONSTRAINT FewJobsOrAttempts
VIEW PipelineView
CHECK_DEADLOCK FALSE
INVARIANTS
  SucceededPrefix
  EffectsOfLatest
  SupersededAtRest
  ClosedWhenCancelled
