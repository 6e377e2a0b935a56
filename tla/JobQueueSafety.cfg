SPECIFICATION Spec
CONSTANTS
  j1 = j1
  j2 = j2
  j3 = j3
  w1 = w1
  w2 = w2
  NoWorker = NoWorker
  Jobs = {j1, j2, j3}
  Workers = {w1, w2}
  MaxAttempts = 2
  AttemptCap = 2
  Concurrency = 2
  MaxFaults = 1
  JobType <- TypeOf
  TypeLimit <- OneStage
CONSTRAINT AloneOrFaultFree
SYMMETRY WorkerSymmetry
INVARIANTS
  AttemptLedger
  AttemptBudget
  OutputFromLeaseHolder
  DrainReleasesLeases
  FaultFreeConcurrency
PROPERTIES
  HistoryIsAppendOnly
  TerminalRowsFrozen
