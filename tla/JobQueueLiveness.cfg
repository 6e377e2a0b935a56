SPECIFICATION FairSpec
CONSTANTS
  j1 = j1
  j2 = j2
  j3 = j3
  w1 = w1
  w2 = w2
  NoWorker = NoWorker
  Jobs = {j1}
  Workers = {w1}
  MaxAttempts = 2
  AttemptCap = 2
  Concurrency = 2
  MaxFaults = 1
  JobType <- TypeOf
  TypeLimit <- Uncapped
PROPERTIES
  CancellationCompletes
  LeasesEnd
  StopCompletes
  ImplementsAbstractions
