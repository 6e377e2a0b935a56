SPECIFICATION Spec
CONSTANTS
  Uploads = {u1, u2}
  Files = {"plain", "image"}
  ImageOnly = {"image"}
  Bypass = FALSE
  JobIds = {"scan", "rescan", "autoExtract", "extract", "cleanup"}
  ScanJobs = {"scan", "rescan"}
  ExtractJobs = {"autoExtract", "extract"}
  InitialScan = "scan"
  AfterScan <- MCAfterScan
  CleanupJob = "cleanup"
  VersionCap = 2
  MaxFaults = 2
  MaxAttempts = 1
  AttemptCap = 2
SYMMETRY UploadSymmetry
CONSTRAINTS UploadsEarly FewFaults
VIEW DocumentView
CHECK_DEADLOCK FALSE
INVARIANTS
  BytesBehindRows
  CleanBeforeUse
  PublishedExtraction
  CleanupComplete
PROPERTY
  DeletedForGood
