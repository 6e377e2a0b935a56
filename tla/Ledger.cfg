CONSTANTS
  s1 = s1
  s2 = s2
  e1 = e1
  e2 = e2
  g1 = g1
  c1 = c1
  a1 = a1
  unknown = unknown
  None = None
  Clients = {k1, k2}
  Sources = {s1}
  Evidence = {e1, e2, g1}
  Claims = {c1, a1}
  StageEvidence = {g1}
  StageClaims = {a1}
  SourceOf <- MCSourceOf
  EvidenceOf <- MCEvidenceOf
  ClaimOf <- MCClaimOf
  Numbers = {"7", "18"}
  Units = {"percent"}
  Scopes <- MCScopes
  Reports <- MCReports
  Entries <- MCEntries
  Reviews <- MCReviews
  GapEdits <- MCGapEdits
  MaxSettled = 1
SPECIFICATION Spec
INVARIANT SupportRecalculated
INVARIANT PassedReportHolds
CONSTRAINT SmallLedger
SYMMETRY ClientSymmetry
