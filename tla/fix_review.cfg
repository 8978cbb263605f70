SPECIFICATION Spec
CONSTANTS
  r1 = r1
  r2 = r2
  h1 = h1
  e1 = e1
  Repos <- MCRepos
  Hyps <- MCHyps
  EvidenceIds <- MCEvidenceIds
  NoEvidence = NoEvidence
  None = None
INVARIANTS
  TypeOK
  ApprovedIsSound
  ReportIsComplete
