SPECIFICATION Spec
CONSTANTS
  h1 = h1  d1 = d1  d2 = d2  u1 = u1  u2 = u2 
  c1 = c1  c2 = c2  r1 = r1  r2 = r2
  None = None
  Holders <- OneHolder
  Digests <- TwoDigests
  UploadIds <- TwoUploads
  Chunks <- TwoChunks
  Requests <- TwoRequests
  MaxRetained = 1
  Ops <- EveryOp
  Payloads <- GoodPayload
  Overlap = TRUE
  LateCommits = TRUE
  MaxCrashes = 0
  MaxDisconnects = 1
INVARIANTS
  QuotaHeld
  SweepSparesOpenGrants
  RetainedIsTrueWhenSaid
SYMMETRY Symmetric
