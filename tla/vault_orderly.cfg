SPECIFICATION Spec
CONSTANTS
  h1 = h1  d1 = d1  d2 = d2  u1 = u1  u2 = u2 
  c1 = c1  c2 = c2  r1 = r1  r2 = r2
  None = None
  Holders <- OneHolder
  Digests <- TwoDigests
  UploadIds <- TwoUploads
  Chunks <- OneChunk
  Requests <- TwoRequests
  MaxRetained = 2
  Ops <- WritingOps
  Payloads <- AnyPayload
  Overlap = FALSE
  LateCommits = FALSE
  MaxCrashes = 2
  MaxDisconnects = 0
INVARIANTS
  TypeOK
  RetainedHasBytes
  OneOpenGrant
PROPERTIES
  RetentionKept
  PromiseKept
SYMMETRY Symmetric
