SPECIFICATION Spec
CONSTANTS
  h1 = h1  d1 = d1  d2 = d2  u1 = u1  u2 = u2 
  c1 = c1  c2 = c2  r1 = r1  r2 = r2
  None = None
  Holders <- OneHolder
  Digests <- OneDigest
  UploadIds <- TwoUploads
  Chunks <- OneChunk
  Requests <- TwoRequests
  MaxRetained = 1
  Ops <- WritingOps
  Payloads <- AnyPayload
  Overlap = FALSE
  LateCommits = TRUE
  MaxCrashes = 0
  MaxDisconnects = 0
INVARIANT RetainedHasBytes
SYMMETRY Symmetric
