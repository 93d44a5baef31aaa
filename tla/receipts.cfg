SPECIFICATION Spec
CONSTANTS
  d1 = d1  d2 = d2  t1 = t1  t2 = t2
  o1 = o1  o2 = o2  r1 = r1  r2 = r2
  All = All  None = None
  Digests <- TwoDigests
  Terms <- TwoTerms
  Ops <- OneOp
  Requests <- TwoRequests
  ReceiptWindow = 1
  ReferenceWindow = 1
  OutcomeWindow = 0
  InOrder = TRUE
  MayLose <- Nothing
  MaxWait = 1
  MaxTime = 3
  MaxBoots = 1
  MaxFailures = 0
INVARIANTS
  TypeOK
  PinnedTermsKept
  ErasedIsReceipted
  LatestErasureAnswered
  EvidenceNotDenied
  OutcomeLeadsToReceipt
PROPERTY
  EvidenceKept
SYMMETRY Symmetric
