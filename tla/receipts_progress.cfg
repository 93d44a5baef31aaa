SPECIFICATION FairSpec
CONSTANTS
  d1 = d1  d2 = d2  t1 = t1  t2 = t2
  o1 = o1  o2 = o2  r1 = r1  r2 = r2
  All = All  None = None
  Digests <- OneDigest
  Terms <- OneTerms
  Ops <- OneOp
  Requests <- OneRequest
  ReceiptWindow = 1
  ReferenceWindow = 1
  OutcomeWindow = 0
  InOrder = TRUE
  MayLose <- OneDigest
  MaxWait = 1
  MaxTime = 3
  MaxBoots = 1
  MaxFailures = 1
PROPERTY
  TracesAgeOut
