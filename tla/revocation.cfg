SPECIFICATION FairSpec
CONSTANTS
  i1 = i1  i2 = i2  e1 = e1  e2 = e2
  None = None
  Issuers <- OneIssuer
  Ids <- OneId
  PollInterval = 1
  Lag = 1
  MayRepin = FALSE
  MaxEpoch = 2
  MaxTime = 4
  MaxBoots = 2
  MaxFailures = 1
INVARIANTS
  TypeOK
  CurrentIsRecent
PROPERTIES
  NeverUnrevoked
  RevocationReaches
  EpochIsSaved
