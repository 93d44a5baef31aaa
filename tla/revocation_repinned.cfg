SPECIFICATION Spec
CONSTANTS
  i1 = i1  i2 = i2  e1 = e1  e2 = e2
  None = None
  Issuers <- TwoIssuers
  Ids <- OneId
  PollInterval = 1
  Lag = 0
  MayRepin = TRUE
  MaxEpoch = 2
  MaxTime = 0
  MaxBoots = 2
  MaxFailures = 0
PROPERTY NeverUnrevoked
