SPECIFICATION Spec
CONSTANTS
  h1 = h1  d1 = d1  d2 = d2  i1 = i1  i2 = i2
  weak = weak  strong = strong  cold = cold
  None = None
  Holders <- OneHolder
  Digests <- TwoDigests
  Credentials <- Overlapping
  Terms <- TwoTerms
  Window <- Windows
  DuringGrace <- Graces
  AfterGrace <- Afters
  PollInterval = 0
  GrantLife = 3
  MaxExpiry = 3
  MaxWindow = 2
  RenewalRaces = FALSE
  TornRegistrations = FALSE
  MaxTime = 5
  MaxCrashes = 1
  MaxFailures = 1
INVARIANTS
  TypeOK
  NobodyPayingIsLapsed
  GraceHonoured
PROPERTIES
  HorizonKept
  
SYMMETRY Symmetric
