SPECIFICATION FairSpec
CONSTANTS
  a = a  b = b  n = n  h1 = h1  h2 = h2
  None = None
  Holders <- TwoHolders
  Nonces <- OneNonce
  Handlers <- TwoHandlers
  Skews <- AllSkews
  Polls <- OnePoll
  MaxInt = 15
  LastStamp = 30
  Second = 1
  Minute = 2
  Hour = 4
  Day = 8
  Stamps <- EitherSide
  Start = 10
  Prompt = TRUE
  MayReconfigure = FALSE
  MaxTime = 13
  MaxBoots = 1
INVARIANTS
  TypeOK
  AtMostOnce
  OnlyItselfRepeats
  
  DeclaredIsEnforced
PROPERTIES
  NoncesAgeOut
