SPECIFICATION FairSpec
CONSTANTS
  PeerCount = 7
  Holders = {h1}
  K = 2
  Alpha = 2
  MaxSeeds = 3
  MaxRounds = 4
  StopOnProviders = TRUE
  MayFail = TRUE
  MayPanic = TRUE
  Answers <- AnyAnswer
  MaxCloser = 1
INVARIANTS
  TypeOK
  CapIsHarmlessUnlessManyFail
  KClosestWereAsked
  FindsTheClosest
PROPERTIES
  NeverAskedAgain
  FirstRecordWins
  Terminates
