SPECIFICATION Spec
CONSTANTS
  PeerCount = 5
  Holders = {}
  K = 2
  Alpha = 2
  MaxSeeds = 5
  MaxRounds = 5
  StopOnProviders = FALSE
  MayFail = TRUE
  MayPanic = FALSE
  Answers <- AnyAnswer
  MaxCloser = 2
INVARIANT ReturnedWereQueried
