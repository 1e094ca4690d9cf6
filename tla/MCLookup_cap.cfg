SPECIFICATION Spec
CONSTANTS
  PeerCount = 12
  Holders = {}
  K = 3
  Alpha = 1
  MaxSeeds = 3
  MaxRounds = 12
  StopOnProviders = FALSE
  MayFail = TRUE
  MayPanic = FALSE
  Answers <- NextGeneration
  MaxCloser = 3
INVARIANT CapIsHarmless
