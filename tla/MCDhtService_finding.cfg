SPECIFICATION Spec
CONSTANTS
  Keys = {k1}
  Self = self
  Remotes = {r1}
  Coins = {}
  NoCoin = NoCoin
  Verified = verified
  Hearsay = hearsay
  RawVerified = rawVerified
  RawHearsay = rawHearsay
  MaxProvidersPerKey = 2
  MaxTotalRecords = 2
  ProviderTtl = 2
  DiscoveryCacheTtl = 1
  Finders = {f1}
  Republishers = {}
  Collectors = {g1}
  Claims = {1, 4}
  MaxTime = 1
  MaxAdmissions = 2
  MaxFound = 2
INVARIANTS
  TypeOK
  HearsayStaysPrivate
  KeptAsAdmitted
  ForgottenUnlessWalking
  AnswersLoseNobody
PROPERTY HoldersLeaveOneAtATime
