SPECIFICATION Spec
CONSTANTS
  Keys = {k1}
  Self = self
  Remotes = {r1}
  Coins = {c1}
  NoCoin = NoCoin
  Verified = verified
  Hearsay = hearsay
  RawVerified = rawVerified
  RawHearsay = rawHearsay
  MaxProvidersPerKey = 2
  MaxTotalRecords = 2
  ProviderTtl = 1
  DiscoveryCacheTtl = 1
  Finders = {f1}
  Republishers = {m1}
  Collectors = {}
  Claims = {1, 4}
  MaxTime = 1
  MaxAdmissions = 2
  MaxFound = 1
INVARIANT RetractStands
