SPECIFICATION Spec
CONSTANTS
  Keys = {k1, k2}
  Peers = {p1, p2, p3, p4}
  Coins = {}
  NoCoin = NoCoin
  MaxProvidersPerKey = 3
  MaxTotalRecords = 4
  MaxTime = 1
  Expiries = {1, 2}
  MaxAdmissions = 5
  MaxAnnounced = 1
SYMMETRY StoreSymmetry
INVARIANTS
  TypeOK
  OneEntryPerProvider
  SeqsDistinct
  WithinCaps
  NewcomersAdmitted
  SnapshotAgreesWithGet
PROPERTIES
  EstablishedHolderStays
  KeepsHolders
