SPECIFICATION Spec
CONSTANTS
  v6 = v6
  v6full = v6full
  other6 = other6
  marker = marker
  v4 = v4
  mapped4 = mapped4
  name = name
  overlong = overlong
  Hosts <- MCHosts
  FamilyRank <- MCFamilyRank
  Endpoint <- MCEndpoint
  Overlong <- MCOverlong
  Candidates <- MCCandidates
  MaxAddresses = 3
  MaxDial = 2
  MaxCollected = 4
INVARIANTS
  TypeOK
  AdmissionKeepsTheBest
  DialListIsBest
  FallbackIsDialed
  BestIsDialedFirst
PROPERTY HopsAgree
