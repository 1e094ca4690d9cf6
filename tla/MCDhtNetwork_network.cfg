SPECIFICATION Spec
CONSTANTS
  h = h
  r1 = r1
  r2 = r2
  f1 = f1
  Holder = h
  Replicas = {r1, r2}
  Finders = {f1}
  Announcers = {"announce"}
  Ttl = 6
  CacheTtl = 1
  Interval = 2
  PassTime = 1
  Lead = 1
  Skew = 1
  Clocks <- MCClocks
  MaxFaults = 1
INVARIANTS
  TypeOK
  KeptIsServed
  GoneInTime
  CacheFollows
PROPERTY Refills
