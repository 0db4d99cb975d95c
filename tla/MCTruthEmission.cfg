CONSTANTS
  o1 = o1  o2 = o2  o3 = o3  s1 = s1  s2 = s2  NoOwner = NoOwner
  Site = {s1, s2}
  Observation = {o1, o2, o3}
  SiteOf <- TwoSites
  Workers = 2
  MaxDisturb = 3
SPECIFICATION FairSpec
INVARIANTS TypeOK AtMostOnce LocalIsBacked RemoteIsServed
PROPERTY ObservedIsEmitted
CHECK_DEADLOCK FALSE
