SPECIFICATION FairSpec
CONSTANTS
  m1 = m1
  m2 = m2
  r1 = r1
  r2 = r2
  s1 = s1
  s2 = s2
  s3 = s3
  Messages = {m1, m2}
  Receivers = {r1, r2}
  Streams = {s1, s2, s3}
  To <- MCTo
  Owner <- MCOwner
  RequestCap = 1
  SubscriptionCap = 1
  MaxArrivals = 3
  MaxRestarts = 1
INVARIANTS TypeOK NothingLost NothingPassesBy
PROPERTY DistributionEnds
CHECK_DEADLOCK FALSE
