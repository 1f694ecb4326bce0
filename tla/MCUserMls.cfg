SPECIFICATION Spec
CONSTANTS
  Messages = {"m1"}
  Receivers = {"u"}
  User = "u"
  Streams = {s1, s2}
  To <- MCTo
  Owner <- MCOwner
  RequestCap = 1
  SubscriptionCap = 1
  Packages = {"k1"}
  Wanted = 1
  Batch = 2
  ForwardCap = 1
  MaxArrivals = 4
INVARIANTS TypeOK StateIsComplete
PROPERTY SavedNeverGoesBack
SYMMETRY Sessions
CHECK_DEADLOCK FALSE
