SPECIFICATION FairSpec
CONSTANTS
  a = a
  u = u
  c1 = c1
  c2 = c2
  c3 = c3
  Peers = {a, u}
  Agents = {a}
  Conns = {c1, c2, c3}
  PeerOf <- MCPeerOf
  Clients = {w}
  Forwards = {f1, f2}
  StreamLimit = 1
  StatusCap = 1
  OutCap = 1
  UpdateCap = 1
  MaxArrivals = 4
INVARIANTS TypeOK LatestIsNewest DisplayAgrees
PROPERTIES DisplaySettles 
CHECK_DEADLOCK FALSE
