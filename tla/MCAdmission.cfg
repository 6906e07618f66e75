SPECIFICATION FairSpec
CONSTANTS
  c1 = c1  c2 = c2  c3 = c3  c4 = c4  p1 = p1  p2 = p2  p3 = p3
  Conns = {c1, c2, c3, c4}
  Peers = {p1, p2, p3}
  PeerOf <- TwoOneOne
  MaxConnectionsPerPeer = 1
  MaxConnections = 1
  ConnectionsPerMinute = 1
  RequestsPerMinute = 1
  MaxRequestsPerSession = 1
  MaxTrackedPeers = 2
  Minute = 1
  Second = 1
  MaxTime = 1
INVARIANTS
  LivePeersTracked
  RateLimitsHold
  BudgetMatchesConnections
PROPERTIES
  WindowsAdvance
  RefusalsJustified
  ImplementsPolicy
  CancelReturns
