SPECIFICATION FairSpec
CONSTANTS
  d1 = d1  d2 = d2
  Dialers = {d1, d2}
  Servers <- AllServers
  Credentials <- AllCredentials
  Addresses = {"p1", "p2"}
  Pins = {"k1", "k2"}
  MaxChanges = 2
INVARIANTS
  NoFallback
  HandedOverOpen
  NothingLeaked
  MutualTrust
PROPERTIES
  DialEnds
CHECK_DEADLOCK FALSE
