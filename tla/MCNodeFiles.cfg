SPECIFICATION Spec
CONSTANTS
  Makers = {m1, m2}
  Servers = {s1}
  Clients = {k1}
  Asked <- ThreeKinds
  Nobody = Nobody
SYMMETRY Alike
INVARIANTS
  UnmixedNode
  CreatedStaysComplete
  IdentityMatches
  ReadableMeansLoadable
CHECK_DEADLOCK FALSE
