SPECIFICATION Spec
CONSTANTS
  Editors = {e1, e2}
  Addresses = {"p1", "p2"}
  Networks = {"n1", "n2"}
  MaxOutside = 2
SYMMETRY Alike
INVARIANTS
  PathNeverTorn
  LossOnlyInWindow
CHECK_DEADLOCK FALSE
