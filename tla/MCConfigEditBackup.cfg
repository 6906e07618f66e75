SPECIFICATION Spec
CONSTANTS
  Editors = {e1, e2}
  Addresses = {"p1", "p2"}
  Networks = {"n1", "n2"}
  MaxOutside = 0
SYMMETRY Alike
INVARIANT
  ReplacedHasBackup
CHECK_DEADLOCK FALSE
