SPECIFICATION LimitsSpec
CONSTANT
  Given <- TwoGiven
INVARIANTS
  ConfiguredWell
  FileSettlesLimits
CHECK_DEADLOCK FALSE
