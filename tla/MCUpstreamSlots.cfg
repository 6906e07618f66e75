SPECIFICATION FairSlotsSpec
CONSTANTS
  Requests = {r1, r2, r3, r4}
  Slots = 2
INVARIANTS
  SlotsSound
PROPERTIES
  AllServed
