SPECIFICATION Spec
CONSTANTS
  v1 = v1
  v2 = v2
  Names <- FourNames
  Self = 4
  RoleNodes <- TwoNodes
  Models = {}
  Slots <- NoModelSlots
  Healths <- NoHealth
  RTTs = {1}
  StaleAfter = 0
  Leavers = {1, 2}
  MaxClock = 1
  Viewers <- TwoViewers
  Allowlists <- NoneOneOrTwo
SYMMETRY ViewerSymmetry
INVARIANTS TypeOK AllowlistAuthoritative PreferenceHolds
PROPERTY StickyWhileSteady
CHECK_DEADLOCK FALSE
