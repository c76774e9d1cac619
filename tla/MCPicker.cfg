SPECIFICATION Spec
CONSTANTS
  c1 = c1
  c2 = c2
  m1 = m1
  m2 = m2
  NoModel = NoModel
  Names <- ThreeNames
  Self = 3
  RoleNodes <- TwoNodes
  Models <- TwoModels
  Slots <- FewSlots
  Healths <- AlwaysHealthy
  RTTs = {1, 2}
  StaleAfter = 1
  Leavers = {}
  MaxClock = 1
  Callers <- TwoCallers
  MaxPicks = 2
SYMMETRY CallerSymmetry
INVARIANTS TypeOK HeldExactlyInFlight NoDoubleCharge
PROPERTIES SpreadsBurst TakesTurns KeepsReserve
CHECK_DEADLOCK FALSE
