SPECIFICATION Spec
CONSTANTS
  r1 = r1
  r2 = r2
  r3 = r3
  n1 = n1
  n2 = n2
  NoNode = NoNode
  Requests <- TwoRequests
  Nodes <- TwoNodes
  MaxInFlight = 1
  Replayable <- OnlyFirst
  MaxResends = 1
SYMMETRY NodeSymmetry
INVARIANT UnreachedNotStarted
CHECK_DEADLOCK FALSE
