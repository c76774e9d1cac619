SPECIFICATION LogSpec
CONSTANTS
  r1 = r1
  r2 = r2
  n1 = n1
  n2 = n2
  NoNode = NoNode
  Requests <- TwoRequests
  Nodes <- TwoNodes
  MaxInFlight = 1
  Replayable <- OnlySecond
  MaxResends = 1
  Spelled <- Spellings
  Asks <- AskedOf
  Informs <- OnlyFirst
INVARIANT StatusIsFinal
CHECK_DEADLOCK FALSE
