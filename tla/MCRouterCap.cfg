SPECIFICATION Spec
CONSTANTS
  r1 = r1
  r2 = r2
  r3 = r3
  n1 = n1
  n2 = n2
  NoNode = NoNode
  Requests <- ThreeRequests
  Nodes <- TwoNodes
  MaxInFlight = 2
  Replayable <- OnlyFirst
  MaxResends = 1
SYMMETRY Symmetry
INVARIANTS TypeOK TokenConservation BuffersBounded SentOnce ReservedWhileForwarding AnsweredOnce DeadlineOnlyWhileReading
CHECK_DEADLOCK FALSE
