SPECIFICATION Spec
CONSTANTS
  Unset = Unset
  Bad = Bad
  Blank = Blank
  key = key
  n1 = n1
  n2 = n2
  MaxInt = 127
  DefaultBody = 16
  Connections = {c1, c2}
  Peers = {p1, p2}
  Environments <- FewChanges
INVARIANTS TypeOK ModeChosen SizesExact DrainBeforeLeave LeavesOnEveryPath
PROPERTIES ComesDown StopsWhenTold PeersPolled
CHECK_DEADLOCK FALSE
