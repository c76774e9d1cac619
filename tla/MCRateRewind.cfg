SPECIFICATION Spec
CONSTANTS
  Callers = {c1, c2}
  Labels = {alice}
  Rate = 1
  Whole = 3
  Second = 2
  BurstArg = 2
  MaxClock = 6
  MaxGrants = 8
INVARIANT SustainedRate
CHECK_DEADLOCK FALSE
