SPECIFICATION Spec
CONSTANTS
  Callers = {c1, c2}
  Labels = {alice, bob}
  Rate = 2
  Whole = 7
  Second = 2
  BurstArg = 1
  MaxClock = 6
  MaxGrants = 4
INVARIANTS TypeOK OnlySlipExceedsRate
PROPERTY RetryAfterKept
CHECK_DEADLOCK FALSE
