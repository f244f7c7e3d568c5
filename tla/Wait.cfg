CONSTANTS
  c1 = c1
  c2 = c2
  Caller = {c1, c2}
  Nothing = nothing
  Interval = 2
  MaxTime = 3
  MaxOps = 3
  MaxCrashes = 1
SPECIFICATION WaitFairSpec
INVARIANTS UncertainIsWitnessed
PROPERTY DeadlineEndsTheWait
CHECK_DEADLOCK FALSE
