CONSTANTS
  p1 = p1
  p2 = p2
  p3 = p3
  Gone = gone
  Proc = {p1, p2}
  Retries = 1
  MaxCrashes = 0
  WriteFaults = FALSE
  PlainAcquire = FALSE
  InitialLocks <- OnlyStale
  LoneSurvivor = FALSE
SPECIFICATION Spec
INVARIANT NothingReplacesTheInspectedLock
