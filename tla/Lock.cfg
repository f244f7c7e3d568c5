CONSTANTS
  p1 = p1
  p2 = p2
  p3 = p3
  Gone = gone
  Proc = {p1, p2}
  Retries = 3
  MaxCrashes = 1
  WriteFaults = TRUE
  PlainAcquire = TRUE
  InitialLocks <- AnyLeftover
  LoneSurvivor = TRUE
SPECIFICATION FairSpec
PROPERTIES ImplementsAdvisoryLock ResumeIsNeverStranded
