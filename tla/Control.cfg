CONSTANTS
  task = task
  c1 = c1
  c2 = c2
  front = front
  slot = slot
  Root = task
  Child = {c1, c2}
  Caller = {front}
  Admission = {slot}
  None = none
  MaxAttempts = 1
  MaxQueued = 1
  MaxSpecs = 2
  MaxTurns = 4
  MaxActs = 2
  MaxCrashes = 1
SPECIFICATION FairSpec
INVARIANTS OneExecutionPerRun RetriesAreCounted
PROPERTIES CancelledNeverCompletes SpecsBecomeChildren DueRetryIsServed
CHECK_DEADLOCK FALSE
