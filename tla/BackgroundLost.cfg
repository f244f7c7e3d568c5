CONSTANTS
  c1 = c1
  w1 = w1
  Console = {c1}
  Other = {w1}
  None = none
  MaxNotices = 2
  MaxCancels = 1
  MaxResumes = 1
SPECIFICATION Spec
INVARIANTS EveryNoticeReachesATurn
CHECK_DEADLOCK FALSE
