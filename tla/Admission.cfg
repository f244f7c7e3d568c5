CONSTANTS
  sA = sA
  sB = sB
  chat = chat
  worker = worker
  title = title
  other = other
  None = none
  Uncertain = uncertain
  NoHint = nohint
  Scope <- TwoScopes
  Request <- FourRequests
  ScopeOf <- ScopeOfRequest
  PriorityOf <- ClassOfRequest
  PriorityClasses <- DefaultClasses
  MaxConcurrent = 1
  QueueCapacity = 2
  MaxWait = 2
  RetryDelay = 1
  CooldownMax = 2
  Hints <- SomeHints
  MaxTime = 3
  MaxLimits = 1
  MaxFaults = 1
  MaxCrashes = 1
SPECIFICATION FairSpec
INVARIANTS PermitsAccounted NoPermitIdles
PROPERTIES NoProbeDuringCooldown ArrivalsWaitTheirTurn AgedNotOvertaken UnlimitedRequestResumes
CHECK_DEADLOCK FALSE
