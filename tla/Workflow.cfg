SPECIFICATION FairSpec
CONSTANTS
  Configs <- FullOrLess
  Caps = {1, 2}
  Attempts = 2
  MaxRework = 2
  MaxFailures = 2
INVARIANTS
  CoderIsCleared
  ApprovedWork
  RoundsAreBounded
  CarryOverIsCurrent
PROPERTIES
  GatesBeforeReview
  RunSettlesOrPauses
  ImplementsRunProgress
CHECK_DEADLOCK FALSE
