CONSTANTS
  Intervals <- Historic
  Issued <- RuntimeIntervals
  InitialDisks <- AnyDisk
  MaxFaults = 2
  MaxCrashes = 2
SPECIFICATION FairSpec
INVARIANTS OpenJournalIsContiguous CommittedSurvives
PROPERTY EveryAppendSettles
CHECK_DEADLOCK FALSE
