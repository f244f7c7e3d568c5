CONSTANTS
  l1 = l1
  l2 = l2
  l3 = l3
  Launcher = {l1, l2}
  Gone = gone
  None = none
SPECIFICATION Spec
INVARIANTS OperatorOwnsTheRun SettledIsNotReplayed EndedAttemptIsRecorded
CHECK_DEADLOCK FALSE
SYMMETRY LauncherSymmetry
VIEW StandaloneView
