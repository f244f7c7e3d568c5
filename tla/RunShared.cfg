CONSTANTS
  c1 = c1
  c2 = c2
  rule1 = rule1
  rule2 = rule2
  note = note
  None = none
  Coordinator = {c1, c2}
  FollowUp = {rule1, note}
  Contract = {rule1}
  MaxRounds = {1, 2}
  MaxRework = 2
SPECIFICATION Spec
INVARIANTS ResearchCalledOnce EffectsExactlyOnce CloseoutSound
PROPERTY ImplementsRunProgress
SYMMETRY CoordinatorSymmetry
