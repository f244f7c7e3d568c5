CONSTANTS
  p1 = p1
  p2 = p2
  p3 = p3
  u1 = u1
  u2 = u2
  u3 = u3
  u4 = u4
  None = none
  Client = {p1, p2, p3}
  Update = {u1, u2, u3}
  Modes = {"cas", "mutate"}
  MaxDeaths = 1
SPECIFICATION StateSpec
INVARIANTS ConflictMeansUnwritten NoLostUpdate
PROPERTY ImplementsVersionedRegister
CHECK_DEADLOCK FALSE
SYMMETRY BothSymmetry
