CONSTANTS
  c1 = c1
  c2 = c2
  s1 = s1
  s2 = s2
  s3 = s3
  e1 = e1
  e2 = e2
  a1 = a1
  a2 = a2
  a3 = a3
  None = None
  Callers = {c1, c2}
  Entries = {e1, e2}
  Sessions = {s1, s2}
  Attempts = {a1, a2}
  CallerOf <- PairCallerOf
  OwnerOf <- PairOwnerOf
  LineLimit = 1
  MaxSellerAttempts = 2
  Modes = {"browserPrepared"}
  Said = {"no_answer"}
  Leavers = {}
SPECIFICATION Spec
SYMMETRY PairSymmetry
INVARIANTS
  CapacityRespected
CHECK_DEADLOCK FALSE
