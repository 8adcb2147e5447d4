CONSTANTS
  c1 = c1
  c2 = c2
  s1 = s1
  s2 = s2
  s3 = s3
  e1 = e1
  e2 = e2
  a1 = a1
  a2 = a2
  a3 = a3
  None = None
  Callers = {c1}
  Entries = {e1, e2}
  Sessions = {s1, s2}
  Attempts = {a1, a2}
  CallerOf <- SoloCallerOf
  OwnerOf <- SoloOwnerOf
  LineLimit = 1
  MaxSellerAttempts = 2
  Modes = {"browserPrepared", "cellPrepared"}
  Said = {"no_answer", "left_voicemail", "wrong_number", "callback", "warm", "final"}
  Leavers = {}
SPECIFICATION Spec
SYMMETRY SoloSymmetry
INVARIANTS
  OpenLegHeld
  CurrentIsUndecided
  OneAttemptAtATime
  StateMatchesLeg
PROPERTIES
  NeverReleasedAfterDispatch
  PauseRespected
CHECK_DEADLOCK FALSE
