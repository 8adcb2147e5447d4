CONSTANTS
  c1 = c1
  s1 = s1
  e1 = e1
  None = None
  Callers = {c1}
  Entries = {e1}
  Sessions = {s1}
  Attempts = {a1, a2, a3}
  CallerOf <- LoneCallerOf
  OwnerOf <- LoneOwnerOf
  LineLimit = 1
  MaxSellerAttempts = 2
  Modes = {"browserPrepared", "cellPrepared"}
  Said = {"no_answer", "left_voicemail", "wrong_number", "callback", "warm", "final"}
  Leavers = {}
SPECIFICATION Spec
SYMMETRY AttemptSymmetry
INVARIANTS
  TypeOK
  CountExact
PROPERTY ImplementsContract
CHECK_DEADLOCK FALSE
