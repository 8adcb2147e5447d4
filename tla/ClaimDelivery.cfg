CONSTANTS
  Packages = {1}
  Envelopes = {1, 2}
  Staff = {s1, s2}
  Emitted = {"completed", "declined"}
  MaxAuthority = 1
SPECIFICATION Spec
INVARIANT DeliveryKept
CHECK_DEADLOCK FALSE
