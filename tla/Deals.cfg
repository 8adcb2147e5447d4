CONSTANTS
  s1 = s1
  s2 = s2
  o1 = o1
  o2 = o2
  NoOffer = NoOffer
  Packages = {1}
  Envelopes = {1, 2}
  Staff = {s1, s2}
  MaxAuthority = 1
  Emitted = {"completed", "declined"}
  Offers = {o1, o2}
  Reps = {r1}
  Assignments = {a1}
  Strategies = {"assignment"}
  Terms = {"due"}
  Reasons = {"fallout"}
  MaxVersion = 2
  MaxSelections = 2
SPECIFICATION DealsSpec
SYMMETRY Symmetry
INVARIANTS
  RowsTyped
  OneSignable
  SignableIsTracked
  OneBuyerHoldsTheDeal
  CreditedOnce
PROPERTIES
  ExecutedOnAuthority
CHECK_DEADLOCK FALSE
