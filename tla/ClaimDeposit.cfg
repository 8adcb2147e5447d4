CONSTANTS
  Offers = {o1, o2}
  Reps = {r1}
  Assignments = {a1}
  Strategies = {"assignment"}
  Terms = {"due"}
  Reasons = {"fallout"}
  MaxVersion = 2
  MaxSelections = 2
  NoOffer = NoOffer
SPECIFICATION RoomSpec
INVARIANT DocumentedDepositCounts
CHECK_DEADLOCK FALSE
