CONSTANTS
  NoDelivery = NoDelivery
  Workers = {w1, w2}
  Emails = {}
  Texts = {text}
  Refusals = {}
  Blocks = {}
  Controls = {"approve", "release", "pause", "resume"}
  MaxVersion = 6
  MaxFaults = 2
SPECIFICATION OutreachSpec
INVARIANT NoDuplicateText
CHECK_DEADLOCK FALSE
