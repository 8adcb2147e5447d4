CONSTANTS
  w1 = w1
  w2 = w2
  m1 = m1
  a1 = a1
  email = email
  text = text
  s1 = s1
  c1 = c1
  c2 = c2
  None = None
SPECIFICATION Spec
PROPERTIES
  ReleasedSettles
  EveryMailAccounted
  EveryLaneHasItsTurn
  ImportsSettle
CHECK_DEADLOCK FALSE
