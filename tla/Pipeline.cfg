SPECIFICATION LiveSpec
CONSTANTS
  s = s
  Handlers = {h1, h2}
  Workers = {w1, w2}
  Capacity = 2
  MaxMsgs = 4
  Keys = {s}
  Kind <- MCKind
INVARIANTS TypeOK NothingLost
PROPERTY AcceptedSettles
CHECK_DEADLOCK FALSE
