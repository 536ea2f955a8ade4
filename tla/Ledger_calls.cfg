CONSTANTS
  k1 = k1  k2 = k2  p1 = p1  p2 = p2  c1 = c1  c2 = c2  c3 = c3
  Keys = {k1, k2}
  Payloads = {p1, p2}
  Calls = {c1, c2, c3}
  Intended <- MCIntended
  After <- MCAfter
  MaxStrays = 2
  MaxFaults = 2
SPECIFICATION FairSpec
INVARIANTS TypeOK AtMostOnce OkIsCommitted TwiceOnlyAfterFault
PROPERTY AnsweredWithoutFaults
CHECK_DEADLOCK FALSE
