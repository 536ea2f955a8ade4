CONSTANTS
  e1 = e1  e2 = e2  m1 = m1  p1 = p1  p2 = p2
  Events = {e1, e2, m1}
  Streams = {"cash", "commerce", "base"}
  BaseStream = "base"
  StreamOf <- MCStreamOf
  Cash = {m1}
  Traced = {}
  Canonical = {e1, e2}
  GapTolerant = {TRUE}
  Pushes = {p1}
  MaxSeq = 5
  MaxFaults = 2
SPECIFICATION FairSpec
INVARIANT TypeOK
PROPERTY EventsSettle
CHECK_DEADLOCK FALSE
