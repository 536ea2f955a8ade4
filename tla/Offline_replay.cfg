CONSTANTS
  e1 = e1  e2 = e2  m1 = m1  p1 = p1  p2 = p2
  Events = {e1, e2, m1}
  Streams = {"cash", "commerce", "base"}
  BaseStream = "base"
  StreamOf <- MCStreamOf
  Cash = {m1}
  Traced = {m1}
  Canonical = {e1, e2}
  GapTolerant = {TRUE, FALSE}
  Pushes = {p1, p2}
  MaxSeq = 3
  MaxFaults = 1
SPECIFICATION Spec
SYMMETRY Alike
INVARIANT DoneIsApplied
PROPERTY CursorMonotone
CHECK_DEADLOCK FALSE
