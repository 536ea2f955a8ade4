CONSTANTS
  c1 = c1  c2 = c2  u1 = u1  u2 = u2  r1 = r1  r2 = r2  k1 = k1  k2 = k2
  Commands = {c1}
  Callers = {u1, u2}
  Replicas = {r1}
  Home <- OneHome
  MaxAttempts = 1
  PublishMaxAttempts = 1
  QueueCap = 1
  Keys = {k1, k2}
  Reports = {"acked", "nacked"}
  MaxCalls = 3
  MaxFaults = 0
  MaxAdminOps = 1
SPECIFICATION Spec
SYMMETRY ReceiptKeys
INVARIANTS TypeOK InFlightExact AttemptCeiling
PROPERTY CommandHistory
CHECK_DEADLOCK FALSE
