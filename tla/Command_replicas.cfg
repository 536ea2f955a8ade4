CONSTANTS
  c1 = c1  c2 = c2  u1 = u1  u2 = u2  r1 = r1  r2 = r2  k1 = k1  k2 = k2
  Commands = {c1}
  Callers = {u1}
  Replicas = {r1, r2}
  Home <- MCHome
  MaxAttempts = 1
  PublishMaxAttempts = 3
  QueueCap = 1
  Keys = {k1}
  Reports = {"acked"}
  MaxCalls = 2
  MaxFaults = 1
  MaxAdminOps = 0
SPECIFICATION FairSpec
INVARIANT PublishBound
PROPERTY AttemptsSettle
CHECK_DEADLOCK FALSE
