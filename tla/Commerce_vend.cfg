CONSTANTS
  c1 = c1
  c2 = c2
  Callers <- TwoCallers
  Payments <- OneOf
  Lines <- ThreeOf
  Slot <- TwoSlots
  Keys <- FourOf
  Reports <- MixedReports
  SpentKeys <- LastKey
  RefundKeys <- NoneOf
  RefundAmount <- NoRefunds
  Total = 1
  Calls = {"session", "webhook", "mark", "advance", "confirm", "fail"}
  Targets = {"authorized", "captured"}
  Arbitration = FALSE
  Surfaces = {"grpc", "http"}
SPECIFICATION Spec
SYMMETRY Concurrent
CHECK_DEADLOCK FALSE
INVARIANT DispensedMeansMoved
