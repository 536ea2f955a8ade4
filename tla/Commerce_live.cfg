CONSTANTS
  c1 = c1
  c2 = c2
  Callers <- TwoCallers
  Payments <- TwoOf
  Lines <- OneOf
  Slot <- OneSlot
  Keys <- NoneOf
  Reports <- NoneOf
  SpentKeys <- NoneOf
  RefundKeys <- ThreeOf
  RefundAmount <- MixedRefunds
  Total = 2
  Calls = {"session", "cancel", "mark", "refund", "probe", "unknown", "cancelSession"}
  Targets = {"authorized", "captured", "expired"}
  Arbitration = TRUE
  Surfaces = {"grpc"}
SPECIFICATION FairSpec
CHECK_DEADLOCK FALSE
INVARIANTS TypeOK RefundOvershoot
PROPERTY CapturedIsPromoted
