CONSTANTS
  c1 = c1
  c2 = c2
  Callers <- TwoCallers
  Payments <- TwoOf
  Lines <- TwoOf
  Slot <- SharedSlot
  Keys <- OneOf
  Reports <- WholeSlotOnly
  SpentKeys <- NoneOf
  RefundKeys <- NoneOf
  RefundAmount <- NoRefunds
  Total = 1
  Calls = {"cash", "webhook", "session", "mark", "advance", "confirm", "cancel", "cancelSession"}
  Targets = {"captured"}
  Arbitration = TRUE
  Surfaces = {"grpc", "http"}
SPECIFICATION Spec
SYMMETRY Concurrent
CHECK_DEADLOCK FALSE
INVARIANTS MoneyFirst PaidHasWinner OwnedByCapture
PROPERTY ImplementsMoneyContract
