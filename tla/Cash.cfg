CONSTANTS
  x1 = x1  x2 = x2  h1 = h1  h2 = h2
  Payments = {p1}
  Confirms = {f1}
  Closes = {x1, x2}
  Hashes = {h1, h2}
  Payload <- MCPayload
  Currencies = {"VND", "vnd"}
  CurrencyOf <- MCCurrencyOf
  Named <- MCNamed
  MaxOpened = 2
  MaxConfirms = 2
  MaxFaults = 1
SPECIFICATION Spec
SYMMETRY Alike
CONSTRAINT OneOddity
INVARIANTS TypeOK NothingMissed CountedPerWrite AnswerIsStored
CHECK_DEADLOCK FALSE
