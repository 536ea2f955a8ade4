CONSTANTS
  w1 = w1
  w2 = w2
  Events <- OneEvent
  Workers <- MCWorkers
  BatchLimit = 1
  UseLease = TRUE
  RowMax <- OneRowMax
  PolicyMax = 2
  MaxAborts = 2
  MaxAdminOps = 3
SPECIFICATION FairSpec
CHECK_DEADLOCK FALSE
INVARIANTS TypeOK PublishedWasStored ColumnsAgree CeilingOvershoot
PROPERTIES ImplementsContract EventuallySettled
