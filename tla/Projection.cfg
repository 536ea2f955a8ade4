SPECIFICATION Spec
CONSTANTS
  Procs = {p1, p2}
  MaxMsg = 3
  Type <- MCType
  Key <- MCKey
  Payload <- MCPayload
  Samples = {s1, s2}
  MaxDeliver = 3
  MemorySize = 1
  MaxFaults = 2
SYMMETRY Symmetry
INVARIANTS TypeOK CriticalOnce AckedIsStored InventoryBound
CHECK_DEADLOCK FALSE
