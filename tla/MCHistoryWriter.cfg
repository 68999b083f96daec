\* One shipment, two calls with three points, two processes, two faults.
SPECIFICATION Spec
CONSTANTS
  s1 = s1
  k1 = k1
  k2 = k2
  w1 = w1
  w2 = w2
  Shipments = {s1}
  Keys = {k1, k2}
  Points <- MCPoints
  Grace = 1
  MaxLen = 1
  Writers = {w1, w2}
  BatchSize = 2
  MaxFaults = 2
INVARIANTS OneSeqEach HotIsRecorded AckedIsStored OnlyFaultsStrand
PROPERTIES EntriesAreStored
\* Every call may have ended.
CHECK_DEADLOCK FALSE
