\* Three mutations, batches of two, two calls at once and one fault.
SPECIFICATION Spec
CONSTANTS
  m1 = m1
  m2 = m2
  m3 = m3
  Mutations = {m1, m2, m3}
  Kind <- MCKind
  BatchSize = 2
  Requests = {1, 2}
  MaxFaults = 1
INVARIANTS SyncedWasMade RepeatNeedsFault
PROPERTIES EverySyncs
\* The driver may have thrown everything away.
CHECK_DEADLOCK FALSE
