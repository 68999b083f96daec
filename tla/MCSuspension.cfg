\* One invoice, two callers.
SPECIFICATION Spec
CONSTANTS
  e1 = e1
  fraud = fraud
  closing = closing
  w1 = w1
  w2 = w2
  w3 = w3
  Callers = {w1, w2}
  Causes = {e1, fraud, closing}
  Closing = closing
  Invoices = {e1}
  Steps = 2
  SuspendAt = 2
  MaxFaults = 1
  MaxActs = 2
INVARIANTS ActiveOnlyWithoutCauses
\* Everything may have ended.
CHECK_DEADLOCK FALSE
