\* Three refunds of a payment of 5 and two requests at once.
SPECIFICATION Spec
CONSTANTS
  k1 = k1
  k2 = k2
  k3 = k3
  h1 = h1
  h2 = h2
  h3 = h3
  Keys = {k1, k2, k3}
  Amount <- MCAmount
  Paid = 5
  Handlers = {h1, h2}
INVARIANTS NoOverRefunds
\* Every refund may have been settled.
CHECK_DEADLOCK FALSE
