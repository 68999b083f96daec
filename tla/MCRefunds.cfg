\* Three refunds of a payment of 5 and three requests at once.
SPECIFICATION Spec
CONSTANTS
  k1 = k1
  k2 = k2
  k3 = k3
  h1 = h1
  h2 = h2
  h3 = h3
  Keys = {k1, k2, k3}
  Amount <- MCAmount
  Paid = 5
  Handlers = {h1, h2, h3}
SYMMETRY MCSymmetry
INVARIANTS NeverOverRefunded BooksAgree PaidWasApproved
PROPERTIES OutcomesAreFinal
\* Every refund may have been settled.
CHECK_DEADLOCK FALSE
