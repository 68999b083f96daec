\* Two PATCHes of one shipment at once.
SPECIFICATION Spec
CONSTANTS
  s1 = s1
  h1 = h1
  h2 = h2
  Shipments = {s1}
  Handlers = {h1, h2}
  Kinds = {"portal"}
  CashOnDelivery = FALSE
PROPERTIES
  FollowsMachine
\* Requests may cease to come.
CHECK_DEADLOCK FALSE
