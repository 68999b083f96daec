\* Two requests at once: both shipment handlers of any kind, both calls of
\* createTrackingEvent, or one of each.
SPECIFICATION MCSpec
CONSTANTS
  s1 = s1
  h1 = h1
  h2 = h2
  t1 = t1
  t2 = t2
  k1 = k1
  Shipments = {s1}
  Handlers = {h1, h2}
  Kinds = {"portal", "cancel", "advance", "pod", "failed", "assign"}
  CashOnDelivery = FALSE
  Trackers = {t1, t2}
  Keys = {k1}
  Reports = {"EXCEPTION", "RETURN_STARTED"}
  MaxCalls = 2
  Targets = {"EXCEPTION", "OUT_FOR_DELIVERY", "DELIVERED"}
  MaxStatuses = 3
  MaxInFlight = 2
  MaxFaults = 1
SYMMETRY MCSymmetry
INVARIANTS
  Grounded
  DeliveredIsDated
  FlagMatchesSnapshot
  EventsGrounded
  ToldOnce
  OnlyFaultsHide
\* Requests may cease to come.
CHECK_DEADLOCK FALSE
