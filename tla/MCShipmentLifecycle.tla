------------------------ MODULE MCShipmentLifecycle ------------------------
(* An instance of ShipmentLifecycle for TLC: two PATCHes of one shipment.   *)
EXTENDS ShipmentLifecycle, TLC

CONSTANTS s1, h1, h2

\* Two handlers take the same steps; no property names one of them.
MCSymmetry == Permutations({h1, h2})
=============================================================================
