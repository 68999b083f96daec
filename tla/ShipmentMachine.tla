-------------------------- MODULE ShipmentMachine --------------------------
(***************************************************************************)
(* What the shipment state machine promises: a shipment is booked as       *)
(* PENDING, and its status moves only along the transition table.  This is *)
(* the abstract machine that the request handlers of ShipmentLifecycle are *)
(* held against.                                                           *)
(***************************************************************************)
EXTENDS ShipmentStatuses

CONSTANT Shipments

VARIABLE status

Init == status = [s \in Shipments |-> "NONE"]

Book(s) ==
  /\ status[s] = "NONE"
  /\ status' = [status EXCEPT ![s] = "PENDING"]

Move(s) ==
  /\ status[s] # "NONE"
  /\ \E next \in ALLOWED_TRANSITIONS[status[s]] :
       status' = [status EXCEPT ![s] = next]

Next == \E s \in Shipments : Book(s) \/ Move(s)

Spec == Init /\ [][Next]_status
=============================================================================
