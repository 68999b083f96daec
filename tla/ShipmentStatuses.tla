-------------------------- MODULE ShipmentStatuses --------------------------
(***************************************************************************)
(* The status vocabularies of a shipment and the tables between them: the  *)
(* ten statuses a Shipment row stores, the twenty of packages/             *)
(* tracking-core, the transitions each of the two allows, and the maps     *)
(* from one to the other.                                                  *)
(***************************************************************************)
EXTENDS Naturals, Sequences

ShipmentStatus ==
  {"PENDING", "PROCESSING", "PICKED_UP", "IN_TRANSIT", "OUT_FOR_DELIVERY",
   "DELIVERED", "FAILED_DELIVERY", "RETURNED", "CANCELLED", "EXCEPTION"}

\* What PATCH /shipments/:id/status accepts, from the status it has read.
ALLOWED_TRANSITIONS ==
  [PENDING          |-> {"PROCESSING", "CANCELLED"},
   PROCESSING       |-> {"PICKED_UP", "CANCELLED"},
   PICKED_UP        |-> {"IN_TRANSIT", "EXCEPTION", "FAILED_DELIVERY"},
   IN_TRANSIT       |-> {"OUT_FOR_DELIVERY", "EXCEPTION", "FAILED_DELIVERY"},
   OUT_FOR_DELIVERY |-> {"DELIVERED", "FAILED_DELIVERY", "EXCEPTION"},
   DELIVERED        |-> {"RETURNED"},
   FAILED_DELIVERY  |-> {"OUT_FOR_DELIVERY", "RETURNED", "EXCEPTION"},
   RETURNED         |-> {},
   CANCELLED        |-> {},
   EXCEPTION        |-> {"PROCESSING", "OUT_FOR_DELIVERY", "FAILED_DELIVERY"}]

\* The order in which POST /agents/shipments/advance walks a shipment.
AGENT_STATUS_FLOW ==
  <<"PENDING", "PROCESSING", "PICKED_UP", "IN_TRANSIT",
    "OUT_FOR_DELIVERY", "DELIVERED">>

\* The status after s in that order, as a set: empty where the code has null.
getNextStatus(s) ==
  {AGENT_STATUS_FLOW[i + 1] : i \in {j \in 1..5 : AGENT_STATUS_FLOW[j] = s}}

TERMINAL_SHIPMENT_STATUSES == {"DELIVERED", "RETURNED", "CANCELLED"}

-----------------------------------------------------------------------------
TrackingStatus ==
  {"CREATED", "BOOKED", "LABEL_GENERATED", "ASSIGNED", "PICKUP_SCHEDULED",
   "PICKED_UP", "AT_ORIGIN_HUB", "DEPARTED_ORIGIN_HUB", "IN_TRANSIT",
   "AT_DESTINATION_HUB", "OUT_FOR_DELIVERY", "DELIVERY_ATTEMPTED",
   "DELIVERED", "FAILED_DELIVERY", "EXCEPTION", "CUSTOMS_HOLD",
   "CUSTOMS_RELEASED", "RETURN_STARTED", "RETURNED", "CANCELLED"}

ALLOWED_TRACKING_TRANSITIONS ==
  [CREATED             |-> {"BOOKED", "CANCELLED"},
   BOOKED              |-> {"LABEL_GENERATED", "ASSIGNED", "CANCELLED"},
   LABEL_GENERATED     |-> {"ASSIGNED", "PICKUP_SCHEDULED", "CANCELLED"},
   ASSIGNED            |-> {"PICKUP_SCHEDULED", "PICKED_UP", "CANCELLED"},
   PICKUP_SCHEDULED    |-> {"PICKED_UP", "CANCELLED"},
   PICKED_UP           |-> {"AT_ORIGIN_HUB", "IN_TRANSIT", "EXCEPTION"},
   AT_ORIGIN_HUB       |-> {"DEPARTED_ORIGIN_HUB", "IN_TRANSIT",
                            "CUSTOMS_HOLD", "EXCEPTION"},
   DEPARTED_ORIGIN_HUB |-> {"IN_TRANSIT", "AT_DESTINATION_HUB",
                            "CUSTOMS_HOLD", "EXCEPTION"},
   IN_TRANSIT          |-> {"AT_DESTINATION_HUB", "OUT_FOR_DELIVERY",
                            "CUSTOMS_HOLD", "EXCEPTION", "FAILED_DELIVERY"},
   AT_DESTINATION_HUB  |-> {"OUT_FOR_DELIVERY", "EXCEPTION"},
   OUT_FOR_DELIVERY    |-> {"DELIVERED", "DELIVERY_ATTEMPTED",
                            "FAILED_DELIVERY", "EXCEPTION"},
   DELIVERY_ATTEMPTED  |-> {"OUT_FOR_DELIVERY", "FAILED_DELIVERY", "EXCEPTION"},
   DELIVERED           |-> {"RETURN_STARTED"},
   FAILED_DELIVERY     |-> {"OUT_FOR_DELIVERY", "RETURN_STARTED", "EXCEPTION"},
   EXCEPTION           |-> {"IN_TRANSIT", "OUT_FOR_DELIVERY",
                            "FAILED_DELIVERY", "CANCELLED"},
   CUSTOMS_HOLD        |-> {"CUSTOMS_RELEASED", "EXCEPTION", "CANCELLED"},
   CUSTOMS_RELEASED    |-> {"IN_TRANSIT", "AT_DESTINATION_HUB"},
   RETURN_STARTED      |-> {"RETURNED"},
   RETURNED            |-> {},
   CANCELLED           |-> {}]

TERMINAL_STATUSES == {"DELIVERED", "RETURNED", "CANCELLED"}

\* validateTrackingTransition: a terminal status is left only with an override
\* reason, and an override reason allows every move except to the same status.
validateTrackingTransition(from, to, override) ==
  /\ from # to
  /\ \/ override
     \/ /\ from \notin TERMINAL_STATUSES
        /\ to \in ALLOWED_TRACKING_TRANSITIONS[from]

\* The tracking status a legacy shipment status is shown as; only the first
\* two have another name.
legacyToTrackingStatus(s) ==
  IF s = "PENDING" THEN "CREATED" ELSE IF s = "PROCESSING" THEN "BOOKED" ELSE s
=============================================================================
