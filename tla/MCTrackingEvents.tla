-------------------------- MODULE MCTrackingEvents --------------------------
(* An instance of TrackingEvents for TLC.                                   *)
EXTENDS TrackingEvents, TLC

CONSTANTS
  s1, h1, h2, t1, t2, k1,
  Targets,      \* the statuses that desk and console ask for
  MaxStatuses,  \* bound: the statuses a shipment has had when it is asked for
  MaxInFlight,  \* bound: shipment requests and tracking calls at once
  MaxFaults     \* bound: tracking calls that break

\* Two requests, or two calls, take the same steps; no property names one.
MCSymmetry == Permutations({h1, h2}) \cup Permutations({t1, t2})

InFlight ==
  Cardinality({h \in Handlers : handler[h].pc # "idle"})
    + Cardinality({t \in Trackers : tracker[t].pc # "idle"})

MCAsking(h) ==
  /\ \A s \in Shipments : Cardinality(timeline[s]) <= MaxStatuses
  /\ Asking(h)
  /\ handler'[h].kind \in {"portal", "advance"} => handler'[h].target \in Targets

\* TrackingNext within these bounds.
MCNext ==
  \/ Booking
  \/ /\ InFlight < MaxInFlight
     /\ \/ \E h \in Handlers : MCAsking(h)
        \/ \E t \in Trackers : Reporting(t)
  \/ \E h \in Handlers : Answering(h)
  \/ \E t \in Trackers : Recording(t) /\ faults' <= MaxFaults

MCSpec == TrackingInit /\ [][MCNext]_<<vars, trackingVars>>
=============================================================================
