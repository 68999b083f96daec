---------------------------- MODULE AtLeastOnce ----------------------------
(***************************************************************************)
(* What a transactional outbox promises: an event that was accepted (its   *)
(* transaction committed) is delivered, once or more, and nothing else is. *)
(***************************************************************************)
CONSTANT Events

VARIABLES accepted, delivered

Init == accepted = {} /\ delivered = {}

Accept(e) ==
  /\ e \notin accepted
  /\ accepted' = accepted \cup {e}
  /\ UNCHANGED delivered

Deliver(e) ==
  /\ e \in accepted \ delivered
  /\ delivered' = delivered \cup {e}
  /\ UNCHANGED accepted

Next == \E e \in Events : Accept(e) \/ Deliver(e)

Safe == Init /\ [][Next]_<<accepted, delivered>>

Spec == Safe /\ \A e \in Events : WF_<<accepted, delivered>>(Deliver(e))
=============================================================================
