---------------------- MODULE ShipmentLifecycle_proofs ----------------------
(***************************************************************************)
(* Theorems about ShipmentLifecycle, for every set of shipments, every     *)
(* number of concurrent requests and every choice of their kinds.          *)
(***************************************************************************)
EXTENDS TrackingEvents, FiniteSetTheorems, TLAPS

\* The agents' console only takes steps of the transition table.
LEMMA AdvanceAllowed ==
  ASSUME NEW x \in ShipmentStatus, NEW y \in getNextStatus(x)
  PROVE  y \in ALLOWED_TRANSITIONS[x] /\ y \in ShipmentStatus
BY DEF getNextStatus, AGENT_STATUS_FLOW, ALLOWED_TRANSITIONS, ShipmentStatus

\* The table leads from statuses to statuses, and never to PENDING.
LEMMA TransitionsTyped ==
  /\ ALLOWED_TRANSITIONS \in [ShipmentStatus -> SUBSET ShipmentStatus]
  /\ None \notin ShipmentStatus
BY DEF ALLOWED_TRANSITIONS, ShipmentStatus, None

\* Every shipment status is shown as a tracking status.
LEMMA TrackingTyped ==
  ASSUME NEW x \in ShipmentStatus
  PROVE  legacyToTrackingStatus(x) \in TrackingStatus
BY DEF legacyToTrackingStatus, ShipmentStatus, TrackingStatus

\* What every kind of transaction has in common: some checked handler writes
\* its target, puts it in the timeline, and goes on or is done.
CommitEffect(h, s, target) ==
  /\ handler[h].pc = "checked"
  /\ s = handler[h].ship
  /\ target = handler[h].target
  /\ timeline' = [timeline EXCEPT ![s] = @ \cup {target}]
  /\ \E dated, files, cod \in BOOLEAN :
       /\ shipment' = [shipment EXCEPT ![s] =
            [status |-> target, dated |-> dated,
             pod |-> @.pod \/ files, paid |-> @.paid \/ cod]]
       /\ target = "DELIVERED" => dated
       /\ cod => target = "DELIVERED"
  /\ \/ handler' = [handler EXCEPT ![h] = Idle]
     \/ handler' = [handler EXCEPT ![h] =
          [Idle EXCEPT !.pc = "announcing", !.ship = s, !.target = target]]
  /\ announced' = announced
  /\ \E current \in TrackingStatus, exception \in BOOLEAN :
       \/ snapshot' = snapshot
       \/ snapshot' = [snapshot EXCEPT ![s] =
                         [current |-> current, exception |-> exception]]
  /\ lastOutbox' \in {lastOutbox, [lastOutbox EXCEPT ![s] = target]}

LEMMA CommitHasEffect ==
  ASSUME IInv, NEW h \in Handlers, Commit(h)
  PROVE  CommitEffect(h, handler[h].ship, handler[h].target)
<1> DEFINE s == handler[h].ship
           target == handler[h].target
<1>1. handler[h].pc = "checked" /\ CheckedOK(h) /\ s \in Shipments
  BY DEF IInv, HandlersOK, Commit, CommitPortal, CommitCancel, CommitAdvance,
         CommitPod, CommitFailed, CommitAssign, Commits
<1>2. /\ handler[h].dated \in BOOLEAN /\ handler[h].files \in BOOLEAN
      /\ handler[h].cod \in BOOLEAN
      /\ shipment[s].dated \in BOOLEAN
      /\ snapshot[s].exception \in BOOLEAN
      /\ legacyToTrackingStatus(target) \in TrackingStatus
  BY <1>1, TrackingTyped DEF IInv, TypeOK, Row, Request, CheckedOK
<1>3. CASE CommitPortal(h)
  BY <1>1, <1>2, <1>3
  DEF CommitPortal, Commits, WriteStatus, WriteSnapshot, WriteOutbox,
      ThenAnnounce, CommitEffect
<1>4. CASE CommitCancel(h)
  <2>1. target = "CANCELLED"
    BY <1>1, <1>4 DEF CommitCancel, Commits, CheckedOK
  <2> QED
    BY <1>1, <1>2, <1>4, <2>1
    DEF CommitCancel, Commits, WriteStatus, WriteSnapshot, Return, CommitEffect
<1>5. CASE CommitAdvance(h)
  BY <1>1, <1>2, <1>5
  DEF CommitAdvance, Commits, WriteStatus, WriteOutbox, Return, CommitEffect
<1>6. CASE CommitPod(h)
  <2>1. target = "DELIVERED"
    BY <1>1, <1>6 DEF CommitPod, Commits, CheckedOK
  <2> QED
    BY <1>1, <1>2, <1>6, <2>1
    DEF CommitPod, Commits, WriteStatus, Return, CommitEffect
<1>7. CASE CommitFailed(h)
  <2>1. target = "FAILED_DELIVERY"
    BY <1>1, <1>7 DEF CommitFailed, Commits, CheckedOK
  <2> QED
    BY <1>1, <1>2, <1>7, <2>1
    DEF CommitFailed, Commits, WriteStatus, ThenAnnounce, CommitEffect
<1>8. CASE CommitAssign(h)
  <2>1. target # "DELIVERED"
    BY <1>1, <1>8 DEF CommitAssign, Commits, CheckedOK
  <2> QED
    BY <1>1, <1>2, <1>8, <2>1
    DEF CommitAssign, Commits, WriteStatus, Return, CommitEffect
<1> QED
  BY <1>3, <1>4, <1>5, <1>6, <1>7, <1>8 DEF Commit



-----------------------------------------------------------------------------
\* A step of Read leaves the world as it is and one handler with a decision
\* that is in order.
LEMMA ReadIsOK ==
  ASSUME IInv, NEW h \in Handlers, Read(h)
  PROVE  /\ UNCHANGED <<shipment, timeline, snapshot, lastOutbox, announced>>
         /\ handler' \in [Handlers -> Request]
         /\ handler' = [handler EXCEPT ![h] = handler'[h]]
         /\ handler'[h].pc = "checked"
         /\ handler'[h].ship \in Shipments
         /\ CheckedOK(h)'
<1> USE KindsAssumption
<1>1. PICK s \in Shipments :
        /\ shipment[s].status # None
        /\ \/ \E target \in ShipmentStatus : BeginPortal(h, s, target)
           \/ BeginCancel(h, s)
           \/ \E target \in ShipmentStatus : BeginAdvance(h, s, target)
           \/ \E files, cod \in BOOLEAN : BeginPod(h, s, files, cod)
           \/ BeginFailed(h, s)
           \/ BeginAssign(h, s)
  BY DEF Read, Found
<1>2. /\ shipment[s].status \in ShipmentStatus
      /\ shipment[s].status \in timeline[s]
      /\ shipment[s].dated \in BOOLEAN
      /\ GroundedIn(s, shipment[s].status)
  BY <1>1 DEF IInv, TypeOK, Row, StatusInTimeline, Found, Grounded
\* It is enough that the decision is in order for the shipment as it stands.
<1>3. ASSUME NEW kind, NEW target \in ShipmentStatus,
             NEW files \in BOOLEAN, NEW cod \in BOOLEAN,
             Begin(h, kind, s, target, files, cod),
             GroundedIn(s, target),
             kind = "cancel" => target = "CANCELLED",
             kind = "pod" => target = "DELIVERED",
             kind = "failed" => target = "FAILED_DELIVERY",
             kind = "assign" => target # "DELIVERED",
             kind = "portal" /\ target = "DELIVERED" => shipment[s].pod
      PROVE  /\ UNCHANGED <<shipment, timeline, snapshot, lastOutbox, announced>>
             /\ handler' \in [Handlers -> Request]
             /\ handler' = [handler EXCEPT ![h] = handler'[h]]
             /\ handler'[h].pc = "checked"
             /\ handler'[h].ship \in Shipments
             /\ CheckedOK(h)'
  <2> DEFINE new == [pc |-> "checked", kind |-> kind, ship |-> s,
                     dated |-> kind \in {"portal", "advance"} /\ shipment[s].dated,
                     target |-> target, files |-> files, cod |-> cod]
  <2>1. /\ UNCHANGED <<shipment, timeline, snapshot, lastOutbox, announced>>
        /\ kind \in Kinds
        /\ handler' = [handler EXCEPT ![h] = new]
    BY <1>3 DEF Begin
  <2>2. handler'[h] = new
    BY <2>1 DEF IInv, TypeOK
  <2>3. GroundedIn(s, target)'
    BY <1>3, <2>1 DEF GroundedIn, JumpTargets
  <2>4. CheckedOK(h)'
    <3>1. /\ handler'[h].kind = kind /\ handler'[h].ship = s
          /\ handler'[h].target = target
      BY <2>2
    <3>2. GroundedIn(handler[h].ship, handler[h].target)'
      BY <3>1, <2>3 DEF GroundedIn, JumpTargets
    <3> QED
      BY <1>3, <2>1, <3>1, <3>2 DEF CheckedOK
  <2>5. (kind \in {"portal", "advance"} /\ shipment[s].dated) \in BOOLEAN
    BY <1>2
  <2>6. new \in Request
    BY <2>1, <2>5 DEF Request
  <2> HIDE DEF new
  <2> QED
    BY <2>1, <2>2, <2>4, <2>6 DEF IInv, TypeOK, new
\* A step of the table grounds its target.
<1>4. ASSUME NEW target \in ALLOWED_TRANSITIONS[shipment[s].status]
      PROVE  GroundedIn(s, target)
  BY <1>2 DEF GroundedIn
<1>5. CASE \E target \in ShipmentStatus : BeginPortal(h, s, target)
  BY <1>3, <1>4, <1>5 DEF BeginPortal
<1>6. CASE BeginCancel(h, s)
  <2>1. "CANCELLED" \in ALLOWED_TRANSITIONS[shipment[s].status]
    BY <1>6 DEF BeginCancel, ALLOWED_TRANSITIONS
  <2> QED
    BY <1>3, <1>4, <1>6, <2>1 DEF BeginCancel, ShipmentStatus
<1>7. CASE \E target \in ShipmentStatus : BeginAdvance(h, s, target)
  BY <1>2, <1>3, <1>4, <1>7, AdvanceAllowed DEF BeginAdvance
<1>8. CASE \E files, cod \in BOOLEAN : BeginPod(h, s, files, cod)
  <2>1. "pod" \in Kinds
    BY <1>8 DEF BeginPod, Begin
  <2>2. GroundedIn(s, "DELIVERED")
    BY <2>1 DEF GroundedIn, JumpTargets
  <2> QED
    BY <1>3, <1>8, <2>2 DEF BeginPod, ShipmentStatus
<1>9. CASE BeginFailed(h, s)
  <2>1. "failed" \in Kinds
    BY <1>9 DEF BeginFailed, Begin
  <2>2. GroundedIn(s, "FAILED_DELIVERY")
    BY <2>1 DEF GroundedIn, JumpTargets
  <2> QED
    BY <1>3, <1>9, <2>2 DEF BeginFailed, ShipmentStatus
<1>10. CASE BeginAssign(h, s)
  <2>1. CASE shipment[s].status = "PENDING"
    <3>1. GroundedIn(s, "PROCESSING")
      BY <1>4, <2>1 DEF ALLOWED_TRANSITIONS
    <3> QED
      BY <1>3, <1>10, <2>1, <3>1 DEF BeginAssign, ShipmentStatus
  <2>2. CASE shipment[s].status # "PENDING"
    BY <1>2, <1>3, <1>10, <2>2 DEF BeginAssign, TERMINAL_SHIPMENT_STATUSES
  <2> QED
    BY <2>1, <2>2
<1> QED
  BY <1>1, <1>5, <1>6, <1>7, <1>8, <1>9, <1>10


-----------------------------------------------------------------------------
\* What is in the timeline, in the kinds, and on record stays in order when
\* timelines only grow.
LEMMA StillGrounded ==
  ASSUME NEW s \in Shipments, NEW x, GroundedIn(s, x),
         timeline[s] \subseteq timeline'[s]
  PROVE  GroundedIn(s, x)'
BY DEF GroundedIn, JumpTargets

\* The initial states satisfy the inductive invariant.
LEMMA InitIsOK ==
  Init => IInv
<1> SUFFICES ASSUME Init PROVE IInv
  OBVIOUS
<1>1. TypeOK
  BY DEF Init, TypeOK, Row, Request, Idle
<1>2. StatusInTimeline /\ Grounded /\ DeliveredIsDated /\ AnnouncedWasCommitted
  BY DEF Init, StatusInTimeline, Found, Grounded, DeliveredIsDated,
         AnnouncedWasCommitted, None
<1>3. HandlersOK /\ PaidWasDelivered
  BY DEF Init, HandlersOK, PaidWasDelivered, Idle
<1> QED
  BY <1>1, <1>2, <1>3 DEF IInv

\* Booking a shipment keeps the inductive invariant.
LEMMA CreateIsOK ==
  ASSUME IInv, NEW s \in Shipments, CreateShipment(s)
  PROVE  IInv'
<1>1. /\ shipment' = [shipment EXCEPT ![s].status = "PENDING"]
      /\ timeline' = [timeline EXCEPT ![s] = @ \cup {"PENDING"}]
      /\ snapshot' = [snapshot EXCEPT ![s].current = "CREATED"]
      /\ UNCHANGED <<lastOutbox, handler, announced>>
  BY DEF CreateShipment
<1>2. TypeOK'
  BY <1>1, SMTT(30) DEF IInv, TypeOK, Row, ShipmentStatus, TrackingStatus
<1>3. \A x \in Shipments : timeline[x] \subseteq timeline'[x]
  BY <1>1 DEF IInv, TypeOK
<1>4. StatusInTimeline' /\ DeliveredIsDated'
  BY <1>1, <1>3 DEF IInv, TypeOK, Row, StatusInTimeline, DeliveredIsDated, Found
<1>5. PaidWasDelivered' /\ AnnouncedWasCommitted'
  BY <1>1, <1>3 DEF IInv, TypeOK, Row, PaidWasDelivered, AnnouncedWasCommitted
<1>6. Grounded'
  <2> SUFFICES ASSUME NEW z \in Shipments, NEW x \in timeline'[z]
               PROVE  GroundedIn(z, x)'
    BY DEF Grounded
  <2>1. CASE x \in timeline[z]
    BY <1>3, <2>1, StillGrounded DEF IInv, Grounded
  <2>2. CASE x \notin timeline[z]
    <3>1. x = "PENDING"
      BY <1>1, <2>2 DEF IInv, TypeOK
    <3> QED
      BY <3>1 DEF GroundedIn
  <2> QED
    BY <2>1, <2>2
<1>7. HandlersOK'
  <2> SUFFICES ASSUME NEW h \in Handlers, handler[h].pc # "idle"
               PROVE  /\ handler[h].ship \in Shipments
                      /\ handler[h].pc = "checked" => CheckedOK(h)'
                      /\ handler[h].pc = "announcing" =>
                           /\ handler[h].target \in ShipmentStatus
                           /\ handler[h].target \in timeline'[handler[h].ship]
    BY <1>1 DEF IInv, HandlersOK
  <2>1. handler[h].ship \in Shipments
    BY DEF IInv, HandlersOK
  <2>2. ASSUME handler[h].pc = "checked" PROVE CheckedOK(h)'
    <3>1. CheckedOK(h)
      BY <2>2 DEF IInv, HandlersOK
    <3>2. GroundedIn(handler[h].ship, handler[h].target)'
      <4>1. GroundedIn(handler[h].ship, handler[h].target)
        BY <3>1 DEF CheckedOK
      <4> QED
        BY <1>1, <1>3, <2>1, <4>1 DEF GroundedIn, JumpTargets
    <3>3. shipment[handler[h].ship].pod => shipment'[handler[h].ship].pod
      BY <1>1, <2>1 DEF IInv, TypeOK, Row
    <3> QED
      BY <1>1, <3>1, <3>2, <3>3 DEF CheckedOK
  <2> QED
    BY <1>3, <2>1, <2>2 DEF IInv, HandlersOK
<1> QED
  BY <1>2, <1>4, <1>5, <1>6, <1>7 DEF IInv

\* A handler's decision outlives whatever the others write: timelines grow,
\* and a POD asset is never taken away.
LEMMA DecisionStands ==
  ASSUME NEW h \in Handlers, handler[h].ship \in Shipments, CheckedOK(h),
         handler'[h] = handler[h],
         timeline[handler[h].ship] \subseteq timeline'[handler[h].ship],
         shipment[handler[h].ship].pod => shipment'[handler[h].ship].pod
  PROVE  CheckedOK(h)'
<1>1. GroundedIn(handler[h].ship, handler[h].target)
  BY DEF CheckedOK
<1>2. GroundedIn(handler[h].ship, handler[h].target)'
  BY <1>1 DEF GroundedIn, JumpTargets
<1> QED
  BY <1>2 DEF CheckedOK

\* Reading keeps the inductive invariant.
LEMMA ReadKeeps ==
  ASSUME IInv, NEW h \in Handlers, Read(h)
  PROVE  IInv'
<1>1. /\ UNCHANGED <<shipment, timeline, snapshot, lastOutbox, announced>>
      /\ handler' \in [Handlers -> Request]
      /\ handler' = [handler EXCEPT ![h] = handler'[h]]
      /\ handler'[h].pc = "checked"
      /\ handler'[h].ship \in Shipments
      /\ CheckedOK(h)'
  BY ReadIsOK
<1>2. TypeOK'
  BY <1>1 DEF IInv, TypeOK
<1>3. HandlersOK'
  <2> SUFFICES ASSUME NEW g \in Handlers
               PROVE  /\ handler'[g].pc # "idle" => handler'[g].ship \in Shipments
                      /\ handler'[g].pc = "checked" => CheckedOK(g)'
                      /\ handler'[g].pc = "announcing" =>
                           /\ handler'[g].target \in ShipmentStatus
                           /\ handler'[g].target \in timeline'[handler'[g].ship]
    BY DEF HandlersOK
  <2>1. CASE g = h
    BY <1>1, <2>1
  <2>2. CASE g # h
    <3>1. handler'[g] = handler[g]
      BY <1>1, <2>2 DEF IInv, TypeOK
    <3>2. ASSUME handler[g].pc = "checked" PROVE CheckedOK(g)'
      <4>1. CheckedOK(g) /\ handler[g].ship \in Shipments
        BY <3>2 DEF IInv, HandlersOK
      <4> QED
        BY <1>1, <3>1, <4>1, DecisionStands
    <3> QED
      BY <1>1, <3>1, <3>2 DEF IInv, HandlersOK
  <2> QED
    BY <2>1, <2>2
<1>4. /\ StatusInTimeline' /\ Grounded' /\ DeliveredIsDated'
      /\ AnnouncedWasCommitted' /\ PaidWasDelivered'
  BY <1>1 DEF IInv, StatusInTimeline, Grounded, GroundedIn, JumpTargets,
              DeliveredIsDated, AnnouncedWasCommitted, PaidWasDelivered, Found
<1> QED
  BY <1>2, <1>3, <1>4 DEF IInv

\* A transaction keeps the inductive invariant, whichever handler's it is and
\* however old its read.
LEMMA CommitKeeps ==
  ASSUME IInv, NEW h \in Handlers, Commit(h)
  PROVE  IInv'
<1> DEFINE s == handler[h].ship
           target == handler[h].target
<1>1. CommitEffect(h, s, target)
  BY CommitHasEffect
<1>2. /\ s \in Shipments /\ target \in ShipmentStatus
      /\ CheckedOK(h) /\ GroundedIn(s, target)
  BY <1>1 DEF CommitEffect, IInv, HandlersOK, CheckedOK
<1>3. PICK dated \in BOOLEAN, files \in BOOLEAN, cod \in BOOLEAN :
        /\ shipment' = [shipment EXCEPT ![s] =
             [status |-> target, dated |-> dated,
              pod |-> @.pod \/ files, paid |-> @.paid \/ cod]]
        /\ target = "DELIVERED" => dated
        /\ cod => target = "DELIVERED"
  BY <1>1 DEF CommitEffect
<1>4. /\ timeline' = [timeline EXCEPT ![s] = @ \cup {target}]
      /\ announced' = announced
      /\ lastOutbox' \in {lastOutbox, [lastOutbox EXCEPT ![s] = target]}
      /\ \/ handler' = [handler EXCEPT ![h] = Idle]
         \/ handler' = [handler EXCEPT ![h] =
              [Idle EXCEPT !.pc = "announcing", !.ship = s, !.target = target]]
  BY <1>1 DEF CommitEffect
<1>5. PICK current \in TrackingStatus, exception \in BOOLEAN :
        \/ snapshot' = snapshot
        \/ snapshot' = [snapshot EXCEPT ![s] =
                          [current |-> current, exception |-> exception]]
  BY <1>1 DEF CommitEffect
<1> HIDE DEF s, target
<1>6. PICK new \in Request :
         /\ handler' = [handler EXCEPT ![h] = new]
         /\ \/ new.pc = "idle"
            \/ new.pc = "announcing" /\ new.ship = s /\ new.target = target
  <2> DEFINE queued == [Idle EXCEPT !.pc = "announcing", !.ship = s, !.target = target]
  <2>1. Idle \in Request /\ Idle.pc = "idle"
    BY DEF Idle, Request
  <2>2. queued \in Request /\ queued.pc = "announcing" /\ queued.ship = s /\ queued.target = target
    BY <1>2, <2>1 DEF Request
  <2> QED
    BY <1>4, <2>1, <2>2
<1>7. \A z \in Shipments : timeline[z] \subseteq timeline'[z]
  BY <1>2, <1>4 DEF IInv, TypeOK
<1>8. shipment \in [Shipments -> Row] /\ timeline \in [Shipments -> SUBSET ShipmentStatus]
  BY DEF IInv, TypeOK
<1>9. /\ shipment'[s].status = target /\ shipment'[s].dated = dated
      /\ shipment'[s].pod = (shipment[s].pod \/ files)
      /\ shipment'[s].paid = (shipment[s].paid \/ cod)
      /\ \A z \in Shipments \ {s} : shipment'[z] = shipment[z]
  BY <1>2, <1>3, <1>8
<1>10. TypeOK'
  <2>1. shipment' \in [Shipments -> Row]
    <3>1. (shipment[s].pod \/ files) \in BOOLEAN /\ (shipment[s].paid \/ cod) \in BOOLEAN
      OBVIOUS
    <3> QED
      BY <1>2, <1>3, <1>8, <3>1 DEF Row
  <2>2. handler' \in [Handlers -> Request]
    BY <1>2, <1>6 DEF IInv, TypeOK, Request
  <2>3. snapshot' \in [Shipments -> [current   : TrackingStatus \cup {None},
                                     exception : BOOLEAN]]
    BY <1>2, <1>5 DEF IInv, TypeOK
  <2> QED
    BY <1>2, <1>4, <2>1, <2>2, <2>3 DEF IInv, TypeOK
<1>11. StatusInTimeline'
  <2> SUFFICES ASSUME NEW z \in Shipments, shipment'[z].status # None
               PROVE  shipment'[z].status \in timeline'[z]
    BY DEF StatusInTimeline, Found
  <2>1. CASE z = s
    BY <1>2, <1>4, <1>8, <1>9, <2>1
  <2>2. CASE z # s
    BY <1>7, <1>9, <2>2 DEF IInv, StatusInTimeline, Found
  <2> QED
    BY <2>1, <2>2
<1>12. DeliveredIsDated'
  BY <1>3, <1>9 DEF IInv, DeliveredIsDated
<1>13. AnnouncedWasCommitted'
  BY <1>4, <1>7 DEF IInv, AnnouncedWasCommitted
<1>14. PaidWasDelivered'
  <2> SUFFICES ASSUME NEW z \in Shipments, shipment'[z].paid
               PROVE  "DELIVERED" \in timeline'[z]
    BY DEF PaidWasDelivered
  <2>1. CASE shipment[z].paid
    BY <1>7, <2>1 DEF IInv, PaidWasDelivered
  <2>2. CASE ~shipment[z].paid
    <3>1. z = s /\ cod
      BY <1>9, <2>2
    <3> QED
      BY <1>3, <1>4, <1>8, <3>1
  <2> QED
    BY <2>1, <2>2
<1>15. Grounded'
  <2> SUFFICES ASSUME NEW z \in Shipments, NEW x \in timeline'[z]
               PROVE  GroundedIn(z, x)'
    BY DEF Grounded
  <2>1. CASE x \in timeline[z]
    BY <1>7, <2>1, StillGrounded DEF IInv, Grounded
  <2>2. CASE x \notin timeline[z]
    <3>1. z = s /\ x = target
      BY <1>2, <1>4, <1>8, <2>2
    <3>2. GroundedIn(z, x)
      BY <1>2, <3>1
    <3> QED
      BY <1>7, <3>2, StillGrounded
  <2> QED
    BY <2>1, <2>2
<1>16. HandlersOK'
  <2> SUFFICES ASSUME NEW g \in Handlers
               PROVE  /\ handler'[g].pc # "idle" => handler'[g].ship \in Shipments
                      /\ handler'[g].pc = "checked" => CheckedOK(g)'
                      /\ handler'[g].pc = "announcing" =>
                           /\ handler'[g].target \in ShipmentStatus
                           /\ handler'[g].target \in timeline'[handler'[g].ship]
    BY DEF HandlersOK
  <2>1. CASE g = h
    BY <1>2, <1>4, <1>8, <1>6, <2>1 DEF IInv, TypeOK
  <2>2. CASE g # h
    <3>1. handler'[g] = handler[g]
      BY <1>4, <2>2 DEF IInv, TypeOK
    <3>2. ASSUME handler[g].pc = "checked" PROVE CheckedOK(g)'
      <4>1. CheckedOK(g) /\ handler[g].ship \in Shipments
        BY <3>2 DEF IInv, HandlersOK
      <4>2. shipment[handler[g].ship].pod => shipment'[handler[g].ship].pod
        BY <1>9, <4>1
      <4> QED
        BY <1>7, <3>1, <4>1, <4>2, DecisionStands
    <3> QED
      BY <1>7, <3>1, <3>2 DEF IInv, HandlersOK
  <2> QED
    BY <2>1, <2>2
<1> QED
  BY <1>10, <1>11, <1>12, <1>13, <1>14, <1>15, <1>16 DEF IInv

\* Announcing and giving up keep the inductive invariant.
LEMMA LeaveKeeps ==
  ASSUME IInv, NEW h \in Handlers, Announce(h) \/ Abort(h)
  PROVE  IInv'
<1>1. /\ UNCHANGED <<shipment, timeline, snapshot, lastOutbox>>
      /\ handler' = [handler EXCEPT ![h] = Idle]
      /\ handler[h].pc # "idle"
      /\ \/ announced' = announced
         \/ /\ handler[h].pc = "announcing"
            /\ announced' = [announced EXCEPT ![handler[h].ship] = handler[h].target]
  BY DEF Announce, Abort, Return
<1>2. /\ handler[h].ship \in Shipments
      /\ handler[h].pc = "announcing" =>
           /\ handler[h].target \in ShipmentStatus
           /\ handler[h].target \in timeline[handler[h].ship]
  BY <1>1 DEF IInv, HandlersOK
<1>3. TypeOK'
  BY <1>1, <1>2 DEF IInv, TypeOK, Request, Idle
<1>4. AnnouncedWasCommitted'
  BY <1>1, <1>2 DEF IInv, TypeOK, AnnouncedWasCommitted
<1>5. HandlersOK'
  <2> SUFFICES ASSUME NEW g \in Handlers
               PROVE  /\ handler'[g].pc # "idle" => handler'[g].ship \in Shipments
                      /\ handler'[g].pc = "checked" => CheckedOK(g)'
                      /\ handler'[g].pc = "announcing" =>
                           /\ handler'[g].target \in ShipmentStatus
                           /\ handler'[g].target \in timeline'[handler'[g].ship]
    BY DEF HandlersOK
  <2>1. CASE g = h
    BY <1>1, <2>1 DEF IInv, TypeOK, Idle
  <2>2. CASE g # h
    <3>1. handler'[g] = handler[g]
      BY <1>1, <2>2 DEF IInv, TypeOK
    <3>2. ASSUME handler[g].pc = "checked" PROVE CheckedOK(g)'
      <4>1. CheckedOK(g) /\ handler[g].ship \in Shipments
        BY <3>2 DEF IInv, HandlersOK
      <4> QED
        BY <1>1, <3>1, <4>1, DecisionStands
    <3> QED
      BY <1>1, <3>1, <3>2 DEF IInv, HandlersOK
  <2> QED
    BY <2>1, <2>2
<1>6. StatusInTimeline' /\ Grounded' /\ DeliveredIsDated' /\ PaidWasDelivered'
  BY <1>1 DEF IInv, StatusInTimeline, Grounded, GroundedIn, JumpTargets,
              DeliveredIsDated, PaidWasDelivered, Found
<1> QED
  BY <1>3, <1>4, <1>5, <1>6 DEF IInv

\* Every step keeps the inductive invariant.
LEMMA NextKeeps ==
  IInv /\ [Next]_vars => IInv'
<1> SUFFICES ASSUME IInv, [Next]_vars PROVE IInv'
  OBVIOUS
<1>1. CASE \E s \in Shipments : CreateShipment(s)
  BY <1>1, CreateIsOK
<1>2. ASSUME NEW h \in Handlers, Read(h) PROVE IInv'
  BY <1>2, ReadKeeps
<1>3. ASSUME NEW h \in Handlers, Commit(h) PROVE IInv'
  BY <1>3, CommitKeeps
<1>4. ASSUME NEW h \in Handlers, Announce(h) \/ Abort(h) PROVE IInv'
  BY <1>4, LeaveKeeps
<1>5. CASE UNCHANGED vars
  BY <1>5 DEF vars, IInv, TypeOK, StatusInTimeline, HandlersOK, CheckedOK,
      Grounded, GroundedIn, JumpTargets, DeliveredIsDated,
      AnnouncedWasCommitted, PaidWasDelivered, Found
<1> QED
  BY <1>1, <1>2, <1>3, <1>4, <1>5 DEF Next

\* The inductive invariant holds in every reachable state.
THEOREM Invariance == Spec => []IInv
BY InitIsOK, NextKeeps, PTL DEF Spec

\* The rows, snapshots, outbox rows and requests always have their types.
THEOREM TypeCorrect == Spec => []TypeOK
BY Invariance, PTL DEF IInv

\* Whatever the handlers' races lose or repeat, no shipment skips a stage
\* except by a driver's request.
THEOREM NoStageSkipped == Spec => []Grounded
BY Invariance, PTL DEF IInv

\* A shipment that stands at DELIVERED has its date, whichever handler wrote
\* it and whatever was read before.
THEOREM DeliveryDated == Spec => []DeliveredIsDated
BY Invariance, PTL DEF IInv

\* No queue is told of a status that was not committed.
THEOREM NothingAnnouncedEarly == Spec => []AnnouncedWasCommitted
BY Invariance, PTL DEF IInv

\* Cash collected at the door is only on shipments that were delivered.
THEOREM CashAfterDelivery == Spec => []PaidWasDelivered
BY Invariance, PTL DEF IInv

\* The POD that the portal checked is there when it delivers.
THEOREM ProofOutlivesCheck == Spec => []ProofStillThere
<1>1. IInv => ProofStillThere
  BY DEF IInv, HandlersOK, CheckedOK, ProofStillThere, Commits
<1> QED
  BY <1>1, Invariance, PTL

-----------------------------------------------------------------------------
\* When only the portal and the cancellation write, every one of their
\* transactions writes row and snapshot together, so that customers never see
\* another status than the one stored, however the requests interleave.
THEOREM SnapshotFollowsRow ==
  ASSUME Kinds \subseteq {"portal", "cancel"}
  PROVE  Spec => []SnapshotInSync
<1>1. Init => SnapshotInSync
  BY DEF Init, SnapshotInSync, Found
<1>2. IInv /\ SnapshotInSync /\ [Next]_vars => SnapshotInSync'
  <2> SUFFICES ASSUME IInv, SnapshotInSync, [Next]_vars
               PROVE  SnapshotInSync'
    OBVIOUS
  <2>1. ASSUME NEW s \in Shipments, CreateShipment(s) PROVE SnapshotInSync'
    <3>1. /\ shipment' = [shipment EXCEPT ![s].status = "PENDING"]
          /\ snapshot' = [snapshot EXCEPT ![s].current = "CREATED"]
      BY <2>1 DEF CreateShipment
    <3>2. legacyToTrackingStatus("PENDING") = "CREATED"
      BY DEF legacyToTrackingStatus
    <3> QED
      BY <3>1, <3>2 DEF SnapshotInSync, Found, IInv, TypeOK, Row
  <2>2. ASSUME NEW h \in Handlers, Commit(h) PROVE SnapshotInSync'
    <3> DEFINE s == handler[h].ship
               public == legacyToTrackingStatus(handler[h].target)
    <3>1. CommitPortal(h) \/ CommitCancel(h)
      BY <2>2 DEF Commit, CommitAdvance, CommitPod, CommitFailed, CommitAssign,
                  Commits, IInv, HandlersOK, CheckedOK
    <3>2. s \in Shipments
      BY <3>1 DEF CommitPortal, CommitCancel, Commits, IInv, HandlersOK
    <3>3. \E dated, files, cod :
            shipment' = [shipment EXCEPT ![s] =
              [status |-> handler[h].target, dated |-> dated,
               pod |-> @.pod \/ files, paid |-> @.paid \/ cod]]
      BY <3>1 DEF CommitPortal, CommitCancel, WriteStatus
    <3>4. \E exception :
            snapshot' = [snapshot EXCEPT ![s] =
              [current |-> public, exception |-> exception]]
      BY <3>1 DEF CommitPortal, CommitCancel, WriteSnapshot
    <3> QED
      BY <3>2, <3>3, <3>4 DEF SnapshotInSync, Found, IInv, TypeOK
  <2>3. ASSUME NEW h \in Handlers, Read(h) \/ Announce(h) \/ Abort(h)
        PROVE  SnapshotInSync'
    <3>1. UNCHANGED <<shipment, snapshot>>
      BY <2>3, ReadIsOK DEF Announce, Abort
    <3> QED
      BY <3>1 DEF SnapshotInSync, Found
  <2>4. CASE UNCHANGED vars
    BY <2>4 DEF vars, SnapshotInSync, Found
  <2> QED
    BY <2>1, <2>2, <2>3, <2>4 DEF Next
<1> QED
  BY <1>1, <1>2, Invariance, PTL DEF Spec

\* When only the portal, the cancellation and the agents' console write, the
\* newest outbox row of a shipment carries the status it has, although all may
\* write from a stale read: one transaction writes the row and its outbox row.
THEOREM OutboxFollowsRow ==
  ASSUME Kinds \subseteq {"portal", "cancel", "advance"}
  PROVE  Spec => []OutboxInSync
<1>1. Init => OutboxInSync
  BY DEF Init, OutboxInSync, Found
<1>2. IInv /\ OutboxInSync /\ [Next]_vars => OutboxInSync'
  <2> SUFFICES ASSUME IInv, OutboxInSync, [Next]_vars
               PROVE  OutboxInSync'
    OBVIOUS
  <2>1. ASSUME NEW s \in Shipments, CreateShipment(s) PROVE OutboxInSync'
    <3>1. /\ shipment' = [shipment EXCEPT ![s].status = "PENDING"]
          /\ lastOutbox' = lastOutbox
      BY <2>1 DEF CreateShipment
    <3> QED
      BY <3>1 DEF OutboxInSync, Found, IInv, TypeOK, Row
  <2>2. ASSUME NEW h \in Handlers, Commit(h) PROVE OutboxInSync'
    <3> DEFINE s == handler[h].ship
               target == handler[h].target
    <3>1. CommitPortal(h) \/ CommitCancel(h) \/ CommitAdvance(h)
      BY <2>2 DEF Commit, CommitPod, CommitFailed, CommitAssign,
                  Commits, IInv, HandlersOK, CheckedOK
    <3>2. /\ s \in Shipments
          /\ \E dated, files, cod :
               shipment' = [shipment EXCEPT ![s] =
                 [status |-> target, dated |-> dated,
                  pod |-> @.pod \/ files, paid |-> @.paid \/ cod]]
      BY <3>1 DEF CommitPortal, CommitCancel, CommitAdvance, Commits,
                  WriteStatus, IInv, HandlersOK
    <3>3. CASE CommitCancel(h)
      <4>1. target = "CANCELLED" /\ lastOutbox' = lastOutbox
        BY <3>3 DEF CommitCancel, Commits, IInv, HandlersOK, CheckedOK
      <4> QED
        BY <3>2, <4>1 DEF OutboxInSync, Found, IInv, TypeOK
    <3>4. CASE CommitPortal(h) \/ CommitAdvance(h)
      <4>1. lastOutbox' = [lastOutbox EXCEPT ![s] = target]
        BY <3>4 DEF CommitPortal, CommitAdvance, WriteOutbox
      <4> QED
        BY <3>2, <4>1 DEF OutboxInSync, Found, IInv, TypeOK
    <3> QED
      BY <3>1, <3>3, <3>4
  <2>3. ASSUME NEW h \in Handlers, Read(h) \/ Announce(h) \/ Abort(h)
        PROVE  OutboxInSync'
    <3>1. UNCHANGED <<shipment, lastOutbox>>
      BY <2>3, ReadIsOK DEF Announce, Abort
    <3> QED
      BY <3>1 DEF OutboxInSync, Found
  <2>4. CASE UNCHANGED vars
    BY <2>4 DEF vars, OutboxInSync, Found
  <2> QED
    BY <2>1, <2>2, <2>3, <2>4 DEF Next
<1> QED
  BY <1>1, <1>2, Invariance, PTL DEF Spec

-----------------------------------------------------------------------------
\* What one request at a time holds at its write: the status it read is still
\* the row's, and its target is one step of the table away (or the same, for
\* the agent that only names a driver).
FreshDecision ==
  \A h \in Handlers :
    handler[h].pc = "checked" =>
      LET old == shipment[handler[h].ship].status
      IN  /\ old # None
          /\ handler[h].target \in ALLOWED_TRANSITIONS[old] \cup {old}

\* One request at a time, the handlers that look at the status before they
\* write it implement the documented machine.
THEOREM SerialRefinesMachine ==
  ASSUME \A g, h \in Handlers : g = h,
         Kinds \subseteq {"portal", "cancel", "advance", "assign"}
  PROVE  Spec => FollowsMachine
<1> DEFINE abstract == [s \in Shipments |-> shipment[s].status]
<1>1. Init => Machine!Init /\ FreshDecision
  BY DEF Init, Machine!Init, FreshDecision, Idle, None
<1>2. IInv /\ FreshDecision /\ [Next]_vars
        => FreshDecision' /\ [Machine!Next]_abstract
  <2> SUFFICES ASSUME IInv, FreshDecision, [Next]_vars
               PROVE  FreshDecision' /\ [Machine!Next]_abstract
    OBVIOUS
  <2>1. ASSUME NEW s \in Shipments, CreateShipment(s)
        PROVE  FreshDecision' /\ Machine!Next
    <3>1. /\ shipment[s].status = None
          /\ shipment' = [shipment EXCEPT ![s].status = "PENDING"]
          /\ handler' = handler
      BY <2>1 DEF CreateShipment, Found
    <3>2. FreshDecision'
      BY <3>1 DEF FreshDecision, IInv, TypeOK, HandlersOK
    <3>3. abstract' = [abstract EXCEPT ![s] = "PENDING"]
      <4>1. shipment \in [Shipments -> Row]
        BY DEF IInv, TypeOK
      <4>2. /\ shipment'[s].status = "PENDING"
            /\ \A x \in Shipments : x # s => shipment'[x] = shipment[x]
        BY <3>1, <4>1, ZenonT(30) DEF Row
      <4> QED
        BY ONLY <4>2, ZenonT(30)
    <3>4. s \in Shipments /\ abstract[s] = "NONE"
      BY <3>1 DEF None
    <3>5. Machine!Book(s)
      BY <3>3, <3>4 DEF Machine!Book
    <3> QED
      BY <3>2, <3>5 DEF Machine!Next
  <2>2. ASSUME NEW h \in Handlers, Commit(h)
        PROVE  FreshDecision' /\ [Machine!Next]_abstract
    <3> DEFINE s == handler[h].ship
               target == handler[h].target
    <3>1. CommitEffect(h, s, target)
      BY <2>2, CommitHasEffect
    <3>2. /\ s \in Shipments /\ shipment[s].status # None
          /\ target \in ALLOWED_TRANSITIONS[shipment[s].status] \cup {shipment[s].status}
      BY <3>1 DEF CommitEffect, FreshDecision, IInv, HandlersOK
    <3>3. \E dated, files, cod :
            shipment' = [shipment EXCEPT ![s] =
              [status |-> target, dated |-> dated,
               pod |-> @.pod \/ files, paid |-> @.paid \/ cod]]
      BY <3>1 DEF CommitEffect
    <3>4. abstract' = [abstract EXCEPT ![s] = target]
      <4>1. PICK dated, files, cod :
              shipment' = [shipment EXCEPT ![s] =
                [status |-> target, dated |-> dated,
                 pod |-> @.pod \/ files, paid |-> @.paid \/ cod]]
        BY <3>3
      <4> HIDE DEF s, target
      <4> QED
        BY <3>2, <4>1 DEF IInv, TypeOK
    <3>5. FreshDecision'
      <4>1. PICK new : handler' = [handler EXCEPT ![h] = new] /\ new.pc # "checked"
        <5> DEFINE queued == [Idle EXCEPT !.pc = "announcing", !.ship = s,
                                        !.target = target]
        <5>1. Idle.pc # "checked" /\ queued.pc # "checked"
          BY DEF Idle
        <5> QED
          BY <3>1, <5>1 DEF CommitEffect
      <4>2. handler'[h].pc # "checked"
        BY <4>1 DEF IInv, TypeOK
      <4> QED
        BY <4>2 DEF FreshDecision
    <3>6. CASE target = shipment[s].status
      BY <3>2, <3>4, <3>5, <3>6
    <3>7. CASE target \in ALLOWED_TRANSITIONS[shipment[s].status]
      <4> HIDE DEF s, target
      <4>1. abstract[s] = shipment[s].status
        BY <3>2
      <4>2. Machine!ALLOWED_TRANSITIONS = ALLOWED_TRANSITIONS
        BY DEF Machine!ALLOWED_TRANSITIONS, ALLOWED_TRANSITIONS
      <4>3. abstract[s] # "NONE" /\ target \in Machine!ALLOWED_TRANSITIONS[abstract[s]]
        BY <3>2, <3>7, <4>1, <4>2 DEF None
      <4>4. Machine!Next
        BY <3>2, <3>4, <4>3 DEF Machine!Next, Machine!Move
      <4> QED
        BY <3>5, <4>4
    <3> QED
      BY <3>2, <3>6, <3>7
  <2>3. ASSUME NEW h \in Handlers, Read(h)
        PROVE  FreshDecision' /\ UNCHANGED abstract
    <3>1. UNCHANGED shipment
      BY <2>3, ReadIsOK
    <3>2. PICK s \in Shipments :
            /\ shipment[s].status # None
            /\ \/ \E target \in ShipmentStatus : BeginPortal(h, s, target)
               \/ BeginCancel(h, s)
               \/ \E target \in ShipmentStatus : BeginAdvance(h, s, target)
               \/ BeginAssign(h, s)
      BY <2>3 DEF Read, Found, BeginPod, BeginFailed, Begin
    <3>3. shipment[s].status \in ShipmentStatus
      BY <3>2 DEF IInv, TypeOK, Row
    <3>4. /\ handler'[h].ship = s
          /\ handler'[h].target \in ALLOWED_TRANSITIONS[shipment[s].status]
                                      \cup {shipment[s].status}
      <4>1. CASE \E target \in ShipmentStatus : BeginPortal(h, s, target)
        BY <4>1 DEF BeginPortal, Begin, IInv, TypeOK
      <4>2. CASE BeginCancel(h, s)
        BY <4>2 DEF BeginCancel, Begin, IInv, TypeOK, ALLOWED_TRANSITIONS
      <4>3. CASE \E target \in ShipmentStatus : BeginAdvance(h, s, target)
        BY <3>3, <4>3, AdvanceAllowed DEF BeginAdvance, Begin, IInv, TypeOK
      <4>4. CASE BeginAssign(h, s)
        BY <4>4 DEF BeginAssign, Begin, IInv, TypeOK, ALLOWED_TRANSITIONS
      <4> QED
        BY <3>2, <4>1, <4>2, <4>3, <4>4
    <3> QED
      BY <3>1, <3>2, <3>4 DEF FreshDecision
  <2>4. ASSUME NEW h \in Handlers, Announce(h) \/ Abort(h)
        PROVE  FreshDecision' /\ UNCHANGED abstract
    <3>1. UNCHANGED shipment /\ handler' = [handler EXCEPT ![h] = Idle]
      BY <2>4 DEF Announce, Abort, Return
    <3>2. handler'[h].pc # "checked"
      BY <3>1 DEF Idle, IInv, TypeOK
    <3> QED
      BY <3>1, <3>2 DEF FreshDecision
  <2>5. CASE UNCHANGED vars
    BY <2>5 DEF vars, FreshDecision
  <2> QED
    BY <2>1, <2>2, <2>3, <2>4, <2>5 DEF Next
<1> QED
  BY <1>1, <1>2, Invariance, PTL DEF Spec, FollowsMachine, Machine!Spec


-----------------------------------------------------------------------------
(* Tracking events: the shipment handlers and the calls together.          *)

\* A tracking status is never the absent one.
LEMMA NoneIsNoStatus ==
  None \notin TrackingStatus
BY DEF TrackingStatus, None

LEMMA TrackingInitIsOK ==
  TrackingInit => TrackingIInv
<1> SUFFICES ASSUME TrackingInit PROVE TrackingIInv
  OBVIOUS
<1> USE MaxCallsAssumption
<1>1. IInv
  BY InitIsOK DEF TrackingInit
<1>2. TrackingTypeOK
  BY <1>1 DEF TrackingInit, TrackingTypeOK, IInv, Event, Call, NoCall, Modes,
              TrackingStatus
<1>3. RequestsFound /\ SnapshotHasEvent
  BY DEF TrackingInit, Init, RequestsFound, SnapshotHasEvent, Found, Idle
<1>4. CallsOK /\ OneCarrier
  BY DEF TrackingInit, CallsOK, Stands, NoCall, OneCarrier, Carries
<1>5. EventsGrounded /\ ToldOnce
  BY DEF TrackingInit, EventsGrounded, ToldOnce
<1> QED
  BY <1>1, <1>2, <1>3, <1>4, <1>5 DEF TrackingIInv

\* What is stored is never taken away, so a call that was in order stays so.
LEMMA CallStands ==
  ASSUME NEW t \in Trackers, CallOK(t), tracker'[t] = tracker[t],
         events[tracker[t].ship] \subseteq events'[tracker[t].ship],
         Found(tracker[t].ship)'
  PROVE  CallOK(t)'
BY DEF CallOK, EventOf, Found

\* A call that only moves on or ends, storing and announcing nothing.
LEMMA CarriersStand ==
  ASSUME TrackingIInv, NEW t \in Trackers,
         events' = events, told' = told,
         NEW c \in Call, tracker' = [tracker EXCEPT ![t] = c],
         \/ c.pc \notin {"upsert", "tell"}
         \/ /\ tracker[t].pc \in {"upsert", "tell"}
            /\ c.ship = tracker[t].ship /\ c.key = tracker[t].key
  PROVE  OneCarrier' /\ EventsGrounded' /\ ToldOnce'
<1>1. \A u \in Trackers, s \in Shipments, k \in Keys :
        Carries(u, s, k)' => Carries(u, s, k)
  BY DEF Carries, TrackingIInv, TrackingTypeOK
<1>2. OneCarrier'
  BY <1>1 DEF OneCarrier, TrackingIInv, Recorded
<1>3. EventsGrounded' /\ ToldOnce'
  BY DEF EventsGrounded, ToldOnce, TrackingIInv
<1> QED
  BY <1>2, <1>3

LEMMA ArriveKeeps ==
  ASSUME TrackingIInv, NEW t \in Trackers, NEW s \in Shipments,
         NEW x \in TrackingStatus, NEW k \in Keys \cup {None},
         NEW mode \in Modes, Arrive(t, s, x, k, mode)
  PROVE  TrackingIInv'
<1> USE MaxCallsAssumption
<1> DEFINE c == [pc |-> "validate", ship |-> s, status |-> x, key |-> k,
                 mode |-> mode]
<1>1. /\ UNCHANGED <<vars, events, shown, told, faults>>
      /\ tracker' = [tracker EXCEPT ![t] = c]
      /\ calls < MaxCalls /\ calls' = calls + 1
      /\ Found(s)
  BY DEF Arrive
<1>2. c \in Call
  BY DEF Call
<1>3. IInv'
  BY <1>1, NextKeeps DEF TrackingIInv
<1>4. TrackingTypeOK'
  BY <1>1, <1>2, <1>3 DEF TrackingTypeOK, TrackingIInv, IInv
<1>5. RequestsFound' /\ SnapshotHasEvent'
  BY <1>1 DEF vars, RequestsFound, SnapshotHasEvent, TrackingIInv, Found
<1>6. CallsOK'
  <2>1. CallOK(t)'
    BY <1>1 DEF CallOK, Found, vars, TrackingIInv, TrackingTypeOK
  <2>2. ASSUME NEW u \in Trackers, u # t, ~Stands(u, "idle")'
        PROVE  CallOK(u)'
    BY <1>1, <2>2, CallStands
    DEF CallsOK, CallOK, Stands, Found, vars, TrackingIInv, TrackingTypeOK
  <2> QED
    BY <2>1, <2>2 DEF CallsOK
<1>7. OneCarrier' /\ EventsGrounded' /\ ToldOnce'
  BY <1>1, <1>2, CarriersStand
<1> QED
  BY <1>3, <1>4, <1>5, <1>6, <1>7 DEF TrackingIInv

\* A call that moves on, or leaves, and touches nothing else.
LEMMA MoveKeeps ==
  ASSUME TrackingIInv, NEW t \in Trackers, NEW c \in Call,
         UNCHANGED <<vars, events, shown, told, calls>>,
         faults' \in Nat,
         tracker' = [tracker EXCEPT ![t] = c],
         \/ c = NoCall
         \/ /\ c = [tracker[t] EXCEPT !.pc = "insert"]
            /\ tracker[t].ship \in Shipments /\ Found(tracker[t].ship)
            /\ c.mode = "check" =>
                 \E d \in events[c.ship] :
                   validateTrackingTransition(d.status, c.status, FALSE)
  PROVE  TrackingIInv'
<1>1. IInv'
  BY NextKeeps DEF TrackingIInv
<1>2. TrackingTypeOK'
  BY <1>1 DEF TrackingTypeOK, TrackingIInv, IInv
<1>3. RequestsFound' /\ SnapshotHasEvent'
  BY DEF vars, RequestsFound, SnapshotHasEvent, TrackingIInv, Found
<1>4. CallsOK'
  <2>1. ASSUME ~Stands(t, "idle")' PROVE CallOK(t)'
    <3>1. tracker'[t] = c /\ c.pc # "idle"
      BY <2>1 DEF Stands, TrackingIInv, TrackingTypeOK
    <3>2. c # NoCall
      BY <3>1 DEF NoCall
    <3>3. /\ c.ship = tracker[t].ship /\ c.pc = "insert"
          /\ Found(tracker[t].ship)' /\ c.ship \in Shipments
      BY <3>2 DEF TrackingIInv, TrackingTypeOK, Call, Found, vars
    <3> QED
      BY <3>1, <3>2, <3>3 DEF CallOK
  <2>2. ASSUME NEW u \in Trackers, u # t, ~Stands(u, "idle")'
        PROVE  CallOK(u)'
    BY <2>2, CallStands
    DEF CallsOK, CallOK, Stands, Found, vars, TrackingIInv, TrackingTypeOK
  <2> QED
    BY <2>1, <2>2 DEF CallsOK
<1>5. c.pc \notin {"upsert", "tell"}
  <2>1. CASE c = NoCall
    BY <2>1 DEF NoCall
  <2>2. CASE c = [tracker[t] EXCEPT !.pc = "insert"]
    BY <2>2 DEF TrackingIInv, TrackingTypeOK, Call
  <2> QED
    BY <2>1, <2>2
<1>6. OneCarrier' /\ EventsGrounded' /\ ToldOnce'
  BY <1>5, CarriersStand
<1> QED
  BY <1>1, <1>2, <1>3, <1>4, <1>6 DEF TrackingIInv

LEMMA ValidateKeeps ==
  ASSUME TrackingIInv, NEW t \in Trackers, Validate(t)
  PROVE  TrackingIInv'
<1> DEFINE c == tracker[t]
<1>1. /\ UNCHANGED <<vars, events, shown, told, calls, faults>>
      /\ c \in Call /\ c.pc = "validate" /\ faults \in Nat
      /\ CallOK(t)
  BY DEF Validate, TrackingIInv, TrackingTypeOK, Stands, CallsOK
<1>2. NoCall \in Call
  BY DEF NoCall, Call, Modes, TrackingStatus
<1>3. CASE Leave(t)
  BY <1>1, <1>2, <1>3, MoveKeeps DEF Leave
<1>4. CASE Allowed(t) /\ GoOn(t, "insert")
  <2>1. c.ship \in Shipments /\ Found(c.ship)
    BY <1>1 DEF CallOK
  <2>2. PICK d \in events[c.ship] : d.status = snapshot[c.ship].current
    BY <2>1 DEF TrackingIInv, SnapshotHasEvent
  <2>3. c.mode = "check" =>
          validateTrackingTransition(d.status, c.status, FALSE)
    BY <1>4, <2>2 DEF Allowed
  <2>4. [c EXCEPT !.pc = "insert"] \in Call
    BY <1>1 DEF Call
  <2>5. tracker' = [tracker EXCEPT ![t] = [c EXCEPT !.pc = "insert"]]
    BY <1>4 DEF GoOn, TrackingIInv, TrackingTypeOK
  <2>6. /\ [c EXCEPT !.pc = "insert"].mode = c.mode
        /\ [c EXCEPT !.pc = "insert"].ship = c.ship
        /\ [c EXCEPT !.pc = "insert"].status = c.status
    BY <1>1 DEF Call
  <2> QED
    BY <1>1, <2>1, <2>3, <2>4, <2>5, <2>6, MoveKeeps
<1> QED
  BY <1>3, <1>4 DEF Validate

LEMMA BreakKeeps ==
  ASSUME TrackingIInv, NEW t \in Trackers, Break(t)
  PROVE  TrackingIInv'
<1>1. NoCall \in Call
  BY DEF NoCall, Call, Modes, TrackingStatus
<1>2. faults \in Nat /\ faults' \in Nat
  BY DEF Break, TrackingIInv, TrackingTypeOK
<1> QED
  BY <1>1, <1>2, MoveKeeps DEF Break, Leave

LEMMA InsertKeeps ==
  ASSUME TrackingIInv, NEW t \in Trackers, Insert(t)
  PROVE  TrackingIInv'
<1> USE KeysAssumption
<1> DEFINE c == tracker[t]
           e == EventOf(c)
           n == [c EXCEPT !.pc = "upsert"]
<1>1. /\ UNCHANGED <<vars, shown, told, calls, faults>>
      /\ c \in Call /\ c.pc = "insert" /\ faults \in Nat
      /\ CallOK(t)
  BY DEF Insert, TrackingIInv, TrackingTypeOK, Stands, CallsOK
<1>2. CASE Leave(t) /\ UNCHANGED events
  <2>1. NoCall \in Call
    BY DEF NoCall, Call, Modes, TrackingStatus
  <2> QED
    BY <1>1, <1>2, <2>1, MoveKeeps DEF Leave
<1>3. ASSUME ~(c.key # None /\ Recorded(c.ship, c.key)),
             GoOn(t, "upsert"),
             events' = [events EXCEPT ![c.ship] = @ \cup {e}]
      PROVE  TrackingIInv'
  <2>1. /\ c.ship \in Shipments /\ Found(c.ship)
        /\ e \in Event /\ n \in Call
        /\ n.pc = "upsert" /\ n.ship = c.ship /\ n.key = c.key
        /\ EventOf(n) = e
        /\ e.key = c.key /\ e.status = c.status
        /\ e.checked <=> c.mode = "check"
    BY <1>1 DEF CallOK, EventOf, Event, Call
  <2>2. /\ tracker' = [tracker EXCEPT ![t] = n]
        /\ tracker'[t] = n
        /\ \A u \in Trackers : u # t => tracker'[u] = tracker[u]
    BY <1>3 DEF GoOn, TrackingIInv, TrackingTypeOK
  <2>3. /\ events'[c.ship] = events[c.ship] \cup {e}
        /\ \A s \in Shipments : s # c.ship => events'[s] = events[s]
        /\ \A s \in Shipments : events[s] \subseteq events'[s]
    BY <1>3, <2>1 DEF TrackingIInv, TrackingTypeOK
  <2>4. IInv'
    BY <1>1, NextKeeps DEF TrackingIInv
  <2>5. TrackingTypeOK'
    BY <1>1, <1>3, <2>1, <2>2, <2>4 DEF TrackingTypeOK, TrackingIInv, IInv
  <2>6. RequestsFound' /\ SnapshotHasEvent'
    BY <1>1, <2>3
    DEF vars, RequestsFound, SnapshotHasEvent, TrackingIInv, Found
  <2>7. CallsOK'
    <3>1. CallOK(t)'
      <4>1. EventOf(tracker[t])' = e
        BY <2>1, <2>2 DEF EventOf
      <4>2. Found(tracker[t].ship)' /\ e \in events'[c.ship]
        BY <1>1, <2>1, <2>2, <2>3 DEF Found, vars
      <4> QED
        BY <2>1, <2>2, <4>1, <4>2 DEF CallOK
    <3>2. ASSUME NEW u \in Trackers, u # t, ~Stands(u, "idle")'
          PROVE  CallOK(u)'
      BY <1>1, <2>2, <2>3, <3>2, CallStands
      DEF CallsOK, CallOK, Stands, Found, vars, TrackingIInv
    <3> QED
      BY <3>1, <3>2 DEF CallsOK
  <2>8. OneCarrier'
    <3> SUFFICES ASSUME NEW s \in Shipments, NEW k \in Keys
                 PROVE  /\ told[s][k] > 0 => Recorded(s, k)'
                        /\ \A u \in Trackers : Carries(u, s, k)' =>
                             /\ told[s][k] = 0
                             /\ \A v \in Trackers : Carries(v, s, k)' => v = u
      BY <1>1 DEF OneCarrier
    <3>1. told[s][k] > 0 => Recorded(s, k)'
      BY <2>3 DEF TrackingIInv, OneCarrier, Recorded
    <3>2. \A u \in Trackers : u # t =>
            (Carries(u, s, k)' <=> Carries(u, s, k))
      BY <2>2 DEF Carries
    <3>3. CASE s = c.ship /\ k = c.key
      <4>1. ~Recorded(s, k)
        BY <1>3, <3>3
      <4>2. told[s][k] = 0
        BY <4>1 DEF TrackingIInv, OneCarrier, TrackingTypeOK
      <4>3. \A u \in Trackers : ~Carries(u, s, k)
        <5> SUFFICES ASSUME NEW u \in Trackers, Carries(u, s, k)
                     PROVE  FALSE
          OBVIOUS
        <5>1. EventOf(tracker[u]) \in events[s]
          BY DEF TrackingIInv, CallsOK, CallOK, Stands, Carries
        <5>2. EventOf(tracker[u]).key = k
          BY DEF EventOf, Carries
        <5> QED
          BY <4>1, <5>1, <5>2 DEF Recorded
      <4> QED
        BY <3>1, <3>2, <4>2, <4>3
    <3>4. CASE ~(s = c.ship /\ k = c.key)
      <4>1. ~Carries(t, s, k)'
        BY <2>1, <2>2, <3>4 DEF Carries
      <4> QED
        BY <3>1, <3>2, <4>1 DEF TrackingIInv, OneCarrier
    <3> QED
      BY <3>3, <3>4
  <2>9. EventsGrounded'
    <3> SUFFICES ASSUME NEW s \in Shipments, NEW f \in events'[s], f.checked
                 PROVE  \E d \in events'[s] :
                          validateTrackingTransition(d.status, f.status, FALSE)
      BY DEF EventsGrounded
    <3>1. CASE f \in events[s]
      BY <2>3, <3>1 DEF TrackingIInv, EventsGrounded
    <3>2. CASE f \notin events[s]
      <4>1. s = c.ship /\ f = e
        BY <2>1, <2>3, <3>2
      <4>2. c.mode = "check"
        BY <2>1, <4>1
      <4> QED
        BY <1>1, <2>1, <2>3, <4>1, <4>2 DEF CallOK
    <3> QED
      BY <3>1, <3>2
  <2>10. ToldOnce'
    BY <1>1 DEF ToldOnce, TrackingIInv
  <2> QED
    BY <2>4, <2>5, <2>6, <2>7, <2>8, <2>9, <2>10 DEF TrackingIInv
<1> QED
  BY <1>2, <1>3 DEF Insert

LEMMA UpsertKeeps ==
  ASSUME TrackingIInv, NEW t \in Trackers, Upsert(t)
  PROVE  TrackingIInv'
<1> DEFINE c == tracker[t]
           n == [c EXCEPT !.pc = "tell"]
           row == [current |-> c.status, exception |-> c.status = "EXCEPTION"]
<1>1. /\ UNCHANGED <<shipment, timeline, lastOutbox, announced, handler,
                     events, told, calls, faults>>
      /\ c \in Call /\ c.pc = "upsert" /\ CallOK(t)
      /\ snapshot' = [snapshot EXCEPT ![c.ship] = row]
      /\ shown' = [shown EXCEPT ![c.ship] = @ \cup ({c.key} \ {None})]
      /\ tracker' = [tracker EXCEPT ![t] = n]
  BY DEF Upsert, TrackingIInv, TrackingTypeOK, Stands, CallsOK, GoOn
<1>2. /\ c.ship \in Shipments /\ n \in Call
      /\ n.pc = "tell" /\ n.ship = c.ship /\ n.key = c.key
      /\ n.mode = c.mode /\ EventOf(n) = EventOf(c)
      /\ c.key \in Keys \cup {None} /\ c.status \in TrackingStatus
      /\ EventOf(c) \in events[c.ship] /\ EventOf(c).status = c.status
  BY <1>1 DEF CallOK, EventOf, Call
<1>3. IInv'
  <2>1. TypeOK'
    <3>1. row \in [current   : TrackingStatus \cup {None},
                   exception : BOOLEAN]
      BY <1>2
    <3> QED
      BY <1>1, <1>2, <3>1 DEF IInv, TypeOK, TrackingIInv
  <2> QED
    BY <1>1, <2>1
    DEF TrackingIInv, IInv, StatusInTimeline, HandlersOK, CheckedOK, Grounded,
        GroundedIn, JumpTargets, DeliveredIsDated, AnnouncedWasCommitted,
        PaidWasDelivered, Found
<1>4. TrackingTypeOK'
  BY <1>1, <1>2, <1>3 DEF TrackingTypeOK, TrackingIInv, IInv
<1>5. RequestsFound'
  BY <1>1 DEF RequestsFound, TrackingIInv, Found
<1>6. SnapshotHasEvent'
  <2> SUFFICES ASSUME NEW s \in Shipments, Found(s)
               PROVE  \E e \in events[s] : e.status = snapshot'[s].current
    BY <1>1 DEF SnapshotHasEvent, Found
  <2>1. CASE s = c.ship
    <3>1. snapshot'[s].current = c.status
      BY <1>1, <2>1 DEF TrackingIInv, IInv, TypeOK
    <3> QED
      BY <1>2, <2>1, <3>1
  <2>2. CASE s # c.ship
    BY <1>1, <2>2 DEF TrackingIInv, IInv, TypeOK, SnapshotHasEvent
  <2> QED
    BY <2>1, <2>2
<1>7. CallsOK'
  <2>1. CallOK(t)'
    BY <1>1, <1>2 DEF CallOK, Found, EventOf, TrackingIInv, TrackingTypeOK
  <2>2. ASSUME NEW u \in Trackers, u # t, ~Stands(u, "idle")'
        PROVE  CallOK(u)'
    BY <1>1, <2>2, CallStands
    DEF CallsOK, CallOK, Stands, Found, TrackingIInv, TrackingTypeOK
  <2> QED
    BY <2>1, <2>2 DEF CallsOK
<1>8. OneCarrier' /\ EventsGrounded' /\ ToldOnce'
  BY <1>1, <1>2, CarriersStand
<1> QED
  BY <1>3, <1>4, <1>5, <1>6, <1>7, <1>8 DEF TrackingIInv

LEMMA TellKeeps ==
  ASSUME TrackingIInv, NEW t \in Trackers, Tell(t)
  PROVE  TrackingIInv'
<1> DEFINE c == tracker[t]
<1>1. /\ UNCHANGED <<vars, events, shown, calls, faults>>
      /\ c \in Call /\ c.pc = "tell" /\ CallOK(t)
      /\ tracker' = [tracker EXCEPT ![t] = NoCall]
  BY DEF Tell, TrackingIInv, TrackingTypeOK, Stands, CallsOK, Leave
<1>2. NoCall \in Call
  BY DEF NoCall, Call, Modes, TrackingStatus
<1>3. CASE c.key = None
  <2>1. told' = told /\ faults \in Nat
    BY <1>3 DEF Tell, TrackingIInv, TrackingTypeOK
  <2> QED
    BY <1>1, <1>2, <2>1, MoveKeeps
<1>4. CASE c.key # None
  <2>1. /\ c.ship \in Shipments /\ c.key \in Keys
        /\ EventOf(c) \in events[c.ship] /\ EventOf(c).key = c.key
    BY <1>1, <1>4 DEF CallOK, Call, EventOf
  <2>2. told' = [told EXCEPT ![c.ship][c.key] = @ + 1]
    BY <1>4 DEF Tell
  <2>3. told[c.ship][c.key] = 0
    BY <1>1, <2>1 DEF TrackingIInv, OneCarrier, Carries
  <2>4. /\ told'[c.ship][c.key] = 1
        /\ \A s \in Shipments, k \in Keys :
             ~(s = c.ship /\ k = c.key) => told'[s][k] = told[s][k]
    BY <2>1, <2>2, <2>3 DEF TrackingIInv, TrackingTypeOK
  <2>5. IInv'
    BY <1>1, NextKeeps DEF TrackingIInv
  <2>6. TrackingTypeOK'
    BY <1>1, <1>2, <2>1, <2>2, <2>5 DEF TrackingTypeOK, TrackingIInv, IInv
  <2>7. RequestsFound' /\ SnapshotHasEvent'
    BY <1>1 DEF vars, RequestsFound, SnapshotHasEvent, TrackingIInv, Found
  <2>8. CallsOK'
    <3>1. Stands(t, "idle")'
      BY <1>1 DEF Stands, NoCall, TrackingIInv, TrackingTypeOK
    <3>2. ASSUME NEW u \in Trackers, u # t, ~Stands(u, "idle")'
          PROVE  CallOK(u)'
      BY <1>1, <3>2, CallStands
      DEF CallsOK, CallOK, Stands, Found, vars, TrackingIInv, TrackingTypeOK
    <3> QED
      BY <3>1, <3>2 DEF CallsOK
  <2>9. OneCarrier'
    <3>1. \A u \in Trackers, s \in Shipments, k \in Keys :
            Carries(u, s, k)' => Carries(u, s, k) /\ u # t
      BY <1>1 DEF Carries, NoCall, TrackingIInv, TrackingTypeOK
    <3>2. Carries(t, c.ship, c.key)
      BY <1>1 DEF Carries
    <3>3. \A u \in Trackers : Carries(u, c.ship, c.key) => u = t
      BY <2>1, <3>2 DEF TrackingIInv, OneCarrier
    <3>4. Recorded(c.ship, c.key)
      BY <2>1 DEF Recorded
    <3> SUFFICES ASSUME NEW s \in Shipments, NEW k \in Keys
                 PROVE  /\ told'[s][k] > 0 => Recorded(s, k)
                        /\ \A u \in Trackers : Carries(u, s, k)' =>
                             /\ told'[s][k] = 0
                             /\ \A v \in Trackers : Carries(v, s, k)' => v = u
      BY <1>1 DEF OneCarrier, Recorded
    <3>5. CASE s = c.ship /\ k = c.key
      <4>1. Recorded(s, k) /\ \A u \in Trackers : ~Carries(u, s, k)'
        BY <3>1, <3>3, <3>4, <3>5
      <4> QED
        BY <4>1
    <3>6. CASE ~(s = c.ship /\ k = c.key)
      BY <2>4, <3>1, <3>6 DEF TrackingIInv, OneCarrier
    <3> QED
      BY <3>5, <3>6
  <2>10. ToldOnce'
    <3> SUFFICES ASSUME NEW s \in Shipments, NEW k \in Keys
                 PROVE  told'[s][k] <= 1
      BY DEF ToldOnce
    <3> QED
      BY <2>4 DEF TrackingIInv, ToldOnce
  <2>11. EventsGrounded'
    BY <1>1 DEF EventsGrounded, TrackingIInv
  <2> QED
    BY <2>5, <2>6, <2>7, <2>8, <2>9, <2>10, <2>11 DEF TrackingIInv
<1> QED
  BY <1>3, <1>4

\* What the shipment handlers do to what the calls rely on.
StepEffect ==
  /\ \A s \in Shipments : Found(s) => Found(s)'
  /\ events' \in [Shipments -> SUBSET Event]
  /\ \A s \in Shipments :
       /\ events[s] \subseteq events'[s]
       /\ \A e \in events'[s] \ events[s] : e.key = None /\ ~e.checked
  /\ RequestsFound'
  /\ SnapshotHasEvent'

LEMMA RecordsTyped ==
  ASSUME TrackingIInv, NEW s \in Shipments, NEW x \in TrackingStatus,
         Records(s, x)
  PROVE  /\ events' \in [Shipments -> SUBSET Event]
         /\ \A r \in Shipments :
              /\ events[r] \subseteq events'[r]
              /\ \A e \in events'[r] \ events[r] : e.key = None /\ ~e.checked
         /\ \E e \in events'[s] : e.status = x
<1> DEFINE e == [status |-> x, key |-> None, checked |-> FALSE]
<1>1. e \in Event
  BY DEF Event
<1>2. events' = [events EXCEPT ![s] = @ \cup {e}]
  BY DEF Records
<1>3. events \in [Shipments -> SUBSET Event]
  BY DEF TrackingIInv, TrackingTypeOK
<1>4. /\ events' \in [Shipments -> SUBSET Event]
      /\ events'[s] = events[s] \cup {e}
      /\ \A r \in Shipments : r # s => events'[r] = events[r]
  BY <1>1, <1>2, <1>3
<1>5. e.status = x /\ e.key = None /\ ~e.checked
  OBVIOUS
<1> HIDE DEF e
<1> QED
  BY <1>4, <1>5

LEMMA CreateEffect ==
  ASSUME TrackingIInv, NEW s \in Shipments, CreateShipment(s),
         Records(s, "CREATED")
  PROVE  StepEffect
<1>1. "CREATED" \in TrackingStatus
  BY DEF TrackingStatus
<1>2. /\ \A r \in Shipments : Found(r)' => Found(r) \/ r = s
      /\ \A r \in Shipments : Found(r) => Found(r)'
  BY DEF CreateShipment, Found, None, TrackingIInv, IInv, TypeOK
<1>3. /\ snapshot'[s].current = "CREATED"
      /\ \A r \in Shipments : r # s => snapshot'[r] = snapshot[r]
      /\ handler' = handler
  BY DEF CreateShipment, TrackingIInv, IInv, TypeOK
<1>4. RequestsFound'
  BY <1>2, <1>3 DEF RequestsFound, TrackingIInv, IInv, HandlersOK
<1>5. SnapshotHasEvent'
  BY <1>1, <1>2, <1>3, RecordsTyped DEF SnapshotHasEvent, TrackingIInv
<1> QED
  BY <1>1, <1>2, <1>4, <1>5, RecordsTyped DEF StepEffect

LEMMA ReadEffect ==
  ASSUME TrackingIInv, NEW h \in Handlers, Read(h), UNCHANGED events
  PROVE  StepEffect
<1>1. /\ shipment' = shipment /\ snapshot' = snapshot
      /\ handler' = [handler EXCEPT ![h] = handler'[h]]
  BY ReadIsOK DEF TrackingIInv
<1>2. Found(handler'[h].ship)
  BY DEF Read, Begin, BeginPortal, BeginCancel, BeginAdvance, BeginPod,
         BeginFailed, BeginAssign, TrackingIInv, IInv, TypeOK
<1>3. RequestsFound'
  BY <1>1, <1>2 DEF RequestsFound, Found, TrackingIInv, IInv, TypeOK
<1> QED
  BY <1>1, <1>3
  DEF StepEffect, SnapshotHasEvent, Found, TrackingIInv, TrackingTypeOK

LEMMA LeaveEffect ==
  ASSUME TrackingIInv, NEW h \in Handlers, Announce(h) \/ Abort(h),
         UNCHANGED events
  PROVE  StepEffect
<1>1. /\ shipment' = shipment /\ snapshot' = snapshot
      /\ handler' = [handler EXCEPT ![h] = Idle]
  BY DEF Announce, Abort, Return
<1>2. RequestsFound'
  BY <1>1 DEF RequestsFound, Found, Idle, TrackingIInv, IInv, TypeOK
<1> QED
  BY <1>1, <1>2
  DEF StepEffect, SnapshotHasEvent, Found, TrackingIInv, TrackingTypeOK

\* After a commit the shipment, and those of all requests, are still found.
LEMMA CommitFound ==
  ASSUME TrackingIInv, NEW h \in Handlers, Commit(h)
  PROVE  /\ handler[h].ship \in Shipments
         /\ handler[h].target \in ShipmentStatus
         /\ Found(handler[h].ship)
         /\ \A s \in Shipments : Found(s)' <=> Found(s)
         /\ RequestsFound'
<1> DEFINE s == handler[h].ship
           target == handler[h].target
<1>1. CommitEffect(h, s, target)
  BY CommitHasEffect DEF TrackingIInv
<1>2. /\ s \in Shipments /\ target \in ShipmentStatus /\ target # None
      /\ Found(s)
  BY <1>1, TransitionsTyped
  DEF CommitEffect, TrackingIInv, IInv, HandlersOK, CheckedOK, RequestsFound
<1>3. /\ shipment'[s].status = target
      /\ \A r \in Shipments : r # s => shipment'[r] = shipment[r]
  BY <1>1, <1>2 DEF CommitEffect, TrackingIInv, IInv, TypeOK
<1>4. \A r \in Shipments : (shipment'[r].status # None) <=> Found(r)
  BY <1>2, <1>3 DEF Found
<1>5. \A g \in Handlers : handler'[g].pc # "idle" =>
        /\ handler[g].pc # "idle"
        /\ handler'[g].ship = handler[g].ship
  <2>1. \A g \in Handlers : g # h => handler'[g] = handler[g]
    BY <1>1 DEF CommitEffect, TrackingIInv, IInv, TypeOK
  <2>2. handler'[h].pc # "idle" => handler'[h].ship = s
    <3>1. handler \in [Handlers -> Request]
      BY DEF TrackingIInv, IInv, TypeOK
    <3>2. CASE handler' = [handler EXCEPT ![h] = Idle]
      BY <3>1, <3>2 DEF Idle
    <3>3. CASE handler' = [handler EXCEPT ![h] =
                 [Idle EXCEPT !.pc = "announcing", !.ship = s,
                              !.target = target]]
      BY <3>1, <3>3 DEF Idle
    <3> QED
      BY <1>1, <3>2, <3>3 DEF CommitEffect
  <2> QED
    BY <1>1, <2>1, <2>2 DEF CommitEffect
<1>6. RequestsFound'
  BY <1>4, <1>5 DEF RequestsFound, Found, TrackingIInv, IInv, HandlersOK
<1> QED
  BY <1>2, <1>4, <1>6 DEF Found

LEMMA ShownCommitEffect ==
  ASSUME TrackingIInv, NEW h \in Handlers,
         CommitPortal(h) \/ CommitCancel(h),
         Records(handler[h].ship, legacyToTrackingStatus(handler[h].target))
  PROVE  StepEffect
<1> DEFINE s == handler[h].ship
           x == legacyToTrackingStatus(handler[h].target)
<1>1. /\ s \in Shipments /\ handler[h].target \in ShipmentStatus
      /\ \A r \in Shipments : Found(r)' <=> Found(r)
      /\ RequestsFound'
  BY CommitFound DEF Commit
<1>2. x \in TrackingStatus
  BY <1>1, TrackingTyped
<1>3. /\ snapshot'[s].current = x
      /\ \A r \in Shipments : r # s => snapshot'[r] = snapshot[r]
  <2>1. \E exception :
          snapshot' = [snapshot EXCEPT ![s] =
                         [current |-> x, exception |-> exception]]
    BY DEF CommitPortal, CommitCancel, WriteSnapshot
  <2> QED
    BY <1>1, <2>1 DEF TrackingIInv, IInv, TypeOK
<1>4. /\ events' \in [Shipments -> SUBSET Event]
      /\ \A r \in Shipments :
           /\ events[r] \subseteq events'[r]
           /\ \A e \in events'[r] \ events[r] : e.key = None /\ ~e.checked
      /\ \E e \in events'[s] : e.status = x
  BY <1>1, <1>2, RecordsTyped
<1>5. SnapshotHasEvent'
  BY <1>1, <1>3, <1>4 DEF SnapshotHasEvent, TrackingIInv
<1> QED
  BY <1>1, <1>4, <1>5 DEF StepEffect

LEMMA OtherCommitEffect ==
  ASSUME TrackingIInv, NEW h \in Handlers, UNCHANGED events,
         \/ CommitAdvance(h) \/ CommitPod(h)
         \/ CommitFailed(h) \/ CommitAssign(h)
  PROVE  StepEffect
<1>1. /\ \A r \in Shipments : Found(r)' <=> Found(r)
      /\ RequestsFound'
  BY CommitFound DEF Commit
<1>2. snapshot' = snapshot
  BY DEF CommitAdvance, CommitPod, CommitFailed, CommitAssign
<1> QED
  BY <1>1, <1>2
  DEF StepEffect, SnapshotHasEvent, TrackingIInv, TrackingTypeOK

LEMMA ShipmentKeeps ==
  ASSUME TrackingIInv, ShipmentStep
  PROVE  TrackingIInv'
<1>1. UNCHANGED <<shown, told, tracker, calls, faults>>
  BY DEF ShipmentStep, Booking, Asking, Answering, trackingVars
<1>2. IInv'
  BY NextKeeps
  DEF TrackingIInv, ShipmentStep, Booking, Asking, Answering, Next, Commit
<1>3. StepEffect
  BY CreateEffect, ReadEffect, LeaveEffect, ShownCommitEffect,
     OtherCommitEffect
  DEF ShipmentStep, Booking, Asking, Answering, trackingVars
<1>4. TrackingTypeOK'
  BY <1>1, <1>2, <1>3 DEF StepEffect, TrackingTypeOK, TrackingIInv, IInv
<1>5. CallsOK'
  <2> SUFFICES ASSUME NEW t \in Trackers, ~Stands(t, "idle")'
               PROVE  CallOK(t)'
    BY DEF CallsOK
  <2>1. CallOK(t)
    BY <1>1 DEF TrackingIInv, CallsOK, Stands
  <2>2. /\ events[tracker[t].ship] \subseteq events'[tracker[t].ship]
        /\ Found(tracker[t].ship)'
    BY <1>1, <1>3, <2>1 DEF CallOK, StepEffect
  <2> QED
    BY <1>1, <2>1, <2>2, CallStands
<1>6. OneCarrier'
  <2>1. \A s \in Shipments, k \in Keys : Recorded(s, k) => Recorded(s, k)'
    BY <1>3 DEF StepEffect, Recorded
  <2>2. \A t \in Trackers, s \in Shipments, k \in Keys :
          Carries(t, s, k)' <=> Carries(t, s, k)
    BY <1>1 DEF Carries
  <2> QED
    BY <1>1, <2>1, <2>2 DEF OneCarrier, TrackingIInv
<1>7. EventsGrounded'
  <2> SUFFICES ASSUME NEW s \in Shipments, NEW e \in events'[s], e.checked
               PROVE  \E d \in events'[s] :
                        validateTrackingTransition(d.status, e.status, FALSE)
    BY DEF EventsGrounded
  <2>1. e \in events[s] /\ events[s] \subseteq events'[s]
    BY <1>3 DEF StepEffect
  <2> QED
    BY <2>1 DEF TrackingIInv, EventsGrounded
<1>8. ToldOnce'
  BY <1>1 DEF ToldOnce, TrackingIInv
<1>9. RequestsFound' /\ SnapshotHasEvent'
  BY <1>3 DEF StepEffect
<1> QED
  BY <1>2, <1>4, <1>5, <1>6, <1>7, <1>8, <1>9 DEF TrackingIInv

LEMMA TrackKeeps ==
  ASSUME TrackingIInv, NEW t \in Trackers, Track(t)
  PROVE  TrackingIInv'
<1>1. ASSUME NEW s \in Shipments, NEW x \in Reports,
             \/ \E mode \in Modes : ReportByTenant(t, s, x, mode)
             \/ \E k \in Keys \cup {None} : ReportByDriver(t, s, x, k)
             \/ ReportBySystem(t, s, x)
      PROVE  TrackingIInv'
  <2>1. x \in TrackingStatus
    BY ReportsAssumption
  <2>2. \E k \in Keys \cup {None}, mode \in Modes : Arrive(t, s, x, k, mode)
    BY <1>1 DEF ReportByTenant, ReportByDriver, ReportBySystem, Modes
  <2> QED
    BY <2>1, <2>2, ArriveKeeps
<1>2. ASSUME NEW s \in Shipments, NEW k \in Keys \cup {None}, Ping(t, s, k)
      PROVE  TrackingIInv'
  <2>1. Arrive(t, s, snapshot[s].current, k, "skip") /\ "skip" \in Modes
    BY <1>2 DEF Ping, Modes
  <2>2. snapshot[s].current \in TrackingStatus
    BY <2>1
    DEF Arrive, TrackingIInv, SnapshotHasEvent, TrackingTypeOK, Event
  <2> QED
    BY <2>1, <2>2, ArriveKeeps
<1> QED
  BY <1>1, <1>2, ValidateKeeps, InsertKeeps, UpsertKeeps, TellKeeps,
     BreakKeeps DEF Track, Reporting, Recording

LEMMA TrackingInvariance ==
  TrackingSpec => []TrackingIInv
<1>1. TrackingIInv /\ [TrackingNext]_<<vars, trackingVars>> => TrackingIInv'
  <2> SUFFICES ASSUME TrackingIInv, [TrackingNext]_<<vars, trackingVars>>
               PROVE  TrackingIInv'
    OBVIOUS
  <2>1. CASE TrackingNext
    BY <2>1, ShipmentKeeps, TrackKeeps DEF TrackingNext
  <2>2. CASE UNCHANGED <<vars, trackingVars>>
    <3>1. IInv'
      BY <2>2, NextKeeps DEF TrackingIInv
    <3>2. TrackingTypeOK'
      BY <2>2, <3>1 DEF trackingVars, TrackingTypeOK, TrackingIInv, IInv
    <3>3. RequestsFound' /\ SnapshotHasEvent'
      BY <2>2
      DEF vars, trackingVars, TrackingIInv, RequestsFound, SnapshotHasEvent,
          Found
    <3>4. CallsOK'
      BY <2>2
      DEF vars, trackingVars, TrackingIInv, CallsOK, CallOK, Stands, EventOf,
          Found
    <3>5. OneCarrier'
      BY <2>2 DEF trackingVars, TrackingIInv, OneCarrier, Carries, Recorded
    <3>6. EventsGrounded' /\ ToldOnce'
      BY <2>2 DEF trackingVars, TrackingIInv, EventsGrounded, ToldOnce
    <3> QED
      BY <3>1, <3>2, <3>3, <3>4, <3>5, <3>6 DEF TrackingIInv
  <2> QED
    BY <2>1, <2>2
<1> QED
  BY <1>1, TrackingInitIsOK, PTL DEF TrackingSpec

\* Whatever calls and shipment handlers overlap, every validated event has
\* an event of its shipment that it may follow.
THEOREM EventsAreGrounded == TrackingSpec => []EventsGrounded
BY TrackingInvariance, PTL DEF TrackingIInv

\* However often and at once the event of a key is sent, it is announced once.
THEOREM EventsToldOnce == TrackingSpec => []ToldOnce
BY TrackingInvariance, PTL DEF TrackingIInv

-----------------------------------------------------------------------------
(* The exception flag, with all who write the snapshot.                     *)

\* Before the booking the flag is down.
FlagStartsDown ==
  \A s \in Shipments : ~Found(s) => ~snapshot[s].exception

\* A step that leaves the flags right for the shipments that are there.
LEMMA FlagsKept ==
  ASSUME TrackingIInv, FlagMatchesSnapshot, FlagStartsDown,
         \A s \in Shipments : Found(s) => Found(s)',
         \A s \in Shipments :
           \/ snapshot'[s] = snapshot[s]
           \/ /\ Found(s)
              /\ snapshot'[s].exception <=> snapshot'[s].current = "EXCEPTION"
           \/ Found(s) /\ snapshot'[s].current = "CANCELLED"
  PROVE  FlagMatchesSnapshot' /\ FlagStartsDown'
BY DEF FlagMatchesSnapshot, FlagStartsDown

\* The portal sets the flag with the status, the cancellation leaves it be.
LEMMA CommitFlags ==
  ASSUME TrackingIInv, FlagMatchesSnapshot, FlagStartsDown,
         NEW h \in Handlers, Commit(h)
  PROVE  FlagMatchesSnapshot' /\ FlagStartsDown'
<1> DEFINE s == handler[h].ship
<1>1. /\ s \in Shipments /\ handler[h].target \in ShipmentStatus
      /\ Found(s)
      /\ \A r \in Shipments : Found(r)' <=> Found(r)
  BY CommitFound
<1>2. \A row : snapshot' = [snapshot EXCEPT ![s] = row] =>
        /\ snapshot'[s] = row
        /\ \A r \in Shipments : r # s => snapshot'[r] = snapshot[r]
  BY <1>1 DEF TrackingIInv, IInv, TypeOK
<1>3. CASE CommitPortal(h)
  <2>1. snapshot' = [snapshot EXCEPT ![s] =
          [current   |-> legacyToTrackingStatus(handler[h].target),
           exception |-> handler[h].target = "EXCEPTION"]]
    BY <1>3 DEF CommitPortal, WriteSnapshot
  <2>2. legacyToTrackingStatus(handler[h].target) = "EXCEPTION"
          <=> handler[h].target = "EXCEPTION"
    BY DEF legacyToTrackingStatus
  <2>3. /\ snapshot'[s].exception <=> snapshot'[s].current = "EXCEPTION"
        /\ \A r \in Shipments : r # s => snapshot'[r] = snapshot[r]
    BY <1>2, <2>1, <2>2
  <2> QED BY <1>1, <2>3, FlagsKept
<1>4. CASE CommitCancel(h)
  <2>1. handler[h].target = "CANCELLED"
    BY <1>4 DEF CommitCancel, Commits, TrackingIInv, IInv, HandlersOK, CheckedOK
  <2>2. snapshot' = [snapshot EXCEPT ![s] =
          [current   |-> "CANCELLED",
           exception |-> snapshot[s].exception]]
    BY <1>4, <2>1 DEF CommitCancel, WriteSnapshot, legacyToTrackingStatus
  <2>3. /\ snapshot'[s].current = "CANCELLED"
        /\ \A r \in Shipments : r # s => snapshot'[r] = snapshot[r]
    BY <1>2, <2>2
  <2> QED BY <1>1, <2>3, FlagsKept
<1>5. CASE snapshot' = snapshot
  BY <1>1, <1>5, FlagsKept
<1> QED
  BY <1>3, <1>4, <1>5
  DEF Commit, CommitAdvance, CommitPod, CommitFailed, CommitAssign

\* Whatever the shipment handlers and the tracking calls write, and however
\* they overlap, the exception flag is up while the snapshot says EXCEPTION,
\* and otherwise only on a cancelled shipment (shipments.routes.ts, DELETE).
THEOREM FlagFollowsSnapshot == TrackingSpec => []FlagMatchesSnapshot
<1> DEFINE Inv == FlagMatchesSnapshot /\ FlagStartsDown
<1>1. TrackingInit => Inv
  BY DEF TrackingInit, Init, FlagMatchesSnapshot, FlagStartsDown, None
<1>2. TrackingIInv /\ Inv /\ [TrackingNext]_<<vars, trackingVars>> => Inv'
  <2> SUFFICES ASSUME TrackingIInv, Inv,
                      [TrackingNext]_<<vars, trackingVars>>
               PROVE  Inv'
    OBVIOUS
  <2>1. CASE shipment' = shipment /\ snapshot' = snapshot
    BY <2>1 DEF FlagMatchesSnapshot, FlagStartsDown, Found
  <2>2. ASSUME NEW s \in Shipments, CreateShipment(s) PROVE Inv'
    <3>1. /\ snapshot'[s].current = "CREATED"
          /\ snapshot'[s].exception = snapshot[s].exception
          /\ \A r \in Shipments : r # s => snapshot'[r] = snapshot[r]
      BY <2>2 DEF CreateShipment, TrackingIInv, IInv, TypeOK
    <3>2. /\ ~Found(s)
          /\ \A r \in Shipments : r # s => Found(r)' = Found(r)
      BY <2>2 DEF CreateShipment, Found, TrackingIInv, IInv, TypeOK
    <3> QED
      BY <3>1, <3>2 DEF FlagMatchesSnapshot, FlagStartsDown
  <2>3. ASSUME NEW h \in Handlers, Commit(h) PROVE Inv'
    BY <2>3, CommitFlags
  <2>4. ASSUME NEW t \in Trackers, Upsert(t) PROVE Inv'
    <3> DEFINE c == tracker[t]
    <3>1. /\ c.ship \in Shipments /\ Found(c.ship)
          /\ shipment' = shipment
          /\ snapshot' = [snapshot EXCEPT ![c.ship] =
               [current |-> c.status, exception |-> c.status = "EXCEPTION"]]
      BY <2>4 DEF Upsert, TrackingIInv, CallsOK, CallOK, Stands
    <3>2. /\ snapshot'[c.ship].exception
               <=> snapshot'[c.ship].current = "EXCEPTION"
          /\ \A r \in Shipments : r # c.ship => snapshot'[r] = snapshot[r]
      BY <3>1 DEF TrackingIInv, IInv, TypeOK
    <3> QED
      BY <3>1, <3>2, FlagsKept DEF Found
  <2>5. ASSUME NEW h \in Handlers, Read(h) \/ Announce(h) \/ Abort(h)
        PROVE  Inv'
    <3>1. shipment' = shipment /\ snapshot' = snapshot
      BY <2>5, ReadIsOK DEF TrackingIInv, Announce, Abort
    <3> QED BY <2>1, <3>1
  <2>6. ASSUME NEW t \in Trackers, Track(t), ~Upsert(t) PROVE Inv'
    <3>1. UNCHANGED vars
      BY <2>6
      DEF Track, Reporting, Recording, ReportByTenant, ReportByDriver,
          ReportBySystem, Ping, Arrive, Validate, Insert, Tell, Break
    <3> QED BY <2>1, <3>1 DEF vars
  <2>7. CASE UNCHANGED <<vars, trackingVars>>
    BY <2>1, <2>7 DEF vars
  <2> QED
    BY <2>2, <2>3, <2>4, <2>5, <2>6, <2>7
    DEF TrackingNext, ShipmentStep, Booking, Asking, Answering, Commit
<1> QED
  BY <1>1, <1>2, TrackingInvariance, PTL DEF TrackingSpec

-----------------------------------------------------------------------------
(* Which events stay hidden: only a call that breaks after its insert adds  *)
(* one.                                                                     *)

LEMMA HiddenGrows ==
  ASSUME TrackingIInv, [TrackingNext]_<<vars, trackingVars>>
  PROVE  \/ Hidden' \subseteq Hidden /\ faults' = faults
         \/ /\ faults' = faults + 1
            /\ \E p : Hidden' \subseteq Hidden \cup {p}
<1> USE KeysAssumption
<1>1. CASE UNCHANGED <<vars, trackingVars>>
  BY <1>1 DEF trackingVars, Hidden, Recorded, Stands
<1>2. CASE ShipmentStep
  <2>1. UNCHANGED <<shown, told, tracker, calls, faults>>
    BY <1>2 DEF ShipmentStep, Booking, Asking, Answering, trackingVars
  <2>2. StepEffect
    BY <1>2, CreateEffect, ReadEffect, LeaveEffect, ShownCommitEffect,
       OtherCommitEffect
    DEF ShipmentStep, Booking, Asking, Answering, trackingVars
  <2>3. \A s \in Shipments, k \in Keys : Recorded(s, k)' => Recorded(s, k)
    BY <2>2 DEF StepEffect, Recorded
  <2> QED
    BY <2>1, <2>3 DEF Hidden, Stands
<1>3. ASSUME NEW t \in Trackers, Track(t)
      PROVE  \/ Hidden' \subseteq Hidden /\ faults' = faults
             \/ /\ faults' = faults + 1
                /\ \E p : Hidden' \subseteq Hidden \cup {p}
  <2> DEFINE c == tracker[t]
             q == <<c.ship, c.key>>
  <2>0. \A n : \A u \in Trackers : tracker' = [tracker EXCEPT ![t] = n] =>
          /\ tracker'[t] = n
          /\ u # t => tracker'[u] = tracker[u]
    BY DEF TrackingIInv, TrackingTypeOK
  <2>1. CASE \/ Validate(t) \/ Tell(t)
             \/ \E s, x, k, mode : Arrive(t, s, x, k, mode)
    <3>1. UNCHANGED <<events, shown, faults>> /\ ~Stands(t, "upsert")
      BY <2>1 DEF Validate, Tell, Arrive, Stands
    <3>2. \E n : tracker' = [tracker EXCEPT ![t] = n]
      BY <2>1 DEF Validate, Tell, Arrive, GoOn, Leave
    <3>3. \A u \in Trackers : Stands(u, "upsert") =>
            Stands(u, "upsert")' /\ tracker'[u] = tracker[u]
      BY <2>0, <3>1, <3>2 DEF Stands
    <3> QED
      BY <3>1, <3>3 DEF Hidden, Recorded
  <2>2. CASE Insert(t)
    <3>1. UNCHANGED <<shown, faults>> /\ ~Stands(t, "upsert")
      BY <2>2 DEF Insert, Stands
    <3>2. \E n : tracker' = [tracker EXCEPT ![t] = n]
      BY <2>2 DEF Insert, GoOn, Leave
    <3>3. \A u \in Trackers : Stands(u, "upsert") =>
            Stands(u, "upsert")' /\ tracker'[u] = tracker[u]
      BY <2>0, <3>1, <3>2 DEF Stands
    <3>4. CASE UNCHANGED events
      BY <3>1, <3>3, <3>4 DEF Hidden, Recorded
    <3>5. CASE /\ GoOn(t, "upsert")
               /\ events' = [events EXCEPT ![c.ship] = @ \cup {EventOf(c)}]
      <4>1. /\ Stands(t, "upsert")'
            /\ <<tracker'[t].ship, tracker'[t].key>> = q
        BY <2>0, <3>5 DEF GoOn, Stands, TrackingIInv, TrackingTypeOK, Call
      <4>2. EventOf(c).key = c.key
        BY DEF EventOf
      <4>3. \A s \in Shipments, k \in Keys :
              Recorded(s, k)' => Recorded(s, k) \/ <<s, k>> = q
        BY <3>5, <4>2 DEF Recorded, TrackingIInv, TrackingTypeOK
      <4> QED
        BY <3>1, <3>3, <4>1, <4>3 DEF Hidden
    <3> QED
      BY <2>2, <3>4, <3>5 DEF Insert
  <2>3. CASE Upsert(t)
    <3>1. /\ UNCHANGED <<events, faults>>
          /\ c.ship \in Shipments
          /\ shown' = [shown EXCEPT ![c.ship] = @ \cup ({c.key} \ {None})]
      BY <2>3 DEF Upsert, TrackingIInv, CallsOK, CallOK, Stands
    <3>2. \E n : tracker' = [tracker EXCEPT ![t] = n]
      BY <2>3 DEF Upsert, GoOn
    <3>3. \A u \in Trackers : u # t => tracker'[u] = tracker[u]
      BY <2>0, <3>2
    <3>4. \A s \in Shipments, k \in Keys :
            /\ k \in shown[s] => k \in shown'[s]
            /\ <<s, k>> = q => k \in shown'[s]
      BY <3>1 DEF TrackingIInv, TrackingTypeOK
    <3> QED
      BY <3>1, <3>3, <3>4 DEF Hidden, Recorded, Stands
  <2>4. CASE Break(t)
    <3>1. UNCHANGED <<events, shown>> /\ faults' = faults + 1
      BY <2>4 DEF Break
    <3>2. \A u \in Trackers : u # t => tracker'[u] = tracker[u]
      BY <2>0, <2>4 DEF Break, Leave
    <3>3. Hidden' \subseteq Hidden \cup {q}
      BY <3>1, <3>2 DEF Hidden, Recorded, Stands
    <3> QED
      BY <3>1, <3>3
  <2> QED
    BY <1>3, <2>1, <2>2, <2>3, <2>4
    DEF Track, Reporting, Recording, ReportByTenant, ReportByDriver,
        ReportBySystem, Ping
<1> QED
  BY <1>1, <1>2, <1>3 DEF TrackingNext

\* Whatever overlaps, the driver app's events that never reach the snapshot
\* are no more than the calls that broke.
THEOREM HiddenByFaults == TrackingSpec => []OnlyFaultsHide
<1> DEFINE Inv == IsFiniteSet(Hidden) /\ OnlyFaultsHide
<1>1. TrackingInit => Inv
  <2> SUFFICES ASSUME TrackingInit PROVE Inv
    OBVIOUS
  <2>1. Hidden = {}
    BY DEF TrackingInit, Hidden, Recorded
  <2> QED
    BY <2>1, FS_EmptySet DEF TrackingInit, OnlyFaultsHide
<1>2. TrackingIInv /\ Inv /\ [TrackingNext]_<<vars, trackingVars>> => Inv'
  <2> SUFFICES ASSUME TrackingIInv, Inv, [TrackingNext]_<<vars, trackingVars>>
               PROVE  Inv'
    OBVIOUS
  <2>1. /\ Cardinality(Hidden) \in Nat /\ faults \in Nat
        /\ Cardinality(Hidden) <= faults
    BY FS_CardinalityType
    DEF OnlyFaultsHide, TrackingIInv, TrackingTypeOK
  <2>2. CASE Hidden' \subseteq Hidden /\ faults' = faults
    <3>1. /\ IsFiniteSet(Hidden')
          /\ Cardinality(Hidden') <= Cardinality(Hidden)
      BY <2>2, FS_Subset
    <3>2. Cardinality(Hidden') \in Nat
      BY <3>1, FS_CardinalityType
    <3> QED
      BY <2>1, <2>2, <3>1, <3>2 DEF OnlyFaultsHide
  <2>3. ASSUME faults' = faults + 1,
               NEW p, Hidden' \subseteq Hidden \cup {p}
        PROVE  Inv'
    <3>1. /\ IsFiniteSet(Hidden \cup {p})
          /\ Cardinality(Hidden \cup {p}) <= Cardinality(Hidden) + 1
      BY <2>1, FS_AddElement
    <3>2. /\ IsFiniteSet(Hidden')
          /\ Cardinality(Hidden') <= Cardinality(Hidden \cup {p})
      BY <2>3, <3>1, FS_Subset
    <3>3. /\ Cardinality(Hidden') \in Nat
          /\ Cardinality(Hidden \cup {p}) \in Nat
      BY <3>1, <3>2, FS_CardinalityType
    <3> QED
      BY <2>1, <2>3, <3>1, <3>2, <3>3 DEF OnlyFaultsHide
  <2> QED
    BY <2>2, <2>3, HiddenGrows
<1> QED
  BY <1>1, <1>2, TrackingInvariance, PTL DEF TrackingSpec
=============================================================================
