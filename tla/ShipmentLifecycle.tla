------------------------- MODULE ShipmentLifecycle -------------------------
(***************************************************************************)
(* The request handlers that write Shipment.status, run concurrently.      *)
(*                                                                         *)
(* Each handler reads the shipment and checks it, and only then opens the  *)
(* transaction that writes it: the UPDATE is keyed by the shipment's id    *)
(* and not by the status that was read, so another handler may commit in   *)
(* between.  The transaction is one step: nobody sees part of it.  What a  *)
(* handler does after the commit (webhook, notification, agent event) is a *)
(* step of its own, and is lost when the process stops before it.          *)
(*                                                                         *)
(*   portal   PATCH /api/v1/shipments/:id/status                           *)
(*   cancel   DELETE /api/v1/shipments/:id                                 *)
(*   advance  POST /api/v1/agents/shipments/advance                        *)
(*   pod      POST /api/v1/driver/pod                                      *)
(*   failed   PATCH /api/v1/driver/shipments/:id/failed                    *)
(*   assign   the assign_shipment tool of the dispatch agent               *)
(*                                                                         *)
(* A request the code answers with an error changes nothing and is not a   *)
(* step.                                                                   *)
(***************************************************************************)
EXTENDS ShipmentStatuses, FiniteSets

CONSTANTS
  Shipments,      \* the shipments of a tenant
  Handlers,       \* the requests that can be in flight at once
  Kinds,          \* the kinds of request that are sent
  CashOnDelivery  \* whether drivers collect cash

None == "NONE"    \* no row yet, or nothing read

AllKinds == {"portal", "cancel", "advance", "pod", "failed", "assign"}

ASSUME KindsAssumption == Kinds \subseteq AllKinds
ASSUME CashAssumption == CashOnDelivery \in BOOLEAN
ASSUME NoneAssumption == None \notin Shipments

VARIABLES
  shipment,   \* the Shipment row, with what hangs off it: POD assets, payment
  timeline,   \* the statuses of the ShipmentEvent rows these handlers insert
  snapshot,   \* the TrackingSnapshot row
  lastOutbox, \* the status in the newest shipment.status.updated outbox row
  announced,  \* the status in the newest job queued after a commit
  handler     \* where each request stands and what it has decided

vars == <<shipment, timeline, snapshot, lastOutbox, announced, handler>>

Row == [status : ShipmentStatus \cup {None},
        dated  : BOOLEAN,    \* actualDelivery is set
        pod    : BOOLEAN,    \* there is a PodAsset
        paid   : BOOLEAN]    \* a COD payment is COMPLETED

\* What a request holds between its steps: where it stands, its kind and its
\* shipment, the actualDelivery it has read, the status it will write, and
\* whether it brings files or cash.
Request == [pc     : {"idle", "checked", "announcing"},
            kind   : AllKinds \cup {None},
            ship   : Shipments \cup {None},
            dated  : BOOLEAN,
            target : ShipmentStatus \cup {None},
            files  : BOOLEAN,
            cod    : BOOLEAN]

Idle == [pc |-> "idle", kind |-> None, ship |-> None, dated |-> FALSE,
         target |-> None, files |-> FALSE, cod |-> FALSE]

TypeOK ==
  /\ shipment \in [Shipments -> Row]
  /\ snapshot \in [Shipments -> [current   : TrackingStatus \cup {None},
                                 exception : BOOLEAN]]
  /\ lastOutbox \in [Shipments -> ShipmentStatus \cup {None}]
  /\ handler \in [Handlers -> Request]
  /\ timeline \in [Shipments -> SUBSET ShipmentStatus]
  /\ announced \in [Shipments -> ShipmentStatus \cup {None}]

Init ==
  /\ shipment = [s \in Shipments |-> [status |-> None, dated |-> FALSE,
                                      pod |-> FALSE, paid |-> FALSE]]
  /\ snapshot = [s \in Shipments |-> [current |-> None, exception |-> FALSE]]
  /\ lastOutbox = [s \in Shipments |-> None]
  /\ handler = [h \in Handlers |-> Idle]
  /\ timeline = [s \in Shipments |-> {}]
  /\ announced = [s \in Shipments |-> None]

-----------------------------------------------------------------------------
(* Reading: every handler looks the shipment up by id and tenant.  Two of  *)
(* them keep its actualDelivery, to write it back.                         *)

Found(s) == shipment[s].status # None

Begin(h, kind, s, target, files, cod) ==
  /\ kind \in Kinds
  /\ handler[h].pc = "idle"
  /\ handler' = [handler EXCEPT ![h] =
       [pc |-> "checked", kind |-> kind, ship |-> s,
        dated |-> kind \in {"portal", "advance"} /\ shipment[s].dated,
        target |-> target, files |-> files, cod |-> cod]]
  /\ UNCHANGED <<shipment, timeline, snapshot, lastOutbox, announced>>

\* Mutant of BeginPortal: without the transition table.
BeginPortalAnyTarget(h, s, target) ==
  /\ target = "DELIVERED" => shipment[s].pod
  /\ Begin(h, "portal", s, target, FALSE, FALSE)

\* The request carries what the target asks for: a failedReason, or the five
\* confirmations of IN_TRANSIT.
BeginPortal(h, s, target) ==
  /\ target \in ALLOWED_TRANSITIONS[shipment[s].status]
  /\ target = "DELIVERED" => shipment[s].pod
  /\ Begin(h, "portal", s, target, FALSE, FALSE)

BeginCancel(h, s) ==
  /\ shipment[s].status \in {"PENDING", "PROCESSING"}
  /\ Begin(h, "cancel", s, "CANCELLED", FALSE, FALSE)

BeginAdvance(h, s, target) ==
  /\ target \in getNextStatus(shipment[s].status)
  /\ Begin(h, "advance", s, target, FALSE, FALSE)

\* No status is checked; the request may carry no file and may carry cash.
BeginPod(h, s, files, cod) ==
  /\ cod => CashOnDelivery
  /\ Begin(h, "pod", s, "DELIVERED", files, cod)

BeginFailed(h, s) == Begin(h, "failed", s, "FAILED_DELIVERY", FALSE, FALSE)

\* A driver other than the assigned one: the same driver is skipped.
BeginAssign(h, s) ==
  /\ shipment[s].status \notin TERMINAL_SHIPMENT_STATUSES
  /\ Begin(h, "assign", s,
           IF shipment[s].status = "PENDING" THEN "PROCESSING"
                                             ELSE shipment[s].status,
           FALSE, FALSE)

-----------------------------------------------------------------------------
(* Writing: the transaction of each handler, from what it has read.        *)

Commits(h, kind) == handler[h].pc = "checked" /\ handler[h].kind = kind

\* The UPDATE of the row and the INSERT of its ShipmentEvent.
WriteStatus(h, dated, files, cod) ==
  LET s == handler[h].ship
      target == handler[h].target
  IN  /\ shipment' = [shipment EXCEPT ![s] =
           [status |-> target, dated |-> dated,
            pod |-> @.pod \/ files, paid |-> @.paid \/ cod]]
      /\ timeline' = [timeline EXCEPT ![s] = @ \cup {target}]

WriteSnapshot(h, exception) ==
  snapshot' = [snapshot EXCEPT ![handler[h].ship] =
    [current |-> legacyToTrackingStatus(handler[h].target),
     exception |-> exception]]

WriteOutbox(h) ==
  lastOutbox' = [lastOutbox EXCEPT ![handler[h].ship] = handler[h].target]

\* The calls that follow the commit are still to be made.
ThenAnnounce(h) ==
  handler' = [handler EXCEPT ![h] =
    [Idle EXCEPT !.pc = "announcing", !.ship = handler[h].ship,
                 !.target = handler[h].target]]

Return(h) == handler' = [handler EXCEPT ![h] = Idle]

\* Mutant of CommitPortal: hasException is raised and never taken back.
CommitPortalKeepsFlag(h) ==
  /\ Commits(h, "portal")
  /\ WriteStatus(h, handler[h].target = "DELIVERED" \/ handler[h].dated,
                 FALSE, FALSE)
  /\ WriteSnapshot(h, \/ handler[h].target = "EXCEPTION"
                      \/ snapshot[handler[h].ship].exception)
  /\ WriteOutbox(h)
  /\ ThenAnnounce(h)
  /\ UNCHANGED announced

\* actualDelivery is written back as it was read, unless the target sets it.
CommitPortal(h) ==
  /\ Commits(h, "portal")
  /\ WriteStatus(h, handler[h].target = "DELIVERED" \/ handler[h].dated,
                 FALSE, FALSE)
  /\ WriteSnapshot(h, handler[h].target = "EXCEPTION")
  /\ WriteOutbox(h)
  /\ ThenAnnounce(h)
  /\ UNCHANGED announced

\* The cancellation writes no outbox row, leaves hasException as it is, and
\* does not touch actualDelivery.
CommitCancel(h) ==
  /\ Commits(h, "cancel")
  /\ WriteStatus(h, shipment[handler[h].ship].dated, FALSE, FALSE)
  /\ WriteSnapshot(h, snapshot[handler[h].ship].exception)
  /\ Return(h)
  /\ UNCHANGED <<lastOutbox, announced>>

\* Mutant of CommitAdvance: actualDelivery is written back as it was read.
CommitAdvanceUndated(h) ==
  /\ Commits(h, "advance")
  /\ WriteStatus(h, handler[h].dated, FALSE, FALSE)
  /\ WriteOutbox(h)
  /\ Return(h)
  /\ UNCHANGED <<snapshot, announced>>

CommitAdvance(h) ==
  /\ Commits(h, "advance")
  /\ WriteStatus(h, handler[h].target = "DELIVERED" \/ handler[h].dated,
                 FALSE, FALSE)
  /\ WriteOutbox(h)
  /\ Return(h)
  /\ UNCHANGED <<snapshot, announced>>

CommitPod(h) ==
  /\ Commits(h, "pod")
  /\ WriteStatus(h, TRUE, handler[h].files, handler[h].cod)
  /\ Return(h)
  /\ UNCHANGED <<snapshot, lastOutbox, announced>>

CommitFailed(h) ==
  /\ Commits(h, "failed")
  /\ WriteStatus(h, shipment[handler[h].ship].dated, FALSE, FALSE)
  /\ ThenAnnounce(h)
  /\ UNCHANGED <<snapshot, lastOutbox, announced>>

\* The agent writes back the status it has read (PENDING becomes PROCESSING);
\* its outbox row is shipment.driver.assigned.
CommitAssign(h) ==
  /\ Commits(h, "assign")
  /\ WriteStatus(h, shipment[handler[h].ship].dated, FALSE, FALSE)
  /\ Return(h)
  /\ UNCHANGED <<snapshot, lastOutbox, announced>>

-----------------------------------------------------------------------------
\* After the commit the portal handler queues webhooks and notifications, and
\* the two that write FAILED_DELIVERY an agent event; the calls are one step.
Announce(h) ==
  /\ handler[h].pc = "announcing"
  /\ announced' = [announced EXCEPT ![handler[h].ship] = handler[h].target]
  /\ Return(h)
  /\ UNCHANGED <<shipment, timeline, snapshot, lastOutbox>>

\* The transaction fails, or the process stops: what is not committed or not
\* queued by then never will be.
Abort(h) ==
  /\ handler[h].pc # "idle"
  /\ Return(h)
  /\ UNCHANGED <<shipment, timeline, snapshot, lastOutbox, announced>>

\* POST /api/v1/shipments: row, event, snapshot and payment in one transaction.
\* A booking without a price has a payment that is COMPLETED at once; only
\* cash collected at the door is counted as paid here.
CreateShipment(s) ==
  /\ ~Found(s)
  /\ shipment' = [shipment EXCEPT ![s].status = "PENDING"]
  /\ snapshot' = [snapshot EXCEPT ![s].current = "CREATED"]
  /\ timeline' = [timeline EXCEPT ![s] = @ \cup {"PENDING"}]
  /\ UNCHANGED <<lastOutbox, handler, announced>>

Read(h) ==
  \E s \in {x \in Shipments : Found(x)} :
    \/ \E target \in ShipmentStatus : BeginPortal(h, s, target)
    \/ BeginCancel(h, s)
    \/ \E target \in ShipmentStatus : BeginAdvance(h, s, target)
    \/ \E files, cod \in BOOLEAN : BeginPod(h, s, files, cod)
    \/ BeginFailed(h, s)
    \/ BeginAssign(h, s)

Commit(h) ==
  \/ CommitPortal(h)
  \/ CommitCancel(h)
  \/ CommitAdvance(h)
  \/ CommitPod(h)
  \/ CommitFailed(h)
  \/ CommitAssign(h)

Next ==
  \/ \E s \in Shipments : CreateShipment(s)
  \/ \E h \in Handlers : Read(h) \/ Commit(h) \/ Announce(h) \/ Abort(h)

Spec == Init /\ [][Next]_vars
-----------------------------------------------------------------------------
(* What the handlers guarantee together, whatever the interleaving.        *)

\* The statuses a driver's request writes without looking at the old one.
JumpTargets ==
  {x \in {"DELIVERED", "FAILED_DELIVERY"} :
     \/ x = "DELIVERED" /\ "pod" \in Kinds
     \/ x = "FAILED_DELIVERY" /\ "failed" \in Kinds}

\* x may stand in the timeline of s.
GroundedIn(s, x) ==
  \/ x \in {"PENDING"} \cup JumpTargets
  \/ \E y \in timeline[s] : x \in ALLOWED_TRANSITIONS[y]

\* Races between handlers can lose an update or move a shipment back, but
\* never make it skip a stage: of every status in its timeline, except the
\* first and those a driver may jump to, an allowed predecessor is there too.
Grounded == \A s \in Shipments : \A x \in timeline[s] : GroundedIn(s, x)

\* A shipment that stands at DELIVERED has its actualDelivery, although two
\* handlers write that field back as they read it, and another may have
\* delivered the shipment since.
DeliveredIsDated ==
  \A s \in Shipments : shipment[s].status = "DELIVERED" => shipment[s].dated

\* The exception flag of the snapshot is up while the snapshot says EXCEPTION
\* and comes down with the next status, whoever writes either: the portal, a
\* tracking event, or a handler that leaves the snapshot alone.  Only the
\* cancellation leaves the flag be.
FlagMatchesSnapshot ==
  \A s \in Shipments :
    /\ snapshot[s].current = "EXCEPTION" => snapshot[s].exception
    /\ snapshot[s].exception => snapshot[s].current \in {"EXCEPTION", "CANCELLED"}

\* The POD the portal handler has checked is still there when it writes
\* DELIVERED, however late it does: a POD asset is never taken away.
ProofStillThere ==
  \A h \in Handlers :
    Commits(h, "portal") /\ handler[h].target = "DELIVERED"
      => shipment[handler[h].ship].pod

\* No queue is told of a status that was not committed before: a transaction
\* that fails announces nothing.
AnnouncedWasCommitted ==
  \A s \in Shipments : announced[s] \in timeline[s] \cup {None}

\* Cash collected at the door is never on a shipment that was not delivered.
PaidWasDelivered ==
  \A s \in Shipments : shipment[s].paid => "DELIVERED" \in timeline[s]

-----------------------------------------------------------------------------
(* The inductive invariant: what a handler holds between its read and its  *)
(* write, and between its write and its announcement.                      *)

StatusInTimeline ==
  \A s \in Shipments : Found(s) => shipment[s].status \in timeline[s]

\* What was decided at the read is still in order at the write.
CheckedOK(h) ==
  /\ handler[h].kind \in Kinds
  /\ handler[h].target \in ShipmentStatus
  /\ GroundedIn(handler[h].ship, handler[h].target)
  /\ handler[h].kind = "cancel" => handler[h].target = "CANCELLED"
  /\ handler[h].kind = "pod" => handler[h].target = "DELIVERED"
  /\ handler[h].kind = "failed" => handler[h].target = "FAILED_DELIVERY"
  /\ handler[h].kind = "assign" => handler[h].target # "DELIVERED"
  /\ handler[h].kind = "portal" /\ handler[h].target = "DELIVERED"
       => shipment[handler[h].ship].pod

HandlersOK ==
  \A h \in Handlers :
    /\ handler[h].pc # "idle" => handler[h].ship \in Shipments
    /\ handler[h].pc = "checked" => CheckedOK(h)
    /\ handler[h].pc = "announcing" =>
         /\ handler[h].target \in ShipmentStatus
         /\ handler[h].target \in timeline[handler[h].ship]

IInv ==
  /\ TypeOK
  /\ StatusInTimeline
  /\ HandlersOK
  /\ Grounded
  /\ DeliveredIsDated
  /\ AnnouncedWasCommitted
  /\ PaidWasDelivered

-----------------------------------------------------------------------------
(* What holds for some of the handlers only.                               *)

\* When only the portal and the cancellation write statuses, the snapshot the
\* customers see and the row agree, however their transactions interleave.
SnapshotInSync ==
  \A s \in Shipments :
    Found(s) => snapshot[s].current = legacyToTrackingStatus(shipment[s].status)

\* When only they and the agents' console write statuses, the newest
\* shipment.status.updated row of the outbox carries the status the shipment
\* has (the booking and the cancellation write no such row).
OutboxInSync ==
  \A s \in Shipments :
    Found(s) /\ shipment[s].status \notin {"PENDING", "CANCELLED"}
      => lastOutbox[s] = shipment[s].status

\* The machine the documentation draws, which one request at a time follows.
Machine == INSTANCE ShipmentMachine
             WITH status <- [s \in Shipments |-> shipment[s].status]
FollowsMachine == Machine!Spec
=============================================================================
