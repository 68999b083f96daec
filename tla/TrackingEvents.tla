--------------------------- MODULE TrackingEvents ---------------------------
(***************************************************************************)
(* The tracking events of a shipment and the snapshot that customers see,  *)
(* together with the shipment handlers, which write both in their own      *)
(* transactions.                                                           *)
(*                                                                         *)
(* createTrackingEvent has no transaction: it looks the idempotency key    *)
(* up, reads the snapshot and validates the transition, inserts the event, *)
(* and only then writes the snapshot.  Every await is a step, and other    *)
(* requests run in between.  Its callers are the tenant's manual events;   *)
(* the driver app's updates, synced events, PODs and location pings; and   *)
(* labels, customs and returns.                                            *)
(***************************************************************************)
EXTENDS ShipmentLifecycle

CONSTANTS
  Trackers,   \* the calls of createTrackingEvent in flight at once
  Keys,       \* the idempotency keys that the driver app sends
  Reports,    \* the statuses that are reported
  MaxCalls    \* how many calls there are

ASSUME KeysAssumption == None \notin Keys
ASSUME ReportsAssumption == Reports \subseteq TrackingStatus
ASSUME MaxCallsAssumption == MaxCalls \in Nat

VARIABLES
  events,    \* the TrackingEvent rows of each shipment
  shown,     \* the keys whose event has been in the snapshot
  told,      \* how often the event of a key was announced
  tracker,   \* where each call stands
  calls,     \* how many calls there have been
  faults     \* how many of them failed or stopped half-way

trackingVars == <<events, shown, told, tracker, calls, faults>>

\* How a call treats the transition: skip is skipTransitionCheck, override
\* comes with an overrideReason.
Modes == {"check", "override", "skip"}

\* checked says that the transition was validated, and without an override.
Event == [status  : TrackingStatus,
          key     : Keys \cup {None},
          checked : BOOLEAN]

Call == [pc     : {"idle", "validate", "insert", "upsert", "tell"},
         ship   : Shipments \cup {None},
         status : TrackingStatus,
         key    : Keys \cup {None},
         mode   : Modes]

NoCall == [pc |-> "idle", ship |-> None, status |-> "CREATED", key |-> None,
           mode |-> "skip"]

TrackingTypeOK ==
  /\ TypeOK
  /\ events \in [Shipments -> SUBSET Event]
  /\ shown \in [Shipments -> SUBSET Keys]
  /\ told \in [Shipments -> [Keys -> Nat]]
  /\ tracker \in [Trackers -> Call]
  /\ calls \in 0..MaxCalls
  /\ faults \in Nat

TrackingInit ==
  /\ Init
  /\ events = [s \in Shipments |-> {}]
  /\ shown = [s \in Shipments |-> {}]
  /\ told = [s \in Shipments |-> [k \in Keys |-> 0]]
  /\ tracker = [t \in Trackers |-> NoCall]
  /\ calls = 0
  /\ faults = 0

-----------------------------------------------------------------------------
Stands(t, pc) == tracker[t].pc = pc
GoOn(t, pc) == tracker' = [tracker EXCEPT ![t].pc = pc]
Leave(t) == tracker' = [tracker EXCEPT ![t] = NoCall]

Recorded(s, k) == \E e \in events[s] : e.key = k

\* A call whose key has an event is answered with it and changes nothing.
Arrive(t, s, x, k, mode) ==
  /\ Stands(t, "idle")
  /\ Found(s)
  /\ k # None => ~Recorded(s, k)
  /\ calls < MaxCalls
  /\ calls' = calls + 1
  /\ tracker' = [tracker EXCEPT ![t] =
       [pc |-> "validate", ship |-> s, status |-> x, key |-> k,
        mode |-> mode]]
  /\ UNCHANGED <<vars, events, shown, told, faults>>

\* POST /tenant/shipments/:id/tracking/events
ReportByTenant(t, s, x, mode) ==
  /\ mode \in {"check", "override"}
  /\ Arrive(t, s, x, None, mode)

\* POST /go/shipments/:id/status, a synced event, or the event of a POD.
ReportByDriver(t, s, x, k) == Arrive(t, s, x, k, "check")

\* POST /go/shipments/:id/location records the status that it finds.
Ping(t, s, k) == Arrive(t, s, snapshot[s].current, k, "skip")

\* Labels, customs declarations and returns, with keys of their own.
ReportBySystem(t, s, x) ==
  /\ x \in {"LABEL_GENERATED", "CUSTOMS_HOLD", "CUSTOMS_RELEASED",
            "RETURN_STARTED", "RETURNED"}
  /\ Arrive(t, s, x, None, "skip")

\* Mutant of Allowed: no transition table, so that any status that is not
\* terminal can be left for any other.
AllowedUnlessTerminal(t) ==
  LET c == tracker[t]
      current == snapshot[c.ship].current
  IN  \/ c.mode = "skip"
      \/ /\ current # c.status
         /\ c.mode = "override" \/ current \notin TERMINAL_STATUSES

Allowed(t) ==
  LET c == tracker[t]
  IN  \/ c.mode = "skip"
      \/ validateTrackingTransition(snapshot[c.ship].current, c.status,
                                    c.mode = "override")

Validate(t) ==
  /\ Stands(t, "validate")
  /\ IF Allowed(t) THEN GoOn(t, "insert") ELSE Leave(t)
  /\ UNCHANGED <<vars, events, shown, told, calls, faults>>

EventOf(c) ==
  [status |-> c.status, key |-> c.key, checked |-> c.mode = "check"]

\* Mutant of Insert: without the unique index on the key.
InsertAgain(t) ==
  LET c == tracker[t]
  IN  /\ Stands(t, "insert")
      /\ events' = [events EXCEPT ![c.ship] = @ \cup {EventOf(c)}]
      /\ GoOn(t, "upsert")
      /\ UNCHANGED <<vars, shown, told, calls, faults>>

\* The insert fails when another call has inserted the key by now.
Insert(t) ==
  LET c == tracker[t]
  IN  /\ Stands(t, "insert")
      /\ IF c.key # None /\ Recorded(c.ship, c.key)
           THEN Leave(t) /\ UNCHANGED events
           ELSE /\ GoOn(t, "upsert")
                /\ events' = [events EXCEPT ![c.ship] = @ \cup {EventOf(c)}]
      /\ UNCHANGED <<vars, shown, told, calls, faults>>

\* Mutant of Upsert: a terminal snapshot is left as it is.
UpsertUnlessTerminal(t) ==
  LET c == tracker[t]
      final == snapshot[c.ship].current \in TERMINAL_STATUSES
  IN  /\ Stands(t, "upsert")
      /\ snapshot' = IF final THEN snapshot ELSE
           [snapshot EXCEPT ![c.ship] =
              [current |-> c.status,
               exception |-> c.status = "EXCEPTION"]]
      /\ shown' = IF final THEN shown ELSE
           [shown EXCEPT ![c.ship] = @ \cup ({c.key} \ {None})]
      /\ GoOn(t, "tell")
      /\ UNCHANGED <<shipment, timeline, lastOutbox, announced, handler,
                     events, told, calls, faults>>

\* upsertTrackingSnapshot, whatever the snapshot says by now.
Upsert(t) ==
  LET c == tracker[t]
  IN  /\ Stands(t, "upsert")
      /\ snapshot' = [snapshot EXCEPT ![c.ship] =
           [current |-> c.status,
            exception |-> c.status = "EXCEPTION"]]
      /\ shown' = [shown EXCEPT ![c.ship] = @ \cup ({c.key} \ {None})]
      /\ GoOn(t, "tell")
      /\ UNCHANGED <<shipment, timeline, lastOutbox, announced, handler,
                     events, told, calls, faults>>

\* Websocket, notifications and webhooks; some callers make none.
Tell(t) ==
  LET c == tracker[t]
  IN  /\ Stands(t, "tell")
      /\ told' = IF c.key = None THEN told
                   ELSE [told EXCEPT ![c.ship][c.key] = @ + 1]
      /\ Leave(t)
      /\ UNCHANGED <<vars, events, shown, calls, faults>>

\* A query throws, or the process stops.
Break(t) ==
  /\ ~Stands(t, "idle")
  /\ faults' = faults + 1
  /\ Leave(t)
  /\ UNCHANGED <<vars, events, shown, told, calls>>

-----------------------------------------------------------------------------
\* The shipment handlers insert an event along with the snapshot.
Records(s, x) ==
  events' = [events EXCEPT ![s] =
               @ \cup {[status |-> x, key |-> None, checked |-> FALSE]}]

Booking ==
  /\ \E s \in Shipments : CreateShipment(s) /\ Records(s, "CREATED")
  /\ UNCHANGED <<shown, told, tracker, calls, faults>>

Asking(h) == Read(h) /\ UNCHANGED trackingVars

Answering(h) ==
  /\ \/ /\ CommitPortal(h) \/ CommitCancel(h)
        /\ Records(handler[h].ship, legacyToTrackingStatus(handler[h].target))
     \/ /\ \/ CommitAdvance(h) \/ CommitPod(h)
           \/ CommitFailed(h) \/ CommitAssign(h)
           \/ Announce(h) \/ Abort(h)
        /\ UNCHANGED events
  /\ UNCHANGED <<shown, told, tracker, calls, faults>>

ShipmentStep == Booking \/ \E h \in Handlers : Asking(h) \/ Answering(h)

Reporting(t) ==
  \/ \E s \in Shipments, x \in Reports :
       \/ \E mode \in Modes : ReportByTenant(t, s, x, mode)
       \/ \E k \in Keys \cup {None} : ReportByDriver(t, s, x, k)
       \/ ReportBySystem(t, s, x)
  \/ \E s \in Shipments, k \in Keys \cup {None} : Ping(t, s, k)

Recording(t) ==
  Validate(t) \/ Insert(t) \/ Upsert(t) \/ Tell(t) \/ Break(t)

Track(t) == Reporting(t) \/ Recording(t)

TrackingNext == ShipmentStep \/ \E t \in Trackers : Track(t)

TrackingSpec == TrackingInit /\ [][TrackingNext]_<<vars, trackingVars>>

-----------------------------------------------------------------------------
\* Races can put the snapshot back, and let an event follow a terminal one
\* that a concurrent call has just stored.  But no validated event ever skips
\* a stage: the shipment has an event that it may follow without an override.
EventsGrounded ==
  \A s \in Shipments : \A e \in events[s] :
    e.checked =>
      \E d \in events[s] : validateTrackingTransition(d.status, e.status, FALSE)

\* An event of the driver app is announced once, however often it is sent and
\* whatever overlaps: the look-up of the key and the insert are two queries.
ToldOnce == \A s \in Shipments, k \in Keys : told[s][k] <= 1

\* The events that no call will bring into the snapshot any more: a call that
\* is sent again is answered by the look-up of its key.
Hidden ==
  {p \in Shipments \X Keys :
     /\ Recorded(p[1], p[2])
     /\ p[2] \notin shown[p[1]]
     /\ \A t \in Trackers : Stands(t, "upsert") =>
          <<tracker[t].ship, tracker[t].key>> # p}

\* Every event of the driver app is written to the snapshot, but for one with
\* each call that broke half-way.
OnlyFaultsHide == Cardinality(Hidden) <= faults

-----------------------------------------------------------------------------
(* The inductive invariant.                                                *)

\* A request in flight has found its shipment.
RequestsFound ==
  \A h \in Handlers : handler[h].pc # "idle" => Found(handler[h].ship)

\* What the snapshot says, some event of the shipment says.
SnapshotHasEvent ==
  \A s \in Shipments :
    Found(s) => \E e \in events[s] : e.status = snapshot[s].current

\* What a call may still store is in order, whatever was stored since.
CallOK(t) ==
  LET c == tracker[t]
  IN  /\ c.ship \in Shipments
      /\ Found(c.ship)
      /\ c.pc = "insert" /\ c.mode = "check" =>
           \E d \in events[c.ship] :
             validateTrackingTransition(d.status, c.status, FALSE)
      /\ c.pc \in {"upsert", "tell"} => EventOf(c) \in events[c.ship]

\* The calls that have stored the event of a key and not announced it yet.
Carries(t, s, k) ==
  /\ tracker[t].pc \in {"upsert", "tell"}
  /\ tracker[t].ship = s
  /\ tracker[t].key = k

\* One call at most stores a key's event, and it alone announces it.
OneCarrier ==
  \A s \in Shipments, k \in Keys :
    /\ told[s][k] > 0 => Recorded(s, k)
    /\ \A t \in Trackers : Carries(t, s, k) =>
         /\ told[s][k] = 0
         /\ \A u \in Trackers : Carries(u, s, k) => u = t

CallsOK == \A t \in Trackers : ~Stands(t, "idle") => CallOK(t)

TrackingIInv ==
  /\ IInv
  /\ TrackingTypeOK
  /\ RequestsFound
  /\ SnapshotHasEvent
  /\ CallsOK
  /\ OneCarrier
  /\ EventsGrounded
  /\ ToldOnce
=============================================================================
