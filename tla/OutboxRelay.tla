---------------------------- MODULE OutboxRelay ----------------------------
(***************************************************************************)
(* The transactional outbox: a transaction that changes a shipment or a    *)
(* tenant leaves a row in outbox_events, and a poller in every backend     *)
(* process turns the rows into jobs (apps/backend/src/queues/              *)
(* outbox.worker.ts).                                                      *)
(*                                                                         *)
(* A pass reads the oldest unpublished rows, and for each one in turn      *)
(* projects it to the console's activity feed, adds its jobs queue by      *)
(* queue, and only then marks the row published.  Any of these calls may   *)
(* fail, with or without its effect, and the process may stop between any  *)
(* two of them; a row that fails is left unpublished and reported once a   *)
(* day to the dead letter queue.  `running` keeps a process from starting  *)
(* a pass before its last one ended; nothing keeps two processes apart.    *)
(***************************************************************************)
EXTENDS Naturals, FiniteSets

CONSTANTS
  Events,     \* the outbox rows, named by their createdAt
  TypeOf,     \* what each row reports
  Relays,     \* the backend processes
  BatchSize,  \* how many rows a pass reads: `take: 100`
  MaxFaults   \* bound on failed calls and crashes

\* The shipment types are the eventType shipment.* rows; the status types all
\* have eventType shipment.status.updated and differ in payload.status.
StatusTypes == {"moved", "attention", "delivered"}
ShipmentTypes == StatusTypes \cup {"created", "driver.assigned", "rerouted"}
EventTypes == ShipmentTypes \cup {"tenant", "field"}

ASSUME EventsAssumption == Events \subseteq Nat /\ IsFiniteSet(Events)
ASSUME TypesAssumption == TypeOf \in [Events -> EventTypes]
ASSUME RelaysAssumption == IsFiniteSet(Relays)
ASSUME BatchAssumption == BatchSize \in Nat \ {0}
ASSUME FaultsAssumption == MaxFaults \in Nat

VARIABLES
  committed,  \* the rows that can be seen
  published,  \* the rows with published = true
  activities, \* how many PlatformActivity rows each event has
  jobs,       \* how many jobs each event has on each queue
  dlqLock,    \* the events whose dlq:outbox:event key is set
  dlq,        \* how often each event was dead-lettered since its key was set
  relay,      \* where each process is in its pass
  faults      \* failed calls and crashes so far

vars == <<committed, published, activities, jobs, dlqLock, dlq, relay, faults>>

-----------------------------------------------------------------------------
Queues == {"notification", "webhook", "analytics", "outbox"}

\* No row has an eventType that starts with webhook. or contains
\* status.changed, so none goes to the webhook queue.
WebhookTypes == {}

Routes(e) ==
  {q \in Queues :
     \/ q = "notification" /\ TypeOf[e] \in ShipmentTypes
     \/ q = "webhook" /\ TypeOf[e] \in WebhookTypes
     \/ q = "analytics" /\ TypeOf[e] \in StatusTypes
     \/ q = "outbox"}

\* activityForOutboxEvent: routine movement stays out of the feed.
Projected(e) == TypeOf[e] \in {"created", "attention", "rerouted", "tenant"}

Steps == Queues \cup {"activity", "mark"}

\* Mutant of Rank: the row is marked before the last job is added.
RankMarkEarly ==
  [activity |-> 1, notification |-> 2, webhook |-> 3, analytics |-> 4,
   mark |-> 5, outbox |-> 6]

\* The order of the calls.
Rank ==
  [activity |-> 1, notification |-> 2, webhook |-> 3, analytics |-> 4,
   outbox |-> 5, mark |-> 6]

\* The calls publishEvent makes for an event.
StepsOf(e) ==
  Routes(e) \cup {"mark"} \cup (IF Projected(e) THEN {"activity"} ELSE {})

Idle == [phase |-> "idle", batch |-> {}, todo |-> {}]

TypeOK ==
  /\ committed \subseteq Events
  /\ published \subseteq committed
  /\ activities \in [Events -> Nat]
  /\ jobs \in [Queues -> [Events -> Nat]]
  /\ dlqLock \subseteq Events
  /\ dlq \in [Events -> Nat]
  /\ relay \in [Relays -> [phase : {"idle", "publishing", "failed", "locked"},
                           batch : SUBSET Events,
                           todo  : SUBSET Steps]]
  /\ faults \in 0..MaxFaults

Init ==
  /\ committed = {}
  /\ published = {}
  /\ activities = [e \in Events |-> 0]
  /\ jobs = [q \in Queues |-> [e \in Events |-> 0]]
  /\ dlqLock = {}
  /\ dlq = [e \in Events |-> 0]
  /\ relay = [r \in Relays |-> Idle]
  /\ faults = 0

-----------------------------------------------------------------------------
\* A transaction commits its row.  createdAt was taken when the row was
\* inserted, so rows can become visible in another order.
CommitEvent(e) ==
  /\ e \notin committed
  /\ committed' = committed \cup {e}
  /\ UNCHANGED <<published, activities, jobs, dlqLock, dlq, relay, faults>>

\* The event a pass is at: the oldest left of its batch.
IsOldest(e, S) == e \in S /\ \A d \in S : e <= d

IsBatch(B, pending) ==
  /\ B \subseteq pending
  /\ \A e \in B, d \in pending \ B : e < d
  /\ \/ B = pending /\ Cardinality(B) <= BatchSize
     \/ B # pending /\ Cardinality(B) = BatchSize

\* The pass goes on with what is left of the batch, or is over.
Proceed(r, rest) ==
  relay' = [relay EXCEPT ![r] =
    IF rest = {} THEN Idle
    ELSE [phase |-> "publishing", batch |-> rest,
          todo |-> StepsOf(CHOOSE e \in rest : IsOldest(e, rest))]]

StartPass(r) ==
  /\ relay[r].phase = "idle"
  /\ committed # published
  /\ \E B \in SUBSET committed :
       IsBatch(B, committed \ published) /\ Proceed(r, B)
  /\ UNCHANGED <<committed, published, activities, jobs, dlqLock, dlq, faults>>

\* The next call of r: call s for event e.
AtCall(r, e, s) ==
  /\ relay[r].phase = "publishing"
  /\ IsOldest(e, relay[r].batch)
  /\ s \in relay[r].todo
  /\ \A t \in relay[r].todo : Rank[s] <= Rank[t]

\* Mutant of Effect: the row is not marked.
EffectUnmarked(e, s) ==
  /\ activities' = [activities EXCEPT ![e] = IF s = "activity" THEN 1 ELSE @]
  /\ jobs' = [q \in Queues |->
                [jobs[q] EXCEPT ![e] = IF s = q THEN @ + 1 ELSE @]]
  /\ UNCHANGED published

\* What a call does: an activity is upserted under the key outbox:<id>, a job
\* is added without a jobId, the row is updated.
Effect(e, s) ==
  /\ activities' = [activities EXCEPT ![e] = IF s = "activity" THEN 1 ELSE @]
  /\ jobs' = [q \in Queues |->
                [jobs[q] EXCEPT ![e] = IF s = q THEN @ + 1 ELSE @]]
  /\ published' = IF s = "mark" THEN published \cup {e} ELSE published

NoEffect == UNCHANGED <<activities, jobs, published>>

Call(r) ==
  \E e \in Events, s \in Steps :
    /\ AtCall(r, e, s)
    /\ Effect(e, s)
    /\ IF s = "mark" THEN Proceed(r, relay[r].batch \ {e})
                     ELSE relay' = [relay EXCEPT ![r].todo = @ \ {s}]
    /\ UNCHANGED <<committed, dlqLock, dlq, faults>>

\* The bound on what goes wrong.
Fault == faults < MaxFaults /\ faults' = faults + 1

\* A call throws; its effect may have happened all the same.
FailCall(r) ==
  \E e \in Events, s \in Steps :
    /\ AtCall(r, e, s)
    /\ Fault
    /\ Effect(e, s) \/ NoEffect
    /\ relay' = [relay EXCEPT ![r].phase = "failed"]
    /\ UNCHANGED <<committed, dlqLock, dlq>>

\* Mutant of LockDlq: SET without NX.
LockDlqAlways(r) ==
  \E e \in Events :
    /\ relay[r].phase = "failed"
    /\ IsOldest(e, relay[r].batch)
    /\ dlqLock' = dlqLock \cup {e}
    /\ relay' = [relay EXCEPT ![r].phase = "locked"]
    /\ UNCHANGED <<committed, published, activities, jobs, dlq, faults>>

\* SET dlq:outbox:event:<id> EX 86400 NX: when the key is there already, the
\* failure is only logged.
LockDlq(r) ==
  \E e \in Events :
    /\ relay[r].phase = "failed"
    /\ IsOldest(e, relay[r].batch)
    /\ dlqLock' = dlqLock \cup {e}
    /\ IF e \in dlqLock
         THEN Proceed(r, relay[r].batch \ {e})
         ELSE relay' = [relay EXCEPT ![r].phase = "locked"]
    /\ UNCHANGED <<committed, published, activities, jobs, dlq, faults>>

\* Mutant of DeadLetter: the row is given up.
DeadLetterGivesUp(r) ==
  \E e \in Events :
    /\ relay[r].phase = "locked"
    /\ IsOldest(e, relay[r].batch)
    /\ dlq' = [dlq EXCEPT ![e] = @ + 1]
    /\ published' = published \cup {e}
    /\ Proceed(r, relay[r].batch \ {e})
    /\ UNCHANGED <<committed, activities, jobs, dlqLock, faults>>

\* The row stays unpublished, for the next pass.
DeadLetter(r) ==
  \E e \in Events :
    /\ relay[r].phase = "locked"
    /\ IsOldest(e, relay[r].batch)
    /\ dlq' = [dlq EXCEPT ![e] = @ + 1]
    /\ Proceed(r, relay[r].batch \ {e})
    /\ UNCHANGED <<committed, published, activities, jobs, dlqLock, faults>>

\* Redis fails in the catch block: the pass is over, the next one may start.
AbortPass(r) ==
  /\ relay[r].phase \in {"failed", "locked"}
  /\ Fault
  /\ relay' = [relay EXCEPT ![r] = Idle]
  /\ UNCHANGED <<committed, published, activities, jobs, dlqLock, dlq>>

\* The process stops and is started again.
Crash(r) ==
  /\ relay[r].phase # "idle"
  /\ Fault
  /\ relay' = [relay EXCEPT ![r] = Idle]
  /\ UNCHANGED <<committed, published, activities, jobs, dlqLock, dlq>>

\* The key expires after a day, long after the pass that has set it.
ExpireDlqLock(e) ==
  /\ e \in dlqLock
  /\ \A r \in Relays : relay[r].phase = "locked" => ~IsOldest(e, relay[r].batch)
  /\ dlqLock' = dlqLock \ {e}
  /\ dlq' = [dlq EXCEPT ![e] = 0]
  /\ UNCHANGED <<committed, published, activities, jobs, relay, faults>>

Work(r) == StartPass(r) \/ Call(r) \/ LockDlq(r) \/ DeadLetter(r)

Next ==
  \/ \E e \in Events : CommitEvent(e) \/ ExpireDlqLock(e)
  \/ \E r \in Relays : Work(r) \/ FailCall(r) \/ AbortPass(r) \/ Crash(r)

\* setInterval starts a pass again and again, and a process that has stopped
\* is restarted, so that no relay rests while it has something to do.
Fairness == \A r \in Relays : WF_vars(Work(r))

Spec == Init /\ [][Next]_vars

FairSpec == Spec /\ Fairness
-----------------------------------------------------------------------------
\* Everything that was to be done for an event has been done.
Reached(e) ==
  /\ \A q \in Routes(e) : jobs[q][e] > 0
  /\ Projected(e) => activities[e] > 0

\* A row is published only when its activity and all its jobs exist, wherever
\* a pass failed, crashed or met another: no event is silently lost.
PublishedReached == \A e \in published : Reached(e)

\* An event is shown once in the console's feed, however often it is retried.
ActivityOnce == \A e \in Events : activities[e] <= 1

\* Without faults a process publishes an event once; each fault and each
\* further process costs at most one more job per queue.
DuplicatesBounded ==
  \A e \in Events, q \in Queues :
    jobs[q][e] <= Cardinality(Relays) + faults

\* A failing event is dead-lettered at most once while its key lives.
DeadLetteredOnceADay == \A e \in Events : dlq[e] <= 1

\* The relay implements at-least-once delivery.
Contract ==
  INSTANCE AtLeastOnce
    WITH accepted <- committed,
         delivered <- {e \in committed : Reached(e)}
DeliversAtLeastOnce == Contract!Spec
DeliversOnlyCommitted == Contract!Safe

-----------------------------------------------------------------------------
(* The inductive invariant: a pass has done every call it is past.         *)

CallDone(e, s) ==
  /\ s \in Queues => jobs[s][e] > 0
  /\ s = "activity" => activities[e] > 0

PassOK(r) ==
  /\ relay[r].phase # "idle" => relay[r].batch # {}
  /\ relay[r].batch \subseteq committed
  /\ relay[r].phase = "publishing" =>
       \A e \in Events :
         IsOldest(e, relay[r].batch) =>
           /\ relay[r].todo \subseteq StepsOf(e)
           /\ "mark" \in relay[r].todo
           /\ \A s \in StepsOf(e) \ relay[r].todo : CallDone(e, s)

\* Nothing is queued for a row that nobody can see.
NothingEarly == \A e \in Events \ committed : jobs["outbox"][e] = 0

\* r holds the key of e and has not dead-lettered it yet.
HoldsKey(r, e) == relay[r].phase = "locked" /\ IsOldest(e, relay[r].batch)

DlqOK ==
  /\ \A e \in Events : e \notin dlqLock => dlq[e] = 0
  /\ \A r \in Relays, e \in Events :
       HoldsKey(r, e) =>
         /\ e \in dlqLock
         /\ dlq[e] = 0
         /\ \A other \in Relays \ {r} : ~HoldsKey(other, e)

IInv ==
  /\ TypeOK
  /\ \A r \in Relays : PassOK(r)
  /\ PublishedReached
  /\ ActivityOnce
  /\ NothingEarly
  /\ DlqOK
  /\ DeadLetteredOnceADay
=============================================================================
