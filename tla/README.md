# Fauward in TLA+

Fauward is a multi-tenant logistics platform: tenants book shipments, drivers and
agents move them, customers track them, and notifications, webhooks, invoices and
analytics follow. The core is `apps/backend`: a Fastify API on PostgreSQL (Prisma),
with BullMQ queues and Redis, run as two to four identical processes
(`docs/infrastructure-security.md:53`). The web applications, the driver app and two
Python services are its clients and helpers.

What is hard in it is not an algorithm. It is that handlers check before the
transaction that writes, that several processes poll the same table, that jobs are
retried after any of their awaits, and that clients retry what they do not know the
outcome of. The modules below are about these.

Contents: the inventory, what is modelled and how it maps to the code, the runs,
fairness, the proofs, divergences met on the way, what is not modelled, and the plan.

## 1. Inventory

Paths are relative to `apps/backend/src` unless they start with `apps/` or `docs/`.
"Correct means" names what would have to hold; the properties already stated are in
section 3.

| Component | State | Operations | Interacts with | Hard behaviour | Correct means |
|---|---|---|---|---|---|
| **Shipment lifecycle** (`modules/shipments`, `driver`, `agents`, `agent`) | `Shipment`, `ShipmentEvent`, `TrackingSnapshot`, `PodAsset`, `Payment` rows | book, portal PATCH, cancel, console advance, driver POD, driver failed attempt, dispatch agent assignment | writes outbox rows; queues webhooks, notifications and agent events after the commit | every handler reads and checks *before* its transaction and updates by id alone: lost updates, stale fields, crash after the commit | no stage skipped, delivery dated and proved, the public snapshot agrees, nothing announced that was not committed |
| **Transactional outbox** (`queues/outbox.worker.ts`) | `outbox_events`, `PlatformActivity`, Redis dead letter keys, per-process `running` flag | poll, project, queue jobs, mark, report failure | reads rows of the lifecycle and of tenant operations; feeds the notification, webhook, analytics and outbox queues | several processes poll one table without locks; crash between any two calls; adds without a job id | at least once, never published unreached, nothing shown or reported twice |
| **Notification delivery** (`modules/notifications`) | `NotificationLog`, `UsageRecord`, Redis SMS counter, BullMQ job | log, send, quota, flip, count, fail, bury | BullMQ; SendGrid, SMTP or Twilio | retries after each await, lost answers, stalled locks, two runs of one job | billed for what was sent, once; quota held; SENT stays; every job ends |
| **HTTP idempotency keys** (`shared/middleware/idempotency.ts`) | `idempotency_keys` rows | look up, reserve, store, replay, clean up | bookings, invoices, quotes and payment intents | look-up and create are two queries; failure between commit and store | one effect per key, all answers agree, keys come free again |
| **Webhook delivery** (`queues/webhook.worker.ts`, `modules/webhooks`) | `WebhookDelivery` rows, the endpoint, BullMQ job | deliver (5 attempts), log, dead-letter, replay, test, switch off, remove | fed by the portal handler and the outbox | `deadLetter` marks every FAILED row of an endpoint; replays and removals race the attempts | one entry for a replay; posts bounded; rows die for a cause; completed is delivered |
| **Tracking events** (`modules/tracking/tracking-event.service.ts`) | `TrackingEvent`, `TrackingSnapshot` | createTrackingEvent | called by tenant, field, driver, label, customs and return routes; the lifecycle writes the same tables | key look-up, check, insert and upsert are separate queries | no validated event skips a stage; a key is told once; only faults keep an event out of the snapshot |
| **Field sync** (`apps/fauward-Go`, `modules/field`) | the app's pending mutations; `idempotency_keys` | enqueue offline, send a batch, time out, mark synced or failed, retry, clear, sign out | tracking events, lifecycle | newest-first batches, a 15 s timeout while the server still works, retries of what was applied | synced means made in full; a write repeats only after a fault; everything acceptable syncs |
| **Agents' offline queue** (`apps/agents`) | queued actions in the browser | enqueue, replay, stop at the first rejection | console advance | order of replay | actions apply in order |
| **Shipment permission requests** (`modules/shipment-permission-requests`) | request rows, shipment access | request, approve, reject, cancel | shipments | three actors settle one request after a read | settled once |
| **Live location** (`modules/tracking/realtime`, history writer, ws publisher) | Redis streams, per-shipment sequence, hot state, breadcrumbs | ingest, filter, number, add, consume, publish | driver app, customers | overlapping pings, consumer crashes, trims, a group made late | one number per entry; the hot state shows what is recorded; acknowledged is stored; entries are stored in the end |
| **Escalations** (`queues/escalation-sweeper.worker.ts`) | escalation rows | sweep | live location, notifications | overlapping sweeps | escalated once per level |
| **Returns** (`modules/returns`) | return rows | request, approve, receive, refund | tracking events, refunds | read-check-write | legal transitions, one refund |
| **Refunds** (`services/refund.service.ts`) | `Refund`, `RefundApproval`, `Payment.refundedAmount` | request, book, charge, settle, approve, reject | Stripe | decisions read before their transaction, lost answers, crashes | never over-refunded; the books agree; nothing paid that waits for approval |
| **Dunning** (`services/dunning.service.ts`, `queues/scheduled-job-runner.ts`) | enrolments, step runs, invoices | enrol, sweep, claim, perform, pause, resume, pay, end | tenant suspension, staff console | a job that is given up goes on beside its successor; crashes between claim and step | a step once; an end is final; a paid invoice's enrolment ends |
| **Tenant suspension** (`services/tenant-suspension.service.ts`) | `Tenant`, `SuspensionRecord` | suspend, lift, close | dunning, staff console | two transactions that decide from what they have read | active only without an active cause, and never again once closed |
| **Payments, plans** (`modules/payments`, `finance`) | payments, subscriptions | intent, callback | Stripe, Paystack | callbacks twice and out of order | totals agree |
| **Staff access** (`modules/internal/platform`) | JIT grants, impersonation sessions, hash-chained audit log | grant, use, expire, append | all internal routes | grants that expire in use, concurrent appends | no use after expiry, one chain |
| **Dispatch agent runs** (`modules/agent`) | runs, tool calls, approvals | run, propose, approve, execute | lifecycle (assign) | approval long after the read | executed once, only if approved |
| **Scheduled jobs** (`queues/scheduled-job-runner.ts`) | job run rows, Redis locks | tick, run, give up | all of the above | the runner gives up on a job that goes on | one run at a time |
| **Accounts and authentication** (`modules/auth`, `tenants`, `users`) | users, refresh tokens, domains | sign in, rotate, verify | all | token reuse, slug races | rotated token is dead |
| **Data subject requests** (`modules/dsar`) | request rows | open, extend, close | staff console | deadlines | legal statuses |
| Pricing, rating, rules; customs, labels; CRM, support; fleet, route optimiser; search, analytics queries; tenant isolation; web applications; shared packages; Python services | records and pure computations | forms and queries | | little shared control | unit tests |

How the modelled parts meet:

- A lifecycle handler commits a status with an outbox row (`OutboxInSync`, proved); the relay
  turns rows into jobs (`DeliversAtLeastOnce`); the notification and webhook workers,
  both on `JobQueue`, turn jobs into messages and posts. What a neighbour has to know
  of the table or queue between two of them is a property of the one that writes it.
- `TrackingEvents` extends `ShipmentLifecycle`: the calls of `createTrackingEvent` and
  the handlers' transactions interleave on one snapshot, and `TrackingIInv` rests on
  the lifecycle's invariant.
- `Dunning` extends `TenantSuspension`, whose transactions it makes; `HistoryWriter`
  extends `LocationIngest`, whose stream it reads.
- The idempotency keys keep a retried booking from becoming a second row. The field
  app's batch endpoint uses the same table through code of its own, which makes other
  promises; `FieldSync` has it.

## 2. Modules and their correspondence to the code

| Module | What it is |
|---|---|
| `ShipmentStatuses` | The tables: `ALLOWED_TRANSITIONS`, the console's `getNextStatus`, terminal statuses, tracking transitions and their validation, the translation of legacy statuses. |
| `ShipmentMachine` | Abstract: the state machine `docs/logistics-core.md` describes, as the table has it. |
| `ShipmentLifecycle` | The handlers that write `Shipment.status`, concurrently. |
| `TrackingEvents` | `createTrackingEvent`, await by await, beside these handlers. |
| `AtLeastOnce` | Abstract: what a transactional outbox promises. |
| `OutboxRelay` | The outbox poller in any number of processes. |
| `JobQueue` | External: a BullMQ queue as this code uses it. |
| `NotificationDelivery` | The notification worker on a `JobQueue`. |
| `WebhookDelivery` | The webhook worker and the delivery log on a `JobQueue`. |
| `HttpIdempotency` | Idempotency keys as the four routes use them. |
| `FieldSync` | The driver app's queue against the batch endpoint. |
| `LocationIngest`, `HistoryWriter` | Pings into a tenant's stream, and the stream into breadcrumbs. |
| `Refunds` | The refunds of one payment. |
| `TenantSuspension`, `Dunning` | Suspend and lift; the dunning enrolments that call them. |
| `MC…` | Instances for TLC, with the configurations of section 3. |
| `…_proofs` | Theorems, section 5. |

### ShipmentLifecycle

One step for what a handler reads and checks (`Begin…`), one for its transaction
(`Commit…`), one for the queue calls after the commit (`Announce`). The transaction is
atomic because PostgreSQL's read-committed isolation shows nobody a part of it, and
because its writes are keyed by ids and take nothing from what the row holds at that
time, except the columns the statement leaves alone. What is read before the
transaction is kept in `handler[h]` with its kind; everything that is written is
computed from that, never from the row as it is at the commit. `Abort` is a failed
transaction or a stopped process, at either place.

- `shipment[s]` is the row: status, whether `actualDelivery` is set, whether a
  `PodAsset` hangs off it, whether cash was collected. `timeline[s]` is the set of
  statuses of the `ShipmentEvent` rows these handlers insert. `snapshot[s]` is
  `TrackingSnapshot` (status in the tracking vocabulary and `hasException`).
  `lastOutbox[s]` is the status in the newest `shipment.status.updated` row.
  `announced[s]` is what the queues were last told.
- `portal` is PATCH `/shipments/:id/status`, `cancel` is DELETE, `advance` is the
  agents' console, `pod` and `failed` the driver app, `assign` the dispatch agent's
  tool. They differ in what they check, in whether they write the snapshot and the
  outbox, and in which fields they write back as read; the model keeps each of these
  differences.
- Payloads, notes, locations, invoices and prices are left out; so are requests that
  are answered with an error, which change nothing.

### TrackingEvents

A call arrives with the answer of its key look-up (`Arrive`: a recorded key is
answered as a duplicate and changes nothing), reads the snapshot and validates
(`Validate`), inserts (`Insert`, where the unique index on tenant, shipment and key,
`apps/backend/prisma/schema.prisma:3405`, rejects the second of two), writes the
snapshot whatever it says by now (`Upsert`) and announces (`Tell`). `Break` is a query
that throws or a process that stops, at any of these. The callers differ in how they
treat the transition: the tenant's manual events are checked or overridden, the driver
app's updates and synced events are checked and may carry a key, its pings write back
the status they read, labels, customs and returns skip the check.

The shipment handlers' transactions are the lifecycle's actions, with the event row
some of them insert (`ShipmentStep`). An event is known by its status, its key and
whether it was validated; `shown`, `told` and `faults` are history variables. Titles,
places, visibility and the public queries are left out.

### OutboxRelay

A pass of a process reads a batch (`StartPass`), then makes the calls of
`publishEvent` one at a time in the order of `Rank` (`Call`). A call may throw with or
without its effect (`FailCall`); the catch block takes the Redis key (`LockDlq`, SET
NX EX 86400) and reports (`DeadLetter`); Redis may fail there too (`AbortPass`); the
process may stop anywhere (`Crash`). Rows become visible in another order than
`createdAt` says (`CommitEvent`), because that is taken at the insert. A row is known
by what decides its routing: the statuses share one `eventType` and differ in whether
the activity map projects them.

### NotificationDelivery and JobQueue

Every await of `processNotificationJob` is a step: the upsert of the log row, the
provider call (which may take the message and lose the answer), the quota counter, the
guarded flip to SENT, the usage upsert, the return to the queue, and the dead letter
add of the `failed` event. `DbError` lets any of the database and Redis calls throw,
`Crash` stops a process anywhere, `StallJob` takes a job from a worker that stopped. A
job in `overrun` may also lose its lock while its worker is only blocked: then two
runs process it at once. Properties that hold only where one worker at a time has a
job say so (`Jobs \ overrun`); `UsageBacked`, `QuotaHeld`, `BuriedOnce` and `JobsEnd`
are about all jobs.

### WebhookDelivery

One endpoint, because the jobs of others meet none of its rows. The look-up of the
endpoint, the post, the row of the attempt, the return to the queue and the two calls
of `deadLetter` are steps; so are the two calls of a replay (row, then job), the
tenant's test delivery, switch and removal. A row is its status and whether
`deadLetteredAt` is set; an ordinary job has one for each attempt, a replay has its
one, which is filled in. Producers look for active endpoints before they add, so that
a job may come when the endpoint is off, and is then ended as done (`spared`). After a
removal, which deletes the rows in one transaction, later writes fail on the foreign
key (`WriteOrphan`). Bodies, signatures and attempt numbers are left out.

### HttpIdempotency

`Send` is the client, with a first request, a duplicate or a retry. The look-up has
three outcomes (`Replay`, `Conflict`, `Miss`), the create is a step of its own
(`Reserve`), then the route either refuses (`Refuse`: a 4xx that stores nothing) or
commits (`Execute`), stores (`Store`) and answers (`Answer`). `Fail` is a throw or a
crash at any of these places, the losing create's unique violation included. `Expire`
is the passing of 24 hours and the hourly cleanup in one: no code reads `expiresAt` in
between. A response is known by the effect it reports. Requests without a key, which
touch none of this, and `requestHash`, which nothing reads, are left out.

### FieldSync

Both ends of a call are in `request[r]`: the app's (does it still wait, what did it
send) and the handler's (what is to do, which write is next). The app's 15 s timeout
(`GiveUp`) leaves the handler running; its next timer starts a second call beside it.
`Find`, `Create`, `Write`, `Store` are the awaits of the batch endpoint for one
mutation; a key that has no response is processed again. The writes of a kind are
sequences (`LocationWrites`, `CashWrites` …), in the code's order and without a
transaction; what each writes is left out, so `done` counts them. Batches are the
front of a queue whose newest is first. `Restart` keeps the persisted queue or, when
the session check fails, loses it; `Clear` and `SignOut` drop it, and a call that is
awaited across a sign-out ends a sync it did not start. `faults` counts what makes the
app send again what the server may have begun; `signOuts` counts the sign-outs, which
do more: they leave room for one more call at once (section 6).

### LocationIngest and HistoryWriter

A call's awaits are the read of the hot state, INCR, HSET, XADD and XTRIM; calls for
one shipment overlap. The order filter is the code's; the jitter filter is a choice,
where a position was seen. A key that has expired behaves as a new one, so that calls
are known by their keys, and a duplicate gets 409 and changes nothing. Entries never
leave `stream`; `trimmed` says how many XTRIM has removed. Every process reads as
`worker-1` of one group, with `>` only: what is pending is never read again. The group
begins at the stream's end when the first process makes it; BUSYGROUP is fine. A pass
may fail, or its process stop, at any place (`FailPass`).

### Refunds

A transaction under the lock on the payment's row is one step; what is decided before
it (`Request`, `Decide`) and what follows it (`Charge`, then `Settle` or `Fail`) are
others. Stripe sends the money at most once for a key, and its answer may be lost: the
refund is FAILED though the money went. `Abort` is a refusal, a failed transaction or
a stopped process; one that stops before the answer leaves the refund PROCESSING for
good. The row is read before the lock, so that any number of requests can decide one
refund: each sees PENDING until the first decision is written, and then writes by id.
`contested` is a history variable, the refunds this has happened to; no action reads
it. The properties are stated for all refunds as far as they hold, and for the others
where they do not (section 6).

### TenantSuspension and Dunning

`SuspendTenant`/`Suspend`, `LiftSuspension`/`LiftRecords`/`Lift` and
`CloseTenant`/`Close`/`SuspendClosed` are what each call reads and what its transaction
writes from that, at read committed and without a lock on the tenant, any number of
them at once. A lift reads the remaining records after it has written its own, whose
rows are locked from then on; that is why it has three steps. `overtaken` is a history
variable: some transaction has left a status that it would not have left had it looked
again at its commit.

`Dunning` has the sweep per item (find due, claim with a conditional update, perform),
the enrolment, pause, resume and cancellation by staff, and full manual payments, which
recover the enrolment and lift, the lift also when the recovery throws
(`RecoveryThrows`). An invoice is PLATFORM's or Stripe's to collect, chosen at the
start: the sweep recovers the enrolments of the former only (`FindPaid`). Time is the
number of steps that are `due`. A step that was claimed by a process that stops is not
performed by anybody. A suspension by staff has no `sourceRef` and makes a record of
its own: a cause stands for one.

## 3. Runs

All passing runs are exhaustive over their instance.

| Run | Instance | States | What it shows |
|---|---|---|---|
| `lost_update` | 1 shipment, 2 portal requests | violation | Of two requests that both read the row, the second takes a transition that is not in the table (`FollowsMachine`, the refinement of `ShipmentMachine`). |
| `tracking` | 1 shipment; shipment requests of all six kinds and calls of `createTrackingEvent`, any two at once; 2 calls in all, 1 key, 1 call that breaks | 1.7 M | Races never let a status (`Grounded`) or a validated event (`EventsGrounded`) skip a stage, a delivery keeps its date though two handlers write it back as read (`DeliveredIsDated`), the snapshot's exception flag is wrong on cancelled shipments only (`FlagMatchesSnapshot`), a key's event is announced once (`ToldOnce`), only calls that break keep an event out of the snapshot (`OnlyFaultsHide`). |
| `relay` | 2 processes, 2 rows of different routing, 2 faults, batch of 2 | 74 k | No row is published unreached, repeats are bounded by relays and faults, a failure is reported once a day, and the refinement of `AtLeastOnce`, liveness included. |
| `notifications` | 1 job of any kind, 2 workers, 3 attempts, quota of 1, any overrun | 23 k | Usage is backed by messages and counted once, the quota holds, nobody gets more than one message beyond the attempts, SENT stays, and under fairness every job ends. |
| `webhooks` | 2 jobs, ordinary or replays, 2 workers, 2 attempts, 1 test, 1 fault, one job may overrun | 1.8 M | A replay keeps one entry, posts stay within the attempts and one, rows die for a cause, what is completed is logged as delivered. |
| `idempotency` | 2 keys, 3 requests | 82 k | `ExecutedOnce`, `AnswersAgree`, and `KeysFreed` under fairness. |
| `field` | 3 mutations (stop, scan, refused), batch of 2, 2 calls at once, 1 fault or sign-out | 171 k | What is shown as synced was made in full, a write is repeated only after faults and sign-outs, and at most so often, everything acceptable is synced in the end. |
| `location` | 1 shipment, 2 calls with 3 points, 2 processes, batch of 2, 2 faults | 609 k | Numbers are unique, the hot state shows no dropped point, acknowledged is stored, only faults strand an entry, the rest are stored in the end. |
| `refunds` | 3 refunds of a payment of 5, 3 requests at once, which may decide one refund | 1.3 M | Whoever decides at once: by hand nothing is over-refunded, the books never show less than was settled, nothing is paid that waits, refunds that were not contested are final. While no refund was contested: the same through Stripe, and the books agree. |
| `over_refund` | 3 refunds of a payment of 5, 2 requests at once | violation | Two approvals of one refund count it twice, 6 of 5. |
| `dunning` | 1 invoice, 3 callers, 2 steps, 2 acts of staff, 1 fault | 1.0 M | A step is performed once, an end is final, the enrolment of a paid PLATFORM invoice ends, and the tenant is suspended exactly while a cause is active until a transaction commits what another has overtaken. |
| `suspension` | the same with 2 callers | violation | A lift makes the tenant ACTIVE beside a suspension that has just committed. |

Type invariants are proved (section 5) and not repeated in the runs.

Why the bounds are enough:

- *One shipment, one endpoint, one payment, one tenant.* No handler reads or writes
  two, so that a second one multiplies states and adds no behaviour. (For the location
  stream, which shipments share, 2 shipments with 1 fault were also run: 972 k
  states.)
- *Two requests at once* is what a check-then-write race takes; a sequence of any
  length is explored because a request that ended can be followed by another. In
  `tracking` the two are counted over requests and calls together (`MaxInFlight`): two
  handlers that race on the row and its date, two calls that race under one key, or
  one of each on one snapshot. The portal and the console ask for EXCEPTION,
  OUT_FOR_DELIVERY and DELIVERED there (`Targets`), the other handlers for what they
  always ask for. The calls report EXCEPTION, which is allowed after most statuses,
  and RETURN_STARTED, which the system's calls store unchecked; pings report what they
  find. So an exception event that was validated is stored and raises the flag, before
  a cancellation too, and terminal statuses are left. No request is begun once a
  shipment has had four statuses (`MaxStatuses`), and DELIVERED and FAILED_DELIVERY
  are reached by the driver's requests without a detour; `MaxCalls` 2 leaves a call
  and its retry. `MCNext` is `TrackingNext` within these bounds. No run collects cash;
  every property of the run, and `CashAfterDelivery` and `NothingAnnouncedEarly`, are
  proved for any number and kind of requests, calls and faults. `SYMMETRY` over
  requests and calls is used where only invariants are checked, and in `refunds`,
  whose action property names neither.
- *Two relays, two rows, two faults.* Two processes overlap in any way, a batch has an
  older and a newer row, a row can fail and its retry fail again.
- *One job, two workers, three attempts* are the code's attempts of the notification
  queue; two runs of one job are the worst the lock allows. The quota of 1 makes the
  boundary common. Two jobs (an SMS and one of either kind, 2 attempts, no overrun)
  were also run: 393 k states. Webhooks have two jobs because one job's dead letter
  marks another's rows; 2 attempts instead of the code's 5 leave a first, a last and
  the forgiven stall.
- *Three requests, two keys*: one holds the key, one races it, one is a late retry.
- *Three mutations, batches of two*: one that is refused for ever, one in front of it
  and one behind, so that the starvation the premise of `EverySyncs` excludes is next
  door. Two calls are what an app that gave up and tried again has; the code's batch
  is 25.
- *A fault bound* (`MaxFaults`), where there is one, bounds only failures (and the
  field app's sign-outs); the proofs do not depend on its value. `MaxActs` bounds the
  staff's acts in `dunning` and `suspension`.
- *MaxLen 1* lets a trim reach everything but the last entry.

Deadlock is checked in `idempotency`, where a client can always send again. The other
systems may stop: requests may cease to come, every row may be published, a job that
has ended leaves nothing to do; their configurations say so.

Every property of every passing run is paired with a mutant: an operator with a
plausible bug (`CommitPortalKeepsFlag`, `InsertAgain`, `LockDlqAlways`,
`WriteAnswerFirst`, `NextSeqUnfiltered` …), which stands next to the definition it
replaces, and under which TLC finds that property violated.

## 4. Fairness

- *Relay*: weak fairness of each process's own next step. `setInterval` starts a pass
  every five seconds, a pass that throws clears `running` in `finally`
  (`queues/outbox.worker.ts:90`), and a stopped process is started again (`restart:
  unless-stopped` in `docker-compose.yml`). Faults are not fair and are bounded: with
  faults for ever no relay delivers anything.
- *Notifications*: weak fairness of each worker's step and of BullMQ's check for
  stalled jobs, which runs on a timer in every worker. Failures need no bound here,
  because attempts and the stall count have one.
- *Idempotency*: weak fairness of each request's step, failing included (a handler's
  promise settles, or its process ends), and of the cleanup, a scheduled job. Clients
  are not fair: nothing relies on a retry.
- *Field sync*: weak fairness of starting a sync (the app's 1.2 s timer), of each
  handler, of an answer's arrival, and of giving up a call whose server is gone. The
  driver, and the timeouts of calls whose handler lives, are not fair.
- *History writer*: weak fairness of each process's own step, a timer again. Calls are
  not fair: those that come are dealt with, none has to come.
- *Dunning*: weak fairness of each caller's operation and of the hourly job's finding
  of paid invoices. Staff and payments are not fair.
- *Lifecycle, tracking, refunds, webhooks*: none; only safety is stated. For webhooks
  the liveness of a queue's jobs is `JobsEnd` on the same `JobQueue`; for refunds
  there is none to state (section 6).

## 5. Proofs

Checked by TLAPS for every value of the constants: any shipments, requests, calls,
rows, relays, faults, jobs, workers, attempts, keys. Assumptions are the named ASSUMEs
of the modules (finite sets where a cardinality is taken, `Attempts` at least one, no
value that stands for "none" among the elements), which TLC evaluates on the
instances. Each proof module names its inductive invariant; each of these was
model-checked before it was proved.

| Module | Theorems | Argument |
|---|---|---|
| `ShipmentLifecycle_proofs`, the handlers | `TypeCorrect`, `NoStageSkipped` (`Grounded`), `DeliveryDated`, `NothingAnnouncedEarly`, `CashAfterDelivery`, `ProofOutlivesCheck`, `SnapshotFollowsRow`, `OutboxFollowsRow`, `SerialRefinesMachine` | `IInv` adds to the properties what a handler still knows at its commit (`CheckedOK`): its target has a predecessor in the timeline, which only grows, and the POD it saw is still there. None of the properties is inductive without it, because the commit does not look again. Snapshot and outbox agreement (`SnapshotInSync`, `OutboxInSync`) are proved where only the handlers that write them run, as hypotheses on `Kinds`, and checked by no run. The refinement of the machine needs a single handler: then the status read is the status at the commit. The run `lost_update` shows that it fails with two. |
| the same, tracking events | `EventsAreGrounded`, `EventsToldOnce`, `HiddenByFaults`, `FlagFollowsSnapshot` (`FlagMatchesSnapshot`) | `TrackingIInv`, on top of `IInv`: the snapshot's status is some event's (`SnapshotHasEvent`), what a call may still store has its predecessor stored, and events only grow (`CallsOK`); one call at most has stored a key's event and not announced it (`OneCarrier`). `HiddenByFaults` shows that a step adds at most one hidden event, and that only `Break` adds any, with a fault. `FlagFollowsSnapshot` is over all writers of the snapshot at once, shipment handlers and calls; it is inductive with `IInv`, from which a cancellation writes CANCELLED and nothing else. |
| `Retries_proofs`, the relay | `TypeCorrect`, `NothingLost` (`PublishedReached`), `ShownOnce`, `ReportedOnce`, `DuplicatesCounted` (`DuplicatesBounded`), `DeliversCommittedEvents` (safety half of the refinement) | `PassOK`: every call a pass is past has had its effect, so the mark, the last in `Rank`, comes when all are done. `DlqOK`: of the relays at one row only one holds its key. `DuplicatesCounted` is an accounting: a relay past a call stands for one job while its pass lives, each relay stands for one once the row is published, and faults pay for what passes that died have lost. |
| the same, the idempotency keys | `KeysTyped`, `CommitsOnce` (`ExecutedOnce`), `RetriesAgree` (`AnswersAgree`), `ResponsesStay` (`ResponseIsKept`) | `OneHolder`: one request at a time is between its create and its answer; `HolderOK`: where it is says what the row holds. A request that is about to store has its key in processing, so that no response is stored over another. |
| `NotificationDelivery_proofs` | `TypeCorrect`, `BilledForSent` (`UsageBacked`), `CountsOnce`, `SettledWhenDone`, `BuriesOnce`, `QuotaIsHeld` (`QuotaHeld`), `SentIsFinal`, `MessagesAreBounded` (`MessagesBounded`) | `AloneOK` says what a run that has its job to itself may rely on at each await. `EachBacked` is the strengthening for billing: usage plus the runs on their way from an accepted message to the count is at most what was accepted; it holds for overrun jobs too. `NumbersCover`: each number the SMS counter gave covers one text, taken or still to be sent. `SentIsFinal` is an action property, from the same invariant. `MessagesFetched` is the accounting of the webhooks, for messages. |
| `WebhookDelivery_proofs` | `TypeCorrect`, `ReplaysLoggedOnce` (`OneEntryPerReplay`), `PostsAreBounded` (`PostsBounded`), `DeadForCause` (`MarkedForCause`), `CompletedWasDelivered` (`CompletedIsDelivered`), `EndedStaysQuiet` (`EndedIsQuiet`) | `PostsFetched` is an accounting: posts and runs that may still post are paid for by fetches of the job (`Fetches` of `JobQueue`), and `AttemptsLeft` bounds these. `RunOK`: a run holds its job's lock unless the job can overrun, returns only what is done, dead-letters only what is spent. `RowsOfReplays`: while the endpoint is there, a replay has a row to fill in, so that `create` never adds a second. |
| `FieldSync_proofs` | `TypeCorrect`, `NothingSyncedIsMissing` (`SyncedWasMade`), `RepeatsNeedFaults` (`RepeatNeedsFault`) | What a handler reports as synced is made (`ReportedWasMade`), because of the mutation it is at every write before the next one is made (`StepsWereMade`). Repeats are an accounting too: `Chances` counts the calls that may still make a write and the places it may be sent again from, `SyncsBounded` the syncs under way at once; every step that adds a chance is a fault or a sign-out (`ChancesBounded`). |
| `HistoryWriter_proofs` | `TypeCorrect`, `NumbersAreUnique` (`OneSeqEach`), `HotShowsRecorded` (`HotIsRecorded`), `AckedStored` (`AckedIsStored`), `NothingElseStrands` (`OnlyFaultsStrand`) | `NumbersApart`: a number a call holds is nobody else's and no entry's; `AddedFirst`; `BatchesOK`: who acknowledges has stored; `CrumbsAreEntries`. |
| `Refunds_proofs` | `TypeCorrect`, `OnlyApprovedIsPaid` (`PaidWasApproved`), `NoOverRefund` (`NeverOverRefunded`), `RefundedAmountIsTrue` (`BooksAgree`), `OutcomesStay` (`OutcomesAreFinal`) | Of any number of requests that decide at once. `OneHand`: a refund that was not contested is decided and sent by one request; `InHand`: it stands where that request left it, and a contested one no longer waits once it is being sent; `SentIsDecided`. So what becomes settled was in flight, once, unless contested, and without Stripe every approval is counted under the lock it checks under. A total over a fold has no induction here: `TotalIsUnits` shows it to be the number of units of money of its refunds, a set, and the sums follow from lemmas about cardinalities. `BooksInv` is the two properties on top of `IInv`. |
| `Dunning_proofs` | `TypeCorrect`, `NoStepTwice` (`StepOnce`), `EndStaysForGood` (`EndIsFinal`), `SuspendedWhileCaused` (`FollowsUnlessOvertaken`) | `ClaimsHold`: a claim was made once and the enrolment is past it. `TenantInv`: while nothing was overtaken, a tenant is closed when its status is CANCELLED and only then, and its status follows the causes; a transaction that leaves what it would leave now keeps that, whatever it has read. |

`NothingAnnouncedEarly`, `CashAfterDelivery`, `ProofOutlivesCheck`,
`SnapshotFollowsRow`, `OutboxFollowsRow`, `SerialRefinesMachine`, `ShownOnce`,
`DeliversCommittedEvents`,
`SettledWhenDone`, `BuriesOnce`, `EndedStaysQuiet` and `ResponsesStay` are proved and
in no passing run; each was model-checked on an instance like those of section 3
before it was proved.

Only model-checked: everything with fairness (`DeliversAtLeastOnce`, `JobsEnd`,
`KeysFreed`, `EverySyncs`, `PaidEnds`, `EntriesAreStored`), which is out of the
prover's reach. Every safety property of a passing run is proved.

## 6. Where code and documents part

Shown by a run:

- `lost_update` — `docs/logistics-core.md:58` says that other transitions are
  rejected; two concurrent PATCHes take one.
- `over_refund` — `services/refund.service.ts:4` promises no over-refunds and a true
  `refundedAmount`. Two approvals of one refund at once both read PENDING (`:170`)
  before the lock, each takes the refund for its own in the balance (`:188`), Stripe
  answers both with the one refund of its key, and both answers are counted. Without
  Stripe the second approval fits only if the balance covers the amount twice, and is
  then counted too. Of an approval and a rejection at once the later one writes the
  row: a refund that was paid out can end REJECTED.
- `suspension` — `services/tenant-suspension.service.ts:8` and `:55`: active again only
  when no ACTIVE record remains, and never once closed. A lift decides from what it
  read (`:177`, `:196`) and writes by id: what commits in between is overtaken.

Met while modelling, without a run; the models follow the code.

*Shipments and tracking*

- The dispatch agent's assign tool checks for terminal statuses
  (`modules/agent/agent.handlers.impl.ts:44-45`) and updates by id later (`:59`): a
  cancellation in between is undone.
- A shipment in EXCEPTION goes back to PROCESSING and can be cancelled from there,
  against `docs/logistics-core.md:52`. A cancellation leaves `hasException` as it is
  (`modules/shipments/shipments.routes.ts:1038`): an EXCEPTION event on a booked
  shipment, or a portal write it races with, leaves the flag up on it for good.
- The console delivers without a POD (`docs/logistics-core.md:79`), and neither the
  console nor the driver's POD moves the tracking snapshot
  (`docs/tracking-core.md:96`).
- `docs/tracking-core.md:215-224`: a tracking event also updates `Shipment.status`
  (step 6) and writes an outbox event (step 10). `recordTrackingEvent` does neither.
- The snapshot is "updated on every new event" (`docs/tracking-core.md:35`). A call
  that stops between insert and upsert leaves it behind, and its retry is answered as
  a duplicate and does not repair it; `OnlyFaultsHide` says that nothing else does.
- Two deliveries of one key at once: the unique index rejects the second, which is
  answered with an error though the event is recorded.
- `ShipmentEvent` rows come from elsewhere too, with statuses the shipment never had:
  a ping inserts IN_TRANSIT (`modules/driver/driver.routes.ts:476`), a completed stop
  of any kind DELIVERED (`:109`). `timeline` has the rows of the modelled handlers
  only.
- Two checked events at once can leave a terminal status without an override, each
  valid by what it read. Label reprints, customs and returns skip the check and can
  put the snapshot back; a ping writes back a status it read earlier
  (`modules/tracking/tracking.go.routes.ts:162`); a synced older event overwrites a
  newer snapshot.

*Queues*

- `docs/system-architecture.md:699` sends status changes to the webhook queue; the
  relay's condition (`queues/outbox.worker.ts:37`) matches no row that is written.
- The count of a sent message can be lost:
  `modules/notifications/notifications.worker.ts:241` fails after the flip and no
  retry makes it good, against the comment at `:186`. A job that fails for good by
  stalling, or whose process stops first, never reaches the dead letter queue
  (`:265`). A run that outlives its lock can write FAILED over the SENT of another.
- Notification jobs from the outbox carry no `to`, fail three times and are
  dead-lettered.
- The dead letter lock of a row is taken before the report
  (`queues/outbox.worker.ts:64`): a crash in between is silent for a day. Rows are
  read by `createdAt` (`:55`), which is not the order they commit in. The outbox queue
  (`:43`) has no worker in this repository.
- "After five failed attempts the delivery is dead-lettered" (`docs/api.md:194`):
  `queues/webhook.worker.ts:204` marks every FAILED row of the endpoint, test
  deliveries and attempts of jobs that will be tried again included. A replay's row
  that is DELIVERED later keeps `deadLetteredAt`; a replay whose job is lost stays
  PENDING.
- `docs/api.md:398` takes a key in processing for a request in flight; after a refusal
  or a crash it is not, and the client gets 409 for a day
  (`shared/middleware/idempotency.ts:39`). A key used again with another body gets the
  first body's answer (`:35`).

*Field app and location*

- Work recorded offline is lost when the app is opened again before the connection is
  back: the failed session check resets the queue
  (`apps/fauward-Go/src/store/useAuthStore.ts:142`, against
  `apps/fauward-Go/docs/integration-and-data-sharing.md:23-24`).
- A sign-out resets the sync state
  (`apps/fauward-Go/src/app/providers/AppProviders.tsx:43`) and not the call that is
  awaited. When that call ends, it ends a sync that it did not start: from then on two
  syncs can be under way at once, each of which ends the other's, in spite of the
  `isSyncing` check (`apps/fauward-Go/src/store/useFieldDataStore.ts:577`).
- A batch's worth of refused mutations stays at the front and starves the older ones;
  two handlers of one mutation can create two COD payments, and a retry counts storage
  twice.
- The hot state can go back: `updateHotStateIfGreaterSeq` is never called, against
  `docs/REALTIME-TRACKING-IMPLEMENTATION.md:233`. Breadcrumbs that are pending when a
  writer stops are never stored, against `:262`. The response of a call is never
  cached, because it holds a bigint
  (`modules/tracking/realtime/ingest.service.ts:130`).
- The ws publisher records resolved escalations as flagged ones
  (`queues/ws-publisher.worker.ts:27-31`).

*Money*

- A refund whose answer from Stripe is lost is FAILED and its reservation freed,
  though the money went; one whose process stops is PROCESSING for good.
- A failed recovery "is retried by the hourly dunning sweep"
  (`services/platform-billing.service.ts:208`). The sweep looks at enrolments with
  source PLATFORM only (`services/dunning.service.ts:253`); an invoice with a
  `stripeInvoiceId` is enrolled as STRIPE (`:245`) and stays
  open unless Stripe reports the invoice paid.
- A SUSPEND step claimed before a payment can suspend the tenant after the payment's
  lift found nothing to lift, against `services/dunning.service.ts:17-18`; no sweep
  lifts it.

## 7. Not modelled

- *BullMQ, Redis, PostgreSQL, the providers, Stripe*: modelled by what this code
  relies on (`JobQueue`, atomic transactions, unique indexes, SET NX, streams and
  groups, a call whose answer may be lost).
- *Parts of modelled components*: the field app's own update of `Shipment.status`, and
  the requests that insert a `ShipmentEvent` and leave the status alone (driver stops
  and pings, verifications, reroutes, returns), in the lifecycle; the field app's
  online-only routes and what its writes say; the ws publisher, the replay to clients
  that come back and the escalation flag of the location pipeline; partial payments
  and Stripe's invoice events of dunning; job records of the runner; putting dead
  letters back from the queue console.
- *Components*: permission requests, returns, escalations, provider callbacks,
  analytics counters, dispatch agent runs, staff access, accounts, relay hand-offs and
  data subject requests have orders of steps worth a model; they follow in section 8.
- *Time*: leases and expiries are nondeterministic; where the code relies on "long
  after" (the dead letter key and the idempotency row outlive what set them) the guard
  of the expiry says so.
- *Pure computations, forms, queries, user interfaces*: the last row of the inventory.
  They are most of the repository by lines — pages, seeds, marketing text, generated
  clients — and keep no state that an order of steps could spoil.

## 8. Plan

Done: lifecycle and tracking events, outbox, notifications, webhooks, idempotency
keys, field sync, location and history, refunds, dunning and suspension, with the
proofs above. Next, in this order:

1. `PermissionRequests` (`modules/shipment-permission-requests/routes.ts:338`: the row
   called locked is only read) and `Returns`: requests that several actors settle
   after a read.
2. `AgentQueue`: the offline queue of the agents' application, its stop at the first
   rejection, order of replay.
3. `Escalation` and the ws publisher: overlapping sweeps, a second group on the
   stream.
4. Provider callbacks, twice and out of order; `BooksAgree` beside them.
5. `DispatchRuns`: approval long after the read, beside the lifecycle's assignment.

Theorems to come: lemmas about the tables of `ShipmentStatuses` (every status can reach
a terminal one; the console's successor is allowed), and what one module's queue owes
to the next (an event that the relay has marked was added to the notification queue
whose jobs all end).
