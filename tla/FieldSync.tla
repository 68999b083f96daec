----------------------------- MODULE FieldSync ------------------------------
(***************************************************************************)
(* The driver app's offline queue and the server's batch endpoint.  The    *)
(* app keeps what the driver did as mutations, newest first, and sends the *)
(* front of the queue; it gives up after 15 seconds, but the server's      *)
(* handler goes on.  The handler works the batch off one mutation at a     *)
(* time, guarded by an idempotency key, and writes without a transaction:  *)
(* every write is a step that may fail.                                    *)
(*                                                                         *)
(* A fault is whatever makes the app send again what the server may have   *)
(* begun: `faults' counts them.  The driver's sign-outs are counted apart, *)
(* because they do more (RepeatNeedsFault); MaxFaults bounds both.         *)
(***************************************************************************)
EXTENDS Naturals, FiniteSets, Sequences

CONSTANTS
  Mutations,  \* what the driver does
  Kind,       \* the kind of each mutation
  BatchSize,  \* VITE_SYNC_BATCH_SIZE
  Requests,   \* numbers of the requests that can be under way at once
  MaxFaults   \* bound on the faults and sign-outs of a behaviour

\* The writes processMutation awaits, one after the other, for each kind.
LocationWrites == <<"driver", "event", "outbox">>
StopWrites == <<"stop", "shipment", "event", "outbox">>
ScanWrites == <<"event", "outbox">>
ProofWrites ==
  <<"asset", "storage", "shipment", "stop", "event", "outbox">>
CashWrites == <<"asset", "storage", "shipment", "stop", "event",
                "codEvent", "payment", "audit", "outbox">>

\* A type the server does not know, or a shipment it does not find, fails.
Kinds == {"location", "stop", "scan", "proof", "cash", "refused"}

Writes(m) ==
  CASE Kind[m] = "location" -> LocationWrites
    [] Kind[m] = "stop" -> StopWrites
    [] Kind[m] = "scan" -> ScanWrites
    [] Kind[m] = "proof" -> ProofWrites
    [] Kind[m] = "cash" -> CashWrites
    [] Kind[m] = "refused" -> << >>

ASSUME FieldAssumption ==
  /\ IsFiniteSet(Mutations)
  /\ Kind \in [Mutations -> Kinds]
  /\ BatchSize \in Nat \ {0}
  /\ MaxFaults \in Nat
  /\ Requests \subseteq Nat
  /\ IsFiniteSet(Requests)

VARIABLES
  queue,    \* app: the mutations it keeps
  born,     \* their order: the newest is at the front of the queue
  state,    \* app: the state of each mutation
  syncing,  \* app: isSyncing
  key,      \* server: the idempotency row of each mutation
  request,  \* a call of the batch endpoint, at both of its ends
  done,     \* history: how often each write of a mutation was made
  faults,   \* history: the faults so far
  signOuts  \* history: how often the driver has signed out

vars ==
  <<queue, born, state, syncing, key, request, done, faults, signOuts>>

\* dropped: by the driver; lost: without the driver's doing.
States ==
  {"unborn", "pending", "syncing", "failed", "synced", "dropped", "lost"}

\* awaited: the app still waits; batch: what it sent; todo: what the handler
\* has not finished; at: the one it has looked up, if any; ok: reported
\* synced; step: the write that is next.
Request == [pc      : {"off", "find", "create", "write", "store", "reply"},
            awaited : BOOLEAN,
            batch   : SUBSET Mutations,
            todo    : SUBSET Mutations,
            at      : SUBSET Mutations,
            ok      : SUBSET Mutations,
            step    : Nat]

Off == [pc |-> "off", awaited |-> FALSE, batch |-> {}, todo |-> {},
        at |-> {}, ok |-> {}, step |-> 1]

TypeOK ==
  /\ queue \subseteq Mutations
  /\ born \in [Mutations -> Nat]
  /\ state \in [Mutations -> States]
  /\ syncing \in BOOLEAN
  /\ key \in [Mutations -> {"none", "begun", "stored"}]
  /\ request \in [Requests -> Request]
  /\ done \in [Mutations -> [1..Len(CashWrites) -> Nat]]
  /\ faults \in Nat
  /\ signOuts \in Nat

Init ==
  /\ queue = {}
  /\ born = [m \in Mutations |-> 0]
  /\ state = [m \in Mutations |-> "unborn"]
  /\ syncing = FALSE
  /\ key = [m \in Mutations |-> "none"]
  /\ request = [r \in Requests |-> Off]
  /\ done = [m \in Mutations |-> [i \in 1..Len(CashWrites) |-> 0]]
  /\ faults = 0
  /\ signOuts = 0

MayFault == faults + signOuts < MaxFaults
Fault == MayFault /\ faults' = faults + 1

-----------------------------------------------------------------------------
(* The app.                                                                *)

\* The driver works: a mutation with a key of its own goes to the front.
Record(m) ==
  /\ state[m] = "unborn"
  /\ queue' = queue \cup {m}
  /\ born' = [born EXCEPT ![m] =
                1 + Cardinality({n \in Mutations : state[n] # "unborn"})]
  /\ state' = [state EXCEPT ![m] = "pending"]
  /\ UNCHANGED <<syncing, key, request, done, faults, signOuts>>

\* Mutant of Unsynced: what has failed once is not sent again.
UnsyncedPendingOnly(m) == state[m] \in {"pending", "syncing"}

Unsynced(m) == state[m] # "synced"

\* The front of the queue that is sent.
Batch ==
  LET open == {m \in queue : Unsynced(m)} IN
  {m \in open : Cardinality({n \in open : born[n] > born[m]}) < BatchSize}

\* The lowest number that no call has.
Free(r) ==
  /\ request[r] = Off
  /\ \A q \in Requests : q < r => request[q] # Off

\* Mutant of StartSync: isSyncing is not looked at.
StartSyncAnyway(r) ==
  /\ Batch # {}
  /\ Free(r)
  /\ syncing' = TRUE
  /\ state' = [m \in Mutations |->
                 IF m \in Batch THEN "syncing" ELSE state[m]]
  /\ request' = [request EXCEPT ![r] =
                   [Off EXCEPT !.pc = "find", !.awaited = TRUE,
                               !.batch = Batch, !.todo = Batch]]
  /\ UNCHANGED <<queue, born, key, done, faults, signOuts>>

\* syncPendingMutations, up to its await.
StartSync(r) ==
  /\ ~syncing
  /\ Batch # {}
  /\ Free(r)
  /\ syncing' = TRUE
  /\ state' = [m \in Mutations |->
                 IF m \in Batch THEN "syncing" ELSE state[m]]
  /\ request' = [request EXCEPT ![r] =
                   [Off EXCEPT !.pc = "find", !.awaited = TRUE,
                               !.batch = Batch, !.todo = Batch]]
  /\ UNCHANGED <<queue, born, key, done, faults, signOuts>>

\* What the app still keeps of a set of mutations.
Kept(M) == M \cap queue

\* The answer arrives in time: every mutation of the batch has a result.
Answer(r) ==
  LET c == request[r] IN
  /\ c.pc = "reply"
  /\ c.awaited
  /\ state' = [m \in Mutations |->
                 CASE m \in Kept(c.ok) -> "synced"
                   [] m \in Kept(c.batch \ c.ok) -> "failed"
                   [] OTHER -> state[m]]
  /\ syncing' = FALSE
  /\ request' = [request EXCEPT ![r] = Off]
  /\ UNCHANGED <<queue, born, key, done, faults, signOuts>>

\* The app gives up: 15 seconds have passed or the network has failed.  The
\* whole batch is failed; the handler, when there is one, goes on.
GiveUp(r) ==
  LET c == request[r] IN
  /\ c.awaited
  /\ c.pc # "off" => MayFault
  /\ state' = [m \in Mutations |->
                 IF m \in Kept(c.batch) THEN "failed" ELSE state[m]]
  /\ syncing' = FALSE
  /\ request' = [request EXCEPT ![r] =
                   IF c.pc = "off" THEN Off ELSE [c EXCEPT !.awaited = FALSE]]
  /\ faults' = IF c.pc = "off" THEN faults ELSE faults + 1
  /\ UNCHANGED <<queue, born, key, done, signOuts>>

\* M leaves the queue.
Drop(M, as) ==
  /\ M # {}
  /\ queue' = queue \ M
  /\ state' = [m \in Mutations |-> IF m \in M THEN as ELSE state[m]]

\* The app is started again.  localStorage has kept the queue and its states,
\* but the session is restored with a call, and when that call fails, because
\* the app is offline for one, the queue is reset like at the end of a session.
Restart ==
  /\ Fault
  /\ syncing' = FALSE
  /\ request' = [r \in Requests |->
                   IF request[r].pc = "off" THEN Off
                   ELSE [request[r] EXCEPT !.awaited = FALSE]]
  /\ \/ UNCHANGED <<queue, state>>
     \/ Drop(queue, "lost")
  /\ UNCHANGED <<born, key, done, signOuts>>

\* Clear synced items, clear failed items, reset the queue.
Clear ==
  /\ \/ Drop(queue, "dropped")
     \/ \E s \in {"synced", "failed"} :
          Drop({m \in queue : state[m] = s}, "dropped")
  /\ UNCHANGED <<born, syncing, key, request, done, faults, signOuts>>

\* The driver signs out: queue and sync state are reset, but a call that is
\* awaited stays so, and will end a sync that it did not start.
SignOut ==
  /\ MayFault
  /\ Drop(queue, "dropped")
  /\ syncing' = FALSE
  /\ signOuts' = signOuts + 1
  /\ UNCHANGED <<born, key, request, done, faults>>

-----------------------------------------------------------------------------
(* The server.                                                             *)

\* r is at pc.
At(r, pc) == request[r].pc = pc

\* r is at m: a batch is handled from its front.
Handles(r, m) ==
  IF At(r, "find")
  THEN /\ m \in request[r].todo
       /\ \A n \in request[r].todo : born[n] <= born[m]
  ELSE m \in request[r].at

\* The result is pushed, `synced' or `failed', and the next one is taken.
\* Of two results for one mutation the app takes `synced'.
Advance(r, m, reported) ==
  LET c == request[r] IN
  request' = [request EXCEPT ![r] =
    [c EXCEPT !.ok = c.ok \cup reported, !.todo = c.todo \ {m},
              !.at = {}, !.step = 1,
              !.pc = IF c.todo = {m} THEN "reply" ELSE "find"]]

GoTo(r, m, pc) ==
  request' = [request EXCEPT ![r] = [@ EXCEPT !.pc = pc, !.at = {m}]]

\* resolveMutationKey: an answered key is a duplicate and reported synced; a
\* key without a response is processed like a new one.
Find(r, m) ==
  /\ At(r, "find")
  /\ \/ key[m] = "stored" /\ Advance(r, m, {m})
     \/ key[m] = "begun" /\ GoTo(r, m, "write")
     \/ key[m] = "none" /\ GoTo(r, m, "create")
  /\ UNCHANGED <<queue, born, state, syncing, key, done, faults, signOuts>>

\* The row is created; when another handler was first, the create throws.
Create(r, m) ==
  /\ At(r, "create")
  /\ IF key[m] = "none"
     THEN key' = [key EXCEPT ![m] = "begun"] /\ GoTo(r, m, "write")
     ELSE Advance(r, m, {}) /\ UNCHANGED key
  /\ UNCHANGED <<queue, born, state, syncing, done, faults, signOuts>>

\* processMutation returns `failed' before it writes anything.
Refuse(r, m) ==
  /\ At(r, "write")
  /\ Writes(m) = << >>
  /\ Advance(r, m, {})
  /\ UNCHANGED <<queue, born, state, syncing, key, done, faults, signOuts>>

\* Mutant of Write: the result is pushed before the writes.
WriteAnswerFirst(r, m) ==
  LET i == request[r].step IN
  /\ At(r, "write")
  /\ i \in 1..Len(Writes(m))
  /\ done' = [done EXCEPT ![m][i] = @ + 1]
  /\ request' = [request EXCEPT
                   ![r].ok = @ \cup {m}, ![r].step = i + 1,
                   ![r].pc = IF i < Len(Writes(m)) THEN @ ELSE "store"]
  /\ UNCHANGED <<queue, born, state, syncing, key, faults, signOuts>>

\* The next write of processMutation; after the last one it is `synced'.
Write(r, m) ==
  LET c == request[r]
      i == c.step
  IN
  /\ At(r, "write")
  /\ i \in 1..Len(Writes(m))
  /\ done' = [done EXCEPT ![m][i] = @ + 1]
  /\ request' = [request EXCEPT ![r] =
                   IF i < Len(Writes(m))
                   THEN [c EXCEPT !.step = i + 1]
                   ELSE [c EXCEPT !.pc = "store", !.ok = c.ok \cup {m}]]
  /\ UNCHANGED <<queue, born, state, syncing, key, faults, signOuts>>

\* storeMutationKeyResult; it throws when the row is gone.
Store(r, m) ==
  /\ At(r, "store")
  /\ key' = [key EXCEPT ![m] = IF @ = "none" THEN @ ELSE "stored"]
  /\ Advance(r, m, {})
  /\ UNCHANGED <<queue, born, state, syncing, done, faults, signOuts>>

\* The app no longer listens to the reply.
Discard(r) ==
  /\ At(r, "reply")
  /\ ~request[r].awaited
  /\ request' = [request EXCEPT ![r] = Off]
  /\ UNCHANGED <<queue, born, state, syncing, key, done, faults, signOuts>>

\* A query throws: the mutation is `failed' and the batch goes on.
QueryFails(r, m) ==
  /\ request[r].pc \in {"find", "create", "write", "store"}
  /\ Fault
  /\ Advance(r, m, {})
  /\ UNCHANGED <<queue, born, state, syncing, key, done, signOuts>>

\* The process stops, or its reply is lost.
Die(r) ==
  /\ request[r].pc # "off"
  /\ Fault
  /\ request' = [request EXCEPT ![r] =
                   IF request[r].awaited
                   THEN [Off EXCEPT !.awaited = TRUE,
                                    !.batch = request[r].batch]
                   ELSE Off]
  /\ UNCHANGED <<queue, born, state, syncing, key, done, signOuts>>

\* A day has passed and the cleanup deletes the key.
Expire(m) ==
  /\ key[m] # "none"
  /\ Fault
  /\ key' = [key EXCEPT ![m] = "none"]
  /\ UNCHANGED <<queue, born, state, syncing, request, done, signOuts>>

-----------------------------------------------------------------------------
App(r) == StartSync(r) \/ Answer(r) \/ GiveUp(r)

Process(r, m) ==
  Find(r, m) \/ Create(r, m) \/ Refuse(r, m) \/ Write(r, m) \/ Store(r, m)

Handle(r) ==
  \/ \E m \in Mutations : Handles(r, m) /\ Process(r, m)
  \/ Discard(r)

Next ==
  \/ \E m \in Mutations : Record(m) \/ Expire(m)
  \/ \E r \in Requests :
       \/ App(r) \/ Handle(r) \/ Die(r)
       \/ \E m \in Mutations : Handles(r, m) /\ QueryFails(r, m)
  \/ Restart
  \/ Clear
  \/ SignOut

\* The app's 1.2 s timer starts the next sync while something is unsynced;
\* a handler that lives is run, its reply arrives, and a dead call is given
\* up after 15 seconds.  The driver and the faults are not fair.
Fairness ==
  /\ WF_vars(\E r \in Requests : StartSync(r))
  /\ \A r \in Requests :
       /\ WF_vars(Handle(r))
       /\ WF_vars(Answer(r))
       /\ WF_vars(At(r, "off") /\ GiveUp(r))

Spec == Init /\ [][Next]_vars /\ Fairness

-----------------------------------------------------------------------------
(* Properties.                                                             *)

\* m has been made in full at least once.
Made(m) == \A i \in 1..Len(Writes(m)) : done[m][i] >= 1

\* What the app shows as synced, and what the server will call a duplicate,
\* was refused by nobody and is in the database with every one of its
\* writes, whatever was sent twice, timed out or failed half-way.
SyncedWasMade ==
  \A m \in Mutations :
    state[m] = "synced" \/ key[m] = "stored" =>
      Kind[m] # "refused" /\ Made(m)

\* A write is repeated only when something went wrong: without a fault each
\* is made once, and every fault repeats it at most once more, although the
\* handler runs a key without a response again.  A sign-out under an awaited
\* call leaves room for one more call at once, for good, since each of them
\* ends the other's sync: every fault can then repeat a write in each.
RepeatNeedsFault ==
  \A m \in Mutations, i \in 1..Len(CashWrites) :
    done[m][i] <= (1 + signOuts) * (1 + faults)

Refused == {m \in Mutations : Kind[m] = "refused"}

\* What the server can accept is synced in the end, unless it is thrown away
\* or a restart loses it: the newer mutations go first, and the refused ones
\* are sent again and again, but while these are fewer than a batch they
\* starve nothing.
EverySyncs ==
  Cardinality(Refused) < BatchSize =>
    \A m \in Mutations \ Refused :
      state[m] = "pending" ~> state[m] \in {"synced", "dropped", "lost"}

\* What makes SyncedWasMade inductive: what a call reports is made, and of
\* the mutation it writes, every write before the next one.
ReportedWasMade ==
  \A r \in Requests : \A m \in request[r].ok :
    Kind[m] # "refused" /\ Made(m)

StepsWereMade ==
  \A r \in Requests :
    /\ request[r].pc \notin {"write", "store"} => request[r].step = 1
    /\ request[r].pc = "store" => request[r].at \subseteq request[r].ok
    /\ \A m, n \in request[r].at : m = n
    /\ \A m \in request[r].at : \A i \in 1..Len(CashWrites) :
         i < request[r].step => done[m][i] >= 1

\* What makes RepeatNeedsFault inductive: the chances that write i of m is
\* made once more without another fault.  A handler that has not come to the
\* write makes it; where a call is awaited m can be sent again after it, until
\* m is stored or while this call is past its key; and so it can by an app
\* that is not syncing.
Writing(r, m) == m \in request[r].at /\ request[r].pc \in {"write", "store"}

Now(r, m, i) ==
  /\ m \in request[r].todo
  /\ IF Writing(r, m) THEN At(r, "write") /\ request[r].step <= i
                      ELSE ~request[r].awaited

Again(r, m) ==
  /\ request[r].awaited
  /\ key[m] # "stored"
  /\ Writing(r, m) => key[m] = "none"

Sendable(m) == ~syncing /\ key[m] # "stored"

One(condition) == IF condition THEN 1 ELSE 0

NowCalls(m, i) == {r \in Requests : Now(r, m, i)}
AgainCalls(m) == {r \in Requests : Again(r, m)}

Chances(m, i) ==
  Cardinality(NowCalls(m, i)) + Cardinality(AgainCalls(m)) + One(Sendable(m))

ChancesBounded ==
  \A m \in Mutations, i \in 1..Len(CashWrites) :
    done[m][i] + Chances(m, i) <= (1 + signOuts) * (1 + faults)

Awaited == {r \in Requests : request[r].awaited}

\* How many syncs can be under way at once.
SyncsBounded == Cardinality(Awaited) + One(~syncing) <= 1 + signOuts

\* What a call has in its hands where it stands.
Shaped(c) ==
  /\ c.pc \in {"off", "find", "reply"} => c.at = {}
  /\ c.pc \in {"off", "reply"} => c.todo = {}
  /\ c.at \subseteq c.todo
  /\ \A m \in c.at : Kind[m] = "refused" => c.step = 1

CallsShaped == \A r \in Requests : Shaped(request[r])

IInv == TypeOK /\ ReportedWasMade /\ StepsWereMade /\ SyncedWasMade

RInv == IInv /\ CallsShaped /\ SyncsBounded /\ ChancesBounded
=============================================================================
