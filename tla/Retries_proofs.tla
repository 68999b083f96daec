--------------------------- MODULE Retries_proofs ---------------------------
(***************************************************************************)
(* Theorems about what may be done again at the two edges of a booking.    *)
(* A client retries its request: HttpIdempotency, for any keys and any     *)
(* number of requests.  The relay retries the events that the request's    *)
(* transaction has written: OutboxRelay, for every set of rows, number of  *)
(* processes, batch size and number of faults.                             *)
(***************************************************************************)
EXTENDS OutboxRelay, HttpIdempotency, FiniteSetTheorems, WellFoundedInduction,
        TLAPS

-----------------------------------------------------------------------------
(* The relay of the outbox.                                                 *)

\* A non-empty batch has an oldest event, and only one.
LEMMA OldestExists ==
  ASSUME NEW S \in SUBSET Events, S # {}
  PROVE  \E e \in S : IsOldest(e, S)
<1>1. S \subseteq Nat
  BY EventsAssumption
<1>2. PICK e \in S : \A d \in S : <<d, e>> \notin OpToRel(<, Nat)
  BY <1>1, NatLessThanWellFounded, WFMin
<1>3. \A d \in S : ~(d < e)
  BY <1>1, <1>2 DEF OpToRel
<1> QED
  BY <1>1, <1>3 DEF IsOldest

LEMMA OldestUnique ==
  ASSUME NEW S \in SUBSET Events, NEW d, NEW e,
         IsOldest(d, S), IsOldest(e, S)
  PROVE  d = e
<1>1. d \in Nat /\ e \in Nat /\ d <= e /\ e <= d
  BY EventsAssumption DEF IsOldest
<1> QED
  BY <1>1

\* A pass that goes on is at the oldest event of what is left, with all of
\* that event's calls before it.
LEMMA ProceedOK ==
  ASSUME NEW r \in Relays, NEW rest \in SUBSET Events,
         relay \in [Relays -> [phase : {"idle", "publishing", "failed", "locked"},
                               batch : SUBSET Events, todo : SUBSET Steps]],
         Proceed(r, rest)
  PROVE  \E new \in [phase : {"idle", "publishing"},
                     batch : SUBSET Events, todo : SUBSET Steps] :
           /\ relay' = [relay EXCEPT ![r] = new]
           /\ new.batch \subseteq rest
           /\ new.phase = "publishing" =>
                /\ new.batch # {}
                /\ \A e \in Events :
                     IsOldest(e, new.batch) => new.todo = StepsOf(e)
<1>1. CASE rest = {}
  <2>1. Idle \in [phase : {"idle", "publishing"}, batch : SUBSET Events,
                  todo : SUBSET Steps]
    BY DEF Idle
  <2> QED
    BY <1>1, <2>1 DEF Proceed, Idle
<1>2. CASE rest # {}
  <2> DEFINE first == CHOOSE e \in rest : IsOldest(e, rest)
             new == [phase |-> "publishing", batch |-> rest,
                     todo |-> StepsOf(first)]
  <2>1. first \in rest /\ IsOldest(first, rest)
    BY <1>2, OldestExists
  <2>2. StepsOf(first) \subseteq Steps
    BY DEF StepsOf, Steps, Routes
  <2>3. \A e \in Events : IsOldest(e, rest) => e = first
    BY <2>1, OldestUnique
  <2>4. relay' = [relay EXCEPT ![r] = new]
    BY <1>2 DEF Proceed
  <2> HIDE DEF first
  <2>5. new \in [phase : {"idle", "publishing"}, batch : SUBSET Events,
                 todo : SUBSET Steps]
    BY <2>2
  <2> QED
    BY <1>2, <2>3, <2>4, <2>5
<1> QED
  BY <1>1, <1>2

-----------------------------------------------------------------------------
\* A call, whether or not it throws, adds to what has been done for its event
\* and takes nothing away; only the last one publishes.
LEMMA EffectOK ==
  ASSUME IInv, NEW e \in committed, NEW s \in Steps, Effect(e, s) \/ NoEffect
  PROVE  /\ activities' \in [Events -> Nat]
         /\ jobs' \in [Queues -> [Events -> Nat]]
         /\ published' \subseteq committed
         /\ published' \in {published, published \cup {e}}
         /\ s # "mark" => published' = published
         /\ \A d \in Events, u \in Steps : CallDone(d, u) => CallDone(d, u)'
         /\ Effect(e, s) => CallDone(e, s)'
         /\ \A d \in Events \ {e}, q \in Queues : jobs'[q][d] = jobs[q][d]
         /\ ActivityOnce'
<1>1. /\ committed \subseteq Events /\ published \subseteq committed
      /\ activities \in [Events -> Nat]
      /\ jobs \in [Queues -> [Events -> Nat]]
      /\ \A d \in Events : activities[d] <= 1
  BY DEF IInv, TypeOK, ActivityOnce
<1>2. CASE Effect(e, s)
  <2>1. /\ activities' = [activities EXCEPT ![e] = IF s = "activity" THEN 1 ELSE @]
        /\ jobs' = [q \in Queues |->
                      [jobs[q] EXCEPT ![e] = IF s = q THEN @ + 1 ELSE @]]
        /\ published' = IF s = "mark" THEN published \cup {e} ELSE published
    BY <1>2 DEF Effect
  <2>2. \A d \in Events : activities'[d] \in Nat /\ activities'[d] <= 1
                          /\ activities'[d] >= activities[d]
    BY <1>1, <2>1
  <2>3. \A d \in Events, q \in Queues :
          /\ jobs'[q][d] \in Nat /\ jobs'[q][d] >= jobs[q][d]
          /\ d # e => jobs'[q][d] = jobs[q][d]
    BY <1>1, <2>1
  <2>4. /\ s \in Queues => jobs'[s][e] > 0
        /\ s = "activity" => activities'[e] > 0
    BY <1>1, <2>1
  <2>5. \A d \in Events, u \in Steps : CallDone(d, u) => CallDone(d, u)'
    BY <1>1, <2>2, <2>3 DEF CallDone
  <2>6. CallDone(e, s)'
    BY <2>4 DEF CallDone
  <2>7. activities' \in [Events -> Nat] /\ jobs' \in [Queues -> [Events -> Nat]]
    BY <1>1, <2>1
  <2>8. ActivityOnce'
    BY <2>2 DEF ActivityOnce
  <2> QED
    BY <1>1, <2>1, <2>3, <2>5, <2>6, <2>7, <2>8
<1>3. CASE ~Effect(e, s)
  <2>1. activities' = activities /\ jobs' = jobs /\ published' = published
    BY <1>3 DEF NoEffect
  <2>2. \A d \in Events, u \in Steps : CallDone(d, u) => CallDone(d, u)'
    BY <2>1 DEF CallDone
  <2>3. ActivityOnce'
    BY <1>1, <2>1 DEF ActivityOnce
  <2> QED
    BY <1>1, <1>3, <2>1, <2>2, <2>3
<1> QED
  BY <1>2, <1>3

\* What was done for a published event stays done.
LEMMA ReachedStands ==
  ASSUME NEW e \in Events, Reached(e),
         \A u \in Steps : CallDone(e, u) => CallDone(e, u)'
  PROVE  Reached(e)'
<1>1. \A q \in Queues : jobs[q][e] > 0 => jobs'[q][e] > 0
  BY DEF CallDone, Steps, Queues
<1>2. activities[e] > 0 => activities'[e] > 0
  BY DEF CallDone, Steps, Queues
<1> QED
  BY <1>1, <1>2 DEF Reached, Routes, Projected

\* When every call but the last one is done, the event is reached.
LEMMA AllDoneIsReached ==
  ASSUME NEW e \in Events, \A s \in StepsOf(e) \ {"mark"} : CallDone(e, s)
  PROVE  Reached(e)
<1>1. \A q \in Routes(e) : q \in Queues /\ q \in StepsOf(e) \ {"mark"}
  BY DEF Routes, StepsOf, Queues
<1>2. Projected(e) => "activity" \in StepsOf(e) \ {"mark"}
  BY DEF StepsOf
<1>3. \A q \in Routes(e) : jobs[q][e] > 0
  <2> SUFFICES ASSUME NEW q \in Routes(e) PROVE jobs[q][e] > 0
    OBVIOUS
  <2>1. CallDone(e, q) /\ q \in Queues
    BY <1>1
  <2> QED
    BY <2>1 DEF CallDone
<1>4. Projected(e) => activities[e] > 0
  <2>1. Projected(e) => CallDone(e, "activity")
    BY <1>2
  <2> QED
    BY <2>1 DEF CallDone
<1> QED
  BY <1>3, <1>4 DEF Reached

\* A pass that does not move is not disturbed by the others.
LEMMA PassStands ==
  ASSUME NEW r \in Relays, PassOK(r), relay'[r] = relay[r],
         committed \subseteq committed',
         \A e \in Events, u \in Steps : CallDone(e, u) => CallDone(e, u)'
  PROVE  PassOK(r)'
BY DEF PassOK, StepsOf, Steps, Routes

LEMMA DlqStands ==
  ASSUME DlqOK, dlq' = dlq, dlqLock' = dlqLock,
         \A r \in Relays, e \in Events : HoldsKey(r, e)' => HoldsKey(r, e)
  PROVE  DlqOK'
BY DEF DlqOK

-----------------------------------------------------------------------------
\* The initial states satisfy the inductive invariant.
LEMMA InitIsOK == Init => IInv
<1> SUFFICES ASSUME Init PROVE IInv
  OBVIOUS
<1>1. TypeOK
  BY FaultsAssumption DEF Init, TypeOK, Idle
<1>2. \A r \in Relays : PassOK(r)
  BY DEF Init, PassOK, Idle
<1>3. PublishedReached /\ ActivityOnce /\ NothingEarly /\ DeadLetteredOnceADay
  BY DEF Init, PublishedReached, ActivityOnce, NothingEarly,
         DeadLetteredOnceADay, Queues
<1>4. DlqOK
  BY DEF Init, DlqOK, HoldsKey, Idle
<1> QED
  BY <1>1, <1>2, <1>3, <1>4 DEF IInv

\* The rows of a pass, one process, in between two calls.
Places == [phase : {"idle", "publishing", "failed", "locked"},
           batch : SUBSET Events, todo : SUBSET Steps]

\* A step that touches nothing but one process, and leaves it at rest, with a
\* fresh event, or with a failed call.
LEMMA MoveOK ==
  ASSUME IInv, NEW r \in Relays, NEW new \in Places,
         UNCHANGED <<committed, published, activities, jobs, dlqLock, dlq>>,
         relay' = [relay EXCEPT ![r] = new],
         faults' \in 0..MaxFaults,
         new.phase \in {"idle", "publishing", "failed"},
         new.batch \subseteq committed,
         new.phase # "idle" => new.batch # {},
         new.phase = "publishing" =>
           \A e \in Events : IsOldest(e, new.batch) => new.todo = StepsOf(e)
  PROVE  IInv'
<1>1. relay \in [Relays -> Places] /\ relay' \in [Relays -> Places]
      /\ relay'[r] = new /\ \A x \in Relays \ {r} : relay'[x] = relay[x]
  BY DEF IInv, TypeOK, Places
<1>2. TypeOK'
  BY <1>1 DEF IInv, TypeOK, Places
<1>3. \A e \in Events, u \in Steps : CallDone(e, u) => CallDone(e, u)'
  BY DEF CallDone
<1>4. ASSUME NEW x \in Relays PROVE PassOK(x)'
  <2>1. CASE x = r
    BY <1>1, <2>1 DEF PassOK, StepsOf
  <2>2. CASE x # r
    BY <1>1, <1>3, <2>2, PassStands DEF IInv
  <2> QED
    BY <2>1, <2>2
<1>5. DlqOK'
  <2>1. \A x \in Relays, e \in Events : HoldsKey(x, e)' => HoldsKey(x, e)
    BY <1>1 DEF HoldsKey
  <2> QED
    BY <2>1, DlqStands DEF IInv
<1>6. /\ PublishedReached' /\ ActivityOnce' /\ NothingEarly'
      /\ DeadLetteredOnceADay'
  BY DEF IInv, PublishedReached, Reached, Routes, Projected, ActivityOnce,
         NothingEarly, DeadLetteredOnceADay
<1> QED
  BY <1>2, <1>4, <1>5, <1>6 DEF IInv

LEMMA StartKeeps ==
  ASSUME IInv, NEW r \in Relays, StartPass(r)
  PROVE  IInv'
<1>1. PICK B \in SUBSET committed : Proceed(r, B)
  BY DEF StartPass
<1>2. B \in SUBSET Events /\ relay \in [Relays -> Places] /\ faults \in 0..MaxFaults
  BY DEF IInv, TypeOK, Places
<1>3. \E new \in Places :
        /\ relay' = [relay EXCEPT ![r] = new]
        /\ new.phase \in {"idle", "publishing"}
        /\ new.batch \subseteq B
        /\ new.phase = "publishing" =>
             /\ new.batch # {}
             /\ \A e \in Events : IsOldest(e, new.batch) => new.todo = StepsOf(e)
  BY <1>1, <1>2, ProceedOK DEF Places
<1> QED
  BY <1>1, <1>2, <1>3, MoveOK DEF StartPass

LEMMA StopKeeps ==
  ASSUME IInv, NEW r \in Relays, AbortPass(r) \/ Crash(r)
  PROVE  IInv'
<1>1. Idle \in Places /\ Idle.phase = "idle" /\ Idle.batch = {}
  BY DEF Idle, Places
<1>2. faults' \in 0..MaxFaults
  BY FaultsAssumption DEF AbortPass, Crash, Fault, IInv, TypeOK
<1> QED
  BY <1>1, <1>2, MoveOK DEF AbortPass, Crash

LEMMA CommitEventKeeps ==
  ASSUME IInv, NEW e \in Events, CommitEvent(e)
  PROVE  IInv'
<1>1. /\ committed' = committed \cup {e}
      /\ UNCHANGED <<published, activities, jobs, dlqLock, dlq, relay, faults>>
  BY DEF CommitEvent
<1>2. TypeOK'
  BY <1>1 DEF IInv, TypeOK
<1>3. \A d \in Events, u \in Steps : CallDone(d, u) => CallDone(d, u)'
  BY <1>1 DEF CallDone
<1>4. \A r \in Relays : PassOK(r)'
  BY <1>1, <1>3, PassStands DEF IInv
<1>5. DlqOK'
  BY <1>1 DEF IInv, DlqOK, HoldsKey
<1>6. /\ PublishedReached' /\ ActivityOnce' /\ NothingEarly'
      /\ DeadLetteredOnceADay'
  BY <1>1 DEF IInv, PublishedReached, Reached, Routes, Projected, ActivityOnce,
              NothingEarly, DeadLetteredOnceADay
<1> QED
  BY <1>2, <1>4, <1>5, <1>6 DEF IInv

LEMMA ExpireKeeps ==
  ASSUME IInv, NEW e \in Events, ExpireDlqLock(e)
  PROVE  IInv'
<1>1. /\ \A r \in Relays : ~HoldsKey(r, e)
      /\ dlqLock' = dlqLock \ {e} /\ dlq' = [dlq EXCEPT ![e] = 0]
      /\ UNCHANGED <<committed, published, activities, jobs, relay, faults>>
  BY DEF ExpireDlqLock, HoldsKey
<1>2. TypeOK'
  BY <1>1 DEF IInv, TypeOK
<1>3. \A d \in Events, u \in Steps : CallDone(d, u) => CallDone(d, u)'
  BY <1>1 DEF CallDone
<1>4. \A r \in Relays : PassOK(r)'
  BY <1>1, <1>3, PassStands DEF IInv
<1>5. DlqOK'
  <2>1. \A r \in Relays, d \in Events : HoldsKey(r, d)' <=> HoldsKey(r, d)
    BY <1>1 DEF HoldsKey
  <2>2. \A d \in Events : dlq'[d] = IF d = e THEN 0 ELSE dlq[d]
    BY <1>1 DEF IInv, TypeOK
  <2> QED
    BY <1>1, <2>1, <2>2 DEF IInv, DlqOK
<1>6. DeadLetteredOnceADay'
  BY <1>1 DEF IInv, TypeOK, DeadLetteredOnceADay
<1>7. PublishedReached' /\ ActivityOnce' /\ NothingEarly'
  BY <1>1 DEF IInv, PublishedReached, Reached, Routes, Projected, ActivityOnce,
              NothingEarly
<1> QED
  BY <1>2, <1>4, <1>5, <1>6, <1>7 DEF IInv

\* The call that marks the row is the last one: everything else is done.
LEMMA MarkIsLast ==
  ASSUME IInv, NEW r \in Relays, NEW e \in Events, AtCall(r, e, "mark")
  PROVE  Reached(e)
<1>1. /\ IsOldest(e, relay[r].batch) /\ relay[r].phase = "publishing"
      /\ \A u \in relay[r].todo : Rank["mark"] <= Rank[u]
  BY DEF AtCall
<1>2. \A u \in Steps \ {"mark"} : ~(Rank["mark"] <= Rank[u])
  BY DEF Steps, Queues, Rank
<1>3. relay[r].todo \subseteq {"mark"}
  BY <1>1, <1>2 DEF IInv, TypeOK
<1>4. \A u \in StepsOf(e) \ {"mark"} : CallDone(e, u)
  BY <1>1, <1>3 DEF IInv, PassOK
<1> QED
  BY <1>4, AllDoneIsReached

\* Common to a call that succeeds and one that throws: r is at the call, the
\* world changes by Effect or not at all, and r goes where new says.
LEMMA CallMoves ==
  ASSUME IInv, NEW r \in Relays, NEW e \in Events, NEW s \in Steps,
         AtCall(r, e, s), Effect(e, s) \/ NoEffect,
         UNCHANGED <<committed, dlqLock, dlq>>, faults' \in 0..MaxFaults,
         NEW new \in Places, relay' = [relay EXCEPT ![r] = new],
         new.phase \in {"idle", "publishing", "failed"},
         new.batch \subseteq committed,
         new.phase # "idle" => new.batch # {},
         new.phase = "publishing" =>
           \A d \in Events : IsOldest(d, new.batch) =>
             /\ new.todo \subseteq StepsOf(d)
             /\ "mark" \in new.todo
             /\ \A u \in StepsOf(d) \ new.todo : CallDone(d, u)'
  PROVE  IInv'
<1>1. /\ relay \in [Relays -> Places] /\ relay' \in [Relays -> Places]
      /\ relay'[r] = new /\ \A x \in Relays \ {r} : relay'[x] = relay[x]
  BY DEF IInv, TypeOK, Places
<1>2. e \in committed /\ committed \subseteq Events
  BY DEF IInv, TypeOK, PassOK, AtCall, IsOldest
<1>3. /\ activities' \in [Events -> Nat]
      /\ jobs' \in [Queues -> [Events -> Nat]]
      /\ published' \subseteq committed
      /\ published' \in {published, published \cup {e}}
      /\ s # "mark" => published' = published
      /\ \A d \in Events, u \in Steps : CallDone(d, u) => CallDone(d, u)'
      /\ \A d \in Events \ {e}, q \in Queues : jobs'[q][d] = jobs[q][d]
      /\ ActivityOnce'
  BY <1>2, EffectOK
<1>4. TypeOK'
  BY <1>1, <1>3 DEF IInv, TypeOK, Places
<1>5. ASSUME NEW x \in Relays PROVE PassOK(x)'
  <2>1. CASE x = r
    BY <1>1, <2>1 DEF PassOK, StepsOf, Routes, Projected
  <2>2. CASE x # r
    BY <1>1, <1>3, <2>2, PassStands DEF IInv
  <2> QED
    BY <2>1, <2>2
<1>6. DlqOK'
  <2>1. \A x \in Relays, d \in Events : HoldsKey(x, d)' => HoldsKey(x, d)
    BY <1>1 DEF HoldsKey
  <2> QED
    BY <2>1, DlqStands DEF IInv
<1>7. PublishedReached'
  <2> SUFFICES ASSUME NEW d \in published' PROVE Reached(d)'
    BY DEF PublishedReached
  <2>1. Reached(d)
    <3>1. CASE d \in published
      BY <3>1 DEF IInv, PublishedReached
    <3>2. CASE d \notin published
      BY <1>3, <3>2, MarkIsLast
    <3> QED
      BY <3>1, <3>2
  <2> QED
    BY <1>2, <1>3, <2>1, ReachedStands
<1>8. NothingEarly' /\ DeadLetteredOnceADay'
  <2>1. \A d \in Events \ committed : jobs'["outbox"][d] = jobs["outbox"][d]
    BY <1>2, <1>3 DEF Queues
  <2> QED
    BY <2>1 DEF IInv, NothingEarly, DeadLetteredOnceADay
<1> QED
  BY <1>3, <1>4, <1>5, <1>6, <1>7, <1>8 DEF IInv

LEMMA CallKeeps ==
  ASSUME IInv, NEW r \in Relays, Call(r) \/ FailCall(r)
  PROVE  IInv'
<1>1. PICK e \in Events, s \in Steps :
        /\ AtCall(r, e, s)
        /\ UNCHANGED <<committed, dlqLock, dlq>>
        /\ \/ /\ Effect(e, s)
              /\ IF s = "mark" THEN Proceed(r, relay[r].batch \ {e})
                               ELSE relay' = [relay EXCEPT ![r].todo = @ \ {s}]
              /\ faults' = faults
           \/ /\ Effect(e, s) \/ NoEffect
              /\ relay' = [relay EXCEPT ![r].phase = "failed"]
              /\ Fault
  BY DEF Call, FailCall
<1>2. /\ relay \in [Relays -> Places] /\ faults \in 0..MaxFaults
      /\ committed \subseteq Events
      /\ relay[r].batch \subseteq committed /\ e \in relay[r].batch
      /\ IsOldest(e, relay[r].batch) /\ relay[r].phase = "publishing"
      /\ s \in relay[r].todo
  BY <1>1 DEF IInv, TypeOK, Places, PassOK, AtCall, IsOldest
<1>3. faults' \in 0..MaxFaults
  BY <1>1, <1>2, FaultsAssumption DEF Fault
<1>4. \A d \in Events, u \in Steps : CallDone(d, u) => CallDone(d, u)'
  BY <1>1, <1>2, EffectOK
<1>5. CASE s = "mark" /\ Proceed(r, relay[r].batch \ {e})
  <2>1. PICK new \in Places :
          /\ relay' = [relay EXCEPT ![r] = new]
          /\ new.phase \in {"idle", "publishing"}
          /\ new.batch \subseteq relay[r].batch \ {e}
          /\ new.phase = "publishing" =>
               /\ new.batch # {}
               /\ \A d \in Events : IsOldest(d, new.batch) => new.todo = StepsOf(d)
    BY <1>2, <1>5, ProceedOK DEF Places
  <2>2. new.phase = "publishing" =>
          \A d \in Events : IsOldest(d, new.batch) =>
            /\ new.todo \subseteq StepsOf(d)
            /\ "mark" \in new.todo
            /\ \A u \in StepsOf(d) \ new.todo : CallDone(d, u)'
    BY <2>1 DEF StepsOf
  <2> QED
    BY <1>1, <1>2, <1>3, <2>1, <2>2, CallMoves
<1>6. CASE /\ s # "mark" /\ Effect(e, s)
           /\ relay' = [relay EXCEPT ![r].todo = @ \ {s}]
  <2> DEFINE new == [relay[r] EXCEPT !.todo = @ \ {s}]
  <2>1. new \in Places /\ relay' = [relay EXCEPT ![r] = new]
    BY <1>2, <1>6 DEF Places
  <2>2. /\ new.phase = "publishing" /\ new.batch = relay[r].batch
        /\ new.todo = relay[r].todo \ {s}
    BY <1>2 DEF Places
  <2>3. CallDone(e, s)'
    BY <1>2, <1>6, EffectOK
  <2>4. ASSUME NEW d \in Events, IsOldest(d, new.batch)
        PROVE  /\ new.todo \subseteq StepsOf(d)
               /\ "mark" \in new.todo
               /\ \A u \in StepsOf(d) \ new.todo : CallDone(d, u)'
    <3>1. d = e
      BY <1>2, <2>2, <2>4, OldestUnique
    <3>2. /\ relay[r].todo \subseteq StepsOf(e) /\ "mark" \in relay[r].todo
          /\ \A u \in StepsOf(e) \ relay[r].todo : CallDone(e, u)
      BY <1>2 DEF IInv, PassOK
    <3>3. StepsOf(e) \subseteq Steps
      BY DEF StepsOf, Steps, Routes
    <3> QED
      BY <1>4, <1>6, <2>2, <2>3, <3>1, <3>2, <3>3
  <2> HIDE DEF new
  <2> QED
    BY <1>1, <1>2, <1>3, <2>1, <2>2, <2>4, CallMoves
<1>7. CASE relay' = [relay EXCEPT ![r].phase = "failed"]
  <2> DEFINE new == [relay[r] EXCEPT !.phase = "failed"]
  <2>1. new \in Places /\ relay' = [relay EXCEPT ![r] = new]
    BY <1>2, <1>7 DEF Places
  <2>2. new.phase = "failed" /\ new.batch = relay[r].batch
    BY <1>2 DEF Places
  <2> HIDE DEF new
  <2> QED
    BY <1>1, <1>2, <1>3, <2>1, <2>2, CallMoves
<1> QED
  BY <1>1, <1>5, <1>6, <1>7

\* Setting the dead letter key and using it.
LEMMA DeadLetterKeeps ==
  ASSUME IInv, NEW r \in Relays, LockDlq(r) \/ DeadLetter(r)
  PROVE  IInv'
<1>1. PICK e \in Events :
        /\ IsOldest(e, relay[r].batch)
        /\ relay[r].phase \in {"failed", "locked"}
        /\ UNCHANGED <<committed, published, activities, jobs, faults>>
        /\ \/ /\ relay[r].phase = "failed" /\ e \in dlqLock
              /\ UNCHANGED dlq /\ dlqLock' = dlqLock
              /\ Proceed(r, relay[r].batch \ {e})
           \/ /\ relay[r].phase = "failed" /\ e \notin dlqLock
              /\ UNCHANGED dlq /\ dlqLock' = dlqLock \cup {e}
              /\ relay' = [relay EXCEPT ![r].phase = "locked"]
           \/ /\ relay[r].phase = "locked"
              /\ dlq' = [dlq EXCEPT ![e] = @ + 1] /\ UNCHANGED dlqLock
              /\ Proceed(r, relay[r].batch \ {e})
  BY DEF LockDlq, DeadLetter
<1>2. /\ relay \in [Relays -> Places] /\ faults \in 0..MaxFaults
      /\ committed \subseteq Events /\ dlq \in [Events -> Nat]
      /\ dlqLock \subseteq Events
      /\ relay[r].batch \subseteq committed /\ e \in relay[r].batch
      /\ relay[r].batch \ {e} \in SUBSET Events
      /\ \A d \in Events : IsOldest(d, relay[r].batch) => d = e
  BY <1>1, OldestUnique DEF IInv, TypeOK, Places, PassOK, IsOldest
<1>3. \A d \in Events, u \in Steps : CallDone(d, u) => CallDone(d, u)'
  BY <1>1 DEF CallDone
<1>4. PublishedReached' /\ ActivityOnce' /\ NothingEarly'
  BY <1>1 DEF IInv, PublishedReached, Reached, Routes, Projected, ActivityOnce,
              NothingEarly
<1>5. ASSUME Proceed(r, relay[r].batch \ {e})
      PROVE  /\ relay' \in [Relays -> Places]
             /\ \A x \in Relays : PassOK(x)'
             /\ \A d \in Events : ~HoldsKey(r, d)'
             /\ \A x \in Relays \ {r} : relay'[x] = relay[x]
  <2>1. PICK new \in Places :
          /\ relay' = [relay EXCEPT ![r] = new]
          /\ new.phase \in {"idle", "publishing"}
          /\ new.batch \subseteq relay[r].batch \ {e}
          /\ new.phase = "publishing" =>
               /\ new.batch # {}
               /\ \A d \in Events : IsOldest(d, new.batch) => new.todo = StepsOf(d)
    BY <1>2, <1>5, ProceedOK DEF Places
  <2>2. /\ relay'[r] = new
        /\ \A x \in Relays \ {r} : relay'[x] = relay[x]
    BY <1>2, <2>1
  <2>3. ASSUME NEW x \in Relays PROVE PassOK(x)'
    <3>1. CASE x = r
      BY <1>1, <1>2, <2>1, <2>2, <3>1 DEF PassOK, StepsOf
    <3>2. CASE x # r
      BY <1>1, <1>3, <2>2, <3>2, PassStands DEF IInv
    <3> QED
      BY <3>1, <3>2
  <2> QED
    BY <1>2, <2>1, <2>2, <2>3 DEF HoldsKey
<1>6. CASE /\ relay[r].phase = "failed" /\ e \in dlqLock
           /\ UNCHANGED dlq /\ dlqLock' = dlqLock
           /\ Proceed(r, relay[r].batch \ {e})
  <2>1. \A x \in Relays, d \in Events : HoldsKey(x, d)' => HoldsKey(x, d)
    BY <1>5, <1>6 DEF HoldsKey
  <2>2. DlqOK' /\ DeadLetteredOnceADay'
    BY <1>6, <2>1, DlqStands DEF IInv, DeadLetteredOnceADay
  <2> QED
    BY <1>1, <1>4, <1>5, <1>6, <2>2 DEF IInv, TypeOK, Places
<1>7. CASE /\ relay[r].phase = "failed" /\ e \notin dlqLock
           /\ UNCHANGED dlq /\ dlqLock' = dlqLock \cup {e}
           /\ relay' = [relay EXCEPT ![r].phase = "locked"]
  <2> DEFINE new == [relay[r] EXCEPT !.phase = "locked"]
  <2>1. /\ new \in Places /\ relay' = [relay EXCEPT ![r] = new]
        /\ new.phase = "locked" /\ new.batch = relay[r].batch
    BY <1>2, <1>7 DEF Places
  <2> HIDE DEF new
  <2>2. /\ relay' \in [Relays -> Places] /\ relay'[r] = new
        /\ \A x \in Relays \ {r} : relay'[x] = relay[x]
    BY <1>2, <2>1
  <2>3. ASSUME NEW x \in Relays PROVE PassOK(x)'
    <3>1. CASE x = r
      BY <1>1, <1>2, <2>1, <2>2, <3>1 DEF PassOK
    <3>2. CASE x # r
      BY <1>1, <1>3, <2>2, <3>2, PassStands DEF IInv
    <3> QED
      BY <3>1, <3>2
  <2>4. \A x \in Relays, d \in Events :
          HoldsKey(x, d)' <=> HoldsKey(x, d) \/ (x = r /\ d = e)
    BY <1>1, <1>2, <1>7, <2>1, <2>2 DEF HoldsKey
  <2>5. \A x \in Relays : ~HoldsKey(x, e)
    BY <1>7 DEF IInv, DlqOK
  <2>6. DlqOK'
    BY <1>7, <2>4, <2>5 DEF IInv, DlqOK
  <2>7. DeadLetteredOnceADay'
    BY <1>7 DEF IInv, DeadLetteredOnceADay
  <2>8. TypeOK'
    BY <1>1, <1>2, <1>7, <2>2 DEF IInv, TypeOK, Places
  <2> QED
    BY <1>4, <2>3, <2>6, <2>7, <2>8 DEF IInv
<1>8. CASE /\ relay[r].phase = "locked"
           /\ dlq' = [dlq EXCEPT ![e] = @ + 1] /\ UNCHANGED dlqLock
           /\ Proceed(r, relay[r].batch \ {e})
  <2>1. /\ HoldsKey(r, e) /\ e \in dlqLock /\ dlq[e] = 0
        /\ \A x \in Relays \ {r} : ~HoldsKey(x, e)
    BY <1>1, <1>8 DEF HoldsKey, IInv, DlqOK
  <2>2. /\ \A d \in Events \ {e} : dlq'[d] = dlq[d]
        /\ dlq'[e] = 1 /\ dlq' \in [Events -> Nat]
    BY <1>2, <1>8, <2>1
  <2>3. \A x \in Relays, d \in Events : HoldsKey(x, d)' => HoldsKey(x, d) /\ x # r
    BY <1>5, <1>8 DEF HoldsKey
  <2>4. DlqOK'
    BY <1>8, <2>1, <2>2, <2>3 DEF IInv, DlqOK
  <2>5. DeadLetteredOnceADay'
    BY <2>2 DEF IInv, DeadLetteredOnceADay
  <2>6. TypeOK'
    BY <1>1, <1>5, <1>8, <2>2 DEF IInv, TypeOK, Places
  <2> QED
    BY <1>4, <1>5, <1>8, <2>4, <2>5, <2>6 DEF IInv
<1> QED
  BY <1>1, <1>6, <1>7, <1>8

LEMMA NextKeeps ==
  IInv /\ [Next]_vars => IInv'
<1> SUFFICES ASSUME IInv, [Next]_vars PROVE IInv'
  OBVIOUS
<1>1. CASE \E e \in Events : CommitEvent(e) \/ ExpireDlqLock(e)
  BY <1>1, CommitEventKeeps, ExpireKeeps
<1>2. CASE \E r \in Relays : Work(r) \/ FailCall(r) \/ AbortPass(r) \/ Crash(r)
  BY <1>2, StartKeeps, CallKeeps, DeadLetterKeeps, StopKeeps DEF Work
<1>3. CASE UNCHANGED vars
  BY <1>3 DEF vars, IInv, TypeOK, PassOK, CallDone, PublishedReached, Reached,
              Routes, Projected, ActivityOnce, NothingEarly, DlqOK, HoldsKey,
              DeadLetteredOnceADay
<1> QED
  BY <1>1, <1>2, <1>3 DEF Next

-----------------------------------------------------------------------------
\* The inductive invariant holds in every reachable state.
THEOREM Invariance == Spec => []IInv
BY InitIsOK, NextKeeps, PTL DEF Spec

\* Rows, jobs, keys and passes always have their types.
THEOREM TypeCorrect == Spec => []TypeOK
BY Invariance, PTL DEF IInv

\* However many processes relay, fail and crash, a row is marked published
\* only when its activity and all its jobs exist.
THEOREM NothingLost == Spec => []PublishedReached
BY Invariance, PTL DEF IInv

\* Retries and overlapping passes never show an event twice in the feed.
THEOREM ShownOnce == Spec => []ActivityOnce
BY Invariance, PTL DEF IInv

\* The dead letter key admits one report of an event while it lives.
THEOREM ReportedOnce == Spec => []DeadLetteredOnceADay
BY Invariance, PTL DEF IInv

\* The relay implements the safety part of at-least-once delivery: events are
\* delivered one by one, and only when their transaction has committed.
THEOREM DeliversCommittedEvents == Spec => DeliversOnlyCommitted
<1> DEFINE reached == {e \in committed : Reached(e)}
<1>1. Init => Contract!Init
  BY DEF Init, Contract!Init
<1>2. IInv /\ [Next]_vars => [Contract!Next]_<<committed, reached>>
  <2> SUFFICES ASSUME IInv, [Next]_vars
               PROVE  [Contract!Next]_<<committed, reached>>
    OBVIOUS
  <2>1. ASSUME NEW e \in Events, CommitEvent(e) PROVE Contract!Next
    <3>1. /\ e \notin committed /\ committed' = committed \cup {e}
          /\ UNCHANGED <<activities, jobs>>
      BY <2>1 DEF CommitEvent
    <3>2. \A d \in Events : Reached(d)' <=> Reached(d)
      BY <3>1 DEF Reached, Routes, Projected
    <3>3. ~Reached(e)
      BY <3>1 DEF Reached, Routes, Queues, IInv, NothingEarly
    <3>4. reached' = reached
      BY <3>1, <3>2, <3>3 DEF IInv, TypeOK
    <3> QED
      BY <3>1, <3>4 DEF Contract!Next, Contract!Accept
  <2>2. ASSUME NEW r \in Relays, Call(r) \/ FailCall(r)
        PROVE  [Contract!Next]_<<committed, reached>>
    <3>1. PICK e \in Events, s \in Steps :
            /\ AtCall(r, e, s) /\ committed' = committed
            /\ Effect(e, s) \/ NoEffect
      BY <2>2 DEF Call, FailCall
    <3>2. e \in committed
      BY <3>1 DEF IInv, PassOK, AtCall, IsOldest
    <3>3. /\ \A d \in Events, u \in Steps : CallDone(d, u) => CallDone(d, u)'
          /\ \A d \in Events \ {e}, q \in Queues : jobs'[q][d] = jobs[q][d]
      BY <3>1, <3>2, EffectOK
    <3>4. \A d \in Events : Reached(d) => Reached(d)'
      BY <3>3, ReachedStands
    <3>5. \A d \in Events \ {e} : activities'[d] = activities[d]
      BY <3>1 DEF Effect, NoEffect, IInv, TypeOK
    <3>6. \A d \in Events \ {e} : Reached(d)' => Reached(d)
      BY <3>3, <3>5 DEF Reached, Routes, Projected
    <3>7. reached' = reached \/ (e \notin reached /\ reached' = reached \cup {e})
      BY <3>1, <3>2, <3>4, <3>6 DEF IInv, TypeOK
    <3> QED
      BY <3>1, <3>2, <3>7 DEF Contract!Next, Contract!Deliver
  <2>3. ASSUME UNCHANGED <<committed, activities, jobs>>
        PROVE  UNCHANGED <<committed, reached>>
    BY <2>3 DEF Reached, Routes, Projected
  <2> QED
    BY <2>1, <2>2, <2>3
    DEF Next, Work, StartPass, LockDlq, DeadLetter, AbortPass, Crash,
        ExpireDlqLock, vars
<1> QED
  BY <1>1, <1>2, Invariance, PTL DEF Spec, DeliversOnlyCommitted, Contract!Safe

-----------------------------------------------------------------------------
(* How many jobs an event gets.  A relay that has made the call for queue q *)
(* accounts for one job while its pass lives; once the row is published,    *)
(* every relay accounts for one that will not make the call any more.  A    *)
(* pass that fails or stops takes its account with it, and is a fault.      *)

\* r has made the call for queue q, or has none to make for it.
Past(r, e, q) ==
  /\ relay[r].phase = "publishing"
  /\ IsOldest(e, relay[r].batch)
  /\ q \notin relay[r].todo

Credit(e, q) ==
  {r \in Relays :
     Past(r, e, q) \/ (e \in published /\ e \notin relay[r].batch)}

JobsCounted ==
  \A e \in Events, q \in Queues :
    jobs[q][e] <= Cardinality(Credit(e, q)) + faults

LEMMA RelaysCount ==
  ASSUME NEW C \in SUBSET Relays, NEW D \in SUBSET Relays, C \subseteq D
  PROVE  /\ IsFiniteSet(C)
         /\ Cardinality(C) \in Nat /\ Cardinality(D) \in Nat
         /\ Cardinality(C) <= Cardinality(D)
<1>1. IsFiniteSet(C) /\ IsFiniteSet(D)
  BY RelaysAssumption, FS_Subset
<1> QED
  BY <1>1, FS_Subset, FS_CardinalityType

\* A step adds a job only with a relay that accounts for it, or with a fault,
\* and only a fault takes an account away.
LEMMA CountStep ==
  ASSUME NEW C \in SUBSET Relays, NEW D \in SUBSET Relays, NEW r \in Relays,
         NEW n \in Nat, NEW m \in Nat, NEW f \in Nat, NEW g \in Nat,
         n <= Cardinality(C) + f,
         \/ m = n /\ C \subseteq D /\ g = f
         \/ m = n /\ C \subseteq D \cup {r} /\ g = f + 1
         \/ m = n + 1 /\ C \cup {r} \subseteq D /\ r \notin C /\ g = f
         \/ m = n + 1 /\ C \subseteq D /\ g = f + 1
  PROVE  m <= Cardinality(D) + g
<1>1. CASE C \subseteq D
  <2>1. CASE m = n + 1 /\ C \cup {r} \subseteq D /\ r \notin C /\ g = f
    <3>1. /\ IsFiniteSet(C) /\ Cardinality(C) \in Nat
          /\ Cardinality(C \cup {r}) = Cardinality(C) + 1
      BY <2>1, RelaysCount, FS_AddElement
    <3>2. /\ Cardinality(C \cup {r}) <= Cardinality(D)
          /\ Cardinality(D) \in Nat
      BY <2>1, RelaysCount
    <3> QED
      BY <2>1, <3>1, <3>2
  <2>2. Cardinality(C) <= Cardinality(D) /\ Cardinality(C) \in Nat
        /\ Cardinality(D) \in Nat
    BY <1>1, RelaysCount
  <2>3. CASE m <= n + 1 /\ g = f + 1
    BY <2>2, <2>3
  <2>4. CASE m = n /\ g = f
    BY <2>2, <2>4
  <2> QED
    BY <2>1, <2>3, <2>4
<1>2. CASE m = n /\ C \subseteq D \cup {r} /\ g = f + 1
  <2>1. /\ Cardinality(C) <= Cardinality(D \cup {r}) /\ Cardinality(C) \in Nat
        /\ Cardinality(D \cup {r}) \in Nat
        /\ IsFiniteSet(D) /\ Cardinality(D) \in Nat
    BY <1>2, RelaysCount
  <2>2. Cardinality(D \cup {r}) <= Cardinality(D) + 1
    <3>1. CASE r \in D
      <4>1. D \cup {r} = D
        BY <3>1
      <4> QED
        BY <2>1, <4>1
    <3>2. CASE r \notin D
      <4>1. Cardinality(D \cup {r}) = Cardinality(D) + 1
        BY <2>1, <3>2, FS_AddElement
      <4> QED
        BY <2>1, <4>1
    <3> QED
      BY <3>1, <3>2
  <2> QED
    BY <1>2, <2>1, <2>2
<1> QED
  BY <1>1, <1>2

\* The types that the counting needs.
LEMMA CountTypes ==
  ASSUME IInv
  PROVE  /\ relay \in [Relays -> Places] /\ faults \in Nat
         /\ \A e \in Events, q \in Queues :
              jobs[q][e] \in Nat /\ Credit(e, q) \in SUBSET Relays
BY FaultsAssumption DEF IInv, TypeOK, Places, Credit

\* A step that moves only r keeps the others' accounts, as rows stay
\* published.
LEMMA CreditOfOthers ==
  ASSUME IInv, NEW r \in Relays, NEW new,
         relay' = [relay EXCEPT ![r] = new], published \subseteq published',
         NEW e \in Events, NEW q \in Queues
  PROVE  Credit(e, q) \subseteq Credit(e, q)' \cup {r}
<1>1. \A x \in Relays \ {r} : relay'[x] = relay[x]
  BY CountTypes
<1> QED
  BY <1>1 DEF Credit, Past

\* A step that adds no job: r keeps its account, or the step is a fault.
LEMMA CountKept ==
  ASSUME IInv, IInv', JobsCounted, NEW r \in Relays, NEW new,
         relay' = [relay EXCEPT ![r] = new], published \subseteq published',
         NEW e \in Events, NEW q \in Queues, jobs'[q][e] = jobs[q][e],
         \/ faults' = faults + 1
         \/ faults' = faults /\ (r \in Credit(e, q) => r \in Credit(e, q)')
  PROVE  jobs'[q][e] <= Cardinality(Credit(e, q)') + faults'
<1>1. Credit(e, q) \subseteq Credit(e, q)' \cup {r}
  BY CreditOfOthers
<1>2. /\ jobs[q][e] \in Nat /\ faults \in Nat /\ faults' \in Nat
      /\ Credit(e, q) \in SUBSET Relays
      /\ jobs[q][e] <= Cardinality(Credit(e, q)) + faults
  BY CountTypes, FaultsAssumption DEF JobsCounted, IInv, TypeOK
<1>3. Credit(e, q)' \in SUBSET Relays
  BY DEF Credit
<1>4. CASE faults' = faults + 1
  BY <1>1, <1>2, <1>3, <1>4, CountStep
<1>5. CASE faults' = faults /\ (r \in Credit(e, q) => r \in Credit(e, q)')
  <2>1. Credit(e, q) \subseteq Credit(e, q)'
    BY <1>1, <1>5
  <2> QED
    BY <1>2, <1>3, <1>5, <2>1, CountStep
<1> QED
  BY <1>4, <1>5

\* A pass goes on without e: for the rows that are left, and those it never
\* had, r accounts as before.
LEMMA CreditAfterProceed ==
  ASSUME IInv, NEW r \in Relays, NEW rest \in SUBSET Events,
         Proceed(r, rest), published \subseteq published',
         NEW e \in Events, NEW q \in Queues,
         e \in published => e \notin rest,
         r \in Credit(e, q) => e \in published
  PROVE  r \in Credit(e, q) => r \in Credit(e, q)'
<1>1. relay \in [Relays -> Places]
  BY CountTypes
<1>2. PICK new \in [phase : {"idle", "publishing"}, batch : SUBSET Events,
                    todo : SUBSET Steps] :
        relay' = [relay EXCEPT ![r] = new] /\ new.batch \subseteq rest
  BY <1>1, ProceedOK DEF Places
<1>3. relay'[r].batch \subseteq rest
  BY <1>1, <1>2
<1> QED
  BY <1>3 DEF Credit

LEMMA StartCounted ==
  ASSUME IInv, IInv', JobsCounted, NEW r \in Relays, StartPass(r)
  PROVE  JobsCounted'
<1>1. PICK B \in SUBSET committed :
        B \subseteq committed \ published /\ Proceed(r, B)
  BY DEF StartPass, IsBatch
<1>2. /\ B \in SUBSET Events /\ relay \in [Relays -> Places]
      /\ relay[r].phase = "idle" /\ UNCHANGED <<published, jobs, faults>>
  BY <1>1, CountTypes DEF IInv, TypeOK, StartPass
<1>3. PICK new : relay' = [relay EXCEPT ![r] = new]
  BY <1>1 DEF Proceed
<1>4. ASSUME NEW e \in Events, NEW q \in Queues
      PROVE  jobs'[q][e] <= Cardinality(Credit(e, q)') + faults'
  <2>1. r \in Credit(e, q) => r \in Credit(e, q)'
    <3>1. r \in Credit(e, q) => e \in published
      BY <1>2 DEF Credit, Past
    <3> QED
      BY <1>1, <1>2, <3>1, CreditAfterProceed
  <2> QED
    BY <1>2, <1>3, <2>1, CountKept
<1> QED
  BY <1>4 DEF JobsCounted

LEMMA StopCounted ==
  ASSUME IInv, IInv', JobsCounted, NEW r \in Relays, AbortPass(r) \/ Crash(r)
  PROVE  JobsCounted'
<1>1. /\ relay' = [relay EXCEPT ![r] = Idle] /\ faults' = faults + 1
      /\ UNCHANGED <<published, jobs>>
  BY DEF AbortPass, Crash, Fault
<1>2. \A e \in Events, q \in Queues :
        jobs'[q][e] <= Cardinality(Credit(e, q)') + faults'
  BY <1>1, CountKept
<1> QED
  BY <1>2 DEF JobsCounted

LEMMA DeadLetterCounted ==
  ASSUME IInv, IInv', JobsCounted, NEW r \in Relays,
         LockDlq(r) \/ DeadLetter(r)
  PROVE  JobsCounted'
<1>1. PICK d \in Events :
        /\ IsOldest(d, relay[r].batch)
        /\ relay[r].phase \in {"failed", "locked"}
        /\ \/ Proceed(r, relay[r].batch \ {d})
           \/ relay' = [relay EXCEPT ![r].phase = "locked"]
        /\ UNCHANGED <<published, jobs, faults>>
  BY DEF LockDlq, DeadLetter
<1>2. relay \in [Relays -> Places]
  BY CountTypes
<1>3. ASSUME NEW e \in Events, NEW q \in Queues, r \in Credit(e, q)
      PROVE  r \in Credit(e, q)'
  <2>1. e \in published /\ e \notin relay[r].batch
    BY <1>1, <1>3 DEF Credit, Past
  <2>2. relay'[r].batch \subseteq relay[r].batch
    <3>1. CASE Proceed(r, relay[r].batch \ {d})
      <4>1. relay[r].batch \ {d} \in SUBSET Events
        BY <1>2 DEF Places
      <4>2. PICK new \in [phase : {"idle", "publishing"},
                          batch : SUBSET Events, todo : SUBSET Steps] :
              /\ relay' = [relay EXCEPT ![r] = new]
              /\ new.batch \subseteq relay[r].batch \ {d}
        BY <1>2, <3>1, <4>1, ProceedOK DEF Places
      <4> QED
        BY <1>2, <4>2
    <3>2. CASE relay' = [relay EXCEPT ![r].phase = "locked"]
      BY <1>2, <3>2 DEF Places
    <3> QED
      BY <1>1, <3>1, <3>2
  <2> QED
    BY <1>1, <2>1, <2>2 DEF Credit
<1>4. PICK new : relay' = [relay EXCEPT ![r] = new]
  <2>1. CASE Proceed(r, relay[r].batch \ {d})
    BY <2>1 DEF Proceed
  <2>2. CASE relay' = [relay EXCEPT ![r].phase = "locked"]
    BY <2>2
  <2> QED
    BY <1>1, <2>1, <2>2
<1>5. \A e \in Events, q \in Queues :
        jobs'[q][e] <= Cardinality(Credit(e, q)') + faults'
  BY <1>1, <1>3, <1>4, CountKept
<1> QED
  BY <1>5 DEF JobsCounted

\* The call for a queue: its job and the account of r, or its fault.
LEMMA CallCounted ==
  ASSUME IInv, IInv', JobsCounted, NEW r \in Relays, Call(r) \/ FailCall(r)
  PROVE  JobsCounted'
<1>1. PICK d \in Events, s \in Steps :
        /\ AtCall(r, d, s)
        /\ \/ /\ Effect(d, s)
              /\ IF s = "mark" THEN Proceed(r, relay[r].batch \ {d})
                               ELSE relay' = [relay EXCEPT ![r].todo = @ \ {s}]
              /\ faults' = faults
           \/ /\ Effect(d, s) \/ NoEffect
              /\ relay' = [relay EXCEPT ![r].phase = "failed"]
              /\ faults' = faults + 1
  BY DEF Call, FailCall, Fault
<1>2. /\ relay \in [Relays -> Places] /\ d \in relay[r].batch
      /\ IsOldest(d, relay[r].batch) /\ relay[r].phase = "publishing"
      /\ s \in relay[r].todo
  BY <1>1, CountTypes DEF AtCall, IsOldest
<1>3. /\ published \subseteq published'
      /\ published' \subseteq published \cup (IF s = "mark" THEN {d} ELSE {})
  BY <1>1 DEF Effect, NoEffect
<1>4. \A e \in Events, q \in Queues :
        \/ jobs'[q][e] = jobs[q][e]
        \/ jobs'[q][e] = jobs[q][e] + 1 /\ e = d /\ q = s
  BY <1>1 DEF Effect, NoEffect, IInv, TypeOK
<1>5. PICK new : relay' = [relay EXCEPT ![r] = new]
  <2>1. CASE Proceed(r, relay[r].batch \ {d})
    BY <2>1 DEF Proceed
  <2>2. CASE ~Proceed(r, relay[r].batch \ {d})
    BY <1>1, <2>2
  <2> QED
    BY <2>1, <2>2
<1>6. \A e \in Events : IsOldest(e, relay[r].batch) => e = d
  BY <1>2, OldestUnique DEF Places
<1>7. ASSUME NEW e \in Events, NEW q \in Queues, r \in Credit(e, q),
             faults' = faults
      PROVE  r \in Credit(e, q)'
  <2>1. CASE s = "mark" /\ Proceed(r, relay[r].batch \ {d})
    <3>1. Effect(d, s)
      BY <1>1, <1>7, CountTypes
    <3>2. d \in published'
      BY <2>1, <3>1 DEF Effect
    <3>3. relay[r].batch \ {d} \in SUBSET Events
      BY <1>2 DEF Places
    <3>4. PICK after \in [phase : {"idle", "publishing"},
                          batch : SUBSET Events, todo : SUBSET Steps] :
            /\ relay' = [relay EXCEPT ![r] = after]
            /\ after.batch \subseteq relay[r].batch \ {d}
      BY <1>2, <2>1, <3>3, ProceedOK DEF Places
    <3>5. relay'[r].batch \subseteq relay[r].batch \ {d}
      BY <1>2, <3>4
    <3>6. CASE Past(r, e, q)
      BY <1>6, <3>2, <3>5, <3>6 DEF Credit, Past
    <3>7. CASE e \in published /\ e \notin relay[r].batch
      BY <1>3, <3>5, <3>7 DEF Credit
    <3> QED
      BY <1>7, <3>6, <3>7 DEF Credit
  <2>2. CASE relay' = [relay EXCEPT ![r].todo = @ \ {s}]
    <3>1. /\ relay'[r].phase = "publishing"
          /\ relay'[r].batch = relay[r].batch
          /\ relay'[r].todo = relay[r].todo \ {s}
      BY <1>2, <2>2 DEF Places
    <3> QED
      BY <1>3, <1>7, <3>1 DEF Credit, Past
  <2> QED
    BY <1>1, <1>7, <2>1, <2>2, CountTypes
<1>8. ASSUME NEW e \in Events, NEW q \in Queues
      PROVE  jobs'[q][e] <= Cardinality(Credit(e, q)') + faults'
  <2>1. CASE jobs'[q][e] = jobs[q][e]
    BY <1>1, <1>3, <1>5, <1>7, <2>1, CountKept
  <2>2. CASE jobs'[q][e] = jobs[q][e] + 1 /\ e = d /\ q = s
    <3>1. r \notin Credit(e, q)
      BY <1>2, <2>2 DEF Credit, Past
    <3>2. Credit(e, q) \subseteq Credit(e, q)' \cup {r}
      BY <1>3, <1>5, CreditOfOthers
    <3>3. Credit(e, q) \subseteq Credit(e, q)'
      BY <3>1, <3>2
    <3>4. faults' = faults => r \in Credit(e, q)'
      <4>1. s # "mark"
        BY <2>2 DEF Queues
      <4> SUFFICES ASSUME faults' = faults PROVE r \in Credit(e, q)'
        OBVIOUS
      <4>2. relay' = [relay EXCEPT ![r].todo = @ \ {s}]
        BY <1>1, <4>1, CountTypes
      <4>3. /\ relay'[r].phase = "publishing"
            /\ relay'[r].batch = relay[r].batch
            /\ relay'[r].todo = relay[r].todo \ {s}
        BY <1>2, <4>2 DEF Places
      <4> QED
        BY <1>2, <2>2, <4>3 DEF Credit, Past
    <3>5. /\ jobs[q][e] \in Nat /\ faults \in Nat /\ faults' \in Nat
          /\ Credit(e, q) \in SUBSET Relays /\ Credit(e, q)' \in SUBSET Relays
          /\ jobs[q][e] <= Cardinality(Credit(e, q)) + faults
      BY CountTypes, FaultsAssumption DEF JobsCounted, IInv, TypeOK, Credit
    <3>6. faults' = faults \/ faults' = faults + 1
      BY <1>1
    <3> QED
      BY <2>2, <3>1, <3>3, <3>4, <3>5, <3>6, CountStep
  <2> QED
    BY <1>4, <2>1, <2>2
<1> QED
  BY <1>8 DEF JobsCounted

\* Each process and each fault costs an event at most one job per queue.
THEOREM DuplicatesCounted == Spec => []DuplicatesBounded
<1>1. Init => JobsCounted
  <2> SUFFICES ASSUME Init, NEW e \in Events, NEW q \in Queues
               PROVE  jobs[q][e] <= Cardinality(Credit(e, q)) + faults
    BY DEF JobsCounted
  <2>1. jobs[q][e] = 0 /\ faults = 0
    BY DEF Init
  <2>2. Credit(e, q) \in SUBSET Relays
    BY DEF Credit
  <2> QED
    BY <2>1, <2>2, RelaysCount
<1>2. IInv /\ IInv' /\ JobsCounted /\ [Next]_vars => JobsCounted'
  <2> SUFFICES ASSUME IInv, IInv', JobsCounted, [Next]_vars
               PROVE  JobsCounted'
    OBVIOUS
  <2>1. CASE \E e \in Events : CommitEvent(e) \/ ExpireDlqLock(e)
    BY <2>1 DEF CommitEvent, ExpireDlqLock, JobsCounted, Credit, Past
  <2>2. CASE \E r \in Relays : Work(r) \/ FailCall(r) \/ AbortPass(r) \/ Crash(r)
    BY <2>2, StartCounted, CallCounted, DeadLetterCounted, StopCounted DEF Work
  <2>3. CASE UNCHANGED vars
    BY <2>3 DEF vars, JobsCounted, Credit, Past
  <2> QED
    BY <2>1, <2>2, <2>3 DEF Next
<1>3. IInv /\ JobsCounted => DuplicatesBounded
  <2> SUFFICES ASSUME IInv, JobsCounted, NEW e \in Events, NEW q \in Queues
               PROVE  jobs[q][e] <= Cardinality(Relays) + faults
    BY DEF DuplicatesBounded
  <2>1. /\ Cardinality(Credit(e, q)) <= Cardinality(Relays)
        /\ Cardinality(Credit(e, q)) \in Nat /\ Cardinality(Relays) \in Nat
    BY CountTypes, RelaysCount
  <2> QED
    BY <2>1, CountTypes DEF JobsCounted
<1> QED
  BY Invariance, <1>1, <1>2, <1>3, PTL DEF Spec

-----------------------------------------------------------------------------
(* Idempotency keys.  Only one request holds a key, and how far it has      *)
(* come says what the key's row holds.                                      *)

LEMMA NoKeyAtFirst == KeysInit => KeysInv
BY DEF KeysInit, KeysInv, KeysTypeOK, OneHolder, HolderOK, KeyOK, InFlight,
       At, Free, Row, RequestSteps, Ended

LEMMA SendKeeps ==
  ASSUME KeysInv, NEW r \in Requests, NEW k \in Keys, Send(r, k)
  PROVE  KeysInv'
BY DEF Send, RequestSteps, Ended, KeysInv, KeysTypeOK, OneHolder, HolderOK,
       KeyOK, InFlight, At

LEMMA ReplayKeeps ==
  ASSUME KeysInv, NEW r \in Requests, Replay(r)
  PROVE  KeysInv'
<1> DEFINE k == request[r].key
<1>1. k \in Keys /\ row[k].status = "completed" /\ row[k].result = 1
  BY DEF Replay, KeysInv, KeysTypeOK, KeyOK
<1>2. KeysTypeOK'
  BY <1>1 DEF Replay, Goto, KeysInv, KeysTypeOK, RequestSteps, Ended
<1>3. OneHolder'
  BY DEF Replay, Goto, At, KeysInv, KeysTypeOK, OneHolder, InFlight
<1>4. \A s \in Requests : HolderOK(s)'
  BY DEF Replay, Goto, At, KeysInv, KeysTypeOK, HolderOK
<1>5. \A l \in Keys : KeyOK(l)'
  BY <1>1 DEF Replay, KeysInv, KeysTypeOK, KeyOK
<1> QED BY <1>2, <1>3, <1>4, <1>5 DEF KeysInv

\* RequestSteps that only end a request or move it on before it holds its key.
LEMMA LooksKeep ==
  ASSUME KeysInv, NEW r \in Requests,
         Conflict(r) \/ Miss(r) \/ Refuse(r) \/ Fail(r)
  PROVE  KeysInv'
<1>1. PICK pc \in RequestSteps \ {"execute", "store", "reply"} :
        request' = [request EXCEPT ![r].pc = pc]
  BY DEF Conflict, Miss, Refuse, Fail, Goto, RequestSteps, Ended
<1>2. UNCHANGED <<row, executed, answered>>
  BY DEF Conflict, Miss, Refuse, Fail
<1> QED
  BY <1>1, <1>2
  DEF KeysInv, KeysTypeOK, OneHolder, HolderOK, KeyOK, InFlight, At

LEMMA ReserveKeeps ==
  ASSUME KeysInv, NEW r \in Requests, Reserve(r)
  PROVE  KeysInv'
<1> DEFINE k == request[r].key
<1>1. k \in Keys /\ row[k].status = "free"
  BY DEF Reserve, KeysInv, KeysTypeOK
<1>2. KeysTypeOK'
  BY <1>1 DEF Reserve, Goto, KeysInv, KeysTypeOK, RequestSteps, Row
\* The row was free, so that nobody held the key.
<1>3. \A s \in Requests : ~InFlight(s, k)
  BY <1>1 DEF KeysInv, HolderOK, InFlight, At
<1>4. OneHolder'
  BY <1>3 DEF Reserve, Goto, At, KeysInv, KeysTypeOK, OneHolder, InFlight
<1>5. \A s \in Requests : HolderOK(s)'
  BY <1>1, <1>3
  DEF Reserve, Goto, At, KeysInv, KeysTypeOK, HolderOK, KeyOK, InFlight
<1>6. \A l \in Keys : KeyOK(l)'
  BY <1>1 DEF Reserve, KeysInv, KeysTypeOK, KeyOK
<1> QED BY <1>2, <1>4, <1>5, <1>6 DEF KeysInv

LEMMA ExecuteKeeps ==
  ASSUME KeysInv, NEW r \in Requests, Execute(r)
  PROVE  KeysInv'
<1> DEFINE k == request[r].key
<1>1. /\ k \in Keys
      /\ row[k].status = "processing"
      /\ executed[k] = 0
  BY DEF Execute, At, KeysInv, KeysTypeOK, HolderOK
<1>2. KeysTypeOK'
  BY <1>1 DEF Execute, Goto, KeysInv, KeysTypeOK, RequestSteps
<1>3. \A s \in Requests : InFlight(s, k) => s = r
  BY <1>1 DEF Execute, At, KeysInv, OneHolder, InFlight
<1>4. OneHolder'
  BY DEF Execute, Goto, At, KeysInv, KeysTypeOK, OneHolder, InFlight
<1>5. \A s \in Requests : HolderOK(s)'
  BY <1>1, <1>3 DEF Execute, Goto, At, KeysInv, KeysTypeOK, HolderOK, InFlight
<1>6. \A l \in Keys : KeyOK(l)'
  BY <1>1 DEF Execute, KeysInv, KeysTypeOK, KeyOK
<1> QED BY <1>2, <1>4, <1>5, <1>6 DEF KeysInv

LEMMA StoreKeeps ==
  ASSUME KeysInv, NEW r \in Requests, Store(r)
  PROVE  KeysInv'
<1> DEFINE k == request[r].key
<1>1. /\ k \in Keys
      /\ row[k].status = "processing"
      /\ executed[k] = 1
  BY DEF Store, At, KeysInv, KeysTypeOK, HolderOK
<1>2. KeysTypeOK'
  BY <1>1 DEF Store, Goto, KeysInv, KeysTypeOK, RequestSteps, Row
<1>3. \A s \in Requests : InFlight(s, k) => s = r
  BY <1>1 DEF Store, At, KeysInv, OneHolder, InFlight
<1>4. OneHolder'
  BY DEF Store, Goto, At, KeysInv, KeysTypeOK, OneHolder, InFlight
<1>5. \A s \in Requests : HolderOK(s)'
  BY <1>1, <1>3 DEF Store, Goto, At, KeysInv, KeysTypeOK, HolderOK, InFlight
<1>6. \A l \in Keys : KeyOK(l)'
  BY <1>1 DEF Store, KeysInv, KeysTypeOK, KeyOK
<1> QED BY <1>2, <1>4, <1>5, <1>6 DEF KeysInv

LEMMA AnswerKeeps ==
  ASSUME KeysInv, NEW r \in Requests, Answer(r)
  PROVE  KeysInv'
<1> DEFINE k == request[r].key
<1>1. k \in Keys /\ row[k].status = "completed" /\ executed[k] = 1
  BY DEF Answer, At, KeysInv, KeysTypeOK, HolderOK, KeyOK
<1>2. KeysTypeOK'
  BY <1>1 DEF Answer, Goto, KeysInv, KeysTypeOK, RequestSteps, Ended
<1>3. OneHolder'
  BY DEF Answer, Goto, At, KeysInv, KeysTypeOK, OneHolder, InFlight
<1>4. \A s \in Requests : HolderOK(s)'
  BY DEF Answer, Goto, At, KeysInv, KeysTypeOK, HolderOK
<1>5. \A l \in Keys : KeyOK(l)'
  BY <1>1 DEF Answer, KeysInv, KeysTypeOK, KeyOK
<1> QED BY <1>2, <1>3, <1>4, <1>5 DEF KeysInv

LEMMA ExpireKeepsKeys ==
  ASSUME KeysInv, NEW k \in Keys, Expire(k)
  PROVE  KeysInv'
<1>1. KeysTypeOK'
  BY DEF Expire, Free, KeysInv, KeysTypeOK, Row
<1>2. OneHolder'
  BY DEF Expire, KeysInv, OneHolder, InFlight
<1>3. \A s \in Requests : HolderOK(s)'
  BY DEF Expire, Free, KeysInv, KeysTypeOK, HolderOK, InFlight, At
<1>4. \A l \in Keys : KeyOK(l)'
  BY DEF Expire, Free, KeysInv, KeysTypeOK, KeyOK
<1> QED BY <1>1, <1>2, <1>3, <1>4 DEF KeysInv

LEMMA NextKeepsKeys == KeysInv /\ [KeysNext]_keyVars => KeysInv'
<1> SUFFICES ASSUME KeysInv, [KeysNext]_keyVars PROVE KeysInv'
  OBVIOUS
<1>1. CASE UNCHANGED keyVars
  BY <1>1
  DEF keyVars, KeysInv, KeysTypeOK, OneHolder, HolderOK, KeyOK, InFlight, At
<1>2. ASSUME NEW r \in Requests, NEW k \in Keys, Send(r, k) PROVE KeysInv'
  BY <1>2, SendKeeps
<1>3. ASSUME NEW k \in Keys, Expire(k) PROVE KeysInv'
  BY <1>3, ExpireKeepsKeys
<1>4. ASSUME NEW r \in Requests, Serve(r) PROVE KeysInv'
  BY <1>4, ReplayKeeps, LooksKeep, ReserveKeeps, ExecuteKeeps, StoreKeeps,
     AnswerKeeps
  DEF Serve
<1> QED BY <1>1, <1>2, <1>3, <1>4 DEF KeysNext

\* Every reachable state satisfies the inductive invariant.
THEOREM KeysInvariance == KeysSpec => []KeysInv
BY NoKeyAtFirst, NextKeepsKeys, PTL DEF KeysSpec

\* The rows of idempotency_keys, the requests and the histories are typed.
THEOREM KeysTyped == KeysSpec => []KeysTypeOK
<1>1. KeysInv => KeysTypeOK
  BY DEF KeysInv
<1> QED BY <1>1, KeysInvariance, PTL

\* A route commits at most once under a key, however many requests race.
THEOREM CommitsOnce == KeysSpec => []ExecutedOnce
<1>1. KeysInv => ExecutedOnce
  <2> SUFFICES ASSUME KeysInv, NEW k \in Keys PROVE executed[k] <= 1
    BY DEF ExecutedOnce
  <2>1. executed[k] = 0 \/ executed[k] = 1
    BY DEF KeysInv, KeyOK
  <2> QED BY <2>1
<1> QED BY <1>1, KeysInvariance, PTL

\* What clients are sent under a key is what storeIdempotencyResult stored.
THEOREM RetriesAgree == KeysSpec => []AnswersAgree
<1>1. KeysInv => AnswersAgree
  BY DEF KeysInv, KeysTypeOK, KeyOK, AnswersAgree
<1> QED BY <1>1, KeysInvariance, PTL

\* A stored response is not stored over: a request that stores its own has
\* had the key to itself since it reserved it.
THEOREM ResponsesStay == KeysSpec => ResponseIsKept
<1>1. KeysInv /\ [KeysNext]_keyVars
        => [\A k \in Keys : row[k].status = "completed"
                              => row'[k] \in {row[k], Free}]_keyVars
  <2> SUFFICES ASSUME KeysInv, KeysNext, NEW k \in Keys,
                      row[k].status = "completed"
               PROVE  row'[k] \in {row[k], Free}
    OBVIOUS
  <2>1. ASSUME NEW r \in Requests, NEW l \in Keys, Send(r, l)
        PROVE  row'[k] \in {row[k], Free}
    BY <2>1 DEF Send
  <2>2. ASSUME NEW r \in Requests,
               \/ Replay(r) \/ Conflict(r) \/ Miss(r) \/ Refuse(r)
               \/ Execute(r) \/ Answer(r) \/ Fail(r)
        PROVE  row'[k] \in {row[k], Free}
    BY <2>2 DEF Replay, Conflict, Miss, Refuse, Execute, Answer, Fail
  <2>3. ASSUME NEW r \in Requests, Reserve(r) \/ Store(r)
        PROVE  row'[k] \in {row[k], Free}
    <3>1. row[request[r].key].status # "completed"
      BY <2>3 DEF Reserve, Store, At, KeysInv, HolderOK
    <3> QED
      BY <2>3, <3>1 DEF Reserve, Store, KeysInv, KeysTypeOK
  <2>4. ASSUME NEW l \in Keys, Expire(l)
        PROVE  row'[k] \in {row[k], Free}
    BY <2>4 DEF Expire, KeysInv, KeysTypeOK
  <2> QED
    BY <2>1, <2>2, <2>3, <2>4 DEF KeysNext, Serve
<1> QED
  BY <1>1, KeysInvariance, PTL DEF KeysSpec, ResponseIsKept
=============================================================================
