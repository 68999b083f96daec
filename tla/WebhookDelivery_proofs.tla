----------------------- MODULE WebhookDelivery_proofs -----------------------
(***************************************************************************)
(* Theorems about WebhookDelivery for any jobs, workers, attempts, faults  *)
(* and test deliveries.  The posts of a job are counted by its fetches;    *)
(* what a job that is done has in the log rests on its lock, which a run   *)
(* that is not blocked keeps until its handler has ended.                  *)
(***************************************************************************)
EXTENDS WebhookDelivery, FiniteSetTheorems, TLAPS

LEMMA NumbersTyped ==
  ASSUME TypeOK, NEW j \in Jobs
  PROVE  /\ Attempts \in Nat /\ job[j].made \in Nat /\ posts[j] \in Nat
         /\ job[j].made <= Attempts
         /\ Fetches(j) \in Nat
         /\ IsFiniteSet(Posting(j)) /\ Cardinality(Posting(j)) \in Nat
<1>1. /\ Attempts \in Nat /\ job[j].made \in 0..Attempts /\ posts[j] \in Nat
      /\ job[j].stalled \in BOOLEAN
  BY AttemptsAssumption DEF TypeOK, JobsTypeOK, JobRecord
<1>2. Fetches(j) \in Nat
  BY <1>1 DEF Fetches
<1>3. Posting(j) \subseteq Workers
  BY DEF Posting
<1>4. IsFiniteSet(Posting(j)) /\ Cardinality(Posting(j)) \in Nat
  BY <1>3, WorkersAssumption, FS_Subset, FS_CardinalityType
<1> QED
  BY <1>1, <1>2, <1>4

LEMMA BusyHasJob ==
  ASSUME TypeOK, NEW w \in Workers, RunOK(w), run[w].pc # "idle"
  PROVE  run[w].job \in Jobs
BY DEF TypeOK, Run, RunOK, At

\* A step that makes no post of j, no run that can post it and takes back no
\* fetch of it leaves the account as it is.
LEMMA AccountKept ==
  ASSUME IInv, TypeOK', NEW j \in Jobs,
         Posting(j)' \subseteq Posting(j),
         posts'[j] = posts[j],
         Fetches(j)' >= Fetches(j)
  PROVE  posts'[j] + Cardinality(Posting(j)') <= Fetches(j)'
<1>1. /\ posts[j] \in Nat /\ Fetches(j) \in Nat
      /\ IsFiniteSet(Posting(j)) /\ Cardinality(Posting(j)) \in Nat
  BY NumbersTyped DEF IInv
<1>2. /\ Cardinality(Posting(j)') <= Cardinality(Posting(j))
      /\ Cardinality(Posting(j)') \in Nat
  BY <1>1, FS_Subset, FS_CardinalityType
<1>3. Fetches(j)' \in Nat
  BY AttemptsAssumption DEF TypeOK, JobsTypeOK, JobRecord, Fetches
<1>4. posts[j] + Cardinality(Posting(j)) <= Fetches(j)
  BY DEF IInv, PostsFetched
<1> QED
  BY <1>1, <1>2, <1>3, <1>4

\* The row of an attempt, written for a job whose endpoint is there.
LEMMA LoggedIs ==
  ASSUME IInv, NEW j \in Jobs, NEW status \in {"DELIVERED", "FAILED"},
         rows' = Logged(j, status), replays' = replays
  PROVE  /\ rows' \in [Entries -> Seq(Row)]
         /\ \A e \in Entries : e # j => rows'[e] = rows[e]
         /\ j \in replays => Len(rows'[j]) = Len(rows[j])
         /\ rows[j] # << >> => rows'[j] # << >>
         /\ \A i \in DOMAIN rows'[j] :
              rows'[j][i].dead =>
                i \in DOMAIN rows[j] /\ rows[j][i].dead
         /\ /\ status = "DELIVERED"
            /\ j \in replays => rows[j] # << >>
            => Delivered(j)'
<1>1. j \in Entries /\ rows \in [Entries -> Seq(Row)] /\ rows[j] \in Seq(Row)
  BY DEF IInv, TypeOK, Entries
<1>2. CASE j \in replays
  <2> DEFINE new == [rows[j] EXCEPT ![1].status = status]
  <2>1. rows' = [rows EXCEPT ![j] = new]
    BY <1>1, <1>2 DEF Logged
  <2>2. DOMAIN rows[j] = 1..Len(rows[j]) /\ Len(rows[j]) \in Nat
    BY <1>1
  <2>3. \A i \in DOMAIN rows[j] : rows[j][i] \in Row
    BY <1>1, <2>2
  <2>4. /\ DOMAIN new = DOMAIN rows[j]
        /\ \A i \in DOMAIN rows[j] :
             new[i] \in Row /\ new[i].dead = rows[j][i].dead
        /\ 1 \in DOMAIN rows[j] => new[1].status = status
        /\ new \in [1..Len(rows[j]) -> Row]
    BY <2>2, <2>3 DEF Row
  <2> HIDE DEF new
  <2>5. new \in Seq(Row) /\ Len(new) = Len(rows[j])
    BY <2>2, <2>4
  <2>6. rows'[j] = new /\ \A e \in Entries : e # j => rows'[e] = rows[e]
    BY <1>1, <2>1
  <2>7. rows' \in [Entries -> Seq(Row)]
    BY <1>1, <2>1, <2>5
  <2>8. rows[j] # << >> => 1 \in DOMAIN rows[j]
    BY <1>1, <2>2
  <2>9. rows[j] # << >> => new # << >>
    BY <2>8, <2>4
  <2>10. status = "DELIVERED" /\ rows[j] # << >> => Delivered(j)'
    BY <1>2, <2>4, <2>6, <2>8 DEF Delivered
  <2> QED
    BY <1>2, <2>4, <2>5, <2>6, <2>7, <2>9, <2>10
<1>3. CASE j \notin replays
  <2> DEFINE new == Append(rows[j], NewRow(status))
  <2>1. rows' = [rows EXCEPT ![j] = new]
    BY <1>1, <1>3 DEF Logged
  <2>2. NewRow(status) \in Row /\ ~NewRow(status).dead
        /\ NewRow(status).status = status
    BY DEF NewRow, Row
  <2>3. /\ new \in Seq(Row) /\ Len(new) = Len(rows[j]) + 1
        /\ Len(rows[j]) \in Nat
        /\ DOMAIN new = 1..Len(rows[j]) + 1
        /\ DOMAIN rows[j] = 1..Len(rows[j])
        /\ new[Len(rows[j]) + 1] = NewRow(status)
        /\ \A i \in 1..Len(rows[j]) : new[i] = rows[j][i]
    BY <1>1, <2>2
  <2> HIDE DEF new
  <2>4. rows'[j] = new /\ \A e \in Entries : e # j => rows'[e] = rows[e]
    BY <1>1, <2>1
  <2>5. rows' \in [Entries -> Seq(Row)]
    BY <1>1, <2>1, <2>3
  <2>6. new # << >>
    BY <2>3
  <2>7. status = "DELIVERED" => Delivered(j)'
    <3>1. Len(rows[j]) + 1 \in DOMAIN new
      BY <2>3
    <3> QED
      BY <3>1, <2>2, <2>3, <2>4 DEF Delivered
  <2>8. \A i \in DOMAIN new :
          new[i].dead => i \in DOMAIN rows[j] /\ rows[j][i].dead
    <3> SUFFICES ASSUME NEW i \in 1..Len(rows[j]) + 1, new[i].dead
                 PROVE  i \in 1..Len(rows[j]) /\ rows[j][i].dead
      BY <2>3
    <3>1. i # Len(rows[j]) + 1
      BY <2>2, <2>3
    <3>2. i \in 1..Len(rows[j])
      BY <3>1, <2>3
    <3> QED
      BY <3>2, <2>3
  <2> QED
    BY <1>3, <2>4, <2>5, <2>6, <2>7, <2>8
<1> QED
  BY <1>2, <1>3

-----------------------------------------------------------------------------
(* What a step has to see to.                                              *)

\* While a run that its job's lock protects is at work, no other run returns
\* from the job and the queue has not got it done.
LEMMA NotYetDone ==
  ASSUME IInv, NEW w \in Workers, run[w].pc # "idle", run[w].job \notin Overrun
  PROVE  /\ job[run[w].job].state # "completed"
         /\ \A x \in Workers :
              x # w /\ At(x, "return") => run[x].job # run[w].job
<1>1. \A x \in Workers : RunOK(x)
  BY DEF IInv
<1>2. \/ Holds(w, run[w].job)
      \/ run[w].pc \in {"bury", "mark"} /\ Spent(run[w].job)
  BY <1>1 DEF RunOK
<1> QED
  BY <1>1, <1>2 DEF RunOK, Holds, Spent, At

\* A step of the tenant, or of a replay, whose job the queue has not got.
LEMMA OutsideKeeps ==
  ASSUME IInv, TypeOK',
         UNCHANGED <<job, run, posts, buried>>,
         \A e \in Entries : \A i \in DOMAIN rows'[e] :
           rows'[e][i].dead => i \in DOMAIN rows[e] /\ rows[e][i].dead,
         \A k \in Jobs : job[k].state # "none" /\ Done(k) => Done(k)',
         RowsOfReplays', OneEntryPerReplay'
  PROVE  IInv'
<1>1. AttemptsLeft'
  BY DEF IInv, AttemptsLeft
<1>2. PostsFetched'
  BY DEF IInv, PostsFetched, Posting, Fetches
<1>3. \A w \in Workers : RunOK(w)'
  BY BusyHasJob DEF IInv, RunOK, At, Holds, Spent
<1>4. MarkedForCause'
  BY DEF IInv, MarkedForCause, Spent
<1>5. CompletedIsDelivered'
  BY DEF IInv, CompletedIsDelivered
<1> QED
  BY <1>1, <1>2, <1>3, <1>4, <1>5 DEF IInv

\* A step of the handler of w that does not report to the queue and does not
\* post.
LEMMA HandlerKeeps ==
  ASSUME IInv, TypeOK', NEW w \in Workers, NEW new \in Run,
         run[w].pc # "idle",
         UNCHANGED <<job, replays, endpoint, posts>>,
         run' = [run EXCEPT ![w] = new],
         new.pc \in {"lookup", "post"} =>
           run[w].pc \in {"lookup", "post"} /\ new.job = run[w].job,
         RunOK(w)',
         buried \subseteq buried',
         \A k \in Jobs : k # run[w].job /\ Done(k) => Done(k)',
         RowsOfReplays', OneEntryPerReplay', MarkedForCause'
  PROVE  IInv'
<1>1. AttemptsLeft'
  BY DEF IInv, AttemptsLeft
<1>2. PostsFetched'
  <2> SUFFICES ASSUME NEW j \in Jobs
               PROVE  posts'[j] + Cardinality(Posting(j)') <= Fetches(j)'
    BY DEF PostsFetched
  <2>1. Posting(j)' \subseteq Posting(j)
    BY DEF Posting, IInv, TypeOK
  <2>2. Fetches(j)' = Fetches(j) /\ Fetches(j) \in Nat
    BY NumbersTyped DEF IInv, Fetches
  <2>3. Fetches(j)' >= Fetches(j)
    BY <2>2
  <2> QED
    BY <2>1, <2>3, AccountKept
<1>3. ASSUME NEW x \in Workers PROVE RunOK(x)'
  <2>1. CASE x = w
    BY <2>1
  <2>2. CASE x # w
    <3>1. run'[x] = run[x] /\ RunOK(x)
      BY <2>2 DEF IInv, TypeOK
    <3>2. At(x, "return") => run[x].job \in Jobs
      BY <3>1, BusyHasJob DEF At, IInv
    <3>3. At(x, "return") => run[x].job \in Overrun \/ Done(run[x].job)'
      BY <2>2, <3>1, <3>2, NotYetDone DEF RunOK, At
    <3> QED
      BY <3>1, <3>3 DEF RunOK, At, Holds, Spent
  <2> QED
    BY <2>1, <2>2
<1>4. CompletedIsDelivered'
  <2> SUFFICES ASSUME NEW j \in Jobs \ Overrun, job[j].state = "completed"
               PROVE  Done(j)'
    BY DEF CompletedIsDelivered
  <2>1. j # run[w].job
    BY NotYetDone
  <2>2. Done(j)
    BY DEF IInv, CompletedIsDelivered
  <2> QED
    BY <2>1, <2>2
<1> QED
  BY <1>1, <1>2, <1>3, <1>4 DEF IInv

-----------------------------------------------------------------------------
(* The tenant, and what queues jobs.                                       *)

LEMMA InitIsOK == Init => IInv
<1> SUFFICES ASSUME Init PROVE IInv
  OBVIOUS
<1>1. TypeOK
  BY AttemptsAssumption, BoundsAssumption
  DEF Init, JobsInit, TypeOK, JobsTypeOK, JobRecord, Run, Idle, Steps
<1>2. AttemptsLeft
  BY AttemptsAssumption DEF Init, JobsInit, AttemptsLeft
<1>3. PostsFetched
  <2> SUFFICES ASSUME NEW j \in Jobs
               PROVE  posts[j] + Cardinality(Posting(j)) <= Fetches(j)
    BY DEF PostsFetched
  <2>1. Posting(j) = {} /\ posts[j] = 0
    BY DEF Init, Idle, Posting
  <2>2. Fetches(j) \in Nat
    BY <1>1, NumbersTyped
  <2> QED
    BY <2>1, <2>2, FS_EmptySet
<1>4. \A w \in Workers : RunOK(w)
  BY DEF Init, Idle, RunOK, At
<1>5. RowsOfReplays /\ OneEntryPerReplay
  BY DEF Init, RowsOfReplays, OneEntryPerReplay
<1>6. MarkedForCause
  BY DEF Init, MarkedForCause
<1>7. CompletedIsDelivered
  BY DEF Init, JobsInit, CompletedIsDelivered
<1> QED
  BY <1>1, <1>2, <1>3, <1>4, <1>5, <1>6, <1>7 DEF IInv

LEMMA NewRowTyped ==
  ASSUME NEW status \in {"PENDING", "DELIVERED", "FAILED"}
  PROVE  NewRow(status) \in Row /\ ~NewRow(status).dead
BY DEF NewRow, Row

LEMMA ReplayKeeps ==
  ASSUME IInv, NEW j \in Jobs, Replay(j)
  PROVE  IInv'
<1> DEFINE new == <<NewRow("PENDING")>>
<1>1. new \in Seq(Row) /\ Len(new) = 1 /\ DOMAIN new = {1} /\ ~new[1].dead
  BY NewRowTyped
<1> HIDE DEF new
<1>2. /\ j \in Entries /\ j \notin replays
      /\ rows \in [Entries -> Seq(Row)]
      /\ rows' = [rows EXCEPT ![j] = new]
      /\ replays' = replays \cup {j}
      /\ UNCHANGED <<job, endpoint, run, ghosts, buried, faults>>
  BY DEF Replay, new, IInv, TypeOK, Entries
<1>3. rows'[j] = new /\ \A e \in Entries : e # j => rows'[e] = rows[e]
  BY <1>2
<1>4. TypeOK'
  <2>1. rows' \in [Entries -> Seq(Row)]
    BY <1>1, <1>2
  <2> QED
    BY <2>1, <1>2 DEF Replay, ghosts, IInv, TypeOK, JobsTypeOK
<1>5. \A e \in Entries : \A i \in DOMAIN rows'[e] :
        rows'[e][i].dead => i \in DOMAIN rows[e] /\ rows[e][i].dead
  BY <1>1, <1>3
<1>6. \A k \in Jobs : job[k].state # "none" /\ Done(k) => Done(k)'
  BY <1>2, <1>3 DEF Replay, ghosts, Done, Delivered, Entries
<1>7. RowsOfReplays'
  <2>1. new # << >>
    BY <1>1
  <2> QED
    BY <2>1, <1>2, <1>3 DEF IInv, TypeOK, RowsOfReplays, Entries
<1>8. OneEntryPerReplay'
  <2> SUFFICES ASSUME NEW k \in replays' PROVE Len(rows'[k]) <= 1
    BY DEF OneEntryPerReplay
  <2>1. CASE k = j
    <3>1. rows'[k] = new
      BY <2>1, <1>3
    <3> QED
      BY <3>1, <1>1
  <2>2. CASE k # j
    <3>1. k \in replays /\ k \in Entries
      BY <2>2, <1>2 DEF IInv, TypeOK, Entries
    <3> QED
      BY <2>2, <3>1, <1>3 DEF IInv, OneEntryPerReplay
  <2> QED
    BY <2>1, <2>2
<1> QED
  BY <1>2, <1>4, <1>5, <1>6, <1>7, <1>8, OutsideKeeps DEF ghosts

LEMMA LoseReplayKeeps ==
  ASSUME IInv, NEW j \in Jobs, LoseReplay(j)
  PROVE  IInv'
<1>1. TypeOK'
  BY BoundsAssumption
  DEF LoseReplay, Fault, ghosts, IInv, TypeOK, JobsTypeOK
<1>2. UNCHANGED <<job, endpoint, replays, run, rows, posts, spared, buried>>
  BY DEF LoseReplay, ghosts
<1>3. RowsOfReplays' /\ OneEntryPerReplay'
  BY <1>2 DEF IInv, RowsOfReplays, OneEntryPerReplay
<1>4. \A k \in Jobs : Done(k) => Done(k)'
  BY <1>2 DEF Done, Delivered
<1> QED
  BY <1>1, <1>2, <1>3, <1>4, OutsideKeeps

LEMMA SendTestKeeps ==
  ASSUME IInv, SendTest
  PROVE  IInv'
<1>1. PICK status \in {"DELIVERED", "FAILED"} :
        rows' = [rows EXCEPT ![Test] = Append(@, NewRow(status))]
  BY DEF SendTest
<1>2. /\ Test \in Entries /\ Test \notin Jobs
      /\ rows \in [Entries -> Seq(Row)] /\ rows[Test] \in Seq(Row)
      /\ UNCHANGED <<job, endpoint, replays, adding, run, posts, spared,
                     buried, faults>>
  BY NamesAssumption DEF SendTest, ghosts, replayVars, IInv, TypeOK, Entries
<1> DEFINE new == Append(rows[Test], NewRow(status))
<1>3. /\ new \in Seq(Row) /\ Len(rows[Test]) \in Nat
      /\ DOMAIN new = 1..Len(rows[Test]) + 1
      /\ DOMAIN rows[Test] = 1..Len(rows[Test])
      /\ new[Len(rows[Test]) + 1] = NewRow(status)
      /\ \A i \in 1..Len(rows[Test]) : new[i] = rows[Test][i]
  BY <1>2, NewRowTyped
<1>4. rows' = [rows EXCEPT ![Test] = new]
  BY <1>1
<1> HIDE DEF new
<1>5. rows'[Test] = new /\ \A e \in Entries : e # Test => rows'[e] = rows[e]
  BY <1>2, <1>4
<1>6. rows' \in [Entries -> Seq(Row)]
  BY <1>2, <1>3, <1>4
<1>7. TypeOK'
  BY <1>2, <1>6 DEF IInv, TypeOK, JobsTypeOK
<1>8. \A e \in Entries : \A i \in DOMAIN rows'[e] :
        rows'[e][i].dead => i \in DOMAIN rows[e] /\ rows[e][i].dead
  <2>1. ASSUME NEW i \in 1..Len(rows[Test]) + 1, new[i].dead
        PROVE  i \in 1..Len(rows[Test]) /\ rows[Test][i].dead
    <3>1. i # Len(rows[Test]) + 1
      BY <2>1, <1>3, NewRowTyped
    <3>2. i \in 1..Len(rows[Test])
      BY <3>1, <1>3
    <3> QED
      BY <2>1, <3>2, <1>3
  <2> QED
    BY <2>1, <1>3, <1>5
<1>9. \A k \in Jobs : rows'[k] = rows[k]
  BY <1>2, <1>5 DEF Entries
<1>10. \A k \in Jobs : Done(k) => Done(k)'
  BY <1>2, <1>9 DEF Done, Delivered
<1>11. RowsOfReplays' /\ OneEntryPerReplay'
  BY <1>2, <1>9 DEF IInv, TypeOK, RowsOfReplays, OneEntryPerReplay
<1> QED
  BY <1>2, <1>7, <1>8, <1>10, <1>11, OutsideKeeps

LEMMA ToggleKeeps ==
  ASSUME IInv, Toggle
  PROVE  IInv'
<1>1. /\ endpoint # "removed" /\ endpoint' # "removed"
      /\ endpoint' \in {"active", "off"}
      /\ UNCHANGED <<job, replays, adding, run, rows, posts, spared, buried,
                     faults>>
  BY DEF Toggle, ghosts, replayVars
<1>2. TypeOK'
  BY <1>1 DEF IInv, TypeOK, JobsTypeOK
<1>3. RowsOfReplays' /\ OneEntryPerReplay'
  BY <1>1 DEF IInv, RowsOfReplays, OneEntryPerReplay
<1>4. \A k \in Jobs : Done(k) => Done(k)'
  BY <1>1 DEF Done, Delivered
<1> QED
  BY <1>1, <1>2, <1>3, <1>4, OutsideKeeps

LEMMA RemoveEndpointKeeps ==
  ASSUME IInv, RemoveEndpoint
  PROVE  IInv'
<1>1. /\ endpoint' = "removed"
      /\ rows' = [e \in Entries |-> << >>]
      /\ UNCHANGED <<job, replays, adding, run, posts, spared, buried, faults>>
  BY DEF RemoveEndpoint, ghosts, replayVars
<1>2. TypeOK'
  BY <1>1 DEF IInv, TypeOK, JobsTypeOK
<1>3. RowsOfReplays' /\ OneEntryPerReplay'
  <2>1. \A k \in Jobs : rows'[k] = << >>
    BY <1>1 DEF Entries
  <2> QED
    BY <2>1, <1>1 DEF IInv, TypeOK, RowsOfReplays, OneEntryPerReplay
<1>4. \A k \in Jobs : Done(k)'
  BY <1>1 DEF Done
<1>5. \A e \in Entries : DOMAIN rows'[e] = {}
  BY <1>1
<1> QED
  BY <1>1, <1>2, <1>3, <1>4, <1>5, OutsideKeeps

\* Fire, and the second call of a replay.
LEMMA AddKeeps ==
  ASSUME IInv, NEW j \in Jobs, Add(j),
         adding' \in {adding, adding \ {j}},
         UNCHANGED <<endpoint, replays, run, rows, posts, spared, buried,
                     faults>>
  PROVE  IInv'
<1>1. /\ job[j].state = "none"
      /\ job' = [job EXCEPT ![j].state = "waiting"]
      /\ job \in [Jobs -> JobRecord]
  BY DEF Add, IInv, TypeOK, JobsTypeOK
<1>2. TypeOK'
  BY <1>1 DEF IInv, TypeOK, JobsTypeOK, JobRecord
<1>3. AttemptsLeft'
  BY <1>1 DEF IInv, AttemptsLeft, JobRecord
<1>4. PostsFetched'
  <2> SUFFICES ASSUME NEW k \in Jobs
               PROVE  posts'[k] + Cardinality(Posting(k)') <= Fetches(k)'
    BY DEF PostsFetched
  <2>1. Fetches(k)' = Fetches(k) /\ Fetches(k) \in Nat
    BY <1>1, NumbersTyped DEF IInv, Fetches, JobRecord
  <2>2. Fetches(k)' >= Fetches(k)
    BY <2>1
  <2>3. Posting(k)' = Posting(k)
    BY DEF Posting
  <2> QED
    BY <1>2, <2>2, <2>3, AccountKept
<1>5. \A w \in Workers : RunOK(w)'
  BY <1>1, BusyHasJob
  DEF IInv, RunOK, At, Holds, Spent, Done, Delivered, JobRecord
<1>6. RowsOfReplays' /\ OneEntryPerReplay'
  BY DEF IInv, RowsOfReplays, OneEntryPerReplay
<1>7. MarkedForCause'
  BY <1>1 DEF IInv, TypeOK, MarkedForCause, Spent, JobRecord
<1>8. CompletedIsDelivered'
  BY <1>1 DEF IInv, CompletedIsDelivered, Done, Delivered, JobRecord
<1> QED
  BY <1>2, <1>3, <1>4, <1>5, <1>6, <1>7, <1>8 DEF IInv

-----------------------------------------------------------------------------
(* The worker: the steps that the queue does not hear of.                  *)

\* A step of the handler that writes no row.
LEMMA MoveKeeps ==
  ASSUME IInv, NEW w \in Workers, NEW new \in Run,
         run[w].pc # "idle",
         UNCHANGED <<job, replays, adding, endpoint, posts, rows>>,
         run' = [run EXCEPT ![w] = new],
         new.pc \in {"lookup", "post"} =>
           run[w].pc \in {"lookup", "post"} /\ new.job = run[w].job,
         RunOK(w)',
         spared' \in {spared, spared \cup {run[w].job}},
         buried' \in {buried, buried \cup {run[w].job}},
         faults' \in 0..MaxFaults
  PROVE  IInv'
<1>1. run[w].job \in Jobs
  BY BusyHasJob DEF IInv
<1>2. TypeOK'
  BY <1>1 DEF IInv, TypeOK, JobsTypeOK
<1>3. \A k \in Jobs : Done(k) => Done(k)'
  BY DEF Done, Delivered
<1>4. RowsOfReplays' /\ OneEntryPerReplay'
  BY DEF IInv, RowsOfReplays, OneEntryPerReplay
<1>5. MarkedForCause'
  BY DEF IInv, MarkedForCause, Spent
<1> QED
  BY <1>2, <1>3, <1>4, <1>5, HandlerKeeps

LEMMA RunMoved ==
  ASSUME IInv, NEW w \in Workers, NEW pc \in Steps \ {"idle"},
         run[w].pc # "idle", Goto(w, pc)
  PROVE  /\ run' = [run EXCEPT ![w] = [pc |-> pc, job |-> run[w].job]]
         /\ [pc |-> pc, job |-> run[w].job] \in Run
         /\ run'[w].pc = pc /\ run'[w].job = run[w].job
         /\ run[w].job \in Jobs /\ run[w].job # NoJob
<1>1. run[w].job \in Jobs /\ run \in [Workers -> Run]
  BY BusyHasJob DEF IInv, TypeOK
<1>2. [run[w] EXCEPT !.pc = pc] = [pc |-> pc, job |-> run[w].job]
  BY <1>1 DEF Run
<1>3. run' = [run EXCEPT ![w] = [pc |-> pc, job |-> run[w].job]]
  BY <1>2 DEF Goto
<1>4. [pc |-> pc, job |-> run[w].job] \in Run
  BY <1>1 DEF Run
<1>5. run[w].job # NoJob
  BY <1>1, NamesAssumption
<1> QED
  BY <1>1, <1>3, <1>4, <1>5

\* The run goes on with its job.
LEMMA RunGoesOn ==
  ASSUME IInv, NEW w \in Workers, NEW pc \in Steps \ {"idle"},
         run[w].pc # "idle", Goto(w, pc), job' = job,
         pc \in {"bury", "mark"} <=> run[w].pc \in {"bury", "mark"},
         pc = "return" => run[w].job \in Overrun \/ Done(run[w].job)',
         pc = "mark" => run[w].job \in buried'
  PROVE  RunOK(w)'
<1>1. RunOK(w)
  BY DEF IInv
<1>2. /\ run'[w].pc = pc /\ run'[w].job = run[w].job
      /\ run[w].job # NoJob
  BY RunMoved
<1> QED
  BY <1>1, <1>2 DEF RunOK, At, Holds, Spent

\* A step of the handler that goes on and writes no row.
LEMMA GoOnKeeps ==
  ASSUME IInv, NEW w \in Workers, NEW pc \in Steps \ {"idle"},
         run[w].pc # "idle", Goto(w, pc),
         UNCHANGED <<job, replays, adding, endpoint, posts, rows>>,
         spared' \in {spared, spared \cup {run[w].job}},
         buried' \in {buried, buried \cup {run[w].job}},
         faults' \in 0..MaxFaults,
         pc \in {"lookup", "post"} => run[w].pc \in {"lookup", "post"},
         pc \in {"bury", "mark"} <=> run[w].pc \in {"bury", "mark"},
         pc = "return" => run[w].job \in spared',
         pc = "mark" => run[w].job \in buried'
  PROVE  IInv'
<1> DEFINE new == [pc |-> pc, job |-> run[w].job]
<1>1. /\ run' = [run EXCEPT ![w] = new]
      /\ new \in Run /\ new.pc = pc /\ new.job = run[w].job
      /\ run'[w].job = run[w].job
  BY RunMoved
<1>2. pc = "return" => Done(run[w].job)'
  BY <1>1 DEF Done
<1>3. RunOK(w)'
  BY <1>2, RunGoesOn
<1> HIDE DEF new
<1> QED
  BY <1>1, <1>3, MoveKeeps

LEMMA IdleIsRun == Idle \in Run /\ Idle.pc = "idle" /\ Idle.job = NoJob
BY DEF Idle, Run, Steps

LEMMA LookUpKeeps ==
  ASSUME IInv, NEW w \in Workers, LookUp(w)
  PROVE  IInv'
<1>1. /\ run[w].pc = "lookup"
      /\ UNCHANGED <<job, replays, adding, endpoint, posts, rows, buried,
                     faults>>
      /\ faults \in 0..MaxFaults
  BY DEF LookUp, At, replayVars, IInv, TypeOK
<1>2. CASE endpoint = "active"
  <2>1. Goto(w, "post") /\ spared' = spared
    BY <1>2 DEF LookUp
  <2> QED
    BY <1>1, <2>1, GoOnKeeps DEF Steps
<1>3. CASE endpoint # "active"
  <2>1. Goto(w, "return") /\ spared' = spared \cup {run[w].job}
    BY <1>3 DEF LookUp
  <2> QED
    BY <1>1, <2>1, GoOnKeeps DEF Steps
<1> QED
  BY <1>2, <1>3

LEMMA WriteOrphanKeeps ==
  ASSUME IInv, NEW w \in Workers, WriteOrphan(w)
  PROVE  IInv'
<1>1. /\ run[w].pc \in {"accepted", "refused"}
      /\ Goto(w, "throw")
      /\ UNCHANGED <<job, replays, adding, endpoint, posts, spared, rows,
                     buried, faults>>
      /\ faults \in 0..MaxFaults
  BY DEF WriteOrphan, replayVars, ghosts, IInv, TypeOK
<1> QED
  BY <1>1, GoOnKeeps DEF Steps

LEMMA BuryKeeps ==
  ASSUME IInv, NEW w \in Workers, Bury(w)
  PROVE  IInv'
<1>1. /\ run[w].pc = "bury"
      /\ Goto(w, "mark")
      /\ buried' = buried \cup {run[w].job}
      /\ UNCHANGED <<job, replays, adding, endpoint, posts, spared, rows,
                     faults>>
      /\ faults \in 0..MaxFaults
  BY DEF Bury, At, replayVars, ghosts, IInv, TypeOK
<1> QED
  BY <1>1, GoOnKeeps DEF Steps

\* The run ends without a word to the queue.
LEMMA StopKeeps ==
  ASSUME IInv, NEW w \in Workers, run[w].pc # "idle",
         run' = [run EXCEPT ![w] = Idle],
         faults' \in 0..MaxFaults,
         UNCHANGED <<job, replays, adding, endpoint, posts, spared, rows,
                     buried>>
  PROVE  IInv'
<1>1. run'[w] = Idle
  BY DEF IInv, TypeOK
<1>2. RunOK(w)'
  BY <1>1, IdleIsRun DEF RunOK, At
<1> QED
  BY <1>2, IdleIsRun, MoveKeeps

LEMMA CrashKeeps ==
  ASSUME IInv, NEW w \in Workers, Crash(w)
  PROVE  IInv'
<1>1. faults' \in 0..MaxFaults
  BY BoundsAssumption DEF Crash, Fault, IInv, TypeOK
<1> QED
  BY <1>1, StopKeeps DEF Crash, At, replayVars, ghosts

\* The row of an attempt, and where the handler goes on.
LEMMA LogKeeps ==
  ASSUME IInv, NEW w \in Workers, NEW status \in {"DELIVERED", "FAILED"},
         NEW pc \in {"return", "throw"},
         run[w].pc \in {"accepted", "refused"},
         endpoint # "removed",
         rows' = Logged(run[w].job, status),
         Goto(w, pc),
         pc = "return" => status = "DELIVERED",
         faults' \in 0..MaxFaults,
         UNCHANGED <<job, replays, adding, endpoint, posts, spared, buried>>
  PROVE  IInv'
<1> DEFINE j == run[w].job
           new == [pc |-> pc, job |-> j]
<1>1. /\ j \in Jobs /\ new \in Run
      /\ run' = [run EXCEPT ![w] = new]
      /\ run'[w].pc = pc /\ run'[w].job = j /\ j # NoJob
  BY RunMoved DEF Steps
<1>2. /\ rows' \in [Entries -> Seq(Row)]
      /\ \A e \in Entries : e # j => rows'[e] = rows[e]
      /\ j \in replays => Len(rows'[j]) = Len(rows[j])
      /\ rows[j] # << >> => rows'[j] # << >>
      /\ \A i \in DOMAIN rows'[j] :
           rows'[j][i].dead => i \in DOMAIN rows[j] /\ rows[j][i].dead
      /\ /\ status = "DELIVERED"
         /\ j \in replays => rows[j] # << >>
         => Delivered(j)'
  BY <1>1, LoggedIs
<1>3. TypeOK'
  BY <1>1, <1>2 DEF IInv, TypeOK, JobsTypeOK
<1>4. RowsOfReplays'
  BY <1>1, <1>2 DEF IInv, TypeOK, RowsOfReplays, Entries
<1>5. OneEntryPerReplay'
  BY <1>1, <1>2 DEF IInv, TypeOK, OneEntryPerReplay, Entries
<1>6. MarkedForCause'
  BY <1>1, <1>2 DEF IInv, MarkedForCause, Spent
<1>7. \A k \in Jobs : k # j /\ Done(k) => Done(k)'
  BY <1>2 DEF Done, Delivered, Entries
<1>8. RunOK(w)'
  <2>1. RunOK(w)
    BY DEF IInv
  <2>2. pc = "return" => Done(j)'
    BY <1>1, <1>2 DEF Done, IInv, RowsOfReplays
  <2> QED
    BY <1>1, <2>1, <2>2 DEF RunOK, At, Holds
<1>9. new.pc \notin {"lookup", "post"} /\ run[w].pc # "idle"
  OBVIOUS
<1> HIDE DEF new
<1> QED
  BY <1>1, <1>3, <1>4, <1>5, <1>6, <1>7, <1>8, <1>9, HandlerKeeps

LEMMA WriteKeeps ==
  ASSUME IInv, NEW w \in Workers, WriteAccepted(w) \/ WriteRefused(w)
  PROVE  IInv'
<1>1. UNCHANGED <<job, replays, adding, endpoint, posts, spared, buried,
                  faults>>
  BY DEF WriteAccepted, WriteRefused, replayVars, ghosts
<1>2. faults' \in 0..MaxFaults
  BY <1>1 DEF IInv, TypeOK
<1>3. CASE WriteAccepted(w)
  BY <1>1, <1>2, <1>3, LogKeeps DEF WriteAccepted, At
<1>4. CASE WriteRefused(w)
  BY <1>1, <1>2, <1>4, LogKeeps DEF WriteRefused, At
<1> QED
  BY <1>3, <1>4

LEMMA DbErrorKeeps ==
  ASSUME IInv, NEW w \in Workers, DbError(w)
  PROVE  IInv'
<1>1. /\ faults' \in 0..MaxFaults
      /\ UNCHANGED <<job, replays, adding, endpoint, posts, spared, buried>>
  BY BoundsAssumption
  DEF DbError, Fault, replayVars, ghosts, IInv, TypeOK
<1>2. CASE /\ run[w].pc \in {"lookup", "accepted", "refused"}
           /\ Goto(w, "throw")
           /\ UNCHANGED rows
  BY <1>1, <1>2, GoOnKeeps DEF Steps
<1>3. CASE /\ At(w, "accepted") /\ endpoint # "removed"
           /\ rows' = Logged(run[w].job, "DELIVERED")
           /\ Goto(w, "throw")
  BY <1>1, <1>3, LogKeeps DEF At
<1>4. CASE /\ run[w].pc \in {"bury", "mark"}
           /\ run' = [run EXCEPT ![w] = Idle]
           /\ UNCHANGED rows
  BY <1>1, <1>4, StopKeeps
<1> QED
  BY <1>2, <1>3, <1>4 DEF DbError

\* Dead letters are marked for the cause that the run has: its own job.
LEMMA MarkKeeps ==
  ASSUME IInv, NEW w \in Workers, Mark(w)
  PROVE  IInv'
<1>1. /\ run[w].pc = "mark" /\ RunOK(w)
      /\ rows \in [Entries -> Seq(Row)]
      /\ rows' = [e \in Entries |->
                    [i \in DOMAIN rows[e] |-> Marked(rows[e][i])]]
      /\ run' = [run EXCEPT ![w] = Idle]
      /\ UNCHANGED <<job, replays, adding, endpoint, posts, spared, buried,
                     faults>>
  BY DEF Mark, At, replayVars, ghosts, IInv, TypeOK
<1>2. ASSUME NEW e \in Entries
      PROVE  /\ rows'[e] \in Seq(Row)
             /\ Len(rows'[e]) = Len(rows[e])
             /\ rows[e] # << >> => rows'[e] # << >>
             /\ DOMAIN rows'[e] = DOMAIN rows[e]
             /\ \A i \in DOMAIN rows[e] :
                  /\ rows'[e][i].status = rows[e][i].status
                  /\ rows'[e][i].dead =>
                       rows[e][i].dead \/ rows[e][i].status = "FAILED"
  <2> DEFINE new == [i \in DOMAIN rows[e] |-> Marked(rows[e][i])]
  <2>1. /\ rows[e] \in Seq(Row) /\ Len(rows[e]) \in Nat
        /\ DOMAIN rows[e] = 1..Len(rows[e])
        /\ \A i \in DOMAIN rows[e] : rows[e][i] \in Row
    BY <1>1
  <2>2. ASSUME NEW row \in Row
        PROVE  /\ Marked(row) \in Row /\ Marked(row).status = row.status
               /\ Marked(row).dead => row.dead \/ row.status = "FAILED"
    BY DEF Marked, Row
  <2>3. /\ new \in [1..Len(rows[e]) -> Row]
        /\ DOMAIN new = DOMAIN rows[e]
        /\ \A i \in DOMAIN rows[e] : new[i] = Marked(rows[e][i])
    BY <2>1, <2>2
  <2>4. rows'[e] = new
    BY <1>1
  <2> HIDE DEF new
  <2>5. new \in Seq(Row) /\ Len(new) = Len(rows[e])
    BY <2>1, <2>3
  <2>6. rows[e] # << >> => new # << >>
    BY <2>1, <2>5
  <2> QED
    BY <2>1, <2>2, <2>3, <2>4, <2>5, <2>6
<1>3. TypeOK'
  <2>1. rows' \in [Entries -> Seq(Row)]
    BY <1>1, <1>2
  <2> QED
    BY <1>1, <2>1, IdleIsRun DEF IInv, TypeOK, JobsTypeOK
<1>4. RowsOfReplays' /\ OneEntryPerReplay'
  BY <1>1, <1>2 DEF IInv, TypeOK, RowsOfReplays, OneEntryPerReplay, Entries
<1>5. MarkedForCause'
  <2>1. run[w].job \in buried' /\ Spent(run[w].job)
    BY <1>1 DEF RunOK, At
  <2>2. \A j \in Jobs : Spent(j) => Spent(j)'
    BY <1>1 DEF Spent
  <2>3. run[w].job \in Jobs
    BY <1>1, BusyHasJob DEF IInv
  <2> QED
    BY <2>1, <2>2, <2>3 DEF MarkedForCause
<1>6. \A k \in Jobs : Done(k) => Done(k)'
  <2> SUFFICES ASSUME NEW k \in Jobs, Delivered(k) PROVE Delivered(k)'
    BY <1>1 DEF Done
  <2>1. k \in Entries
    BY DEF Entries
  <2> QED
    BY <1>1, <1>2, <2>1 DEF Delivered
<1>7. run'[w] = Idle
  BY <1>1 DEF IInv, TypeOK
<1>8. RunOK(w)'
  BY <1>7, IdleIsRun DEF RunOK, At
<1> QED
  BY <1>1, <1>3, <1>4, <1>5, <1>6, <1>8, IdleIsRun, HandlerKeeps

\* The one step that posts: its run cannot post again.
LEMMA PostKeeps ==
  ASSUME IInv, NEW w \in Workers, Post(w)
  PROVE  IInv'
<1> DEFINE j == run[w].job
<1>1. /\ run[w].pc = "post" /\ RunOK(w)
      /\ posts' = [posts EXCEPT ![j] = @ + 1]
      /\ UNCHANGED <<job, replays, adding, endpoint, spared, rows, buried,
                     faults>>
  BY DEF Post, At, replayVars, IInv
<1>2. PICK pc \in {"accepted", "refused"} : Goto(w, pc)
  BY DEF Post
<1>3. /\ run' = [run EXCEPT ![w] = [pc |-> pc, job |-> j]]
      /\ [pc |-> pc, job |-> j] \in Run
      /\ run'[w].pc = pc /\ run'[w].job = j
      /\ j \in Jobs /\ j # NoJob
  BY <1>1, <1>2, RunMoved DEF Steps
<1>4. \A x \in Workers : x # w => run'[x] = run[x]
  BY <1>3 DEF IInv, TypeOK
<1>5. TypeOK'
  BY <1>1, <1>3 DEF IInv, TypeOK, JobsTypeOK
<1>6. AttemptsLeft'
  BY <1>1 DEF IInv, AttemptsLeft
<1>7. PostsFetched'
  <2> SUFFICES ASSUME NEW k \in Jobs
               PROVE  posts'[k] + Cardinality(Posting(k)') <= Fetches(k)'
    BY DEF PostsFetched
  <2>1. Fetches(k)' = Fetches(k) /\ Fetches(k) \in Nat
    BY <1>1, NumbersTyped DEF IInv, Fetches
  <2>2. CASE k # j
    <3>1. posts'[k] = posts[k]
      BY <2>2, <1>1 DEF IInv, TypeOK
    <3>2. Posting(k)' \subseteq Posting(k)
      BY <2>2, <1>3, <1>4 DEF Posting
    <3>3. Fetches(k)' >= Fetches(k)
      BY <2>1
    <3> QED
      BY <1>5, <3>1, <3>2, <3>3, AccountKept
  <2>3. CASE k = j
    <3>1. Posting(k)' = Posting(k) \ {w} /\ w \in Posting(k)
      BY <2>3, <1>1, <1>2, <1>3, <1>4 DEF Posting
    <3>2. /\ IsFiniteSet(Posting(k)) /\ Cardinality(Posting(k)) \in Nat
          /\ posts[k] \in Nat
      BY NumbersTyped DEF IInv
    <3>3. Cardinality(Posting(k)') = Cardinality(Posting(k)) - 1
      BY <3>1, <3>2, FS_RemoveElement
    <3>4. posts'[k] = posts[k] + 1
      BY <2>3, <1>1 DEF IInv, TypeOK
    <3>5. posts[k] + Cardinality(Posting(k)) <= Fetches(k)
      BY DEF IInv, PostsFetched
    <3> QED
      BY <2>1, <3>2, <3>3, <3>4, <3>5
  <2> QED
    BY <2>2, <2>3
<1>8. \A k \in Jobs : Done(k) => Done(k)'
  BY <1>1 DEF Done, Delivered
<1>9. ASSUME NEW x \in Workers PROVE RunOK(x)'
  <2>1. CASE x = w
    BY <2>1, <1>1, <1>2, RunGoesOn DEF Steps
  <2>2. CASE x # w
    <3>1. run'[x] = run[x] /\ RunOK(x)
      BY <2>2, <1>4 DEF IInv
    <3>2. At(x, "return") => run[x].job \in Jobs
      BY <3>1, BusyHasJob DEF At, IInv
    <3> QED
      BY <1>1, <1>8, <3>1, <3>2 DEF RunOK, At, Holds, Spent
  <2> QED
    BY <2>1, <2>2
<1>10. RowsOfReplays' /\ OneEntryPerReplay'
  BY <1>1 DEF IInv, RowsOfReplays, OneEntryPerReplay
<1>11. MarkedForCause'
  BY <1>1 DEF IInv, MarkedForCause, Spent
<1>12. CompletedIsDelivered'
  BY <1>1, <1>8 DEF IInv, CompletedIsDelivered
<1> QED
  BY <1>5, <1>6, <1>7, <1>9, <1>10, <1>11, <1>12 DEF IInv

-----------------------------------------------------------------------------
(* The worker: the steps at the queue.                                     *)

\* A step by which the queue has something new of one job.
LEMMA QueueKeeps ==
  ASSUME IInv, TypeOK', NEW j \in Jobs,
         \A k \in Jobs : k # j => job'[k] = job[k],
         UNCHANGED <<endpoint, replays, rows, posts, spared, buried>>,
         job'[j].state # "failed" => job'[j].made < Attempts,
         posts'[j] + Cardinality(Posting(j)') <= Fetches(j)',
         \A k \in Jobs : k # j => Posting(k)' \subseteq Posting(k),
         ~Spent(j),
         job'[j].state = "completed" => j \in Overrun \/ Done(j),
         \A x \in Workers : RunOK(x)'
  PROVE  IInv'
<1>1. AttemptsLeft'
  BY DEF IInv, AttemptsLeft
<1>2. PostsFetched'
  <2> SUFFICES ASSUME NEW k \in Jobs, k # j
               PROVE  posts'[k] + Cardinality(Posting(k)') <= Fetches(k)'
    BY DEF PostsFetched
  <2>1. Fetches(k)' = Fetches(k) /\ Fetches(k) \in Nat
    BY NumbersTyped DEF IInv, Fetches
  <2>2. Fetches(k)' >= Fetches(k)
    BY <2>1
  <2> QED
    BY <2>2, AccountKept
<1>3. RowsOfReplays' /\ OneEntryPerReplay'
  BY DEF IInv, RowsOfReplays, OneEntryPerReplay
<1>4. MarkedForCause'
  BY DEF IInv, TypeOK, MarkedForCause, Spent
<1>5. CompletedIsDelivered'
  BY DEF IInv, CompletedIsDelivered, Done, Delivered
<1> QED
  BY <1>1, <1>2, <1>3, <1>4, <1>5 DEF IInv

\* A run that the step is not of.
LEMMA OtherRun ==
  ASSUME IInv, NEW x \in Workers, NEW j \in Jobs,
         \A k \in Jobs : k # j => job'[k] = job[k],
         UNCHANGED <<endpoint, replays, rows, spared, buried>>,
         run'[x] = run[x],
         ~Spent(j),
         run[x].job = j /\ Holds(x, j) => j \in Overrun
  PROVE  RunOK(x)'
<1>1. RunOK(x)
  BY DEF IInv
<1>2. CASE run[x].pc = "idle"
  BY <1>1, <1>2 DEF RunOK, At
<1>3. CASE run[x].pc # "idle"
  <2>1. PICK k \in Jobs : k = run[x].job /\ k = run'[x].job
    BY <1>1, <1>3, BusyHasJob DEF IInv
  <2>2. k # NoJob
    BY <1>1, <1>3, <2>1 DEF RunOK, At
  <2>3. Done(k) => Done(k)'
    BY DEF Done, Delivered
  <2>4. CASE k = j
    <3>1. run[x].pc \notin {"bury", "mark"} /\ k \in Overrun
      BY <1>1, <1>3, <2>1, <2>4 DEF RunOK
    <3> QED
      BY <1>3, <2>1, <2>2, <3>1 DEF RunOK, At
  <2>5. CASE k # j
    <3>1. job'[k] = job[k]
      BY <2>5
    <3> QED
      BY <1>1, <1>3, <2>1, <2>2, <2>3, <3>1 DEF RunOK, At, Holds, Spent
  <2> QED
    BY <2>4, <2>5
<1> QED
  BY <1>2, <1>3

LEMMA TakeKeeps ==
  ASSUME IInv, NEW w \in Workers, NEW j \in Jobs, Take(w, j)
  PROVE  IInv'
<1> DEFINE new == [pc |-> "lookup", job |-> j]
<1>1. /\ run[w].pc = "idle" /\ job[j].state = "waiting"
      /\ job' = [job EXCEPT ![j].state = "active", ![j].holder = w]
      /\ run' = [run EXCEPT ![w] = new]
      /\ UNCHANGED <<endpoint, replays, adding, rows, posts, spared, buried,
                     faults>>
  BY DEF Take, Lock, At, replayVars, ghosts
<1>2. job \in [Jobs -> JobRecord] /\ run \in [Workers -> Run] /\ new \in Run
  BY DEF IInv, TypeOK, JobsTypeOK, Run, Steps
<1>3. /\ \A k \in Jobs : k # j => job'[k] = job[k]
      /\ job'[j].state = "active" /\ job'[j].holder = w
      /\ job'[j].made = job[j].made /\ job'[j].stalled = job[j].stalled
      /\ job' \in [Jobs -> JobRecord]
  BY <1>1, <1>2 DEF JobRecord
<1>4. /\ run'[w].pc = "lookup" /\ run'[w].job = j /\ j # NoJob
      /\ \A x \in Workers : x # w => run'[x] = run[x]
      /\ run' \in [Workers -> Run]
  BY <1>1, <1>2, NamesAssumption
<1>5. TypeOK'
  BY <1>1, <1>3, <1>4 DEF IInv, TypeOK, JobsTypeOK
<1>6. \A k \in Jobs : k # j => Posting(k)' \subseteq Posting(k)
  BY <1>4 DEF Posting
<1>7. posts'[j] + Cardinality(Posting(j)') <= Fetches(j)'
  <2>1. Posting(j)' = Posting(j) \cup {w} /\ w \notin Posting(j)
    BY <1>1, <1>4 DEF Posting
  <2>2. /\ IsFiniteSet(Posting(j)) /\ Cardinality(Posting(j)) \in Nat
        /\ posts[j] \in Nat /\ job[j].made \in Nat /\ Fetches(j) \in Nat
    BY NumbersTyped DEF IInv
  <2>3. Cardinality(Posting(j)') = Cardinality(Posting(j)) + 1
    BY <2>1, <2>2, FS_AddElement
  <2>4. Fetches(j)' = Fetches(j) + 1
    BY <1>1, <1>3, <2>2 DEF Fetches
  <2>5. posts[j] + Cardinality(Posting(j)) <= Fetches(j)
    BY DEF IInv, PostsFetched
  <2> QED
    BY <1>1, <2>2, <2>3, <2>4, <2>5
<1>8. ASSUME NEW x \in Workers PROVE RunOK(x)'
  <2>1. CASE x = w
    BY <2>1, <1>3, <1>4 DEF RunOK, At, Holds
  <2>2. CASE x # w
    <3>1. run'[x] = run[x] /\ ~Holds(x, j) /\ ~Spent(j)
      BY <2>2, <1>1, <1>4 DEF Holds, Spent
    <3> QED
      BY <1>1, <1>3, <3>1, OtherRun
  <2> QED
    BY <2>1, <2>2
<1>9. job'[j].made < Attempts /\ ~Spent(j)
  BY <1>1, <1>3 DEF IInv, AttemptsLeft, Spent
<1> QED
  BY <1>1, <1>3, <1>5, <1>6, <1>7, <1>8, <1>9, QueueKeeps

LEMMA ReturnKeeps ==
  ASSUME IInv, NEW w \in Workers, Return(w)
  PROVE  IInv'
<1> PICK j \in Jobs : j = run[w].job
  BY BusyHasJob DEF Return, At, IInv
<1>1. /\ run[w].pc = "return" /\ RunOK(w) /\ j = run[w].job
      /\ run' = [run EXCEPT ![w] = Idle]
      /\ UNCHANGED <<endpoint, replays, adding, rows, posts, spared, buried,
                     faults>>
  BY DEF Return, At, replayVars, ghosts, IInv
<1>2. CASE ~Holds(w, j)
  <2>1. job' = job /\ faults' \in 0..MaxFaults
    BY <1>1, <1>2 DEF Return, Complete, IInv, TypeOK
  <2> QED
    BY <1>1, <2>1, StopKeeps
<1>3. CASE Holds(w, j)
  <2>1. /\ job \in [Jobs -> JobRecord] /\ run \in [Workers -> Run]
        /\ job[j].state = "active" /\ job[j].holder = w
        /\ job' = [job EXCEPT ![j].state = "completed", ![j].holder = Nobody]
    BY <1>3 DEF Return, Complete, Holds, IInv, TypeOK, JobsTypeOK
  <2>2. /\ \A k \in Jobs : k # j => job'[k] = job[k]
        /\ job'[j].state = "completed" /\ job'[j].holder = Nobody
        /\ job'[j].made = job[j].made /\ job'[j].stalled = job[j].stalled
        /\ job' \in [Jobs -> JobRecord]
    BY <1>1, <2>1 DEF JobRecord
  <2>3. /\ run'[w] = Idle
        /\ \A x \in Workers : x # w => run'[x] = run[x]
        /\ run' \in [Workers -> Run]
    BY <1>1, <2>1, IdleIsRun
  <2>4. TypeOK'
    BY <1>1, <2>2, <2>3 DEF IInv, TypeOK, JobsTypeOK
  <2>5. \A k \in Jobs : Posting(k)' \subseteq Posting(k)
    BY <2>3, IdleIsRun DEF Posting
  <2>6. posts'[j] + Cardinality(Posting(j)') <= Fetches(j)'
    <3>1. Fetches(j)' = Fetches(j) /\ Fetches(j) \in Nat
      BY <1>1, <2>1, <2>2, NumbersTyped DEF Fetches, IInv
    <3>2. Fetches(j)' >= Fetches(j)
      BY <3>1
    <3> QED
      BY <1>1, <2>4, <2>5, <3>2, AccountKept
  <2>7. ASSUME NEW x \in Workers PROVE RunOK(x)'
    <3>1. CASE x = w
      BY <3>1, <2>3, IdleIsRun DEF RunOK, At
    <3>2. CASE x # w
      <4>1. run'[x] = run[x] /\ ~Holds(x, j) /\ ~Spent(j)
        BY <3>2, <2>1, <2>3 DEF Holds, Spent
      <4> QED
        BY <1>1, <2>2, <4>1, OtherRun
    <3> QED
      BY <3>1, <3>2
  <2>8. job'[j].made < Attempts /\ ~Spent(j)
    BY <1>1, <2>1, <2>2 DEF IInv, AttemptsLeft, Spent
  <2>9. j \in Overrun \/ Done(j)
    BY <1>1 DEF RunOK, At
  <2> QED
    BY <1>1, <2>2, <2>4, <2>5, <2>6, <2>7, <2>8, <2>9, QueueKeeps
<1> QED
  BY <1>2, <1>3

LEMMA ThrowKeeps ==
  ASSUME IInv, NEW w \in Workers, Throw(w)
  PROVE  IInv'
<1> PICK j \in Jobs : j = run[w].job
  BY BusyHasJob DEF Throw, At, IInv
<1>1. /\ run[w].pc = "throw" /\ RunOK(w) /\ j = run[w].job
      /\ UNCHANGED <<endpoint, replays, adding, rows, posts, spared, buried,
                     faults>>
  BY DEF Throw, At, replayVars, ghosts, IInv
<1>2. CASE ~Holds(w, j)
  <2>1. /\ job' = job /\ faults' \in 0..MaxFaults
        /\ run' = [run EXCEPT ![w] = Idle]
    BY <1>1, <1>2 DEF Throw, Reject, LastThrow, IInv, TypeOK
  <2> QED
    BY <1>1, <2>1, StopKeeps
<1>3. CASE Holds(w, j)
  <2> DEFINE last == job[j].made + 1 >= Attempts
  <2>1. /\ job \in [Jobs -> JobRecord] /\ run \in [Workers -> Run]
        /\ job[j].state = "active" /\ job[j].holder = w
        /\ job' = [job EXCEPT
                     ![j].state = IF last THEN "failed" ELSE "waiting",
                     ![j].made = @ + 1, ![j].holder = Nobody]
    BY <1>3 DEF Throw, Reject, LastThrow, Holds, IInv, TypeOK, JobsTypeOK
  <2>2. /\ job[j].made \in Nat /\ Attempts \in Nat
        /\ job[j].made < Attempts
    <3>1. job[j].made < Attempts
      BY <2>1 DEF IInv, AttemptsLeft
    <3> QED
      BY <3>1, NumbersTyped DEF IInv
  <2>3. /\ \A k \in Jobs : k # j => job'[k] = job[k]
        /\ job'[j].state = (IF last THEN "failed" ELSE "waiting")
        /\ job'[j].holder = Nobody
        /\ job'[j].made = job[j].made + 1 /\ job'[j].stalled = job[j].stalled
        /\ job' \in [Jobs -> JobRecord]
    BY <1>1, <2>1, <2>2 DEF JobRecord
  <2>4. PICK new \in Run :
          /\ run' = [run EXCEPT ![w] = new]
          /\ \/ ~last /\ new = Idle
             \/ last /\ new.pc = "bury" /\ new.job = j /\ j # NoJob
    <3>1. CASE last
      <4>1. Goto(w, "bury")
        BY <1>3, <3>1 DEF Throw, LastThrow
      <4>2. /\ run' = [run EXCEPT ![w] = [pc |-> "bury", job |-> j]]
            /\ [pc |-> "bury", job |-> j] \in Run /\ j # NoJob
        BY <1>1, <4>1, RunMoved DEF Steps
      <4> QED
        BY <3>1, <4>2
    <3>2. CASE ~last
      <4>1. run' = [run EXCEPT ![w] = Idle]
        BY <3>2 DEF Throw, LastThrow
      <4> QED
        BY <3>2, <4>1, IdleIsRun
    <3> QED
      BY <3>1, <3>2
  <2>5. /\ run'[w] = new
        /\ \A x \in Workers : x # w => run'[x] = run[x]
        /\ run' \in [Workers -> Run]
        /\ new.pc \notin {"lookup", "post"}
    BY <1>1, <2>1, <2>4, IdleIsRun
  <2>6. TypeOK'
    BY <1>1, <2>3, <2>5 DEF IInv, TypeOK, JobsTypeOK
  <2>7. \A k \in Jobs : Posting(k)' \subseteq Posting(k)
    BY <2>5 DEF Posting
  <2>8. posts'[j] + Cardinality(Posting(j)') <= Fetches(j)'
    <3>1. Fetches(j) \in Nat
      BY NumbersTyped DEF IInv
    <3>2. Fetches(j)' >= Fetches(j)
      <4>1. /\ job[j].state = "active"
            /\ job'[j].state \notin {"active", "completed"}
            /\ job[j].made \in Nat
            /\ job'[j].made = job[j].made + 1
            /\ job'[j].stalled = job[j].stalled
        BY <2>1, <2>2, <2>3
      <4>2. Fetches(j)' = Fetches(j)
        BY ONLY <4>1, SMTT(30) DEF Fetches
      <4> QED
        BY ONLY <3>1, <4>2, SMTT(30)
    <3>3. Posting(j)' \subseteq Posting(j) /\ posts'[j] = posts[j]
      BY <1>1, <2>7
    <3> QED
      BY <2>6, <3>2, <3>3, AccountKept, SMTT(30)
  <2>9. ASSUME NEW x \in Workers PROVE RunOK(x)'
    <3>1. CASE x = w
      <4>1. last => Spent(j)'
        <5>1. last => job'[j].state = "failed" /\ job'[j].made = Attempts
          BY <2>2, <2>3
        <5>2. last => run'[w].job = j
          BY <2>4, <2>5
        <5> QED
          BY <5>1, <5>2 DEF Spent
      <4>2. last => run'[w].job = j /\ run'[w].pc = "bury" /\ j # NoJob
        BY <2>4, <2>5
      <4>3. ~last => run'[w] = Idle
        BY <2>4, <2>5
      <4> QED
        BY <3>1, <4>1, <4>2, <4>3, IdleIsRun DEF RunOK, At
    <3>2. CASE x # w
      <4>1. run'[x] = run[x] /\ ~Holds(x, j) /\ ~Spent(j)
        BY <3>2, <2>1, <2>5 DEF Holds, Spent
      <4> QED
        BY <1>1, <2>3, <4>1, OtherRun
    <3> QED
      BY <3>1, <3>2
  <2>10. /\ job'[j].state # "failed" => job'[j].made < Attempts
         /\ job'[j].state # "completed"
    BY <2>2, <2>3
  <2>11. ~Spent(j)
    BY <2>1 DEF Spent
  <2>12. \A k \in Jobs : k # j => job'[k] = job[k]
    BY ONLY <2>3, SMTT(30)
  <2> HIDE DEF last
  <2> QED
    BY <1>1, <2>6, <2>7, <2>8, <2>9, <2>10, <2>11, <2>12, QueueKeeps
<1> QED
  BY <1>2, <1>3

LEMMA StallKeeps ==
  ASSUME IInv, NEW j \in Jobs, StallJob(j)
  PROVE  IInv'
<1>1. /\ job[j].state = "active"
      /\ job' = [job EXCEPT
                   ![j].state = IF job[j].stalled THEN "failed" ELSE "waiting",
                   ![j].made = IF job[j].stalled THEN @ + 1 ELSE @,
                   ![j].stalled = TRUE, ![j].holder = Nobody]
      /\ job \in [Jobs -> JobRecord]
      /\ j \in Overrun \/ \A w \in Workers : ~Working(w, j)
      /\ UNCHANGED <<endpoint, replays, adding, run, rows, posts, spared,
                     buried, faults>>
  BY DEF StallJob, Stall, replayVars, ghosts, IInv, TypeOK, JobsTypeOK
<1>2. /\ job[j].made \in Nat /\ Attempts \in Nat
      /\ job[j].made < Attempts
  BY <1>1, NumbersTyped DEF IInv, AttemptsLeft
<1>3. /\ \A k \in Jobs : k # j => job'[k] = job[k]
      /\ job'[j].state = (IF job[j].stalled THEN "failed" ELSE "waiting")
      /\ job'[j].made = (IF job[j].stalled THEN job[j].made + 1
                                           ELSE job[j].made)
      /\ job'[j].stalled = TRUE
      /\ job' \in [Jobs -> JobRecord]
  BY <1>1, <1>2 DEF JobRecord
<1>4. TypeOK'
  BY <1>1, <1>3 DEF IInv, TypeOK, JobsTypeOK
<1>5. \A k \in Jobs : Posting(k)' = Posting(k)
  BY <1>1 DEF Posting
<1>6. posts'[j] + Cardinality(Posting(j)') <= Fetches(j)'
  <2>1. Fetches(j)' = Fetches(j) /\ Fetches(j) \in Nat
    BY <1>1, <1>2, <1>3, NumbersTyped DEF Fetches, IInv, JobRecord
  <2>2. Fetches(j)' >= Fetches(j)
    BY <2>1
  <2> QED
    BY <1>1, <1>4, <1>5, <2>2, AccountKept
<1>7. ASSUME NEW x \in Workers PROVE RunOK(x)'
  <2>1. run'[x] = run[x] /\ ~Spent(j)
    BY <1>1 DEF Spent
  <2>2. run[x].job = j /\ Holds(x, j) => j \in Overrun
    BY <1>1 DEF Working
  <2> QED
    BY <1>1, <1>3, <2>1, <2>2, OtherRun
<1>8. /\ job'[j].state # "failed" => job'[j].made < Attempts
      /\ job'[j].state # "completed"
  BY <1>2, <1>3
<1>9. ~Spent(j)
  BY <1>1 DEF Spent
<1> QED
  BY <1>1, <1>3, <1>4, <1>5, <1>6, <1>7, <1>8, <1>9, QueueKeeps

-----------------------------------------------------------------------------
LEMMA NextKeeps == IInv /\ [Next]_vars => IInv'
<1> SUFFICES ASSUME IInv, [Next]_vars PROVE IInv'
  OBVIOUS
<1>1. CASE UNCHANGED vars
  <2>1. TypeOK'
    BY <1>1 DEF vars, replayVars, ghosts, IInv, TypeOK, JobsTypeOK
  <2>2. RowsOfReplays' /\ OneEntryPerReplay'
    BY <1>1
    DEF vars, replayVars, IInv, RowsOfReplays, OneEntryPerReplay
  <2>3. \A k \in Jobs : Done(k) => Done(k)'
    BY <1>1 DEF vars, replayVars, ghosts, Done, Delivered
  <2> QED
    BY <1>1, <2>1, <2>2, <2>3, OutsideKeeps DEF vars, ghosts
<1>2. ASSUME NEW j \in Jobs, Fire(j) \/ QueueReplay(j) PROVE IInv'
  BY <1>2, AddKeeps DEF Fire, QueueReplay, replayVars, ghosts
<1>3. ASSUME NEW j \in Jobs, Replay(j) \/ LoseReplay(j) \/ StallJob(j)
      PROVE  IInv'
  BY <1>3, ReplayKeeps, LoseReplayKeeps, StallKeeps
<1>4. CASE SendTest \/ Toggle \/ RemoveEndpoint
  BY <1>4, SendTestKeeps, ToggleKeeps, RemoveEndpointKeeps
<1>5. ASSUME NEW w \in Workers, Work(w) PROVE IInv'
  BY <1>5, TakeKeeps, LookUpKeeps, PostKeeps, WriteKeeps, WriteOrphanKeeps,
     ReturnKeeps, ThrowKeeps, BuryKeeps, MarkKeeps
  DEF Work
<1>6. ASSUME NEW w \in Workers, DbError(w) \/ Crash(w) PROVE IInv'
  BY <1>6, DbErrorKeeps, CrashKeeps
<1> QED
  BY <1>1, <1>2, <1>3, <1>4, <1>5, <1>6 DEF Next

THEOREM Invariance == Spec => []IInv
BY InitIsOK, NextKeeps, PTL DEF Spec

\* The jobs, the runs and the log of the endpoint have their types.
THEOREM TypeCorrect == Spec => []TypeOK
<1>1. IInv => TypeOK
  BY DEF IInv
<1> QED BY <1>1, Invariance, PTL

\* However often a replay is tried and whoever writes its row, the fallback
\* of processWebhookJob (create when updateMany found no row) never gives the
\* tenant a second entry for it.
THEOREM ReplaysLoggedOnce == Spec => []OneEntryPerReplay
<1>1. IInv => OneEntryPerReplay
  BY DEF IInv
<1> QED BY <1>1, Invariance, PTL

\* Through refusals, crashes, lost locks and writes that throw after the
\* post, an event is posted at most once more than the queue's attempts.
THEOREM PostsAreBounded == Spec => []PostsBounded
<1>1. IInv => PostsBounded
  <2> SUFFICES ASSUME IInv, NEW j \in Jobs PROVE posts[j] <= Attempts + 1
    BY DEF PostsBounded
  <2>1. /\ Attempts \in Nat /\ job[j].made \in Nat /\ posts[j] \in Nat
        /\ job[j].made <= Attempts
        /\ Cardinality(Posting(j)) \in Nat
    BY NumbersTyped DEF IInv
  <2>2. posts[j] + Cardinality(Posting(j)) <= Fetches(j)
    BY DEF IInv, PostsFetched
  <2>3. job[j].state # "failed" => job[j].made + 1 <= Attempts
    BY <2>1 DEF IInv, AttemptsLeft
  <2>4. Fetches(j) <= Attempts + 1
    BY <2>1, <2>3 DEF Fetches
  <2> QED
    BY <2>1, <2>2, <2>4 DEF Fetches
<1> QED BY <1>1, Invariance, PTL

\* deadLetter marks rows of jobs that are still tried, but never a row while
\* no job of the endpoint has used up its attempts.
THEOREM DeadForCause == Spec => []MarkedForCause
<1>1. IInv => MarkedForCause
  BY DEF IInv
<1> QED BY <1>1, Invariance, PTL

\* While its lock protects it, a job that returned was logged as delivered,
\* and no dead letter takes that back from an ordinary one.
THEOREM CompletedWasDelivered == Spec => []CompletedIsDelivered
<1>1. IInv => CompletedIsDelivered
  BY DEF IInv
<1> QED BY <1>1, Invariance, PTL

\* A job that the queue holds to be completed or failed is posted no more:
\* the run that posts holds the job's lock, unless it has outlived it.
THEOREM EndedStaysQuiet == Spec => EndedIsQuiet
<1>1. IInv /\ [Next]_vars
        => [\A j \in Jobs \ Overrun : Ended(j) => posts'[j] = posts[j]]_vars
  <2> SUFFICES ASSUME IInv, Next, NEW j \in Jobs \ Overrun, Ended(j)
               PROVE  posts'[j] = posts[j]
    OBVIOUS
  <2>1. ASSUME NEW w \in Workers, Post(w)
        PROVE  posts'[j] = posts[j]
    <3>1. run[w].job \in Overrun \/ Holds(w, run[w].job)
      BY <2>1 DEF IInv, RunOK, Post, At
    <3>2. run[w].job # j
      BY <3>1 DEF Holds, Ended
    <3> QED
      BY <2>1, <3>2 DEF Post, IInv, TypeOK
  <2>2. ASSUME NEW w \in Workers,
               \/ \E i \in Jobs : Take(w, i)
               \/ LookUp(w) \/ WriteAccepted(w) \/ WriteRefused(w)
               \/ WriteOrphan(w) \/ Return(w) \/ Throw(w) \/ Bury(w)
               \/ Mark(w) \/ DbError(w) \/ Crash(w)
        PROVE  posts' = posts
    BY <2>2 DEF Take, LookUp, WriteAccepted, WriteRefused, WriteOrphan,
                Return, Throw, Bury, Mark, DbError, Crash, ghosts
  <2>3. ASSUME \/ \E i \in Jobs : \/ Fire(i) \/ Replay(i) \/ QueueReplay(i)
                                  \/ LoseReplay(i) \/ StallJob(i)
               \/ SendTest \/ Toggle \/ RemoveEndpoint
        PROVE  posts' = posts
    BY <2>3 DEF Fire, Replay, QueueReplay, LoseReplay, StallJob, SendTest,
                Toggle, RemoveEndpoint, ghosts
  <2> QED
    BY <2>1, <2>2, <2>3 DEF Next, Work
<1> QED
  BY <1>1, Invariance, PTL DEF Spec, EndedIsQuiet
=============================================================================
