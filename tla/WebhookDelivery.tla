-------------------------- MODULE WebhookDelivery --------------------------
(***************************************************************************)
(* The webhooks of one endpoint: jobs of the webhook queue, which are      *)
(* posted up to five times, and the endpoint's delivery log, which every   *)
(* attempt writes to.  An ordinary job adds a row for each attempt; a      *)
(* replay fills in the row that it was asked for with.  The last failure   *)
(* of a job dead-letters the failed rows of the endpoint, not of the job.  *)
(*                                                                         *)
(* Every await of processWebhookJob and of deadLetter is a step; runs of   *)
(* jobs in Overrun may outlive their lock, as in NotificationDelivery.     *)
(* The jobs of other endpoints meet none of this state.                    *)
(***************************************************************************)
EXTENDS JobQueue, Sequences

CONSTANTS
  Overrun,   \* the jobs whose worker may be blocked, and go on without lock
  MaxTests,  \* bound: test deliveries that the tenant sends
  MaxFaults  \* bound: calls that fail and processes that stop

NoJob == "no job"
Test == "test"     \* the entries of the log that no job has written

Entries == Jobs \cup {Test}

ASSUME NamesAssumption == {NoJob, Test} \cap Jobs = {}
ASSUME BoundsAssumption == MaxTests \in Nat /\ MaxFaults \in Nat

VARIABLES
  endpoint,  \* isActive, or that the endpoint was removed
  replays,   \* the jobs that were asked for as a replay
  adding,    \* the replays whose row is there and whose job is not yet added
  run,       \* each worker's run: the await it is at, and what it knows
  rows,      \* the WebhookDelivery rows of each job, and of the tests
  posts,     \* how often each job was posted to the endpoint
  spared,    \* the jobs that were dropped because the endpoint was off
  buried,    \* the jobs that were added to dlq-webhookQueue
  faults     \* how many faults there were

replayVars == <<replays, adding>>
ghosts == <<posts, spared>>

vars == <<job, endpoint, replayVars, run, rows, ghosts, buried,
          faults>>

\* An answer other than 2xx, a timeout and an unreachable endpoint are refused.
Steps == {"idle", "lookup", "post", "accepted", "refused", "return", "throw",
          "bury", "mark"}

\* dead says whether deadLetteredAt is set.
Row == [status : {"PENDING", "DELIVERED", "FAILED"}, dead : BOOLEAN]

Run == [pc : Steps, job : Jobs \cup {NoJob}]

Idle == [pc |-> "idle", job |-> NoJob]

TypeOK ==
  /\ JobsTypeOK
  /\ endpoint \in {"active", "off", "removed"}
  /\ replays \subseteq Jobs
  /\ adding \subseteq replays
  /\ run \in [Workers -> Run]
  /\ rows \in [Entries -> Seq(Row)]
  /\ posts \in [Jobs -> Nat]
  /\ spared \subseteq Jobs
  /\ buried \subseteq Jobs
  /\ faults \in 0..MaxFaults

Init ==
  /\ JobsInit
  /\ endpoint = "active"
  /\ replays = {}
  /\ adding = {}
  /\ run = [w \in Workers |-> Idle]
  /\ rows = [e \in Entries |-> << >>]
  /\ posts = [j \in Jobs |-> 0]
  /\ spared = {}
  /\ buried = {}
  /\ faults = 0

-----------------------------------------------------------------------------
(* The tenant, and what queues jobs.                                       *)

NewRow(status) == [status |-> status, dead |-> FALSE]

Fault == faults < MaxFaults /\ faults' = faults + 1

\* The producers look for active endpoints before they add: by the time of
\* the add the endpoint may be anything.
Fire(j) ==
  /\ j \notin replays
  /\ Add(j)
  /\ UNCHANGED <<endpoint, replayVars, run, rows, ghosts, buried,
                 faults>>

\* replay, by the tenant or by Fauward staff, of any row of the log: the row
\* of the new delivery first, its job in a second call.
Replay(j) ==
  /\ job[j].state = "none" /\ j \notin replays
  /\ \E e \in Entries : rows[e] # << >>
  /\ rows' = [rows EXCEPT ![j] = <<NewRow("PENDING")>>]
  /\ replays' = replays \cup {j}
  /\ adding' = adding \cup {j}
  /\ UNCHANGED <<job, endpoint, run, ghosts, buried, faults>>

QueueReplay(j) ==
  /\ j \in adding
  /\ Add(j)
  /\ adding' = adding \ {j}
  /\ UNCHANGED <<endpoint, replays, run, rows, ghosts, buried, faults>>

\* The add fails, or the process stops: nobody adds the job later.
LoseReplay(j) ==
  /\ j \in adding
  /\ adding' = adding \ {j}
  /\ Fault
  /\ UNCHANGED <<job, endpoint, replays, run, rows, ghosts, buried>>

\* sendTest posts without the queue and logs the answer.
SendTest ==
  /\ endpoint # "removed"
  /\ Len(rows[Test]) < MaxTests
  /\ \E status \in {"DELIVERED", "FAILED"} :
       rows' = [rows EXCEPT ![Test] = Append(@, NewRow(status))]
  /\ UNCHANGED <<job, endpoint, replayVars, run, ghosts, buried,
                 faults>>

Toggle ==
  /\ endpoint # "removed"
  /\ endpoint' = IF endpoint = "active" THEN "off" ELSE "active"
  /\ UNCHANGED <<job, replayVars, run, rows, ghosts, buried, faults>>

\* The rows go with the endpoint, in one transaction.
RemoveEndpoint ==
  /\ endpoint # "removed"
  /\ endpoint' = "removed"
  /\ rows' = [e \in Entries |-> << >>]
  /\ UNCHANGED <<job, replayVars, run, ghosts, buried, faults>>

-----------------------------------------------------------------------------
(* The worker.                                                             *)

At(w, pc) == run[w].pc = pc
Goto(w, pc) == run' = [run EXCEPT ![w].pc = pc]

Take(w, j) ==
  /\ At(w, "idle")
  /\ Lock(w, j)
  /\ run' = [run EXCEPT ![w] = [pc |-> "lookup", job |-> j]]
  /\ UNCHANGED <<endpoint, replayVars, rows, ghosts, buried, faults>>

\* An endpoint that is off or gone ends the job, as if it were done.
LookUp(w) ==
  /\ At(w, "lookup")
  /\ \/ endpoint = "active" /\ Goto(w, "post") /\ UNCHANGED spared
     \/ /\ endpoint # "active"
        /\ Goto(w, "return")
        /\ spared' = spared \cup {run[w].job}
  /\ UNCHANGED <<job, endpoint, replayVars, rows, posts, buried,
                 faults>>

\* fetch, with its timeout of ten seconds
Post(w) ==
  /\ At(w, "post")
  /\ posts' = [posts EXCEPT ![run[w].job] = @ + 1]
  /\ Goto(w, "accepted") \/ Goto(w, "refused")
  /\ UNCHANGED <<job, endpoint, replayVars, rows, spared, buried,
                 faults>>

\* Mutant of Logged: only a row that is still PENDING is filled in.
LoggedOnce(j, status) ==
  IF j \in replays /\ rows[j][1].status = "PENDING"
    THEN [rows EXCEPT ![j][1].status = status]
    ELSE [rows EXCEPT ![j] = Append(@, NewRow(status))]

\* A replay fills in its row, and leaves deadLetteredAt as it is.
Logged(j, status) ==
  IF j \in replays THEN [rows EXCEPT ![j][1].status = status]
                   ELSE [rows EXCEPT ![j] = Append(@, NewRow(status))]

\* Mutant of WriteRefused: a refused post is made again at once.
WriteRefusedAgain(w) ==
  /\ At(w, "refused")
  /\ endpoint # "removed"
  /\ rows' = Logged(run[w].job, "FAILED")
  /\ Goto(w, "post")
  /\ UNCHANGED <<job, endpoint, replayVars, ghosts, buried, faults>>

\* The row of a failed attempt, and then its error.
WriteRefused(w) ==
  /\ At(w, "refused")
  /\ endpoint # "removed"
  /\ rows' = Logged(run[w].job, "FAILED")
  /\ Goto(w, "throw")
  /\ UNCHANGED <<job, endpoint, replayVars, ghosts, buried, faults>>

WriteAccepted(w) ==
  /\ At(w, "accepted")
  /\ endpoint # "removed"
  /\ rows' = Logged(run[w].job, "DELIVERED")
  /\ Goto(w, "return")
  /\ UNCHANGED <<job, endpoint, replayVars, ghosts, buried, faults>>

\* Without the endpoint a replay finds no row to fill in, and a new row is
\* against its foreign key: the write throws.
WriteOrphan(w) ==
  /\ run[w].pc \in {"accepted", "refused"}
  /\ endpoint = "removed"
  /\ Goto(w, "throw")
  /\ UNCHANGED <<job, endpoint, replayVars, rows, ghosts, buried,
                 faults>>

Return(w) ==
  /\ At(w, "return")
  /\ Complete(w, run[w].job)
  /\ run' = [run EXCEPT ![w] = Idle]
  /\ UNCHANGED <<endpoint, replayVars, rows, ghosts, buried, faults>>

\* Mutant of Throw: the failed event is taken for the end of the job.
ThrowForGood(w) ==
  /\ At(w, "throw")
  /\ Reject(w, run[w].job)
  /\ IF Holds(w, run[w].job) THEN Goto(w, "bury")
                             ELSE run' = [run EXCEPT ![w] = Idle]
  /\ UNCHANGED <<endpoint, replayVars, rows, ghosts, buried, faults>>

\* The queue tries the job again, or its last failure is dead-lettered.
Throw(w) ==
  /\ At(w, "throw")
  /\ Reject(w, run[w].job)
  /\ IF LastThrow(w, run[w].job) THEN Goto(w, "bury")
                                 ELSE run' = [run EXCEPT ![w] = Idle]
  /\ UNCHANGED <<endpoint, replayVars, rows, ghosts, buried, faults>>

\* dlqWebhookQueue.add
Bury(w) ==
  /\ At(w, "bury")
  /\ buried' = buried \cup {run[w].job}
  /\ Goto(w, "mark")
  /\ UNCHANGED <<job, endpoint, replayVars, rows, ghosts, faults>>

\* Mutant of Marked: the rows of the endpoint, whatever became of them.
MarkedAnyway(row) == [row EXCEPT !.dead = TRUE]

Marked(row) == [row EXCEPT !.dead = @ \/ row.status = "FAILED"]

\* updateMany of the endpoint's failed rows, whichever job they are of.
Mark(w) ==
  /\ At(w, "mark")
  /\ rows' = [e \in Entries |-> [i \in DOMAIN rows[e] |-> Marked(rows[e][i])]]
  /\ run' = [run EXCEPT ![w] = Idle]
  /\ UNCHANGED <<job, endpoint, replayVars, ghosts, buried, faults>>

-----------------------------------------------------------------------------
\* A database or Redis call throws.  The row of an accepted post may be there
\* for all that; a dead letter that cannot be added marks no row.
DbError(w) ==
  /\ \/ /\ run[w].pc \in {"lookup", "accepted", "refused"}
        /\ Goto(w, "throw")
        /\ UNCHANGED rows
     \/ /\ At(w, "accepted") /\ endpoint # "removed"
        /\ rows' = Logged(run[w].job, "DELIVERED")
        /\ Goto(w, "throw")
     \/ /\ run[w].pc \in {"bury", "mark"}
        /\ run' = [run EXCEPT ![w] = Idle]
        /\ UNCHANGED rows
  /\ Fault
  /\ UNCHANGED <<job, endpoint, replayVars, ghosts, buried>>

Crash(w) ==
  /\ ~At(w, "idle")
  /\ run' = [run EXCEPT ![w] = Idle]
  /\ Fault
  /\ UNCHANGED <<job, endpoint, replayVars, rows, ghosts, buried>>

Working(w, j) == Holds(w, j) /\ run[w].job = j

StallJob(j) ==
  /\ Stall(j)
  /\ j \in Overrun \/ \A w \in Workers : ~Working(w, j)
  /\ UNCHANGED <<endpoint, replayVars, run, rows, ghosts, buried,
                 faults>>

Work(w) ==
  \/ \E j \in Jobs : Take(w, j)
  \/ LookUp(w) \/ Post(w)
  \/ WriteAccepted(w) \/ WriteRefused(w) \/ WriteOrphan(w)
  \/ Return(w) \/ Throw(w) \/ Bury(w) \/ Mark(w)

Next ==
  \/ \E j \in Jobs : \/ Fire(j) \/ Replay(j) \/ QueueReplay(j)
                     \/ LoseReplay(j) \/ StallJob(j)
  \/ SendTest \/ Toggle \/ RemoveEndpoint
  \/ \E w \in Workers : Work(w) \/ DbError(w) \/ Crash(w)

Spec == Init /\ [][Next]_vars

-----------------------------------------------------------------------------
\* A replay has one entry in the tenant's log, however often it is tried and
\* whoever writes it, the removal of the endpoint under it included.
OneEntryPerReplay == \A j \in replays : Len(rows[j]) <= 1

\* An event reaches the endpoint under its id at most once more than the
\* queue's attempts, although crashes, lost locks and failed writes each post
\* it again: a stall is forgiven once.
PostsBounded == \A j \in Jobs : posts[j] <= Attempts + 1

\* The last attempt that the queue allows the job has failed.
Spent(j) == job[j].state = "failed" /\ job[j].made = Attempts

\* A row is dead-lettered only when some job of the endpoint has used up its
\* attempts and was added to the dead letter queue: the row's own job or, as
\* the code has it, another.
MarkedForCause ==
  (\E e \in Entries : \E i \in DOMAIN rows[e] : rows[e][i].dead)
    => \E j \in buried : Spent(j)

Delivered(j) ==
  \E i \in DOMAIN rows[j] :
    rows[j][i].status = "DELIVERED" /\ (j \notin replays => ~rows[j][i].dead)

\* What there is to be said of a job that is done.
Done(j) == j \notin spared /\ endpoint # "removed" => Delivered(j)

\* What the queue holds to be done is logged as delivered, and an ordinary
\* delivery never counts as dead, unless the endpoint was off or is gone.
CompletedIsDelivered ==
  \A j \in Jobs \ Overrun : job[j].state = "completed" => Done(j)

\* A job that has ended is posted no more, unless a run of it goes on without
\* the lock: what the tenant is told to be dead or delivered stays so.
EndedIsQuiet ==
  [][\A j \in Jobs \ Overrun : Ended(j) => posts'[j] = posts[j]]_vars

-----------------------------------------------------------------------------
(* The inductive invariant.                                                *)

\* The runs that can still post the job.
Posting(j) ==
  {w \in Workers : run[w].job = j /\ run[w].pc \in {"lookup", "post"}}

\* Each fetch is the reason for one post.
PostsFetched ==
  \A j \in Jobs : posts[j] + Cardinality(Posting(j)) <= Fetches(j)

\* What a run knows of its job: only one of a job that can overrun goes on
\* without the lock, and a dead letter is of a job that has used up its
\* attempts.
RunOK(w) ==
  LET j == run[w].job IN
  /\ At(w, "idle") <=> j = NoJob
  /\ run[w].pc \notin {"idle", "bury", "mark"} => j \in Overrun \/ Holds(w, j)
  /\ At(w, "return") => j \in Overrun \/ Done(j)
  /\ run[w].pc \in {"bury", "mark"} => Spent(j)
  /\ At(w, "mark") => j \in buried

\* The row of a replay is there to be filled in.
RowsOfReplays ==
  \A j \in replays : endpoint # "removed" => rows[j] # << >>

IInv ==
  /\ TypeOK
  /\ AttemptsLeft
  /\ PostsFetched
  /\ \A w \in Workers : RunOK(w)
  /\ RowsOfReplays
  /\ OneEntryPerReplay
  /\ MarkedForCause
  /\ CompletedIsDelivered
============================================================================
