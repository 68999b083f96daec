------------------------------ MODULE JobQueue ------------------------------
(***************************************************************************)
(* A BullMQ queue, as the workers of apps/backend use it (the library is   *)
(* not part of the repository).  A job is taken by one worker at a time,   *)
(* which holds its lock; a handler that returns completes the job, one     *)
(* that throws has it tried again until its attempts are used up.  When    *)
(* the lock is lost, because the worker stopped or was blocked for too     *)
(* long, the job is stalled: it goes back to the queue, and the second     *)
(* time it fails for good.  A worker that was only blocked goes on with    *)
(* the job, but what it reports to the queue is ignored.                   *)
(***************************************************************************)
EXTENDS Naturals, FiniteSets

CONSTANTS
  Jobs,      \* the jobs added to the queue
  Workers,   \* the concurrent runs of the handler, over all processes
  Attempts   \* defaultJobOptions.attempts

ASSUME WorkersAssumption == IsFiniteSet(Workers)
ASSUME AttemptsAssumption == Attempts \in Nat \ {0}

Nobody == "nobody"

ASSUME NobodyAssumption == Nobody \notin Workers

VARIABLE job  \* what Redis has of each job

\* made is attemptsMade; stalled says that the job has been stalled once.
JobRecord == [state   : {"none", "waiting", "active", "completed", "failed"},
              made    : 0..Attempts,
              stalled : BOOLEAN,
              holder  : Workers \cup {Nobody}]

JobsTypeOK == job \in [Jobs -> JobRecord]

JobsInit ==
  job = [j \in Jobs |-> [state |-> "none", made |-> 0,
                         stalled |-> FALSE, holder |-> Nobody]]

\* queue.add
Add(j) ==
  /\ job[j].state = "none"
  /\ job' = [job EXCEPT ![j].state = "waiting"]

\* A worker fetches the job and locks it.
Lock(w, j) ==
  /\ job[j].state = "waiting"
  /\ job' = [job EXCEPT ![j].state = "active", ![j].holder = w]

Holds(w, j) == job[j].state = "active" /\ job[j].holder = w

Ended(j) == job[j].state \in {"completed", "failed"}

\* The handler of w returns.
Complete(w, j) ==
  job' = IF Holds(w, j)
           THEN [job EXCEPT ![j].state = "completed", ![j].holder = Nobody]
           ELSE job

\* The throw that uses up the attempts: the worker is told by 'failed' then.
LastThrow(w, j) == Holds(w, j) /\ job[j].made + 1 >= Attempts

\* The handler of w throws.
Reject(w, j) ==
  job' = IF Holds(w, j)
           THEN [job EXCEPT
                   ![j].state = IF LastThrow(w, j) THEN "failed" ELSE "waiting",
                   ![j].made = @ + 1, ![j].holder = Nobody]
           ELSE job

\* The check for stalled jobs finds one without a living lock.
Stall(j) ==
  /\ job[j].state = "active"
  /\ job' = [job EXCEPT
               ![j].state = IF job[j].stalled THEN "failed" ELSE "waiting",
               ![j].made = IF job[j].stalled THEN @ + 1 ELSE @,
               ![j].stalled = TRUE, ![j].holder = Nobody]

-----------------------------------------------------------------------------
(* What the queue answers for.                                             *)

\* A job that has not failed has an attempt left.
AttemptsLeft ==
  \A j \in Jobs : job[j].state # "failed" => job[j].made < Attempts

\* How often the job was locked, at most: one of its runs is under way or was
\* completed, one may have been forgiven as a stall, and the others are
\* attempts made.
Fetches(j) ==
  job[j].made + (IF job[j].stalled THEN 1 ELSE 0)
    + (IF job[j].state \in {"active", "completed"} THEN 1 ELSE 0)
=============================================================================
