------------------------ MODULE NotificationDelivery ------------------------
(***************************************************************************)
(* The notification worker: a job of the notification queue becomes one    *)
(* NotificationLog row, at most one email or text per attempt, and one     *)
(* unit of the tenant's usage.                                             *)
(*                                                                         *)
(* Every await of processNotificationJob is a step.  A run may crash at    *)
(* any of them; the run of a job in overrun may also outlive its lock, so  *)
(* that two runs process that job.                                         *)
(***************************************************************************)
EXTENDS JobQueue

CONSTANT DailyLimit  \* texts a day that the tenant's plan allows

\* email and sms are a tenant's; staff is an email to Fauward staff, which no
\* tenant is billed for; unaddressed is an email job without `to`; orphan has
\* neither a tenant nor a staff recipient.
JobKinds == {"email", "sms", "staff", "unaddressed", "orphan"}

ASSUME LimitAssumption == DailyLimit \in Nat

NoJob == "no job"

ASSUME NoJobAssumption == NoJob \notin Jobs

VARIABLES
  configured, \* the channels that have a provider, fixed at start
  overrun,   \* the jobs whose worker may be blocked, and go on without lock
  kind,      \* what each job asks for, fixed when it is queued
  run,       \* each worker's run: the await it is at, and its job
  log,       \* the status of the job's NotificationLog row
  accepted,  \* how often the provider took the job's message
  quota,     \* the Redis counter of the tenant's texts of the day
  usage,     \* what the job has added to emailsSent or smsSent
  buried     \* how often the job was added to dlq-notificationQueue

fixed == <<configured, overrun, kind>>

vars == <<fixed, job, run, log, accepted, quota, usage, buried>>

Steps == {"idle", "log", "send", "text", "flip", "count", "settle", "return",
          "fail", "throw", "bury"}

LogStatus == {"none", "QUEUED", "SENT", "SKIPPED", "QUOTA_EXCEEDED", "FAILED"}

\* outcome is what `settle` will write.
Run == [pc : Steps, job : Jobs \cup {NoJob}, outcome : LogStatus]

Channel(j) == IF kind[j] = "sms" THEN "sms" ELSE "email"

Idle == [pc |-> "idle", job |-> NoJob, outcome |-> "none"]

TypeOK ==
  /\ JobsTypeOK
  /\ configured \subseteq {"email", "sms"}
  /\ overrun \subseteq Jobs
  /\ kind \in [Jobs -> JobKinds]
  /\ run \in [Workers -> Run]
  /\ log \in [Jobs -> LogStatus]
  /\ accepted \in [Jobs -> Nat]
  /\ quota \in Nat
  /\ usage \in [Jobs -> Nat]
  /\ buried \in [Jobs -> Nat]

Init ==
  /\ JobsInit
  /\ configured \in SUBSET {"email", "sms"}
  /\ overrun \in SUBSET Jobs
  /\ kind \in [Jobs -> JobKinds]
  /\ run = [w \in Workers |-> Idle]
  /\ log = [j \in Jobs |-> "none"]
  /\ accepted = [j \in Jobs |-> 0]
  /\ quota = 0
  /\ usage = [j \in Jobs |-> 0]
  /\ buried = [j \in Jobs |-> 0]

-----------------------------------------------------------------------------
At(w, pc) == run[w].pc = pc
Goto(w, pc) == run' = [run EXCEPT ![w].pc = pc]

\* Mutant of SettleAs: the outcome is not looked at.
SettleAsSent(w, outcome) == outcome \in LogStatus /\ Goto(w, "flip")

SettleAs(w, outcome) ==
  run' = [run EXCEPT ![w].pc = "settle", ![w].outcome = outcome]

\* The queue is told that the handler has returned, or has thrown.  The failed
\* event of the last attempt adds the job to the dead letter queue, in a step
\* of its own.
Returns(w) == Complete(w, run[w].job) /\ run' = [run EXCEPT ![w] = Idle]

Throws(w) ==
  /\ Reject(w, run[w].job)
  /\ IF LastThrow(w, run[w].job) THEN Goto(w, "bury")
                                 ELSE run' = [run EXCEPT ![w] = Idle]

Enqueue(j) ==
  /\ Add(j)
  /\ UNCHANGED <<fixed, run, log, accepted, quota, usage, buried>>

Take(w, j) ==
  /\ At(w, "idle")
  /\ Lock(w, j)
  /\ run' = [run EXCEPT ![w] = [pc |-> "log", job |-> j, outcome |-> "none"]]
  /\ UNCHANGED <<fixed, log, accepted, quota, usage, buried>>

\* A job for nobody is dropped before any row is written.
Drop(w) ==
  /\ At(w, "log")
  /\ kind[run[w].job] = "orphan"
  /\ Goto(w, "return")
  /\ UNCHANGED <<fixed, job, log, accepted, quota, usage, buried>>

\* Mutant of WriteLog: the update branch of the upsert sets QUEUED again.
WriteLogAfresh(w) ==
  /\ At(w, "log")
  /\ kind[run[w].job] # "orphan"
  /\ log' = [log EXCEPT ![run[w].job] = "QUEUED"]
  /\ Goto(w, "send")
  /\ UNCHANGED <<fixed, job, accepted, quota, usage, buried>>

\* upsert by jobId: a retry finds the row of the first attempt, and ends here
\* when that is SENT.
WriteLog(w) ==
  LET j == run[w].job
  IN  /\ At(w, "log")
      /\ kind[j] # "orphan"
      /\ log' = [log EXCEPT ![j] = IF @ = "none" THEN "QUEUED" ELSE @]
      /\ IF log[j] = "SENT" THEN Goto(w, "return") ELSE Goto(w, "send")
      /\ UNCHANGED <<fixed, job, accepted, quota, usage, buried>>

\* Mutant of CallProvider: what was not answered is sent again at once.
CallProviderAgain(w) ==
  /\ accepted' = [accepted EXCEPT ![run[w].job] = @ + 1]
  /\ Goto(w, "flip") \/ UNCHANGED run
  /\ UNCHANGED <<job, log, usage, buried>>

\* The provider takes the message and answers; refuses it; or takes it and the
\* answer is lost.  The last two throw.
CallProvider(w) ==
  /\ \/ /\ accepted' = [accepted EXCEPT ![run[w].job] = @ + 1]
        /\ Goto(w, "flip") \/ Goto(w, "fail")
     \/ UNCHANGED accepted /\ Goto(w, "fail")
  /\ UNCHANGED <<job, log, usage, buried>>

\* Mutant of SendEmail: without a recipient nothing is ever answered.
SendEmailHangs(w) ==
  LET j == run[w].job
  IN  /\ At(w, "send")
      /\ Channel(j) = "email"
      /\ kind[j] # "unaddressed"
      /\ IF "email" \in configured
           THEN CallProvider(w)
           ELSE /\ SettleAs(w, "SKIPPED")
                /\ UNCHANGED <<job, log, accepted, usage, buried>>
      /\ UNCHANGED <<fixed, quota>>

\* deliverEmail
SendEmail(w) ==
  LET j == run[w].job
  IN  /\ At(w, "send")
      /\ Channel(j) = "email"
      /\ \/ /\ kind[j] = "unaddressed"
            /\ Goto(w, "fail")
            /\ UNCHANGED <<job, log, accepted, usage, buried>>
         \/ /\ kind[j] # "unaddressed" /\ "email" \notin configured
            /\ SettleAs(w, "SKIPPED")
            /\ UNCHANGED <<job, log, accepted, usage, buried>>
         \/ /\ kind[j] # "unaddressed" /\ "email" \in configured
            /\ CallProvider(w)
      /\ UNCHANGED <<fixed, quota>>

\* Mutant of ReserveSms: the counter is compared before it goes up.
ReserveSmsLate(w) ==
  /\ At(w, "send")
  /\ Channel(run[w].job) = "sms"
  /\ "sms" \in configured
  /\ quota' = quota + 1
  /\ IF quota > DailyLimit THEN SettleAs(w, "QUOTA_EXCEEDED")
                           ELSE Goto(w, "text")
  /\ UNCHANGED <<fixed, job, log, accepted, usage, buried>>

\* deliverSms up to the quota: every attempt takes a number.
ReserveSms(w) ==
  /\ At(w, "send")
  /\ Channel(run[w].job) = "sms"
  /\ \/ /\ "sms" \notin configured
        /\ SettleAs(w, "SKIPPED")
        /\ UNCHANGED quota
     \/ /\ "sms" \in configured
        /\ quota' = quota + 1
        /\ IF quota + 1 > DailyLimit THEN SettleAs(w, "QUOTA_EXCEEDED")
                                     ELSE Goto(w, "text")
  /\ UNCHANGED <<fixed, job, log, accepted, usage, buried>>

SendSms(w) ==
  /\ At(w, "text")
  /\ CallProvider(w)
  /\ UNCHANGED <<fixed, quota>>

\* SKIPPED or QUOTA_EXCEEDED is written, and the job is done.
Settle(w) ==
  /\ At(w, "settle")
  /\ log' = [log EXCEPT ![run[w].job] = run[w].outcome]
  /\ Goto(w, "return")
  /\ UNCHANGED <<fixed, job, accepted, quota, usage, buried>>

\* The catch block writes FAILED, whatever the row says by now.
Fail(w) ==
  /\ At(w, "fail")
  /\ log' = [log EXCEPT ![run[w].job] = "FAILED"]
  /\ Goto(w, "throw")
  /\ UNCHANGED <<fixed, job, accepted, quota, usage, buried>>

\* It looks at the failure rate, which only reads, and throws, be it the error
\* of the delivery or one of its own.
ThrowAgain(w) ==
  /\ At(w, "throw")
  /\ Throws(w)
  /\ UNCHANGED <<fixed, log, accepted, quota, usage, buried>>

\* updateMany where status is not SENT; the run that changes the row counts,
\* unless the message was to Fauward staff.
Flip(w) ==
  LET j == run[w].job
  IN  /\ At(w, "flip")
      /\ log' = [log EXCEPT ![j] = "SENT"]
      /\ IF log[j] # "SENT" /\ kind[j] # "staff"
           THEN Goto(w, "count")
           ELSE Goto(w, "return")
      /\ UNCHANGED <<fixed, job, accepted, quota, usage, buried>>

\* usageRecord.upsert
Count(w) ==
  /\ At(w, "count")
  /\ usage' = [usage EXCEPT ![run[w].job] = @ + 1]
  /\ Goto(w, "return")
  /\ UNCHANGED <<fixed, job, log, accepted, quota, buried>>

Return(w) ==
  /\ At(w, "return")
  /\ Returns(w)
  /\ UNCHANGED <<fixed, log, accepted, quota, usage, buried>>

\* dlqNotificationQueue.add
Bury(w) ==
  /\ At(w, "bury")
  /\ buried' = [buried EXCEPT ![run[w].job] = @ + 1]
  /\ run' = [run EXCEPT ![w] = Idle]
  /\ UNCHANGED <<fixed, job, log, accepted, quota, usage>>

-----------------------------------------------------------------------------
\* A database or Redis call throws: inside the try block of the delivery only
\* those of the SMS quota, before or after the counter has gone up.  When
\* dlqNotificationQueue.add throws, that is only logged.
DbError(w) ==
  /\ \/ /\ run[w].pc \in {"log", "settle", "flip", "count", "fail"}
        /\ Throws(w)
        /\ UNCHANGED quota
     \/ /\ At(w, "send") /\ Channel(run[w].job) = "sms"
        /\ "sms" \in configured
        /\ Goto(w, "fail")
        /\ quota' \in {quota, quota + 1}
        /\ UNCHANGED job
     \/ /\ At(w, "bury")
        /\ run' = [run EXCEPT ![w] = Idle]
        /\ UNCHANGED <<job, quota>>
  /\ UNCHANGED <<fixed, log, accepted, usage, buried>>

\* The process of w stops and is started again.
Crash(w) ==
  /\ ~At(w, "idle")
  /\ run' = [run EXCEPT ![w] = Idle]
  /\ UNCHANGED <<fixed, job, log, accepted, quota, usage, buried>>

Working(w, j) == Holds(w, j) /\ run[w].job = j

StallJob(j) ==
  /\ Stall(j)
  /\ j \in overrun \/ \A w \in Workers : ~Working(w, j)
  /\ UNCHANGED <<fixed, run, log, accepted, quota, usage, buried>>

Work(w) ==
  \/ \E j \in Jobs : Take(w, j)
  \/ Drop(w) \/ WriteLog(w)
  \/ SendEmail(w) \/ ReserveSms(w) \/ SendSms(w)
  \/ Settle(w) \/ Fail(w) \/ ThrowAgain(w) \/ Flip(w) \/ Count(w)
  \/ Return(w) \/ Bury(w)

Next ==
  \/ \E j \in Jobs : Enqueue(j) \/ StallJob(j)
  \/ \E w \in Workers : Work(w) \/ DbError(w) \/ Crash(w)

Spec == Init /\ [][Next]_vars

\* BullMQ runs the workers and the check for stalled jobs all the time.
Fairness ==
  /\ \A w \in Workers : WF_vars(Work(w))
  /\ \A j \in Jobs : WF_vars(StallJob(j))

FairSpec == Spec /\ Fairness
-----------------------------------------------------------------------------
\* No usage without a message that the provider took, whatever is retried,
\* skipped or run twice.
UsageBacked == \A j \in Jobs : usage[j] <= accepted[j]

\* Unless a worker outlives its lock, a job is counted once, although it may
\* be tried again at any point: ACC-L19-1, retries don't double count.
CountedOnce == \A j \in Jobs \ overrun : usage[j] <= 1

\* The texts that the provider has taken, numbered within their job.
Texts ==
  UNION {{j} \X (1..accepted[j]) : j \in {i \in Jobs : kind[i] = "sms"}}

\* The texts of a day stay within the plan, however many workers send at once
\* and however often one is tried.
QuotaHeld == Cardinality(Texts) <= DailyLimit

\* A row that says SENT goes on saying so: what a later attempt meets cannot
\* make a message that went out look as if it had failed.
SentStays ==
  [][\A j \in Jobs \ overrun : log[j] = "SENT" => log'[j] = "SENT"]_vars

\* What the queue holds to be done has an outcome in the log.
CompletedIsSettled ==
  \A j \in Jobs \ overrun :
    job[j].state = "completed" /\ kind[j] # "orphan"
      => log[j] \in {"SENT", "SKIPPED", "QUOTA_EXCEEDED"}

\* A job in the dead letter queue is there once and is never tried again.
BuriedOnce ==
  \A j \in Jobs : buried[j] <= (IF job[j].state = "failed" THEN 1 ELSE 0)

\* A recipient gets a message at most once more than the queue's attempts,
\* although lost answers, crashes and lost locks each have it sent again: a
\* stall is forgiven once.
MessagesBounded == \A j \in Jobs : accepted[j] <= Attempts + 1

\* Every job that is queued comes to an end: failures, crashes and stalls use
\* up what the queue allows them.
JobsEnd == \A j \in Jobs : job[j].state = "waiting" ~> Ended(j)

-----------------------------------------------------------------------------
(* The inductive invariant.                                                *)

\* What a run may rely on at each await when nobody else has its job: it holds
\* the job, a row that it has yet to deliver for is not SENT, a row that it
\* has flipped is not counted, a row that it is done with is settled.
AloneOK(w, j) ==
  /\ Holds(w, j)
  /\ run[w].pc \in {"send", "text", "flip", "settle", "fail"}
       => log[j] # "SENT"
  /\ run[w].pc = "count" => log[j] = "SENT" /\ usage[j] = 0
  /\ run[w].pc = "return" /\ kind[j] # "orphan"
       => log[j] \in {"SENT", "SKIPPED", "QUOTA_EXCEEDED"}

RunOK(w) ==
  /\ ~At(w, "idle") => run[w].job \in Jobs
  /\ At(w, "settle") => run[w].outcome \in {"SKIPPED", "QUOTA_EXCEEDED"}
  /\ run[w].pc \notin {"idle", "bury"} /\ run[w].job \notin overrun
       => AloneOK(w, run[w].job)

RunsOK == \A w \in Workers : RunOK(w)

\* A counted row is SENT, so that no later run comes to count it.
CountedIsSent ==
  \A j \in Jobs \ overrun : usage[j] > 0 => log[j] = "SENT"

\* A run that has a job to bury is the only one, and the job is buried once.
BuryOK ==
  \A w \in Workers :
    At(w, "bury") =>
      /\ job[run[w].job].state = "failed"
      /\ buried[run[w].job] = 0
      /\ \A v \in Workers \ {w} :
           At(v, "bury") => run[v].job # run[w].job

\* The runs whose message is accepted and not counted yet.
Uncounted(j) ==
  {w \in Workers : run[w].job = j /\ run[w].pc \in {"flip", "count"}}

EachBacked ==
  \A j \in Jobs : usage[j] + Cardinality(Uncounted(j)) <= accepted[j]

\* The runs that have their number and have not sent the text yet.
Reserved == {w \in Workers : At(w, "text")}

\* A number covers one text: one that was taken, or one still to be sent.
NumbersCover ==
  /\ IsFiniteSet(Texts)
  /\ Cardinality(Texts) + Cardinality(Reserved) <= quota
  /\ Cardinality(Texts) + Cardinality(Reserved) <= DailyLimit

IInv ==
  /\ TypeOK
  /\ AttemptsLeft
  /\ RunsOK
  /\ CountedIsSent
  /\ CountedOnce
  /\ CompletedIsSettled
  /\ BuryOK
  /\ BuriedOnce
  /\ EachBacked

QuotaIInv == IInv /\ NumbersCover

\* The runs that can still call the provider.
Calling(j) ==
  {w \in Workers : run[w].job = j /\ run[w].pc \in {"log", "send", "text"}}

\* Each fetch of the job is the reason for one message.
MessagesFetched ==
  \A j \in Jobs : accepted[j] + Cardinality(Calling(j)) <= Fetches(j)

MessagesIInv == IInv /\ MessagesFetched
=============================================================================
