--------------------- MODULE NotificationDelivery_proofs ---------------------
(***************************************************************************)
(* Proofs about the notification worker, for any number of jobs, workers   *)
(* and attempts.  IInv of NotificationDelivery is inductive; the properties *)
(* are read off it.  The steps are taken action by action: the first facts *)
(* of each lemma say what the step does to the runs, the others prove one  *)
(* conjunct of IInv each.                                                  *)
(***************************************************************************)
EXTENDS NotificationDelivery, FiniteSetTheorems, TLAPS

\* A step of w leaves the other runs alone.
OthersKept(w) == \A v \in Workers \ {w} : run'[v] = run[v]

\* A run that ends.
LEMMA IdleFacts ==
  ASSUME TypeOK, NEW w \in Workers, run' = [run EXCEPT ![w] = Idle]
  PROVE  /\ run' \in [Workers -> Run]
         /\ OthersKept(w)
         /\ run'[w] = Idle
BY DEF TypeOK, OthersKept, Run, Idle, Steps, LogStatus

\* What BullMQ makes of a handler that throws.
LEMMA RejectFacts ==
  ASSUME TypeOK, AttemptsLeft, NEW w \in Workers, NEW j \in Jobs, Reject(w, j)
  PROVE  /\ JobsTypeOK' /\ AttemptsLeft'
         /\ \A i \in Jobs \ {j} : job'[i] = job[i]
         /\ ~Holds(w, j) => job' = job
         /\ Holds(w, j) /\ ~LastThrow(w, j) => job'[j].state = "waiting"
         /\ LastThrow(w, j) => job'[j].state = "failed"
<1>1. CASE Holds(w, j)
  <2>1. /\ job[j].made \in 0..Attempts - 1
        /\ job[j].made + 1 \in 0..Attempts
    BY <1>1, AttemptsAssumption
       DEF TypeOK, JobsTypeOK, JobRecord, AttemptsLeft, Holds, Ended
  <2>2. job' = [job EXCEPT
                  ![j].state = IF LastThrow(w, j) THEN "failed" ELSE "waiting",
                  ![j].made = @ + 1, ![j].holder = Nobody]
    BY <1>1 DEF Reject
  <2>3. JobsTypeOK'
    BY <2>1, <2>2 DEF TypeOK, JobsTypeOK, JobRecord
  <2>4. \A i \in Jobs \ {j} : job'[i] = job[i]
    BY <2>2 DEF TypeOK, JobsTypeOK
  <2>5. /\ job'[j].made = job[j].made + 1
        /\ job'[j].state = IF LastThrow(w, j) THEN "failed" ELSE "waiting"
    BY <2>2 DEF TypeOK, JobsTypeOK, JobRecord
  <2>6. ~LastThrow(w, j) => job'[j].made < Attempts
    BY <1>1, <2>1, <2>5, AttemptsAssumption DEF LastThrow
  <2>7. AttemptsLeft'
    BY <2>4, <2>5, <2>6 DEF AttemptsLeft
  <2> QED
    BY <1>1, <2>3, <2>4, <2>5, <2>7 DEF LastThrow
<1>2. CASE ~Holds(w, j)
  BY <1>2 DEF Reject, TypeOK, JobsTypeOK, AttemptsLeft, LastThrow
<1> QED
  BY <1>1, <1>2

\* A run that throws buries its job when that was the last attempt, and ends
\* otherwise.
LEMMA ThrowsFacts ==
  ASSUME TypeOK, NEW w \in Workers, Throws(w)
  PROVE  /\ run' \in [Workers -> Run]
         /\ OthersKept(w)
         /\ Reject(w, run[w].job)
         /\ LastThrow(w, run[w].job) =>
               run'[w].pc = "bury" /\ run'[w].job = run[w].job
         /\ ~LastThrow(w, run[w].job) => run'[w] = Idle
<1>1. CASE LastThrow(w, run[w].job)
  BY <1>1 DEF Throws, Steps, TypeOK, Goto, OthersKept, Run
<1>2. CASE ~LastThrow(w, run[w].job)
  BY <1>2, IdleFacts DEF Throws
<1> QED
  BY <1>1, <1>2

-----------------------------------------------------------------------------
(* Facts that several steps share.                                         *)

\* A step that starts no burial and leaves the jobs alone keeps BuryOK.
LEMMA BuryKept ==
  ASSUME BuryOK, NEW w \in Workers, OthersKept(w),
         run'[w].pc # "bury", UNCHANGED <<job, buried>>
  PROVE  BuryOK'
BY DEF BuryOK, OthersKept, At

LEMMA UncountedIsFinite ==
  ASSUME NEW j \in Jobs
  PROVE  IsFiniteSet(Uncounted(j)) /\ Cardinality(Uncounted(j)) \in Nat
<1>1. Uncounted(j) \subseteq Workers
  BY DEF Uncounted
<1>2. IsFiniteSet(Uncounted(j))
  BY <1>1, FS_Subset, WorkersAssumption
<1> QED
  BY <1>2, FS_CardinalityType

\* A step after which w has nothing uncounted that it had not before.
LEMMA BackedKept ==
  ASSUME IInv, NEW w \in Workers, OthersKept(w), UNCHANGED <<usage, accepted>>,
         run'[w].pc \in {"flip", "count"}
           => run[w].pc \in {"flip", "count"} /\ run'[w].job = run[w].job
  PROVE  EachBacked'
<1> SUFFICES ASSUME NEW j \in Jobs
             PROVE  usage[j] + Cardinality(Uncounted(j)') <= accepted[j]
  BY DEF EachBacked
<1>1. Uncounted(j)' \subseteq Uncounted(j)
  BY DEF Uncounted, OthersKept
<1>2. Cardinality(Uncounted(j)') <= Cardinality(Uncounted(j))
  BY <1>1, UncountedIsFinite, FS_Subset
<1>3. Cardinality(Uncounted(j)') \in Nat
  BY <1>1, UncountedIsFinite, FS_Subset, FS_CardinalityType
<1>4. usage[j] + Cardinality(Uncounted(j)) <= accepted[j]
  BY DEF IInv, EachBacked
<1> QED
  BY <1>2, <1>3, <1>4, UncountedIsFinite DEF IInv, TypeOK

\* A message that the provider has taken makes room for its count.
LEMMA BackedBySend ==
  ASSUME IInv, NEW w \in Workers, run[w].job \in Jobs,
         run[w].pc \in {"send", "text"}, CallProvider(w), OthersKept(w),
         run'[w].pc \in {"flip", "fail"}, run'[w].job = run[w].job
  PROVE  EachBacked'
<1>1. CASE UNCHANGED accepted /\ Goto(w, "fail")
  <2>1. run'[w].pc = "fail"
    BY <1>1 DEF IInv, TypeOK, Goto, Run
  <2> QED
    BY <1>1, <2>1, BackedKept DEF CallProvider
<1>2. CASE accepted' = [accepted EXCEPT ![run[w].job] = @ + 1]
  <2> SUFFICES ASSUME NEW j \in Jobs
               PROVE  usage[j] + Cardinality(Uncounted(j)') <= accepted'[j]
    BY DEF EachBacked, CallProvider
  <2>1. usage[j] + Cardinality(Uncounted(j)) <= accepted[j]
    BY DEF IInv, EachBacked
  <2>2. CASE j = run[w].job
    <3>1. Uncounted(j)' \subseteq Uncounted(j) \cup {w}
      BY DEF Uncounted, OthersKept
    <3>2. w \notin Uncounted(j)
      BY DEF Uncounted
    <3>3. /\ IsFiniteSet(Uncounted(j) \cup {w})
          /\ Cardinality(Uncounted(j) \cup {w})
               = Cardinality(Uncounted(j)) + 1
      BY <3>2, UncountedIsFinite, FS_AddElement
    <3>4. /\ Cardinality(Uncounted(j)') \in Nat
          /\ Cardinality(Uncounted(j)') <= Cardinality(Uncounted(j)) + 1
      BY <3>1, <3>3, FS_Subset, FS_CardinalityType
    <3>5. accepted'[j] = accepted[j] + 1
      BY <1>2, <2>2 DEF IInv, TypeOK
    <3> QED
      BY <2>1, <3>4, <3>5, UncountedIsFinite DEF IInv, TypeOK
  <2>3. CASE j # run[w].job
    <3>1. Uncounted(j)' \subseteq Uncounted(j)
      BY <2>3 DEF Uncounted, OthersKept
    <3>2. /\ Cardinality(Uncounted(j)') \in Nat
          /\ Cardinality(Uncounted(j)') <= Cardinality(Uncounted(j))
      BY <3>1, UncountedIsFinite, FS_Subset, FS_CardinalityType
    <3>3. accepted'[j] = accepted[j]
      BY <1>2, <2>3 DEF IInv, TypeOK
    <3> QED
      BY <2>1, <3>2, <3>3, UncountedIsFinite DEF IInv, TypeOK
  <2> QED
    BY <2>2, <2>3
<1> QED
  BY <1>1, <1>2 DEF CallProvider

-----------------------------------------------------------------------------
(* One lemma per action.                                                   *)

LEMMA DropKeeps ==
  ASSUME IInv, NEW w \in Workers, Drop(w)
  PROVE  IInv'
<1>1. /\ run' \in [Workers -> Run] /\ OthersKept(w)
      /\ run'[w].pc = "return"
      /\ run'[w].job = run[w].job
  BY DEF IInv, TypeOK, Goto, OthersKept, Run, Steps, Drop
<1>2. run[w].job \in Jobs
  BY DEF IInv, RunsOK, RunOK, Drop, At
<1>3. TypeOK'
  BY <1>1, <1>2 DEF IInv, TypeOK, JobsTypeOK, Drop, fixed
<1>4. /\ AttemptsLeft' /\ CountedIsSent' /\ CountedOnce'
      /\ CompletedIsSettled' /\ BuriedOnce'
  BY DEF IInv, AttemptsLeft, CountedIsSent, CountedOnce, CompletedIsSettled,
         BuriedOnce, Drop, fixed
<1>5. RunsOK'
  BY <1>1, <1>2 DEF IInv, Idle, OthersKept, RunsOK, RunOK, AloneOK, Holds,
                    At, Drop, fixed
<1>6. BuryOK'
  <2>1. run'[w].pc # "bury"
    BY <1>1
  <2> QED
    BY <1>1, <2>1, BuryKept DEF IInv, Drop
<1>7. EachBacked'
  <2>1. run'[w].pc \in {"flip", "count"}
          => run[w].pc \in {"flip", "count"} /\ run'[w].job = run[w].job
    BY <1>1 DEF Drop, At, Idle
  <2> QED
    BY <1>1, <2>1, BackedKept DEF Drop
<1> QED
  BY <1>3, <1>4, <1>5, <1>6, <1>7 DEF IInv

LEMMA WriteLogKeeps ==
  ASSUME IInv, NEW w \in Workers, WriteLog(w)
  PROVE  IInv'
<1>1. /\ run' \in [Workers -> Run] /\ OthersKept(w)
      /\ run'[w].job = run[w].job
      /\ run'[w].pc = IF log[run[w].job] = "SENT" THEN "return" ELSE "send"
  BY DEF IInv, TypeOK, Goto, OthersKept, Run, Steps, WriteLog
<1>2. run[w].job \in Jobs
  BY DEF IInv, RunsOK, RunOK, WriteLog, At
<1>3. TypeOK'
  BY <1>1, <1>2 DEF IInv, TypeOK, JobsTypeOK, LogStatus, WriteLog, fixed
<1>4. AttemptsLeft' /\ CountedOnce' /\ BuriedOnce'
  BY DEF IInv, AttemptsLeft, CountedOnce, BuriedOnce, WriteLog, fixed
<1>5. CountedIsSent'
  BY <1>1, <1>2 DEF IInv, TypeOK, RunsOK, RunOK, AloneOK, CountedIsSent, At,
                    WriteLog, fixed
<1>6. CompletedIsSettled'
  BY <1>1, <1>2 DEF IInv, TypeOK, JobsTypeOK, JobRecord, RunsOK, RunOK,
                    AloneOK, Holds, CompletedIsSettled, At, WriteLog, fixed
<1>7. RunsOK'
  BY <1>1, <1>2 DEF IInv, TypeOK, Idle, OthersKept, RunsOK, RunOK, AloneOK,
                    Holds, At, WriteLog, fixed
<1>8. BuryOK'
  <2>1. run'[w].pc # "bury"
    BY <1>1
  <2> QED
    BY <1>1, <2>1, BuryKept DEF IInv, WriteLog
<1>9. EachBacked'
  <2>1. run'[w].pc \in {"flip", "count"}
          => run[w].pc \in {"flip", "count"} /\ run'[w].job = run[w].job
    BY <1>1 DEF WriteLog, At, Idle
  <2> QED
    BY <1>1, <2>1, BackedKept DEF WriteLog
<1> QED
  BY <1>3, <1>4, <1>5, <1>6, <1>7, <1>8, <1>9 DEF IInv

LEMMA SendEmailKeeps ==
  ASSUME IInv, NEW w \in Workers, SendEmail(w)
  PROVE  IInv'
<1>1. /\ run' \in [Workers -> Run] /\ OthersKept(w)
      /\ run'[w].job = run[w].job
      /\ run'[w].pc \in {"fail", "flip", "settle"}
      /\ run'[w].pc = "settle" => run'[w].outcome = "SKIPPED"
  BY DEF IInv, TypeOK, Goto, SettleAs, OthersKept, Run, Steps, LogStatus,
         SendEmail, CallProvider
<1>2. run[w].job \in Jobs
  BY DEF IInv, RunsOK, RunOK, SendEmail, At
<1>3. TypeOK'
  BY <1>1, <1>2 DEF IInv, TypeOK, JobsTypeOK, SendEmail, CallProvider, fixed
<1>4. /\ AttemptsLeft' /\ CountedIsSent' /\ CountedOnce'
      /\ CompletedIsSettled' /\ BuriedOnce'
  BY DEF IInv, AttemptsLeft, CountedIsSent, CountedOnce, CompletedIsSettled,
         BuriedOnce, SendEmail, CallProvider, fixed
<1>5. RunsOK'
  BY <1>1, <1>2 DEF IInv, Idle, OthersKept, RunsOK, RunOK, AloneOK, Holds,
                    At, SendEmail, CallProvider, fixed
<1>6. BuryOK'
  <2>1. run'[w].pc # "bury"
    BY <1>1
  <2> QED
    BY <1>1, <2>1, BuryKept DEF IInv, SendEmail, CallProvider
<1>7. EachBacked'
  <2>1. CASE CallProvider(w)
    <3>1. run[w].pc \in {"send", "text"} /\ run'[w].pc \in {"flip", "fail"}
      BY <1>1, <2>1 DEF IInv, TypeOK, Run, SendEmail, CallProvider, Goto, At
    <3> QED
      BY <1>1, <1>2, <2>1, <3>1, BackedBySend
  <2>2. CASE ~CallProvider(w)
    <3>1. run'[w].pc \notin {"flip", "count"}
      BY <2>2 DEF IInv, TypeOK, Run, SendEmail, Goto, SettleAs
    <3> QED
      BY <1>1, <2>2, <3>1, BackedKept DEF SendEmail
  <2> QED
    BY <2>1, <2>2
<1> QED
  BY <1>3, <1>4, <1>5, <1>6, <1>7 DEF IInv

LEMMA ReserveSmsKeeps ==
  ASSUME IInv, NEW w \in Workers, ReserveSms(w)
  PROVE  IInv'
<1>1. /\ run' \in [Workers -> Run] /\ OthersKept(w)
      /\ run'[w].job = run[w].job
      /\ run'[w].pc \in {"text", "settle"}
      /\ run'[w].pc = "settle"
           => run'[w].outcome \in {"SKIPPED", "QUOTA_EXCEEDED"}
  <2>1. CASE Goto(w, "text")
    BY <2>1 DEF IInv, TypeOK, Goto, OthersKept, Run, Steps
  <2>2. ASSUME NEW outcome \in {"SKIPPED", "QUOTA_EXCEEDED"},
               SettleAs(w, outcome)
        PROVE  /\ run' \in [Workers -> Run] /\ OthersKept(w)
               /\ run'[w].job = run[w].job
               /\ run'[w].pc = "settle"
               /\ run'[w].outcome = outcome
    BY <2>2 DEF IInv, TypeOK, SettleAs, OthersKept, Run, Steps, LogStatus
  <2> QED
    BY <2>1, <2>2 DEF ReserveSms
<1>2. run[w].job \in Jobs
  BY DEF IInv, RunsOK, RunOK, ReserveSms, At
<1>3. TypeOK'
  BY <1>1, <1>2 DEF IInv, TypeOK, JobsTypeOK, ReserveSms, fixed
<1>4. /\ AttemptsLeft' /\ CountedIsSent' /\ CountedOnce'
      /\ CompletedIsSettled' /\ BuriedOnce'
  BY DEF IInv, AttemptsLeft, CountedIsSent, CountedOnce, CompletedIsSettled,
         BuriedOnce, ReserveSms, fixed
<1>5. RunsOK'
  BY <1>1, <1>2 DEF IInv, Idle, OthersKept, RunsOK, RunOK, AloneOK, Holds,
                    At, ReserveSms, fixed
<1>6. BuryOK'
  <2>1. run'[w].pc # "bury"
    BY <1>1
  <2> QED
    BY <1>1, <2>1, BuryKept DEF IInv, ReserveSms
<1>7. EachBacked'
  <2>1. run'[w].pc \in {"flip", "count"}
          => run[w].pc \in {"flip", "count"} /\ run'[w].job = run[w].job
    BY <1>1 DEF ReserveSms, At, Idle
  <2> QED
    BY <1>1, <2>1, BackedKept DEF ReserveSms
<1> QED
  BY <1>3, <1>4, <1>5, <1>6, <1>7 DEF IInv

LEMMA SendSmsKeeps ==
  ASSUME IInv, NEW w \in Workers, SendSms(w)
  PROVE  IInv'
<1>1. /\ run' \in [Workers -> Run] /\ OthersKept(w)
      /\ run'[w].job = run[w].job
      /\ run'[w].pc \in {"fail", "flip"}
  BY DEF IInv, TypeOK, Goto, OthersKept, Run, Steps, SendSms, CallProvider
<1>2. run[w].job \in Jobs
  BY DEF IInv, RunsOK, RunOK, SendSms, At
<1>3. TypeOK'
  BY <1>1, <1>2 DEF IInv, TypeOK, JobsTypeOK, SendSms, CallProvider, fixed
<1>4. /\ AttemptsLeft' /\ CountedIsSent' /\ CountedOnce'
      /\ CompletedIsSettled' /\ BuriedOnce'
  BY DEF IInv, AttemptsLeft, CountedIsSent, CountedOnce, CompletedIsSettled,
         BuriedOnce, SendSms, CallProvider, fixed
<1>5. RunsOK'
  BY <1>1, <1>2 DEF IInv, Idle, OthersKept, RunsOK, RunOK, AloneOK, Holds,
                    At, SendSms, CallProvider, fixed
<1>6. BuryOK'
  <2>1. run'[w].pc # "bury"
    BY <1>1
  <2> QED
    BY <1>1, <2>1, BuryKept DEF IInv, SendSms, CallProvider
<1>7. EachBacked'
  BY <1>1, <1>2, BackedBySend DEF SendSms, At
<1> QED
  BY <1>3, <1>4, <1>5, <1>6, <1>7 DEF IInv

LEMMA SettleKeeps ==
  ASSUME IInv, NEW w \in Workers, Settle(w)
  PROVE  IInv'
<1>1. /\ run' \in [Workers -> Run] /\ OthersKept(w)
      /\ run'[w].job = run[w].job
      /\ run'[w].pc = "return"
  BY DEF IInv, TypeOK, Goto, OthersKept, Run, Steps, Settle
<1>2. run[w].job \in Jobs
  BY DEF IInv, RunsOK, RunOK, Settle, At
<1>3. TypeOK'
  BY <1>1, <1>2 DEF IInv, TypeOK, JobsTypeOK, LogStatus, RunsOK, RunOK, At,
                    Settle, fixed
<1>4. AttemptsLeft' /\ CountedOnce' /\ BuriedOnce'
  BY DEF IInv, AttemptsLeft, CountedOnce, BuriedOnce, Settle, fixed
<1>5. CountedIsSent'
  BY <1>1, <1>2 DEF IInv, TypeOK, RunsOK, RunOK, AloneOK, CountedIsSent, At,
                    Settle, fixed
<1>6. CompletedIsSettled'
  BY <1>1, <1>2 DEF IInv, TypeOK, JobsTypeOK, JobRecord, RunsOK, RunOK,
                    AloneOK, Holds, CompletedIsSettled, At, Settle, fixed
<1>7. RunsOK'
  BY <1>1, <1>2 DEF IInv, TypeOK, Idle, OthersKept, RunsOK, RunOK, AloneOK,
                    Holds, At, Settle, fixed
<1>8. BuryOK'
  <2>1. run'[w].pc # "bury"
    BY <1>1
  <2> QED
    BY <1>1, <2>1, BuryKept DEF IInv, Settle
<1>9. EachBacked'
  <2>1. run'[w].pc \in {"flip", "count"}
          => run[w].pc \in {"flip", "count"} /\ run'[w].job = run[w].job
    BY <1>1 DEF Settle, At, Idle
  <2> QED
    BY <1>1, <2>1, BackedKept DEF Settle
<1> QED
  BY <1>3, <1>4, <1>5, <1>6, <1>7, <1>8, <1>9 DEF IInv

LEMMA FlipKeeps ==
  ASSUME IInv, NEW w \in Workers, Flip(w)
  PROVE  IInv'
<1>1. /\ run' \in [Workers -> Run] /\ OthersKept(w)
      /\ run'[w].job = run[w].job
      /\ run'[w].pc = IF log[run[w].job] # "SENT" /\ kind[run[w].job] # "staff"
                       THEN "count" ELSE "return"
  BY DEF IInv, TypeOK, Goto, OthersKept, Run, Steps, Flip
<1>2. run[w].job \in Jobs
  BY DEF IInv, RunsOK, RunOK, Flip, At
<1>3. TypeOK'
  BY <1>1, <1>2 DEF IInv, TypeOK, JobsTypeOK, LogStatus, Flip, fixed
<1>4. AttemptsLeft' /\ CountedOnce' /\ BuriedOnce'
  BY DEF IInv, AttemptsLeft, CountedOnce, BuriedOnce, Flip, fixed
<1>5. CountedIsSent'
  BY <1>1, <1>2 DEF IInv, TypeOK, RunsOK, RunOK, AloneOK, CountedIsSent, At,
                    Flip, fixed
<1>6. CompletedIsSettled'
  BY <1>1, <1>2 DEF IInv, TypeOK, JobsTypeOK, JobRecord, RunsOK, RunOK,
                    AloneOK, Holds, CompletedIsSettled, At, Flip, fixed
<1>7. RunsOK'
  BY <1>1, <1>2 DEF IInv, TypeOK, Idle, OthersKept, RunsOK, RunOK, AloneOK,
                    Holds, CountedIsSent, At, Flip, fixed
<1>8. BuryOK'
  <2>1. run'[w].pc # "bury"
    BY <1>1
  <2> QED
    BY <1>1, <2>1, BuryKept DEF IInv, Flip
<1>9. EachBacked'
  <2>1. run'[w].pc \in {"flip", "count"}
          => run[w].pc \in {"flip", "count"} /\ run'[w].job = run[w].job
    BY <1>1 DEF Flip, At, Idle
  <2> QED
    BY <1>1, <2>1, BackedKept DEF Flip
<1> QED
  BY <1>3, <1>4, <1>5, <1>6, <1>7, <1>8, <1>9 DEF IInv

LEMMA CountKeeps ==
  ASSUME IInv, NEW w \in Workers, Count(w)
  PROVE  IInv'
<1>1. /\ run' \in [Workers -> Run] /\ OthersKept(w)
      /\ run'[w].job = run[w].job
      /\ run'[w].pc = "return"
  BY DEF IInv, TypeOK, Goto, OthersKept, Run, Steps, Count
<1>2. run[w].job \in Jobs
  BY DEF IInv, RunsOK, RunOK, Count, At
<1>3. TypeOK'
  BY <1>1, <1>2 DEF IInv, TypeOK, JobsTypeOK, Count, fixed
<1>4. AttemptsLeft' /\ CompletedIsSettled' /\ BuriedOnce'
  BY DEF IInv, AttemptsLeft, CompletedIsSettled, BuriedOnce, Count, fixed
<1>5. CountedIsSent'
  BY <1>1, <1>2 DEF IInv, TypeOK, RunsOK, RunOK, AloneOK, CountedIsSent, At,
                    Count, fixed
<1>6. CountedOnce'
  BY <1>1, <1>2 DEF IInv, TypeOK, RunsOK, RunOK, AloneOK, CountedOnce, At,
                    Count, fixed
<1>7. RunsOK'
  BY <1>1, <1>2 DEF IInv, TypeOK, Idle, OthersKept, RunsOK, RunOK, AloneOK,
                    Holds, At, Count, fixed
<1>8. BuryOK'
  <2>1. run'[w].pc # "bury"
    BY <1>1
  <2> QED
    BY <1>1, <2>1, BuryKept DEF IInv, Count
<1>9. EachBacked'
  <2> SUFFICES ASSUME NEW j \in Jobs
               PROVE  usage'[j] + Cardinality(Uncounted(j)') <= accepted[j]
    BY DEF EachBacked, Count
  <2>1. usage[j] + Cardinality(Uncounted(j)) <= accepted[j]
    BY DEF IInv, EachBacked
  <2>2. CASE j = run[w].job
    <3>1. w \in Uncounted(j)
      BY <2>2 DEF Uncounted, Count, At
    <3>2. /\ IsFiniteSet(Uncounted(j) \ {w})
          /\ Cardinality(Uncounted(j) \ {w}) = Cardinality(Uncounted(j)) - 1
      BY <3>1, UncountedIsFinite, FS_RemoveElement
    <3>3. Uncounted(j)' \subseteq Uncounted(j) \ {w}
      BY <1>1 DEF Uncounted, OthersKept
    <3>4. /\ Cardinality(Uncounted(j)') \in Nat
          /\ Cardinality(Uncounted(j)') <= Cardinality(Uncounted(j)) - 1
      BY <3>2, <3>3, FS_Subset, FS_CardinalityType
    <3>5. usage'[j] = usage[j] + 1
      BY <2>2 DEF IInv, TypeOK, Count
    <3> QED
      BY <2>1, <3>4, <3>5, UncountedIsFinite DEF IInv, TypeOK
  <2>3. CASE j # run[w].job
    <3>1. Uncounted(j)' \subseteq Uncounted(j)
      BY <1>1 DEF Uncounted, OthersKept
    <3>2. /\ Cardinality(Uncounted(j)') \in Nat
          /\ Cardinality(Uncounted(j)') <= Cardinality(Uncounted(j))
      BY <3>1, UncountedIsFinite, FS_Subset, FS_CardinalityType
    <3>3. usage'[j] = usage[j]
      BY <2>3 DEF IInv, TypeOK, Count
    <3> QED
      BY <2>1, <3>2, <3>3, UncountedIsFinite DEF IInv, TypeOK
  <2> QED
    BY <2>2, <2>3
<1> QED
  BY <1>3, <1>4, <1>5, <1>6, <1>7, <1>8, <1>9 DEF IInv

LEMMA ReturnKeeps ==
  ASSUME IInv, NEW w \in Workers, Return(w)
  PROVE  IInv'
<1>1. /\ run' \in [Workers -> Run] /\ OthersKept(w)
      /\ run'[w] = Idle
  BY IdleFacts DEF IInv, Return, Returns
<1>2. run[w].job \in Jobs
  BY DEF IInv, RunsOK, RunOK, Return, At
<1>3. TypeOK'
  BY <1>1, <1>2, SMTT(30)
     DEF IInv, TypeOK, JobsTypeOK, JobRecord, Holds, Return, Returns, Complete,
         fixed
<1>4. CountedIsSent' /\ CountedOnce'
  BY DEF IInv, CountedIsSent, CountedOnce, Return, Returns, Complete, fixed
<1>5. AttemptsLeft'
  BY <1>1, <1>2 DEF IInv, TypeOK, JobsTypeOK, JobRecord, AttemptsLeft,
                    Holds, Return, Returns, Complete, fixed
<1>6. CompletedIsSettled'
  BY <1>1, <1>2 DEF IInv, TypeOK, JobsTypeOK, JobRecord, RunsOK, RunOK,
                    AloneOK, Holds, CompletedIsSettled, At, Return, Returns,
                    Complete, fixed
<1>7. BuriedOnce'
  BY <1>1, <1>2 DEF IInv, TypeOK, JobsTypeOK, JobRecord, RunsOK, RunOK,
                    BuryOK, BuriedOnce, Holds, At, Return, Returns, Complete,
                    fixed
<1>8. RunsOK'
  BY <1>1, <1>2 DEF IInv, TypeOK, JobsTypeOK, JobRecord, Idle, OthersKept,
                    RunsOK, RunOK, AloneOK, Holds, At, Return, Returns,
                    Complete, fixed
<1>9. BuryOK'
  BY <1>1, <1>2, SMTT(30)
     DEF IInv, TypeOK, JobsTypeOK, JobRecord, Idle, OthersKept, RunsOK, RunOK,
         BuryOK, BuriedOnce, Holds, At, Return, Returns, Complete
<1>10. EachBacked'
  <2>1. run'[w].pc \in {"flip", "count"}
          => run[w].pc \in {"flip", "count"} /\ run'[w].job = run[w].job
    BY <1>1 DEF Return, At, Idle
  <2> QED
    BY <1>1, <2>1, BackedKept DEF Return
<1> QED
  BY <1>3, <1>4, <1>5, <1>6, <1>7, <1>8, <1>9, <1>10 DEF IInv

LEMMA BuryKeeps ==
  ASSUME IInv, NEW w \in Workers, Bury(w)
  PROVE  IInv'
<1>1. /\ run' \in [Workers -> Run] /\ OthersKept(w)
      /\ run'[w] = Idle
  BY IdleFacts DEF IInv, Bury
<1>2. run[w].job \in Jobs
  BY DEF IInv, RunsOK, RunOK, Bury, At
<1>3. TypeOK'
  BY <1>1, <1>2 DEF IInv, TypeOK, JobsTypeOK, Bury, fixed
<1>4. AttemptsLeft' /\ CountedIsSent' /\ CountedOnce' /\ CompletedIsSettled'
  BY DEF IInv, AttemptsLeft, CountedIsSent, CountedOnce, CompletedIsSettled,
         Bury, fixed
<1>5. BuriedOnce'
  BY <1>1, <1>2 DEF IInv, TypeOK, JobsTypeOK, JobRecord, RunsOK, RunOK,
                    BuryOK, BuriedOnce, Holds, At, Bury, fixed
<1>6. RunsOK'
  BY <1>1, <1>2 DEF IInv, Idle, OthersKept, RunsOK, RunOK, AloneOK, Holds,
                    At, Bury, fixed
<1>7. BuryOK'
  BY <1>1, <1>2 DEF IInv, TypeOK, JobsTypeOK, JobRecord, Idle, OthersKept,
                    RunsOK, RunOK, BuryOK, BuriedOnce, Holds, At, Bury
<1>8. EachBacked'
  <2>1. run'[w].pc \in {"flip", "count"}
          => run[w].pc \in {"flip", "count"} /\ run'[w].job = run[w].job
    BY <1>1 DEF Bury, At, Idle
  <2> QED
    BY <1>1, <2>1, BackedKept DEF Bury
<1> QED
  BY <1>3, <1>4, <1>5, <1>6, <1>7, <1>8 DEF IInv

LEMMA CrashKeeps ==
  ASSUME IInv, NEW w \in Workers, Crash(w)
  PROVE  IInv'
<1>1. /\ run' \in [Workers -> Run] /\ OthersKept(w)
      /\ run'[w] = Idle
  BY IdleFacts DEF IInv, Crash
<1>2. run[w].job \in Jobs
  BY DEF IInv, RunsOK, RunOK, Crash, At
<1>3. TypeOK'
  BY <1>1, <1>2 DEF IInv, TypeOK, JobsTypeOK, Crash, fixed
<1>4. /\ AttemptsLeft' /\ CountedIsSent' /\ CountedOnce'
      /\ CompletedIsSettled' /\ BuriedOnce'
  BY DEF IInv, AttemptsLeft, CountedIsSent, CountedOnce, CompletedIsSettled,
         BuriedOnce, Crash, fixed
<1>5. RunsOK'
  BY <1>1, <1>2 DEF IInv, Idle, OthersKept, RunsOK, RunOK, AloneOK, Holds,
                    At, Crash, fixed
<1>6. BuryOK'
  BY <1>1, <1>2 DEF IInv, TypeOK, JobsTypeOK, JobRecord, Idle, OthersKept,
                    RunsOK, RunOK, BuryOK, BuriedOnce, Holds, At, Crash
<1>7. EachBacked'
  <2>1. run'[w].pc \in {"flip", "count"}
          => run[w].pc \in {"flip", "count"} /\ run'[w].job = run[w].job
    BY <1>1 DEF Crash, At, Idle
  <2> QED
    BY <1>1, <2>1, BackedKept DEF Crash
<1> QED
  BY <1>3, <1>4, <1>5, <1>6, <1>7 DEF IInv

LEMMA TakeKeeps ==
  ASSUME IInv, NEW w \in Workers, NEW j \in Jobs, Take(w, j)
  PROVE  IInv'
<1>1. /\ run' \in [Workers -> Run] /\ OthersKept(w)
      /\ run'[w] = [pc |-> "log", job |-> j, outcome |-> "none"]
  BY DEF IInv, TypeOK, Take, OthersKept, Run, Steps, LogStatus
<1>2. /\ JobsTypeOK' /\ job[j].state = "waiting"
      /\ job'[j].state = "active" /\ job'[j].holder = w
      /\ job'[j].made = job[j].made
      /\ \A i \in Jobs \ {j} : job'[i] = job[i]
  BY DEF IInv, TypeOK, JobsTypeOK, JobRecord, Take, Lock
<1>3. TypeOK'
  BY <1>1, <1>2 DEF IInv, TypeOK, Take, fixed
<1>4. AttemptsLeft'
  BY <1>2 DEF IInv, TypeOK, JobsTypeOK, JobRecord, AttemptsLeft
<1>5. RunsOK'
  <2> SUFFICES ASSUME NEW v \in Workers
               PROVE  RunOK(v)'
    BY DEF RunsOK
  <2>1. CASE v = w
    BY <1>1, <1>2, <2>1
       DEF RunOK, AloneOK, Holds, At, IInv, TypeOK, JobsTypeOK, JobRecord
  <2>2. CASE v # w
    BY <1>1, <1>2, <2>2
       DEF RunOK, AloneOK, Holds, At, OthersKept, IInv, RunsOK, Take, fixed
  <2> QED
    BY <2>1, <2>2
<1>6. CountedIsSent' /\ CountedOnce'
  BY DEF IInv, CountedIsSent, CountedOnce, Take, fixed
<1>7. CompletedIsSettled'
  BY <1>2 DEF IInv, TypeOK, JobsTypeOK, JobRecord, CompletedIsSettled, Take,
              fixed
<1>8. BuryOK'
  BY <1>1, <1>2 DEF IInv, RunsOK, RunOK, BuryOK, OthersKept, At, Take
<1>9. BuriedOnce'
  BY <1>2 DEF IInv, TypeOK, JobsTypeOK, JobRecord, BuriedOnce, Take
<1>10. EachBacked'
  BY <1>1, BackedKept DEF Take
<1> QED
  BY <1>3, <1>4, <1>5, <1>6, <1>7, <1>8, <1>9, <1>10 DEF IInv

\* The throws of ThrowAgain and of DbError: a run that has its job to itself
\* holds it, so no other run can be at that job.
LEMMA ThrowsKeeps ==
  ASSUME IInv, NEW w \in Workers, Throws(w),
         run[w].pc \in {"log", "settle", "flip", "count", "fail", "throw"},
         UNCHANGED <<fixed, log, accepted, quota, usage, buried>>
  PROVE  IInv'
<1> DEFINE j == run[w].job
<1>1. j \in Jobs
  BY DEF IInv, RunsOK, RunOK, At
<1>2. /\ run' \in [Workers -> Run] /\ OthersKept(w)
      /\ LastThrow(w, j) => run'[w].pc = "bury" /\ run'[w].job = j
      /\ ~LastThrow(w, j) => run'[w] = Idle
  BY ThrowsFacts DEF IInv
<1>3. Reject(w, j)
  BY DEF Throws
<1>4. /\ JobsTypeOK' /\ AttemptsLeft'
      /\ \A i \in Jobs \ {j} : job'[i] = job[i]
      /\ ~Holds(w, j) => job' = job
      /\ Holds(w, j) => job'[j].state \in {"waiting", "failed"}
      /\ LastThrow(w, j) => job'[j].state = "failed"
  BY <1>1, <1>3, RejectFacts DEF IInv
<1>5. j \notin overrun =>
        /\ Holds(w, j)
        /\ \A v \in Workers \ {w} :
             run[v].job = j => run[v].pc \in {"idle", "bury"}
  BY DEF IInv, RunsOK, RunOK, AloneOK, Holds
<1> HIDE DEF j
<1>7. TypeOK'
  BY <1>2, <1>4 DEF IInv, TypeOK, fixed
<1>8. RunsOK'
  <2> SUFFICES ASSUME NEW v \in Workers
               PROVE  RunOK(v)'
    BY DEF RunsOK
  <2>1. CASE v = w
    BY <1>1, <1>2, <2>1 DEF RunOK, At, Idle
  <2>2. CASE v # w
    <3>1. run'[v] = run[v] /\ RunOK(v)
      BY <2>2, <1>2 DEF OthersKept, IInv, RunsOK
    <3>2. CASE run[v].job = j
      BY <2>2, <3>1, <3>2, <1>5 DEF RunOK, At, fixed
    <3>3. CASE run[v].job # j
      BY <3>1, <3>3, <1>4 DEF RunOK, AloneOK, Holds, At, fixed
    <3> QED
      BY <3>2, <3>3
  <2> QED
    BY <2>1, <2>2
<1>9. CountedIsSent'
  BY DEF IInv, CountedIsSent, fixed
<1>10. CountedOnce'
  BY DEF IInv, CountedOnce, fixed
<1>11. CompletedIsSettled'
  BY <1>1, <1>4, <1>5 DEF IInv, CompletedIsSettled, fixed
<1>12. BuryOK'
  <2>1. Holds(w, j) => job[j].state = "active" /\ buried[j] = 0
    BY <1>1 DEF Holds, IInv, TypeOK, BuriedOnce
  <2>2. \A v \in Workers \ {w} : At(v, "bury") =>
          job[run[v].job].state = "failed" /\ run[v].job \in Jobs
    BY DEF IInv, BuryOK, RunsOK, RunOK, At
  <2>3. LastThrow(w, j) => Holds(w, j)
    BY DEF LastThrow
  <2> QED
    BY <1>1, <1>2, <1>4, <2>1, <2>2, <2>3
       DEF IInv, BuryOK, OthersKept, At, Idle
<1>13. BuriedOnce'
  BY <1>1, <1>4 DEF IInv, TypeOK, BuriedOnce, Holds
<1>14. EachBacked'
  <2>1. run'[w].pc \notin {"flip", "count"}
    BY <1>2 DEF Idle
  <2> QED
    BY <1>2, <2>1, BackedKept
<1> QED
  BY <1>4, <1>7, <1>8, <1>9, <1>10, <1>11, <1>12, <1>13, <1>14 DEF IInv

LEMMA FailKeeps ==
  ASSUME IInv, NEW w \in Workers, Fail(w)
  PROVE  IInv'
<1>1. /\ run' \in [Workers -> Run] /\ OthersKept(w)
      /\ run'[w].job = run[w].job
      /\ run'[w].pc = "throw"
  BY DEF IInv, TypeOK, Goto, OthersKept, Run, Steps, Fail
<1>2. run[w].job \in Jobs
  BY DEF IInv, RunsOK, RunOK, Fail, At
<1>3. TypeOK'
  BY <1>1, <1>2 DEF IInv, TypeOK, JobsTypeOK, LogStatus, RunsOK, RunOK, At,
                    Fail, fixed
<1>4. AttemptsLeft' /\ CountedOnce' /\ BuriedOnce'
  BY DEF IInv, AttemptsLeft, CountedOnce, BuriedOnce, Fail, fixed
<1>5. CountedIsSent'
  BY <1>1, <1>2 DEF IInv, TypeOK, RunsOK, RunOK, AloneOK, CountedIsSent, At,
                    Fail, fixed
<1>6. CompletedIsSettled'
  BY <1>1, <1>2 DEF IInv, TypeOK, JobsTypeOK, JobRecord, RunsOK, RunOK,
                    AloneOK, Holds, CompletedIsSettled, At, Fail, fixed
<1>7. RunsOK'
  BY <1>1, <1>2 DEF IInv, TypeOK, Idle, OthersKept, RunsOK, RunOK, AloneOK,
                    Holds, At, Fail, fixed
<1>8. BuryOK'
  <2>1. run'[w].pc # "bury"
    BY <1>1
  <2> QED
    BY <1>1, <2>1, BuryKept DEF IInv, Fail
<1>9. EachBacked'
  <2>1. run'[w].pc \in {"flip", "count"}
          => run[w].pc \in {"flip", "count"} /\ run'[w].job = run[w].job
    BY <1>1 DEF Fail, At, Idle
  <2> QED
    BY <1>1, <2>1, BackedKept DEF Fail
<1> QED
  BY <1>3, <1>4, <1>5, <1>6, <1>7, <1>8, <1>9 DEF IInv

LEMMA ThrowAgainKeeps ==
  ASSUME IInv, NEW w \in Workers, ThrowAgain(w)
  PROVE  IInv'
BY ThrowsKeeps DEF ThrowAgain, At

LEMMA DbErrorKeeps ==
  ASSUME IInv, NEW w \in Workers, DbError(w)
  PROVE  IInv'
<1>1. CASE /\ run[w].pc \in {"log", "settle", "flip", "count", "fail"}
           /\ Throws(w)
           /\ UNCHANGED quota
  BY <1>1, ThrowsKeeps DEF DbError
<1>2. CASE /\ At(w, "send") /\ Goto(w, "fail")
           /\ quota' \in {quota, quota + 1}
           /\ UNCHANGED job
  <2>1. /\ run' \in [Workers -> Run] /\ OthersKept(w)
        /\ run'[w].pc = "fail" /\ run'[w].job = run[w].job
    BY <1>2 DEF IInv, TypeOK, Goto, OthersKept, Run, Steps
  <2>2. TypeOK'
    BY <1>2, <2>1 DEF IInv, TypeOK, JobsTypeOK, DbError, fixed
  <2>3. RunsOK'
    BY <1>2, <2>1
       DEF IInv, RunsOK, RunOK, AloneOK, Holds, OthersKept, At, DbError,
           fixed
  <2>4. BuryOK'
    BY <1>2, <2>1, BuryKept DEF IInv, DbError
  <2>5. EachBacked'
    BY <2>1, BackedKept DEF DbError
  <2>6. /\ AttemptsLeft' /\ CountedIsSent' /\ CountedOnce' /\ CompletedIsSettled'
        /\ BuriedOnce'
    BY <1>2 DEF IInv, AttemptsLeft, CountedIsSent, CountedOnce,
                CompletedIsSettled, BuriedOnce, DbError, fixed
  <2> QED
    BY <2>2, <2>3, <2>4, <2>5, <2>6 DEF IInv
<1>3. CASE /\ At(w, "bury")
           /\ run' = [run EXCEPT ![w] = Idle]
           /\ UNCHANGED <<job, quota>>
  BY <1>3, CrashKeeps DEF DbError, Crash, At
<1> QED
  BY <1>1, <1>2, <1>3 DEF DbError

\* Steps of the queue alone: the runs, the log and the counts stay.
LEMMA QueueStepKeeps ==
  ASSUME IInv, NEW j \in Jobs,
         JobsTypeOK', AttemptsLeft',
         \A i \in Jobs \ {j} : job'[i] = job[i],
         job[j].state \in {"none", "active"},
         job'[j].state \in {"waiting", "failed"},
         j \in overrun \/ \A w \in Workers : ~Working(w, j),
         UNCHANGED <<fixed, run, log, accepted, quota, usage, buried>>
  PROVE  IInv'
<1>1. TypeOK'
  BY DEF IInv, TypeOK, fixed
<1>2. RunsOK'
  <2> SUFFICES ASSUME NEW v \in Workers
               PROVE  RunOK(v)'
    BY DEF RunsOK
  <2>1. RunOK(v)
    BY DEF IInv, RunsOK
  <2>2. CASE run[v].job = j
    BY <2>1, <2>2 DEF RunOK, AloneOK, Working, At, fixed
  <2>3. CASE run[v].job # j
    BY <2>1, <2>3 DEF RunOK, AloneOK, Holds, At, fixed
  <2> QED
    BY <2>2, <2>3
<1>3. CountedIsSent' /\ CountedOnce' /\ CompletedIsSettled'
  BY DEF IInv, CountedIsSent, CountedOnce, CompletedIsSettled, fixed
<1>4. BuryOK'
  BY DEF IInv, RunsOK, RunOK, BuryOK, At
<1>5. BuriedOnce'
  BY DEF IInv, TypeOK, BuriedOnce
<1>6. EachBacked'
  BY DEF IInv, EachBacked, Uncounted
<1> QED
  BY <1>1, <1>2, <1>3, <1>4, <1>5, <1>6 DEF IInv

LEMMA EnqueueKeeps ==
  ASSUME IInv, NEW j \in Jobs, Enqueue(j)
  PROVE  IInv'
<1>1. /\ JobsTypeOK' /\ AttemptsLeft'
      /\ \A i \in Jobs \ {j} : job'[i] = job[i]
      /\ job[j].state = "none" /\ job'[j].state = "waiting"
  BY DEF IInv, TypeOK, JobsTypeOK, JobRecord, AttemptsLeft, Enqueue, Add
<1>2. \A w \in Workers : ~Working(w, j)
  BY <1>1 DEF Working, Holds
<1> QED
  BY <1>1, <1>2, QueueStepKeeps DEF Enqueue

LEMMA StallJobKeeps ==
  ASSUME IInv, NEW j \in Jobs, StallJob(j)
  PROVE  IInv'
<1>1. /\ job[j].made \in 0..Attempts - 1
      /\ job[j].made + 1 \in 0..Attempts
  BY AttemptsAssumption
     DEF IInv, TypeOK, JobsTypeOK, JobRecord, AttemptsLeft, StallJob, Stall
<1>2. /\ JobsTypeOK'
      /\ \A i \in Jobs \ {j} : job'[i] = job[i]
      /\ job[j].state = "active"
      /\ job'[j].state = IF job[j].stalled THEN "failed" ELSE "waiting"
      /\ ~job[j].stalled => job'[j].made = job[j].made
  BY <1>1 DEF IInv, TypeOK, JobsTypeOK, JobRecord, StallJob, Stall
<1>3. AttemptsLeft'
  BY <1>2 DEF IInv, AttemptsLeft
<1> QED
  BY <1>2, <1>3, QueueStepKeeps DEF StallJob

-----------------------------------------------------------------------------
LEMMA InitIInv == Init => IInv
<1> SUFFICES ASSUME Init
             PROVE  IInv
  OBVIOUS
<1>1. TypeOK
  BY AttemptsAssumption
     DEF Init, JobsInit, TypeOK, JobsTypeOK, JobRecord, Run, Steps, Idle,
         LogStatus
<1>2. AttemptsLeft /\ RunsOK /\ BuryOK
  BY AttemptsAssumption
     DEF Init, JobsInit, AttemptsLeft, RunsOK, RunOK, BuryOK, Idle, At
<1>3. CountedIsSent /\ CountedOnce /\ CompletedIsSettled /\ BuriedOnce
  BY DEF Init, JobsInit, CountedIsSent, CountedOnce, CompletedIsSettled,
         BuriedOnce
<1>4. EachBacked
  <2> SUFFICES ASSUME NEW j \in Jobs
               PROVE  usage[j] + Cardinality(Uncounted(j)) <= accepted[j]
    BY DEF EachBacked
  <2>1. Uncounted(j) = {}
    BY DEF Init, Idle, Uncounted
  <2> QED
    BY <2>1, FS_EmptySet DEF Init
<1> QED
  BY <1>1, <1>2, <1>3, <1>4 DEF IInv

LEMMA NextIInv == IInv /\ [Next]_vars => IInv'
<1> SUFFICES ASSUME IInv, [Next]_vars
             PROVE  IInv'
  OBVIOUS
<1>1. ASSUME NEW j \in Jobs, Enqueue(j) \/ StallJob(j)
      PROVE  IInv'
  BY <1>1, EnqueueKeeps, StallJobKeeps
<1>2. ASSUME NEW w \in Workers, Work(w)
      PROVE  IInv'
  BY <1>2, TakeKeeps, DropKeeps, WriteLogKeeps, SendEmailKeeps,
     ReserveSmsKeeps, SendSmsKeeps, SettleKeeps, FailKeeps, ThrowAgainKeeps,
     FlipKeeps, CountKeeps, ReturnKeeps, BuryKeeps
     DEF Work
<1>3. ASSUME NEW w \in Workers, DbError(w) \/ Crash(w)
      PROVE  IInv'
  BY <1>3, DbErrorKeeps, CrashKeeps
<1>4. CASE UNCHANGED vars
  BY <1>4 DEF IInv, TypeOK, JobsTypeOK, AttemptsLeft, RunsOK, RunOK,
              AloneOK, Holds, At, CountedIsSent, CountedOnce,
              CompletedIsSettled, BuryOK, BuriedOnce, EachBacked, Uncounted,
              vars, fixed
<1> QED
  BY <1>1, <1>2, <1>3, <1>4 DEF Next

\* IInv holds in every reachable state of the notification worker.
THEOREM Invariance == Spec => []IInv
<1> QED
  BY InitIInv, NextIInv, PTL DEF Spec

\* The types of the queue, the runs and the log.
THEOREM TypeCorrect == Spec => []TypeOK
<1>1. IInv => TypeOK
  BY DEF IInv
<1> QED
  BY <1>1, Invariance, PTL

\* No unit of usage without a message that the provider has taken, even for
\* jobs that two workers run at once (notifications.worker.ts counts after the
\* provider's answer only).
THEOREM BilledForSent == Spec => []UsageBacked
<1>1. IInv => UsageBacked
  <2> SUFFICES ASSUME IInv, NEW j \in Jobs
               PROVE  usage[j] <= accepted[j]
    BY DEF UsageBacked
  <2> QED
    BY UncountedIsFinite DEF IInv, EachBacked, TypeOK
<1> QED
  BY <1>1, Invariance, PTL

\* A job is counted at most once, whatever is retried: the update that turns
\* the row SENT is what lets a run count.
THEOREM CountsOnce == Spec => []CountedOnce
<1>1. IInv => CountedOnce
  BY DEF IInv
<1> QED
  BY <1>1, Invariance, PTL

\* A completed job has an outcome in the log.
THEOREM SettledWhenDone == Spec => []CompletedIsSettled
<1>1. IInv => CompletedIsSettled
  BY DEF IInv
<1> QED
  BY <1>1, Invariance, PTL

\* A job is buried once, and only when it has failed for good.
THEOREM BuriesOnce == Spec => []BuriedOnce
<1>1. IInv => BuriedOnce
  BY DEF IInv
<1> QED
  BY <1>1, Invariance, PTL

\* A row that says SENT keeps saying so: no await between the provider's
\* answer and the return of the handler can lead to the catch block.
THEOREM SentIsFinal == Spec => SentStays
<1>1. IInv /\ [Next]_vars
        => [\A j \in Jobs \ overrun :
              log[j] = "SENT" => log'[j] = "SENT"]_vars
  <2> SUFFICES ASSUME IInv, Next, NEW j \in Jobs \ overrun, log[j] = "SENT"
               PROVE  log'[j] = "SENT"
    OBVIOUS
  <2>1. ASSUME NEW i \in Jobs, Enqueue(i) \/ StallJob(i)
        PROVE  log'[j] = "SENT"
    BY <2>1 DEF Enqueue, StallJob
  <2>2. ASSUME NEW w \in Workers, DbError(w) \/ Crash(w)
        PROVE  log'[j] = "SENT"
    BY <2>2 DEF DbError, Crash
  <2>3. ASSUME NEW w \in Workers, WriteLog(w) \/ Flip(w)
        PROVE  log'[j] = "SENT"
    BY <2>3 DEF IInv, TypeOK, WriteLog, Flip
  <2>4. ASSUME NEW w \in Workers, Settle(w) \/ Fail(w)
        PROVE  log'[j] = "SENT"
    <3>1. run[w].pc \in {"settle", "fail"} /\ run[w].job # j
      BY <2>4 DEF IInv, RunsOK, RunOK, AloneOK, Settle, Fail, At
    <3> QED
      BY <2>4, <3>1 DEF IInv, TypeOK, Settle, Fail
  <2>5. ASSUME NEW w \in Workers,
               \/ \E i \in Jobs : Take(w, i)
               \/ Drop(w) \/ SendEmail(w) \/ ReserveSms(w) \/ SendSms(w)
               \/ ThrowAgain(w) \/ Count(w) \/ Return(w) \/ Bury(w)
        PROVE  log'[j] = "SENT"
    BY <2>5 DEF ThrowAgain, Take, Drop, SendEmail, ReserveSms, SendSms, CallProvider,
                Count, Return, Bury
  <2> QED
    BY <2>1, <2>2, <2>3, <2>4, <2>5 DEF Next, Work
<1> QED
  BY <1>1, Invariance, PTL DEF Spec, SentStays

-----------------------------------------------------------------------------
(* The quota: a run that is about to send holds a number of its own, which *)
(* its text keeps if the provider takes it.                                *)

LEMMA ReservedIsFinite ==
  /\ IsFiniteSet(Reserved) /\ Cardinality(Reserved) \in Nat
  /\ IsFiniteSet(Reserved') /\ Cardinality(Reserved') \in Nat
<1>1. Reserved \subseteq Workers /\ Reserved' \subseteq Workers
  BY DEF Reserved
<1>2. IsFiniteSet(Reserved) /\ IsFiniteSet(Reserved')
  BY <1>1, FS_Subset, WorkersAssumption
<1> QED
  BY <1>2, FS_CardinalityType

\* A step that neither sends a text nor takes a number for one.
LEMMA CoverKept ==
  ASSUME IInv, NumbersCover, NEW w \in Workers, OthersKept(w),
         run'[w].pc # "text", Texts' = Texts, quota' \in {quota, quota + 1}
  PROVE  NumbersCover'
<1>1. Reserved' \subseteq Reserved
  BY DEF Reserved, OthersKept, At
<1>2. Cardinality(Reserved') <= Cardinality(Reserved)
  BY <1>1, ReservedIsFinite, FS_Subset
<1>3. Cardinality(Texts) \in Nat /\ quota \in Nat /\ DailyLimit \in Nat
  BY FS_CardinalityType, LimitAssumption DEF NumbersCover, IInv, TypeOK
<1>4. /\ Cardinality(Texts) + Cardinality(Reserved') <= quota'
      /\ Cardinality(Texts) + Cardinality(Reserved') <= DailyLimit
  BY <1>2, <1>3, ReservedIsFinite DEF NumbersCover
<1> QED
  BY <1>4 DEF NumbersCover

\* What a call of the provider adds to the texts.
LEMMA SentText ==
  ASSUME IInv, NEW j \in Jobs, kind' = kind,
         accepted' = [accepted EXCEPT ![j] = @ + 1]
  PROVE  /\ kind[j] # "sms" => Texts' = Texts
         /\ kind[j] = "sms" => Texts' = Texts \cup {<<j, accepted[j] + 1>>}
<1>1. /\ accepted'[j] = accepted[j] + 1 /\ accepted[j] \in Nat
      /\ \A i \in Jobs \ {j} : accepted'[i] = accepted[i]
  BY DEF IInv, TypeOK
<1>2. ASSUME kind[j] # "sms" PROVE Texts' = Texts
  BY <1>1, <1>2 DEF Texts
<1>3. ASSUME kind[j] = "sms"
      PROVE  Texts' = Texts \cup {<<j, accepted[j] + 1>>}
  <2>1. 1..accepted'[j] = (1..accepted[j]) \cup {accepted[j] + 1}
    BY <1>1
  <2>2. ASSUME NEW t \in Texts' PROVE t \in Texts \cup {<<j, accepted[j] + 1>>}
    <3>1. PICK i \in Jobs : kind[i] = "sms" /\ t \in {i} \X (1..accepted'[i])
      BY <2>2 DEF Texts
    <3>2. CASE i = j
      BY <1>3, <2>1, <3>1, <3>2 DEF Texts
    <3>3. CASE i # j
      BY <1>1, <3>1, <3>3 DEF Texts
    <3> QED
      BY <3>2, <3>3
  <2>3. ASSUME NEW t \in Texts PROVE t \in Texts'
    <3>1. PICK i \in Jobs : kind[i] = "sms" /\ t \in {i} \X (1..accepted[i])
      BY <2>3 DEF Texts
    <3>2. t \in {i} \X (1..accepted'[i])
      BY <1>1, <2>1, <3>1
    <3> QED
      BY <3>1, <3>2 DEF Texts
  <2>4. <<j, accepted[j] + 1>> \in Texts'
    BY <1>3, <2>1 DEF Texts
  <2> QED
    BY <2>2, <2>3, <2>4
<1> QED
  BY <1>2, <1>3

\* The number is taken before the comparison, and only one within the limit
\* lets the run go on.
LEMMA ReserveSmsCovers ==
  ASSUME IInv, NumbersCover, NEW w \in Workers, ReserveSms(w)
  PROVE  NumbersCover'
<1>1. OthersKept(w) /\ Texts' = Texts /\ quota' \in {quota, quota + 1}
  BY DEF IInv, TypeOK, OthersKept, ReserveSms, Goto, SettleAs, Texts, fixed
<1>2. CASE run'[w].pc # "text"
  BY <1>1, <1>2, CoverKept
<1>3. CASE run'[w].pc = "text"
  <2>1. quota' = quota + 1 /\ quota + 1 <= DailyLimit /\ quota \in Nat
    BY <1>3, LimitAssumption
       DEF IInv, TypeOK, Run, ReserveSms, Goto, SettleAs
  <2>2. w \notin Reserved
    BY DEF Reserved, ReserveSms, At
  <2>3. Reserved' \subseteq Reserved \cup {w}
    BY <1>1 DEF Reserved, OthersKept, At
  <2>4. /\ IsFiniteSet(Reserved \cup {w})
        /\ Cardinality(Reserved \cup {w}) = Cardinality(Reserved) + 1
    BY <2>2, ReservedIsFinite, FS_AddElement
  <2>5. Cardinality(Reserved') <= Cardinality(Reserved) + 1
    BY <2>3, <2>4, FS_Subset
  <2>6. Cardinality(Texts) \in Nat /\ DailyLimit \in Nat
    BY FS_CardinalityType, LimitAssumption DEF NumbersCover
  <2>7. /\ Cardinality(Texts) + Cardinality(Reserved') <= quota'
        /\ Cardinality(Texts) + Cardinality(Reserved') <= DailyLimit
    BY <2>1, <2>5, <2>6, ReservedIsFinite DEF NumbersCover
  <2> QED
    BY <1>1, <2>7 DEF NumbersCover
<1> QED
  BY <1>2, <1>3

\* The run gives its number up, to the text if the provider took it.
LEMMA SendSmsCovers ==
  ASSUME IInv, NumbersCover, NEW w \in Workers, SendSms(w)
  PROVE  NumbersCover'
<1> DEFINE j == run[w].job
<1>1. /\ OthersKept(w) /\ run'[w].pc # "text" /\ quota' = quota
      /\ kind' = kind
  <2>1. PICK pc \in {"flip", "fail"} : run' = [run EXCEPT ![w].pc = pc]
    BY DEF SendSms, CallProvider, Goto
  <2> QED
    BY <2>1 DEF IInv, TypeOK, Run, OthersKept, SendSms, fixed
<1>2. j \in Jobs
  BY DEF IInv, RunsOK, RunOK, SendSms, At
<1>3. CASE accepted' = accepted
  <2>1. Texts' = Texts
    BY <1>1, <1>3 DEF Texts
  <2> QED
    BY <1>1, <2>1, CoverKept
<1>4. CASE accepted' = [accepted EXCEPT ![j] = @ + 1]
  <2>1. Texts' \subseteq Texts \cup {<<j, accepted[j] + 1>>}
    BY <1>1, <1>2, <1>4, SentText
  <2>2. Reserved' \cup {w} \subseteq Reserved /\ w \notin Reserved'
    BY <1>1 DEF Reserved, OthersKept, At, SendSms
  <2>3. Cardinality(Reserved' \cup {w}) = Cardinality(Reserved') + 1
    BY <2>2, ReservedIsFinite, FS_AddElement
  <2>4. Cardinality(Reserved') + 1 <= Cardinality(Reserved)
    BY <2>2, <2>3, ReservedIsFinite, FS_Subset
  <2>5. IsFiniteSet(Texts) /\ Cardinality(Texts) \in Nat
    BY FS_CardinalityType DEF NumbersCover
  <2>6. /\ IsFiniteSet(Texts \cup {<<j, accepted[j] + 1>>})
        /\ \/ Cardinality(Texts \cup {<<j, accepted[j] + 1>>})
                = Cardinality(Texts)
           \/ Cardinality(Texts \cup {<<j, accepted[j] + 1>>})
                = Cardinality(Texts) + 1
    BY <2>5, FS_AddElement
  <2>7. /\ IsFiniteSet(Texts') /\ Cardinality(Texts') \in Nat
        /\ Cardinality(Texts') <= Cardinality(Texts) + 1
    BY <2>1, <2>5, <2>6, FS_Subset, FS_CardinalityType
  <2>8. quota \in Nat /\ DailyLimit \in Nat
    BY LimitAssumption DEF IInv, TypeOK
  <2>9. /\ Cardinality(Texts') + Cardinality(Reserved') <= quota
        /\ Cardinality(Texts') + Cardinality(Reserved') <= DailyLimit
    BY <2>4, <2>5, <2>7, <2>8, ReservedIsFinite DEF NumbersCover
  <2> QED
    BY <1>1, <2>7, <2>9 DEF NumbersCover
<1> QED
  BY <1>3, <1>4 DEF SendSms, CallProvider

\* An email is no text.
LEMMA SendEmailCovers ==
  ASSUME IInv, NumbersCover, NEW w \in Workers, SendEmail(w)
  PROVE  NumbersCover'
<1>1. /\ OthersKept(w) /\ run'[w].pc # "text" /\ quota' = quota
      /\ kind' = kind
  <2>1. CASE \E pc \in {"flip", "fail"} : run' = [run EXCEPT ![w].pc = pc]
    BY <2>1 DEF IInv, TypeOK, Run, OthersKept, SendEmail, fixed
  <2>2. CASE SettleAs(w, "SKIPPED")
    BY <2>2 DEF IInv, TypeOK, Run, OthersKept, SettleAs, SendEmail, fixed
  <2> QED
    BY <2>1, <2>2 DEF SendEmail, CallProvider, Goto
<1>2. run[w].job \in Jobs /\ kind[run[w].job] # "sms"
  BY DEF IInv, RunsOK, RunOK, SendEmail, At, Channel
<1>3. \/ accepted' = accepted
      \/ accepted' = [accepted EXCEPT ![run[w].job] = @ + 1]
  BY DEF SendEmail, CallProvider
<1>4. Texts' = Texts
  <2>1. CASE accepted' = accepted
    BY <1>1, <2>1 DEF Texts
  <2>2. CASE accepted' = [accepted EXCEPT ![run[w].job] = @ + 1]
    BY <1>1, <1>2, <2>2, SentText
  <2> QED
    BY <1>3, <2>1, <2>2
<1> QED
  BY <1>1, <1>4, CoverKept

LEMMA NextCovers == IInv /\ NumbersCover /\ [Next]_vars => NumbersCover'
<1> SUFFICES ASSUME IInv, NumbersCover, [Next]_vars
             PROVE  NumbersCover'
  OBVIOUS
<1>1. CASE \/ UNCHANGED vars
           \/ \E j \in Jobs : Enqueue(j) \/ StallJob(j)
  <2>1. UNCHANGED <<run, kind, accepted, quota>>
    BY <1>1 DEF vars, fixed, Enqueue, StallJob
  <2>2. Texts' = Texts /\ Reserved' = Reserved
    BY <2>1 DEF Texts, Reserved, At
  <2> QED
    BY <2>1, <2>2 DEF NumbersCover
<1>2. ASSUME NEW w \in Workers, SendEmail(w) \/ ReserveSms(w) \/ SendSms(w)
      PROVE  NumbersCover'
  BY <1>2, SendEmailCovers, ReserveSmsCovers, SendSmsCovers
<1>3. ASSUME NEW w \in Workers,
             \/ \E j \in Jobs : Take(w, j)
             \/ Drop(w) \/ WriteLog(w) \/ Settle(w) \/ Fail(w)
             \/ ThrowAgain(w) \/ Flip(w) \/ Count(w) \/ Return(w) \/ Bury(w) \/ DbError(w) \/ Crash(w)
      PROVE  NumbersCover'
  <2>1. UNCHANGED <<kind, accepted>> /\ quota' \in {quota, quota + 1}
    BY <1>3 DEF Take, Drop, WriteLog, Settle, Fail, ThrowAgain, Flip, Count,
                Return, Bury, DbError, Crash, fixed
  <2>2. Texts' = Texts
    BY <2>1 DEF Texts
  <2>3. OthersKept(w) /\ run'[w].pc # "text"
    <3>1. CASE Throws(w)
      BY <3>1, ThrowsFacts DEF IInv, Idle
    <3>2. CASE run' = [run EXCEPT ![w] = Idle]
      BY <3>2, IdleFacts DEF IInv, Idle
    <3>3. ASSUME NEW pc \in Steps \ {"text"}, Goto(w, pc)
          PROVE  OthersKept(w) /\ run'[w].pc # "text"
      BY <3>3 DEF Goto, IInv, TypeOK, OthersKept, Run
    <3>4. CASE \E j \in Jobs : Take(w, j)
      BY <3>4 DEF Take, IInv, TypeOK, OthersKept
    <3> QED
      BY <1>3, <3>1, <3>2, <3>3, <3>4
         DEF Drop, WriteLog, Settle, Fail, ThrowAgain, Flip, Count, Return,
             Returns, Bury, DbError, Crash, Steps
  <2> QED
    BY <2>1, <2>2, <2>3, CoverKept
<1> QED
  BY <1>1, <1>2, <1>3 DEF Next, Work

LEMMA InitCovers == Init => NumbersCover
<1> SUFFICES ASSUME Init
             PROVE  NumbersCover
  OBVIOUS
<1>1. Texts = {}
  BY DEF Init, Texts
<1>2. Reserved = {}
  BY DEF Init, Reserved, At, Idle
<1>3. IsFiniteSet({}) /\ Cardinality({}) = 0
  BY FS_EmptySet
<1> QED
  BY <1>1, <1>2, <1>3, LimitAssumption DEF NumbersCover, Init

\* Never more texts in a day than the plan allows, with any number of workers
\* and whatever fails between the counter and the provider:
\* notifications.worker.ts counts first and compares what the counter says.
THEOREM QuotaIsHeld == Spec => []QuotaHeld
<1>1. QuotaIInv => QuotaHeld
  <2> SUFFICES ASSUME QuotaIInv
               PROVE  Cardinality(Texts) <= DailyLimit
    BY DEF QuotaHeld
  <2> QED
    BY ReservedIsFinite, FS_CardinalityType, LimitAssumption
       DEF QuotaIInv, NumbersCover
<1>2. Init => QuotaIInv
  BY InitIInv, InitCovers DEF QuotaIInv
<1>3. QuotaIInv /\ [Next]_vars => QuotaIInv'
  BY NextIInv, NextCovers DEF QuotaIInv
<1> QED
  BY <1>1, <1>2, <1>3, PTL DEF Spec

-----------------------------------------------------------------------------
(* The messages: each is paid for by a fetch of its job, and a run that can *)
(* still call the provider by one that has brought no message yet.          *)

LEMMA CallingIsFinite ==
  ASSUME NEW j \in Jobs
  PROVE  IsFiniteSet(Calling(j)) /\ Cardinality(Calling(j)) \in Nat
<1>1. Calling(j) \subseteq Workers
  BY DEF Calling
<1>2. IsFiniteSet(Calling(j))
  BY <1>1, FS_Subset, WorkersAssumption
<1> QED
  BY <1>2, FS_CardinalityType

LEMMA FetchesTyped ==
  ASSUME IInv, NEW j \in Jobs
  PROVE  /\ Fetches(j) \in Nat /\ job[j].made \in Nat /\ Attempts \in Nat
         /\ job[j].stalled \in BOOLEAN
<1>1. /\ Attempts \in Nat /\ job[j].made \in 0..Attempts
      /\ job[j].stalled \in BOOLEAN
  BY AttemptsAssumption DEF IInv, TypeOK, JobsTypeOK, JobRecord
<1> QED
  BY <1>1 DEF Fetches

\* No job has been fetched more often, or less.
SameFetches == \A j \in Jobs : Fetches(j)' = Fetches(j)

\* A job that is queued or found stalled has been fetched as often as before.
LEMMA QueueFetches ==
  ASSUME IInv, NEW j \in Jobs, Add(j) \/ Stall(j)
  PROVE  SameFetches
<1>1. \A i \in Jobs \ {j} : job'[i] = job[i]
  BY DEF IInv, TypeOK, JobsTypeOK, Add, Stall
<1>2. CASE Add(j)
  <2>1. /\ job[j].state = "none"
        /\ job'[j].state = "waiting" /\ job'[j].made = job[j].made
        /\ job'[j].stalled = job[j].stalled
    BY <1>2 DEF IInv, TypeOK, JobsTypeOK, Add, JobRecord
  <2> QED
    BY <1>1, <2>1, FetchesTyped DEF SameFetches, Fetches
<1>3. CASE Stall(j)
  <2>1. /\ job[j].state = "active"
        /\ job'[j].state \in {"failed", "waiting"}
        /\ job'[j].made = (IF job[j].stalled THEN job[j].made + 1
                                             ELSE job[j].made)
        /\ job'[j].stalled = TRUE
    BY <1>3 DEF IInv, TypeOK, JobsTypeOK, Stall, JobRecord
  <2> QED
    BY <1>1, <2>1, FetchesTyped DEF SameFetches, Fetches
<1> QED
  BY <1>2, <1>3

\* So has one of which a worker reports, with or without its lock.
LEMMA ReportFetches ==
  ASSUME IInv, NEW j \in Jobs, NEW w \in Workers,
         Complete(w, j) \/ Reject(w, j)
  PROVE  SameFetches
<1>1. CASE ~Holds(w, j)
  <2>1. job' = job
    BY <1>1 DEF Complete, Reject
  <2> QED
    BY <2>1 DEF SameFetches, Fetches
<1>2. CASE Holds(w, j)
  <2>1. \A i \in Jobs \ {j} : job'[i] = job[i]
    BY <1>2 DEF IInv, TypeOK, JobsTypeOK, Complete, Reject
  <2>2. job[j].state = "active" /\ job'[j].stalled = job[j].stalled
    BY <1>2 DEF IInv, TypeOK, JobsTypeOK, Complete, Reject, Holds, JobRecord
  <2>3. CASE Complete(w, j)
    <3>1. job'[j].state = "completed" /\ job'[j].made = job[j].made
      BY <1>2, <2>3 DEF IInv, TypeOK, JobsTypeOK, Complete, JobRecord
    <3> QED
      BY <2>1, <2>2, <3>1 DEF SameFetches, Fetches
  <2>4. CASE Reject(w, j)
    <3>1. /\ job'[j].state \in {"failed", "waiting"}
          /\ job'[j].made = job[j].made + 1
      BY <1>2, <2>4 DEF IInv, TypeOK, JobsTypeOK, Reject, JobRecord
    <3> QED
      BY <2>1, <2>2, <3>1, FetchesTyped DEF SameFetches, Fetches
  <2> QED
    BY <2>3, <2>4
<1> QED
  BY <1>1, <1>2

\* A step that has no message sent and lets no more runs call the provider.
LEMMA FetchedKept ==
  ASSUME IInv, MessagesFetched, UNCHANGED accepted,
         SameFetches, \A j \in Jobs : Calling(j)' \subseteq Calling(j)
  PROVE  MessagesFetched'
<1> SUFFICES ASSUME NEW j \in Jobs
             PROVE  accepted[j] + Cardinality(Calling(j)') <= Fetches(j)'
  BY DEF MessagesFetched
<1>1. /\ Cardinality(Calling(j)') <= Cardinality(Calling(j))
      /\ Cardinality(Calling(j)') \in Nat
  BY CallingIsFinite, FS_Subset, FS_CardinalityType
<1>2. accepted[j] + Cardinality(Calling(j)) <= Fetches(j)
  BY DEF MessagesFetched
<1>3. /\ accepted[j] \in Nat /\ Cardinality(Calling(j)) \in Nat
      /\ Fetches(j) \in Nat /\ Fetches(j)' = Fetches(j)
  BY CallingIsFinite, FetchesTyped DEF IInv, TypeOK, SameFetches
<1> QED
  BY <1>1, <1>2, <1>3

LEMMA TakeFetches ==
  ASSUME IInv, MessagesFetched, NEW w \in Workers, NEW j \in Jobs, Take(w, j)
  PROVE  MessagesFetched'
<1>1. /\ job[j].state = "waiting"
      /\ job'[j].state = "active" /\ job'[j].made = job[j].made
      /\ job'[j].stalled = job[j].stalled
      /\ \A i \in Jobs \ {j} : job'[i] = job[i]
  BY DEF Take, Lock, IInv, TypeOK, JobsTypeOK, JobRecord
<1>2. /\ run[w].pc = "idle" /\ run'[w].pc = "log" /\ run'[w].job = j
      /\ \A v \in Workers \ {w} : run'[v] = run[v]
      /\ accepted' = accepted
  BY DEF Take, At, IInv, TypeOK
<1> SUFFICES ASSUME NEW i \in Jobs
             PROVE  accepted[i] + Cardinality(Calling(i)') <= Fetches(i)'
  BY <1>2 DEF MessagesFetched
<1>3. /\ accepted[i] + Cardinality(Calling(i)) <= Fetches(i)
      /\ accepted[i] \in Nat /\ Cardinality(Calling(i)) \in Nat
  BY CallingIsFinite DEF IInv, TypeOK, MessagesFetched
<1>4. Fetches(i) \in Nat
  BY FetchesTyped
<1>5. CASE i = j
  <2>1. Calling(i)' = Calling(i) \cup {w} /\ w \notin Calling(i)
    BY <1>2, <1>5 DEF Calling
  <2>2. Cardinality(Calling(i)') = Cardinality(Calling(i)) + 1
    BY <2>1, CallingIsFinite, FS_AddElement
  <2>3. Fetches(i)' = Fetches(i) + 1
    BY <1>1, <1>5, FetchesTyped DEF Fetches
  <2> QED
    BY <1>3, <1>4, <2>2, <2>3
<1>6. CASE i # j
  <2>1. Calling(i)' = Calling(i)
    BY <1>2, <1>6 DEF Calling
  <2>2. Fetches(i)' = Fetches(i)
    BY <1>1, <1>6 DEF Fetches
  <2> QED
    BY <1>3, <2>1, <2>2
<1> QED
  BY <1>5, <1>6

\* The provider takes the message of a run that can call it no more.
LEMMA CallFetched ==
  ASSUME IInv, MessagesFetched, NEW w \in Workers,
         run[w].pc \in {"send", "text"}, CallProvider(w)
  PROVE  MessagesFetched'
<1>1. PICK pc \in {"flip", "fail"} : run' = [run EXCEPT ![w].pc = pc]
  BY DEF CallProvider, Goto
<1>2. /\ run'[w].pc = pc /\ run'[w].job = run[w].job /\ job' = job
      /\ \A v \in Workers \ {w} : run'[v] = run[v]
  BY <1>1 DEF CallProvider, IInv, TypeOK, Run
<1>3. PICK j \in Jobs : j = run[w].job
  BY DEF IInv, RunsOK, RunOK, At
<1>4. SameFetches
  BY <1>2 DEF SameFetches, Fetches
<1>5. \A i \in Jobs : Calling(i)' \subseteq Calling(i)
  BY <1>1, <1>2 DEF Calling
<1>6. CASE accepted' = accepted
  BY <1>4, <1>5, <1>6, FetchedKept
<1>7. CASE accepted' = [accepted EXCEPT ![j] = @ + 1]
  <2> SUFFICES ASSUME NEW i \in Jobs
               PROVE  accepted'[i] + Cardinality(Calling(i)') <= Fetches(i)'
    BY DEF MessagesFetched
  <2>1. /\ accepted[i] + Cardinality(Calling(i)) <= Fetches(i)
        /\ accepted[i] \in Nat /\ Cardinality(Calling(i)) \in Nat
        /\ Fetches(i)' = Fetches(i) /\ Fetches(i) \in Nat
    BY <1>4, CallingIsFinite, FetchesTyped
       DEF IInv, TypeOK, MessagesFetched, SameFetches
  <2>2. CASE i = j
    <3>1. Calling(i)' = Calling(i) \ {w} /\ w \in Calling(i)
      BY <1>1, <1>2, <1>3, <2>2 DEF Calling
    <3>2. Cardinality(Calling(i)') = Cardinality(Calling(i)) - 1
      BY <3>1, CallingIsFinite, FS_RemoveElement
    <3>3. accepted'[i] = accepted[i] + 1
      BY <1>7, <2>2 DEF IInv, TypeOK
    <3> QED
      BY <2>1, <3>2, <3>3
  <2>3. CASE i # j
    <3>1. Calling(i)' = Calling(i)
      BY <1>1, <1>2, <1>3, <2>3 DEF Calling
    <3>2. accepted'[i] = accepted[i]
      BY <1>7, <2>3 DEF IInv, TypeOK
    <3> QED
      BY <2>1, <3>1, <3>2
  <2> QED
    BY <2>2, <2>3
<1> QED
  BY <1>3, <1>6, <1>7 DEF CallProvider

\* Without a recipient or a provider nothing is sent.
LEMMA SendEmailFetched ==
  ASSUME IInv, MessagesFetched, NEW w \in Workers, SendEmail(w)
  PROVE  MessagesFetched'
<1>1. CASE CallProvider(w)
  BY <1>1, CallFetched DEF SendEmail, At
<1>2. CASE ~CallProvider(w)
  <2>1. UNCHANGED <<job, accepted>>
    BY <1>2 DEF SendEmail
  <2>2. SameFetches
    BY <2>1 DEF SameFetches, Fetches
  <2>3. OthersKept(w) /\ run'[w].pc \in {"fail", "settle"}
    BY <1>2 DEF IInv, TypeOK, Run, OthersKept, SendEmail, Goto, SettleAs
  <2>4. \A j \in Jobs : Calling(j)' \subseteq Calling(j)
    BY <2>3 DEF Calling, OthersKept
  <2> QED
    BY <2>1, <2>2, <2>4, FetchedKept
<1> QED
  BY <1>1, <1>2

\* What a step of w that has nothing sent does to its job and its run.
LEMMA QuietFacts ==
  ASSUME IInv, NEW w \in Workers,
         \/ Drop(w) \/ WriteLog(w) \/ ReserveSms(w) \/ Settle(w) \/ Fail(w)
         \/ ThrowAgain(w) \/ Flip(w) \/ Count(w) \/ Return(w) \/ Bury(w) \/ DbError(w)
         \/ Crash(w)
  PROVE  /\ accepted' = accepted /\ SameFetches
         /\ OthersKept(w)
         /\ run'[w].pc \in {"log", "send", "text"} =>
              /\ run[w].pc \in {"log", "send", "text"}
              /\ run'[w].job = run[w].job
<1>1. accepted' = accepted
  BY DEF Drop, WriteLog, ReserveSms, Settle, Fail, ThrowAgain, Flip, Count, Return,
         Bury, DbError, Crash
<1>2. /\ \/ job' = job
         \/ /\ run[w].job \in Jobs
            /\ Complete(w, run[w].job) \/ Reject(w, run[w].job)
  BY DEF IInv, RunsOK, RunOK, At, Drop, WriteLog, ReserveSms, Settle, Fail,
         ThrowAgain, Flip, Count, Return, Returns, Throws, Bury, DbError, Crash
<1>3. SameFetches
  <2>1. CASE job' = job
    BY <2>1 DEF SameFetches, Fetches
  <2>2. CASE /\ run[w].job \in Jobs
             /\ Complete(w, run[w].job) \/ Reject(w, run[w].job)
    <3>1. PICK j \in Jobs : j = run[w].job
      BY <2>2
    <3> QED
      BY <2>2, <3>1, ReportFetches
  <2> QED
    BY <1>2, <2>1, <2>2
<1>4. /\ OthersKept(w)
      /\ run'[w].pc \in {"log", "send", "text"} =>
           /\ run[w].pc \in {"log", "send", "text"}
           /\ run'[w].job = run[w].job
  <2>1. CASE Throws(w)
    BY <2>1, ThrowsFacts DEF IInv, Idle
  <2>2. CASE run' = [run EXCEPT ![w] = Idle]
    BY <2>2, IdleFacts DEF IInv, Idle
  <2>3. ASSUME NEW pc \in Steps \ {"log", "send", "text"}, Goto(w, pc)
        PROVE  OthersKept(w) /\ run'[w].pc \notin {"log", "send", "text"}
    BY <2>3 DEF Goto, IInv, TypeOK, OthersKept, Run
  <2>4. CASE WriteLog(w) \/ ReserveSms(w)
    BY <2>4 DEF IInv, TypeOK, Run, OthersKept, WriteLog, ReserveSms, Goto,
                SettleAs, At
  <2> QED
    BY <2>1, <2>2, <2>3, <2>4
       DEF Drop, Settle, Fail, ThrowAgain, Flip, Count, Return, Returns, Bury,
           DbError, Crash, Steps
<1> QED
  BY <1>1, <1>3, <1>4

LEMMA NextFetched ==
  IInv /\ MessagesFetched /\ [Next]_vars => MessagesFetched'
<1> SUFFICES ASSUME IInv, MessagesFetched, [Next]_vars
             PROVE  MessagesFetched'
  OBVIOUS
<1>1. CASE UNCHANGED vars
  BY <1>1 DEF vars, MessagesFetched, Calling, Fetches
<1>2. ASSUME NEW j \in Jobs, Enqueue(j) \/ StallJob(j)
      PROVE  MessagesFetched'
  <2>1. UNCHANGED <<run, accepted>> /\ SameFetches
    BY <1>2, QueueFetches DEF Enqueue, StallJob
  <2>2. \A i \in Jobs : Calling(i)' \subseteq Calling(i)
    BY <2>1 DEF Calling
  <2> QED
    BY <2>1, <2>2, FetchedKept
<1>3. ASSUME NEW w \in Workers, NEW j \in Jobs, Take(w, j)
      PROVE  MessagesFetched'
  BY <1>3, TakeFetches
<1>4. ASSUME NEW w \in Workers, SendEmail(w) \/ SendSms(w)
      PROVE  MessagesFetched'
  BY <1>4, SendEmailFetched, CallFetched DEF SendSms, At
<1>5. ASSUME NEW w \in Workers,
             \/ Drop(w) \/ WriteLog(w) \/ ReserveSms(w) \/ Settle(w)
             \/ Fail(w) \/ ThrowAgain(w) \/ Flip(w) \/ Count(w) \/ Return(w)
             \/ Bury(w) \/ DbError(w) \/ Crash(w)
      PROVE  MessagesFetched'
  <2>1. /\ accepted' = accepted /\ SameFetches
        /\ OthersKept(w)
        /\ run'[w].pc \in {"log", "send", "text"} =>
             /\ run[w].pc \in {"log", "send", "text"}
             /\ run'[w].job = run[w].job
    BY <1>5, QuietFacts
  <2>2. \A j \in Jobs : Calling(j)' \subseteq Calling(j)
    BY <2>1 DEF Calling, OthersKept
  <2> QED
    BY <2>1, <2>2, FetchedKept
<1> QED
  BY <1>1, <1>2, <1>3, <1>4, <1>5 DEF Next, Work

LEMMA InitFetched == Init => MessagesFetched
<1> SUFFICES ASSUME Init, NEW j \in Jobs
             PROVE  accepted[j] + Cardinality(Calling(j)) <= Fetches(j)
  BY DEF MessagesFetched
<1>1. Calling(j) = {} /\ accepted[j] = 0
  BY DEF Init, Idle, Calling
<1> QED
  BY <1>1, InitIInv, FetchesTyped, FS_EmptySet

\* A recipient gets at most one message more than the queue has attempts: each
\* is paid for by a fetch of the job, the queue fetches a job once for each
\* attempt, and it forgives one stall (defaultJobOptions of queues.ts and the
\* send of notifications.worker.ts, which asks the provider before it writes
\* that the message is sent).
THEOREM MessagesAreBounded == Spec => []MessagesBounded
<1>1. MessagesIInv => MessagesBounded
  <2> SUFFICES ASSUME MessagesIInv, NEW j \in Jobs
               PROVE  accepted[j] <= Attempts + 1
    BY DEF MessagesBounded
  <2>1. accepted[j] + Cardinality(Calling(j)) <= Fetches(j)
    BY DEF MessagesIInv, MessagesFetched
  <2>2. /\ accepted[j] \in Nat /\ Cardinality(Calling(j)) \in Nat
        /\ Fetches(j) \in Nat /\ job[j].made \in Nat /\ Attempts \in Nat
    BY CallingIsFinite, FetchesTyped DEF MessagesIInv, IInv, TypeOK
  <2>3. Fetches(j) <= Attempts + 1
    BY <2>2, AttemptsAssumption
       DEF MessagesIInv, IInv, TypeOK, JobsTypeOK, JobRecord, AttemptsLeft,
           Fetches
  <2> QED
    BY <2>1, <2>2, <2>3
<1>2. Init => MessagesIInv
  BY InitIInv, InitFetched DEF MessagesIInv
<1>3. MessagesIInv /\ [Next]_vars => MessagesIInv'
  BY NextIInv, NextFetched DEF MessagesIInv
<1> QED
  BY <1>1, <1>2, <1>3, PTL DEF Spec
=============================================================================
