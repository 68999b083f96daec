--------------------------- MODULE Dunning_proofs ---------------------------
(***************************************************************************)
(* Theorems about Dunning and TenantSuspension for any invoices, callers,  *)
(* causes and length of the sequence.  A step is performed at most once    *)
(* because a claimed one is in one caller's hands; the tenant's status     *)
(* follows its causes, however many transactions are under way, until one  *)
(* commits a status that it would not have left had it read again.         *)
(***************************************************************************)
EXTENDS Dunning, TLAPS

-----------------------------------------------------------------------------
(* The tenant *)

\* What any transaction on the tenant does in a step.
TenantStep(w) ==
  \/ \E c \in Causes : SuspendTenant(w, c)
  \/ \E T : LiftSuspension(w, T)
  \/ CloseTenant(w) \/ Rollback(w) \/ Proceeds(w)

LEMMA CallTyped ==
  ASSUME TenantTypeOK, NEW w \in Callers
  PROVE  /\ call[w].pc = "suspend"
              => /\ call[w].cause \in Causes
                 /\ call[w].read \in TenantStatus
                 /\ call[w].closed \in BOOLEAN
         /\ call[w].pc = "lift"
              => /\ call[w].targets \in SUBSET Causes
                 /\ call[w].read \in TenantStatus
                 /\ call[w].closed \in BOOLEAN
         /\ call[w].pc = "lifted"
              => /\ call[w].targets \in SUBSET Causes
                 /\ call[w].becameActive \in BOOLEAN
<1>1. call[w] \in Calls
  BY DEF TenantTypeOK
<1> QED BY <1>1 DEF Calls, NoCall

LEMMA CallWritten ==
  ASSUME TenantTypeOK, NEW w \in Callers, NEW c \in Calls,
         call' = [call EXCEPT ![w] = c]
  PROVE  call' \in [Callers -> Calls]
BY DEF TenantTypeOK

LEMMA NoCallIsCall == NoCall \in Calls
BY DEF Calls

LEMMA ClosedIsBoolean ==
  ASSUME TenantTypeOK
  PROVE  isClosed \in BOOLEAN
BY DEF TenantTypeOK, isClosed

LEMMA ReadingTyped ==
  ASSUME TenantTypeOK, NEW w \in Callers, NEW c \in Causes, Reading(w, c)
  PROVE  call' \in [Callers -> Calls]
<1> DEFINE new == [pc |-> "suspend", cause |-> c,
                   read |-> tenant.status, closed |-> isClosed]
<1>1. tenant.status \in TenantStatus
  BY DEF TenantTypeOK
<1>2. new \in Calls
  BY <1>1, ClosedIsBoolean DEF Calls
<1> QED BY <1>2, CallWritten DEF Reading

LEMMA StatusTyped ==
  ASSUME TenantTypeOK, NEW left \in TenantStatus,
         tenant' = [tenant EXCEPT !.status = left]
  PROVE  /\ tenant' \in [status : TenantStatus, closed : BOOLEAN]
         /\ tenant'.status = left /\ tenant'.closed = tenant.closed
BY DEF TenantTypeOK

LEMMA LeftTyped ==
  ASSUME TenantTypeOK
  PROVE  /\ \A status, closed : AfterSuspend(status, closed) \in TenantStatus
         /\ \A active : AfterLift(active) \in TenantStatus
BY DEF TenantTypeOK, AfterSuspend, AfterLift, TenantStatus

LEMMA TenantTyped ==
  ASSUME TenantTypeOK, NEW w \in Callers, TenantStep(w)
  PROVE  TenantTypeOK'
<1>1. CASE \E c \in Causes : SuspendTenant(w, c)
  BY <1>1, ReadingTyped DEF SuspendTenant, TenantTypeOK
<1>2. CASE \E T : LiftSuspension(w, T)
  <2>1. PICK T : LiftSuspension(w, T)
    BY <1>2
  <2> DEFINE new == [pc |-> "lift", targets |-> T,
                     read |-> tenant.status, closed |-> isClosed]
  <2>2. tenant.status \in TenantStatus /\ T \in SUBSET Causes
    BY <2>1 DEF TenantTypeOK, LiftSuspension, ActiveCauses
  <2>3. new \in Calls
    BY <2>2, ClosedIsBoolean DEF Calls
  <2>4. call' = [call EXCEPT ![w] = new]
        /\ UNCHANGED <<tenant, record, overtaken>>
    BY <2>1 DEF LiftSuspension
  <2> QED BY <2>3, <2>4, CallWritten DEF TenantTypeOK
<1>3. CASE CloseTenant(w)
  <2>1. [pc |-> "close"] \in Calls
    BY DEF Calls
  <2> QED BY <1>3, <2>1, CallWritten DEF CloseTenant, TenantTypeOK
<1>4. CASE Rollback(w)
  BY <1>4, CallWritten, NoCallIsCall DEF Rollback, TenantTypeOK
<1>5. CASE Suspend(w)
  <2>1. call[w].cause \in Causes /\ call' \in [Callers -> Calls]
    BY <1>5, CallTyped, CallWritten, NoCallIsCall DEF Suspend
  <2>2. record' \in [Causes -> {"none", "ACTIVE", "LIFTED"}]
    BY <1>5, <2>1 DEF Suspend, TenantTypeOK
  <2>3. tenant' \in [status : TenantStatus, closed : BOOLEAN]
    BY <1>5, LeftTyped, StatusTyped DEF Suspend
  <2>4. overtaken' \in BOOLEAN
    BY <1>5 DEF Suspend
  <2> QED BY <2>1, <2>2, <2>3, <2>4 DEF TenantTypeOK
<1>6. CASE LiftRecords(w)
  <2> DEFINE T == call[w].targets \cap ActiveCauses
             new == [pc |-> "lifted", targets |-> T,
                     becameActive |-> /\ ActiveCauses \subseteq T
                                      /\ call[w].read = "SUSPENDED"
                                      /\ ~call[w].closed]
  <2>1. T \in SUBSET Causes /\ call[w].closed \in BOOLEAN
    BY <1>6, CallTyped DEF LiftRecords
  <2>2. new \in Calls
    BY <2>1 DEF Calls
  <2>3. call' = [call EXCEPT ![w] = new]
        /\ UNCHANGED <<tenant, record, overtaken>>
    BY <1>6 DEF LiftRecords
  <2> QED BY <2>2, <2>3, CallWritten DEF TenantTypeOK
<1>7. CASE Lift(w)
  <2>1. call' \in [Callers -> Calls]
    BY <1>7, CallWritten, NoCallIsCall DEF Lift
  <2>2. record' \in [Causes -> {"none", "ACTIVE", "LIFTED"}]
    BY <1>7 DEF Lift, TenantTypeOK
  <2>3. tenant' \in [status : TenantStatus, closed : BOOLEAN]
    BY <1>7, LeftTyped, StatusTyped DEF Lift
  <2>4. overtaken' \in BOOLEAN
    BY <1>7 DEF Lift
  <2> QED BY <2>1, <2>2, <2>3, <2>4 DEF TenantTypeOK
<1>8. CASE Close(w)
  <2>1. [pc |-> "closed"] \in Calls
    BY DEF Calls
  <2>2. call' \in [Callers -> Calls]
    BY <1>8, <2>1, CallWritten DEF Close
  <2> QED BY <1>8, <2>2 DEF Close, TenantTypeOK, TenantStatus
<1>9. CASE SuspendClosed(w)
  <2>1. call' \in [Callers -> Calls]
    BY <1>9, ReadingTyped, CallWritten, NoCallIsCall, SuspensionAssumption
       DEF SuspendClosed
  <2> QED BY <1>9, <2>1 DEF SuspendClosed, TenantTypeOK
<1> QED BY <1>1, <1>2, <1>3, <1>4, <1>5, <1>6, <1>7, <1>8, <1>9
        DEF TenantStep, Proceeds

\* A step that leaves the tenant and its records alone, or a commit that would
\* leave the same status had it read again.
LEMMA TenantKept ==
  ASSUME TenantTypeOK, TenantInv, NEW w \in Callers, TenantStep(w)
  PROVE  TenantInv'
<1>1. CASE UNCHANGED <<tenant, record, overtaken>>
  BY <1>1 DEF TenantInv, StatusFollowsCauses, ActiveCauses
<1>2. CASE Close(w)
  BY <1>2 DEF Close, TenantInv, StatusFollowsCauses
<1>3. CASE Suspend(w)
  <2> SUFFICES ASSUME ~overtaken'
               PROVE  TenantInv'
    BY DEF TenantInv
  <2> DEFINE left == AfterSuspend(tenant.status, isClosed)
  <2>1. /\ ~overtaken
        /\ tenant' = [tenant EXCEPT !.status = left]
    BY <1>3 DEF Suspend
  <2>2. tenant'.status = left /\ tenant'.closed = tenant.closed
    BY <2>1, LeftTyped, StatusTyped
  <2>3. ActiveCauses' # {}
    <3>1. call[w].cause \in Causes
      BY <1>3, CallTyped DEF Suspend
    <3> QED BY <1>3, <3>1 DEF Suspend, ActiveCauses, TenantTypeOK
  <2>4. tenant.closed <=> tenant.status = "CANCELLED"
    BY <2>1 DEF TenantInv
  <2>5. left = IF tenant.closed THEN "CANCELLED" ELSE "SUSPENDED"
    BY <2>4 DEF AfterSuspend, isClosed
  <2> QED BY <2>2, <2>3, <2>5 DEF TenantInv, StatusFollowsCauses
<1>4. CASE Lift(w)
  <2> SUFFICES ASSUME ~overtaken'
               PROVE  TenantInv'
    BY DEF TenantInv
  <2> DEFINE T == call[w].targets
             left == AfterLift(BecomesActive(T))
  <2>1. /\ ~overtaken
        /\ tenant' = [tenant EXCEPT !.status = left]
    BY <1>4 DEF Lift
  <2>2. tenant'.status = left /\ tenant'.closed = tenant.closed
    BY <2>1, LeftTyped, StatusTyped
  <2>3. ActiveCauses' = ActiveCauses \ T
    BY <1>4 DEF Lift, ActiveCauses, TenantTypeOK
  <2>4. /\ tenant.closed <=> tenant.status = "CANCELLED"
        /\ StatusFollowsCauses
    BY <2>1 DEF TenantInv
  <2>5. CASE BecomesActive(T)
    <3>1. left = "ACTIVE" /\ ActiveCauses' = {} /\ ~tenant.closed
      BY <2>3, <2>5 DEF AfterLift, BecomesActive, isClosed
    <3> QED BY <2>2, <3>1 DEF TenantInv, StatusFollowsCauses
  <2>6. CASE ~BecomesActive(T)
    <3>1. left = tenant.status
      BY <2>6 DEF AfterLift
    <3>2. tenant.status = "SUSPENDED" /\ ~tenant.closed
            => ActiveCauses' # {}
      BY <2>3, <2>4, <2>6 DEF BecomesActive, isClosed
    <3>3. ActiveCauses' \subseteq ActiveCauses
      BY <2>3
    <3> QED BY <2>2, <2>4, <3>1, <3>2, <3>3
            DEF TenantInv, StatusFollowsCauses
  <2> QED BY <2>5, <2>6
<1> QED BY <1>1, <1>2, <1>3, <1>4
        DEF TenantStep, Proceeds, SuspendTenant, LiftSuspension, CloseTenant,
            Rollback, LiftRecords, SuspendClosed

-----------------------------------------------------------------------------
(* The dunning *)

LEMMA Initially == Init => IInv /\ TenantInv
<1> SUFFICES ASSUME Init PROVE IInv /\ TenantInv
  OBVIOUS
<1>1. TypeOK
  <2>1. PICK source \in [Invoices -> {"STRIPE", "PLATFORM"}] :
          invoice = [e \in Invoices |->
                       [status |-> "OVERDUE", source |-> source[e]]]
    BY DEF Init
  <2>2. invoice \in [Invoices -> [status : {"OVERDUE", "PAID"},
                                  source : {"STRIPE", "PLATFORM"}]]
    BY <2>1
  <2>3. TenantTypeOK
    BY DEF Init, TenantInit, TenantTypeOK, TenantStatus, Calls
  <2> QED BY <2>2, <2>3, DunningAssumption
          DEF Init, TypeOK, Statuses, Operations
<1>2. ClaimsHold /\ StepOnce
  BY DEF Init, ClaimsHold, StepOnce, Idle
<1>3. TenantInv
  BY DEF Init, TenantInit, TenantInv, StatusFollowsCauses, ActiveCauses
<1> QED BY <1>1, <1>2, <1>3 DEF IInv

LEMMA OperationTyped ==
  ASSUME TypeOK, NEW w \in Callers
  PROVE  /\ work[w].pc # "idle" => Invoice(w) \in Invoices
         /\ work[w].pc \in {"claim", "perform"} => work[w].step \in 1..Steps
         /\ work[w].pc = "recover" => work[w].seen \in Open
<1>1. work[w] \in Operations
  BY DEF TypeOK
<1> QED BY <1>1 DEF Operations, Idle, Invoice

\* Steps that claim nothing, perform nothing and leave the sequence where it
\* is.
LEMMA NothingClaimed ==
  ASSUME IInv, TypeOK',
         \A e \in Invoices :
           enrolment'[e].currentStep = enrolment[e].currentStep,
         \A w \in Callers :
           work'[w].pc = "perform" => work'[w] = work[w],
         UNCHANGED performed
  PROVE  IInv'
<1>1. \A w \in Callers : work[w].pc = "perform" => Invoice(w) \in Invoices
  BY OperationTyped DEF IInv
<1>2. ClaimsHold'
  BY <1>1 DEF IInv, ClaimsHold, Invoice
<1>3. StepOnce'
  BY DEF IInv, StepOnce
<1> QED BY <1>2, <1>3 DEF IInv

\* An operation goes on, or a caller begins one, without a claim.
LEMMA Goes ==
  ASSUME IInv, TenantTypeOK', NEW w \in Callers, NEW operation \in Operations,
         operation.pc # "perform", Goto(w, operation),
         UNCHANGED <<invoice, enrolment, due, performed, acts>>,
         faults' \in 0..MaxFaults
  PROVE  IInv'
<1>1. work' \in [Callers -> Operations]
  BY DEF IInv, TypeOK, Goto
<1>2. TypeOK'
  BY <1>1 DEF IInv, TypeOK
<1>3. \A v \in Callers : work'[v].pc = "perform" => work'[v] = work[v]
  BY DEF IInv, TypeOK, Goto
<1> QED BY <1>2, <1>3, NothingClaimed

\* A status is written.
LEMMA StatusWritten ==
  ASSUME TypeOK, NEW e \in Invoices, NEW status \in Statuses,
         SetStatus(e, status)
  PROVE  /\ enrolment' \in [Invoices ->
                              [status : Statuses, currentStep : 0..Steps]]
         /\ \A d \in Invoices :
              enrolment'[d].currentStep = enrolment[d].currentStep
BY DEF TypeOK, SetStatus

LEMMA IdleIsOperation == Idle \in Operations /\ Idle.pc = "idle"
BY DEF Operations, Idle

LEMMA FallDueKeeps ==
  ASSUME IInv, NEW e \in Invoices, FallDue(e)
  PROVE  IInv'
<1>1. TypeOK'
  <2>1. due' \in [Invoices -> 0..Steps]
    BY DunningAssumption DEF FallDue, IInv, TypeOK
  <2> QED BY <2>1 DEF FallDue, IInv, TypeOK, TenantTypeOK, tenantVars
<1> QED BY <1>1, NothingClaimed DEF FallDue

LEMMA TenantTypeUnchanged ==
  ASSUME TenantTypeOK, UNCHANGED tenantVars
  PROVE  TenantTypeOK'
BY DEF TenantTypeOK, tenantVars

LEMMA FindKeeps ==
  ASSUME IInv, NEW w \in Callers, NEW e \in Invoices,
         FindOverdue(w, e) \/ FindStep(w, e) \/ FindPaid(w, e)
  PROVE  IInv'
<1>0. TenantTypeOK' /\ faults' \in 0..MaxFaults
  BY TenantTypeUnchanged
     DEF FindOverdue, FindStep, FindPaid, IInv, TypeOK
<1>1. CASE FindOverdue(w, e)
  <2>1. [pc |-> "enroll", invoice |-> e] \in Operations
    BY DEF Operations
  <2> QED BY <1>0, <1>1, <2>1, Goes DEF FindOverdue
<1>2. CASE FindStep(w, e)
  <2> DEFINE i == enrolment[e].currentStep + 1
  <2>1. i \in 1..Steps
    BY <1>2, DunningAssumption DEF FindStep, IInv, TypeOK
  <2>2. [pc |-> "claim", invoice |-> e, step |-> i] \in Operations
    BY <2>1 DEF Operations
  <2> QED BY <1>0, <1>2, <2>2, Goes DEF FindStep
<1>3. CASE FindPaid(w, e)
  <2>1. [pc |-> "recover", invoice |-> e, seen |-> enrolment[e].status,
         paid |-> FALSE] \in Operations
    BY <1>3 DEF FindPaid, Operations
  <2> QED BY <1>0, <1>3, <2>1, Goes DEF FindPaid
<1> QED BY <1>1, <1>2, <1>3

LEMMA EnrollKeeps ==
  ASSUME IInv, NEW w \in Callers, EnrollInvoice(w)
  PROVE  IInv'
<1>1. Invoice(w) \in Invoices
  BY OperationTyped DEF EnrollInvoice, At, IInv
<1>2. /\ enrolment' \in [Invoices ->
                           [status : Statuses, currentStep : 0..Steps]]
      /\ \A d \in Invoices :
           enrolment'[d].currentStep = enrolment[d].currentStep
  BY <1>1, StatusWritten DEF EnrollInvoice, IInv, TypeOK, Statuses
<1>3. work' = [work EXCEPT ![w] = Idle] /\ work' \in [Callers -> Operations]
  BY IdleIsOperation DEF EnrollInvoice, Goto, IInv, TypeOK
<1>4. TypeOK'
  BY <1>2, <1>3, TenantTypeUnchanged DEF EnrollInvoice, IInv, TypeOK
<1>5. \A v \in Callers : work'[v].pc = "perform" => work'[v] = work[v]
  BY <1>3, IdleIsOperation DEF IInv, TypeOK
<1> QED BY <1>2, <1>4, <1>5, NothingClaimed DEF EnrollInvoice

LEMMA RecoverKeeps ==
  ASSUME IInv, NEW w \in Callers, RecoverEnrollment(w)
  PROVE  IInv'
<1> DEFINE e == Invoice(w)
           next == IF work[w].paid THEN [pc |-> "lift", invoice |-> e]
                                   ELSE Idle
<1>1. e \in Invoices
  BY OperationTyped DEF RecoverEnrollment, At, IInv
<1>2. /\ enrolment' \in [Invoices ->
                           [status : Statuses, currentStep : 0..Steps]]
      /\ \A d \in Invoices :
           enrolment'[d].currentStep = enrolment[d].currentStep
  BY <1>1, StatusWritten DEF RecoverEnrollment, IInv, TypeOK, Statuses
<1>3. next \in Operations /\ next.pc # "perform"
  BY <1>1 DEF Operations, Idle
<1>4. work' = [work EXCEPT ![w] = next] /\ work' \in [Callers -> Operations]
  BY <1>3 DEF RecoverEnrollment, Goto, IInv, TypeOK
<1>5. TypeOK'
  BY <1>2, <1>4, TenantTypeUnchanged DEF RecoverEnrollment, IInv, TypeOK
<1>6. \A v \in Callers : work'[v].pc = "perform" => work'[v] = work[v]
  BY <1>3, <1>4 DEF IInv, TypeOK
<1> QED BY <1>2, <1>5, <1>6, NothingClaimed DEF RecoverEnrollment

LEMMA RecordPaymentKeeps ==
  ASSUME IInv, NEW w \in Callers, NEW e \in Invoices, RecordPayment(w, e)
  PROVE  IInv'
<1> DEFINE next == [pc |-> "paid", invoice |-> e]
<1>1. next \in Operations
  BY DEF Operations
<1>2. work' = [work EXCEPT ![w] = next] /\ work' \in [Callers -> Operations]
  BY <1>1 DEF RecordPayment, Goto, IInv, TypeOK
<1>3. invoice' \in [Invoices -> [status : {"OVERDUE", "PAID"},
                                source : {"STRIPE", "PLATFORM"}]]
  BY DEF RecordPayment, IInv, TypeOK
<1>4. TypeOK'
  BY <1>2, <1>3, TenantTypeUnchanged DEF RecordPayment, IInv, TypeOK
<1>5. \A v \in Callers : work'[v].pc = "perform" => work'[v] = work[v]
  BY <1>2 DEF IInv, TypeOK
<1> QED BY <1>4, <1>5, NothingClaimed DEF RecordPayment

LEMMA AfterPaymentKeeps ==
  ASSUME IInv, NEW w \in Callers, AfterPayment(w)
  PROVE  IInv'
<1> DEFINE e == Invoice(w)
           next == IF enrolment[e].status \in Open
                   THEN [pc |-> "recover", invoice |-> e,
                         seen |-> enrolment[e].status, paid |-> TRUE]
                   ELSE [pc |-> "lift", invoice |-> e]
<1>1. e \in Invoices
  BY OperationTyped DEF AfterPayment, At, IInv
<1>2. next \in Operations /\ next.pc # "perform"
  BY <1>1 DEF Operations
<1>3. TenantTypeOK' /\ faults' \in 0..MaxFaults
  BY TenantTypeUnchanged DEF AfterPayment, IInv, TypeOK
<1> QED BY <1>2, <1>3, Goes DEF AfterPayment

LEMMA LiftForInvoiceKeeps ==
  ASSUME IInv, NEW w \in Callers, LiftForInvoice(w)
  PROVE  IInv'
<1>1. TenantTypeOK'
  BY TenantTypeUnchanged, TenantTyped
     DEF LiftForInvoice, TenantStep, IInv, TypeOK
<1>2. faults' \in 0..MaxFaults
  BY DEF LiftForInvoice, IInv, TypeOK
<1> QED BY <1>1, <1>2, IdleIsOperation, Goes DEF LiftForInvoice

LEMMA SetStateKeeps ==
  ASSUME IInv, NEW e \in Invoices, SetEnrollmentState(e)
  PROVE  IInv'
<1>1. PICK status \in Statuses : SetStatus(e, status)
  BY DEF SetEnrollmentState, Statuses
<1>2. acts' \in 0..MaxActs
  BY DunningAssumption DEF SetEnrollmentState, IInv, TypeOK
<1>3. TypeOK'
  BY <1>1, <1>2, StatusWritten, TenantTypeUnchanged
     DEF SetEnrollmentState, IInv, TypeOK
<1>4. \A d \in Invoices :
        enrolment'[d].currentStep = enrolment[d].currentStep
  BY <1>1, StatusWritten DEF IInv
<1> QED BY <1>3, <1>4, NothingClaimed DEF SetEnrollmentState

LEMMA StaffKeeps ==
  ASSUME IInv, NEW w \in Callers, StaffCalls(w)
  PROVE  IInv'
<1>1. TenantTypeOK'
  BY TenantTyped DEF StaffCalls, TenantStep, IInv, TypeOK
<1>2. acts' \in 0..MaxActs
  BY DunningAssumption DEF StaffCalls, IInv, TypeOK
<1>3. TypeOK'
  BY <1>1, <1>2 DEF StaffCalls, IInv, TypeOK
<1> QED BY <1>3, NothingClaimed DEF StaffCalls

LEMMA GoOnKeeps ==
  ASSUME IInv, NEW w \in Callers, GoOn(w)
  PROVE  IInv'
<1>1. TenantTypeOK'
  BY TenantTyped DEF GoOn, TenantStep, IInv, TypeOK
<1>2. TypeOK'
  BY <1>1 DEF GoOn, dunningVars, IInv, TypeOK
<1> QED BY <1>2, NothingClaimed DEF GoOn, dunningVars

LEMMA RecoveryThrowsKeeps ==
  ASSUME IInv, NEW w \in Callers, RecoveryThrows(w)
  PROVE  IInv'
<1>1. TenantTypeOK' /\ faults' \in 0..MaxFaults
  BY TenantTypeUnchanged, DunningAssumption DEF RecoveryThrows, IInv, TypeOK
<1>2. Invoice(w) \in Invoices
  BY OperationTyped DEF RecoveryThrows, At, IInv
<1>3. [pc |-> "lift", invoice |-> Invoice(w)] \in Operations
  BY <1>2 DEF Operations
<1> QED BY <1>1, <1>3, Goes DEF RecoveryThrows

LEMMA FailKeeps ==
  ASSUME IInv, NEW w \in Callers, Fail(w)
  PROVE  IInv'
<1>1. faults' \in 0..MaxFaults
  BY DunningAssumption DEF Fail, IInv, TypeOK
<1>2. CASE Rollback(w) /\ UNCHANGED work
  <2>1. TenantTypeOK'
    BY <1>2, TenantTyped DEF TenantStep, IInv, TypeOK
  <2>2. TypeOK'
    BY <1>1, <1>2, <2>1 DEF Fail, IInv, TypeOK
  <2> QED BY <1>2, <2>2, NothingClaimed DEF Fail
<1>3. CASE Goto(w, Idle) /\ UNCHANGED tenantVars
  <2>1. TenantTypeOK'
    BY <1>3, TenantTypeUnchanged DEF IInv, TypeOK
  <2> QED BY <1>1, <1>3, <2>1, IdleIsOperation, Goes DEF Fail
<1> QED BY <1>2, <1>3 DEF Fail

LEMMA ClaimWritten ==
  ASSUME TypeOK, NEW e \in Invoices, NEW i,
         enrolment[e].status = "ACTIVE",
         enrolment' = [enrolment EXCEPT ![e].currentStep = i,
                         ![e].status = IF i = Steps THEN "EXHAUSTED"
                                                    ELSE @]
  PROVE  enrolment' = [enrolment EXCEPT ![e] =
           [status |-> IF i = Steps THEN "EXHAUSTED" ELSE "ACTIVE",
            currentStep |-> i]]
<1> DEFINE new == [status |-> IF i = Steps THEN "EXHAUSTED" ELSE "ACTIVE",
                   currentStep |-> i]
<1>1. enrolment[e] = [status |-> "ACTIVE",
                      currentStep |-> enrolment[e].currentStep]
  BY DEF TypeOK
<1> DEFINE moved == [enrolment[e] EXCEPT !.currentStep = i]
<1>2. [moved EXCEPT !.status = IF i = Steps THEN "EXHAUSTED"
                               ELSE moved.status] = new
  <2>1. moved = [status |-> "ACTIVE", currentStep |-> i]
    BY <1>1
  <2> HIDE DEF moved
  <2> QED BY <2>1
<1>3. enrolment'[e] = new
  BY <1>2 DEF TypeOK
<1>4. \A d \in Invoices \ {e} : enrolment'[d] = enrolment[d]
  BY DEF TypeOK
<1> QED BY <1>3, <1>4 DEF TypeOK

LEMMA ClaimKeeps ==
  ASSUME IInv, NEW w \in Callers, ClaimStep(w)
  PROVE  IInv'
<1> DEFINE e == Invoice(w)
           i == work[w].step
           claimed == enrolment[e] = [status |-> "ACTIVE",
                                      currentStep |-> i - 1]
<1>1. /\ work[w].pc = "claim" /\ work[w] \in Operations
      /\ e \in Invoices /\ i \in 1..Steps
  BY OperationTyped DEF ClaimStep, At, IInv, TypeOK
<1>2. TenantTypeOK'
  BY TenantTypeUnchanged DEF ClaimStep, IInv, TypeOK
<1>3. CASE ~claimed
  <2>1. /\ Goto(w, Idle)
        /\ UNCHANGED <<invoice, enrolment, due, performed, faults, acts>>
    BY <1>3 DEF ClaimStep
  <2> QED BY <1>2, <2>1, IdleIsOperation, Goes DEF IInv, TypeOK
<1>4. CASE claimed
  <2> DEFINE next == [work[w] EXCEPT !.pc = "perform"]
  <2>1. work' = [work EXCEPT ![w] = next]
    BY <1>4 DEF ClaimStep, Goto
  <2>2. enrolment' = [enrolment EXCEPT ![e] =
          [status |-> IF i = Steps THEN "EXHAUSTED" ELSE "ACTIVE",
           currentStep |-> i]]
    BY <1>1, <1>4, ClaimWritten DEF ClaimStep, IInv
  <2>3. /\ next \in Operations /\ next.pc = "perform"
        /\ next.invoice = e /\ next.step = i
    BY <1>1 DEF Operations, Idle, Invoice
  <2>4. enrolment' \in [Invoices -> [status : Statuses,
                                     currentStep : 0..Steps]]
    BY <1>1, <2>2 DEF IInv, TypeOK, Statuses
  <2>5. TypeOK'
    BY <1>2, <2>1, <2>3, <2>4 DEF ClaimStep, IInv, TypeOK
  <2>6. /\ enrolment[e].currentStep = i - 1
        /\ enrolment'[e].currentStep = i
        /\ \A d \in Invoices \ {e} : enrolment'[d] = enrolment[d]
    BY <1>1, <1>4, <2>2 DEF IInv, TypeOK
  \* Nobody has the step in hand yet, and it has not been performed.
  <2>7. \A v \in Callers :
          work[v].pc = "perform"
            => Invoice(v) \in Invoices /\ work[v].step \in 1..Steps
    BY OperationTyped DEF IInv
  <2>8. \A v \in Callers :
          work[v].pc = "perform" /\ Invoice(v) = e => work[v].step < i
    BY <1>1, <2>6, <2>7 DEF IInv, ClaimsHold
  <2>9. performed[e][i] = 0
    BY <1>1, <2>6 DEF IInv, ClaimsHold
  <2>10. /\ work'[w] = next
         /\ \A v \in Callers \ {w} : work'[v] = work[v]
         /\ UNCHANGED performed
    BY <2>1 DEF ClaimStep, IInv, TypeOK
  <2>11. ClaimsHold'
    <3>1. ASSUME NEW v \in Callers, work'[v].pc = "perform"
          PROVE  /\ work'[v].step <= enrolment'[Invoice(v)'].currentStep
                 /\ performed'[Invoice(v)'][work'[v].step] = 0
      <4>1. CASE v = w
        <5>1. Invoice(v)' = e /\ work'[v].step = i
          BY <2>3, <2>10, <4>1 DEF Invoice
        <5> QED BY <1>1, <2>6, <2>9, <2>10, <5>1
      <4>2. CASE v # w
        <5>1. /\ work'[v] = work[v] /\ Invoice(v)' = Invoice(v)
              /\ Invoice(v) \in Invoices /\ work[v].step \in 1..Steps
          BY <2>7, <2>10, <3>1, <4>2 DEF Invoice
        <5>2. /\ work[v].step <= enrolment[Invoice(v)].currentStep
              /\ performed[Invoice(v)][work[v].step] = 0
          BY <2>10, <3>1, <4>2 DEF IInv, ClaimsHold
        <5>3. enrolment[Invoice(v)].currentStep
                <= enrolment'[Invoice(v)].currentStep
          <6>1. CASE Invoice(v) = e
            BY <1>1, <2>6, <6>1
          <6>2. CASE Invoice(v) # e
            <7>1. enrolment[Invoice(v)].currentStep \in 0..Steps
              BY <5>1 DEF IInv, TypeOK
            <7> QED BY <2>6, <5>1, <6>2, <7>1
          <6> QED BY <6>1, <6>2
        <5>4. /\ enrolment[Invoice(v)].currentStep \in Nat
              /\ enrolment'[Invoice(v)].currentStep \in Nat
          BY <2>4, <5>1, DunningAssumption DEF IInv, TypeOK
        <5> QED BY <2>10, <5>1, <5>2, <5>3, <5>4
      <4> QED BY <4>1, <4>2
    <3>2. ASSUME NEW u \in Callers, NEW v \in Callers,
                 work'[u].pc = "perform", work'[v].pc = "perform",
                 Invoice(u)' = Invoice(v)', work'[u].step = work'[v].step
          PROVE  u = v
      <4>1. CASE u # w /\ v # w
        BY <2>10, <3>2, <4>1 DEF IInv, ClaimsHold, Invoice
      <4>2. CASE u = w /\ v # w
        <5>1. /\ work'[v] = work[v] /\ Invoice(v) = e
              /\ work[v].step = i /\ work[v].pc = "perform"
          BY <2>3, <2>10, <3>2, <4>2 DEF Invoice
        <5> QED BY <1>1, <2>8, <5>1
      <4>3. CASE u # w /\ v = w
        <5>1. /\ work'[u] = work[u] /\ Invoice(u) = e
              /\ work[u].step = i /\ work[u].pc = "perform"
          BY <2>3, <2>10, <3>2, <4>3 DEF Invoice
        <5> QED BY <1>1, <2>8, <5>1
      <4> QED BY <4>1, <4>2, <4>3
    <3>3. ASSUME NEW d \in Invoices, NEW j \in 1..Steps,
                 performed'[d][j] # 0
          PROVE  j <= enrolment'[d].currentStep
      <4>1. j <= enrolment[d].currentStep
        BY <2>10, <3>3 DEF IInv, ClaimsHold
      <4>2. CASE d = e
        BY <1>1, <2>6, <4>1, <4>2
      <4>3. CASE d # e
        BY <2>6, <4>1, <4>3
      <4> QED BY <4>2, <4>3
    <3> QED BY <3>1, <3>2, <3>3 DEF ClaimsHold
  <2>12. StepOnce'
    BY <2>10 DEF IInv, StepOnce
  <2> QED BY <2>5, <2>11, <2>12 DEF IInv
<1> QED BY <1>3, <1>4

LEMMA PerformKeeps ==
  ASSUME IInv, NEW w \in Callers, PerformStep(w)
  PROVE  IInv'
<1> DEFINE e == Invoice(w)
           i == work[w].step
<1>1. work[w].pc = "perform" /\ e \in Invoices /\ i \in 1..Steps
  BY OperationTyped DEF PerformStep, At, IInv
<1>2. i <= enrolment[e].currentStep /\ performed[e][i] = 0
  BY <1>1 DEF IInv, ClaimsHold
<1>3. /\ performed' = [performed EXCEPT ![e][i] = @ + 1]
      /\ work' = [work EXCEPT ![w] = Idle]
      /\ UNCHANGED <<invoice, enrolment, due, faults, acts>>
  BY DEF PerformStep, Goto
<1>4. TenantTypeOK'
  <2>1. e \in Causes
    BY <1>1, DunningAssumption
  <2>2. UNCHANGED tenantVars \/ SuspendTenant(w, e)
    BY DEF PerformStep
  <2> QED BY <2>1, <2>2, TenantTypeUnchanged, TenantTyped
          DEF TenantStep, IInv, TypeOK
<1>5. /\ performed'[e] = [performed[e] EXCEPT ![i] = 1]
      /\ \A d \in Invoices \ {e} : performed'[d] = performed[d]
      /\ performed[e] \in [1..Steps -> Nat]
      /\ performed' \in [Invoices -> [1..Steps -> Nat]]
  <2>1. performed \in [Invoices -> [1..Steps -> Nat]]
    BY DEF IInv, TypeOK
  <2>2. performed' = [performed EXCEPT ![e] =
                        [performed[e] EXCEPT ![i] = 1]]
    BY <1>1, <1>2, <1>3, <2>1
  <2>3. performed[e] \in [1..Steps -> Nat]
    BY <1>1, <2>1
  <2>4. [performed[e] EXCEPT ![i] = 1] \in [1..Steps -> Nat]
    BY <2>3
  <2> QED BY <1>1, <2>1, <2>2, <2>3, <2>4
<1>6. TypeOK'
  BY <1>3, <1>4, <1>5, IdleIsOperation DEF IInv, TypeOK
<1>7. /\ performed'[e][i] = 1
      /\ \A d \in Invoices, j \in 1..Steps :
           <<d, j>> # <<e, i>> => performed'[d][j] = performed[d][j]
  BY <1>1, <1>5
<1>8. /\ work'[w] = Idle
      /\ \A v \in Callers \ {w} : work'[v] = work[v]
  BY <1>3 DEF IInv, TypeOK
<1>9. ClaimsHold'
  <2>1. ASSUME NEW v \in Callers, work'[v].pc = "perform"
        PROVE  /\ v # w /\ work'[v] = work[v] /\ Invoice(v)' = Invoice(v)
               /\ Invoice(v) \in Invoices /\ work[v].step \in 1..Steps
               /\ <<Invoice(v), work[v].step>> # <<e, i>>
    <3>1. v # w /\ work'[v] = work[v] /\ Invoice(v)' = Invoice(v)
      BY <1>8, <2>1, IdleIsOperation DEF Invoice
    <3>2. Invoice(v) \in Invoices /\ work[v].step \in 1..Steps
      BY <2>1, <3>1, OperationTyped DEF IInv
    <3>3. <<Invoice(v), work[v].step>> # <<e, i>>
      BY <1>1, <2>1, <3>1 DEF IInv, ClaimsHold
    <3> QED BY <3>1, <3>2, <3>3
  <2>2. \A v \in Callers :
          work'[v].pc = "perform"
            => /\ work'[v].step <= enrolment'[Invoice(v)'].currentStep
               /\ performed'[Invoice(v)'][work'[v].step] = 0
    BY <1>3, <1>7, <2>1 DEF IInv, ClaimsHold
  <2>3. \A u, v \in Callers :
          work'[u].pc = "perform" /\ work'[v].pc = "perform"
            /\ Invoice(u)' = Invoice(v)' /\ work'[u].step = work'[v].step
            => u = v
    BY <2>1 DEF IInv, ClaimsHold
  <2>4. \A d \in Invoices : \A j \in 1..Steps :
          performed'[d][j] # 0 => j <= enrolment'[d].currentStep
    BY <1>2, <1>3, <1>7 DEF IInv, ClaimsHold
  <2> QED BY <2>2, <2>3, <2>4 DEF ClaimsHold
<1>10. StepOnce'
  BY <1>7 DEF IInv, StepOnce
<1> QED BY <1>6, <1>9, <1>10 DEF IInv

LEMMA StutterKeeps ==
  ASSUME IInv, UNCHANGED vars
  PROVE  IInv'
<1>1. UNCHANGED <<tenant, record, call, overtaken, dunningVars, invoice, enrolment, due,
                  work, performed, faults, acts>>
  BY DEF vars, tenantVars, dunningVars
<1>2. TypeOK'
  BY <1>1 DEF IInv, TypeOK, TenantTypeOK
<1> QED BY <1>1, <1>2, NothingClaimed

LEMMA NextKeeps ==
  ASSUME IInv, [Next]_vars
  PROVE  IInv'
<1>1. ASSUME NEW e \in Invoices, FallDue(e) \/ SetEnrollmentState(e)
      PROVE  IInv'
  BY <1>1, FallDueKeeps, SetStateKeeps
<1>2. ASSUME NEW w \in Callers, NEW e \in Invoices,
             \/ FindOverdue(w, e) \/ FindStep(w, e) \/ FindPaid(w, e)
             \/ RecordPayment(w, e)
      PROVE  IInv'
  BY <1>2, FindKeeps, RecordPaymentKeeps
<1>3. ASSUME NEW w \in Callers, Operate(w)
      PROVE  IInv'
  BY <1>3, EnrollKeeps, ClaimKeeps, PerformKeeps, RecoverKeeps,
     AfterPaymentKeeps, LiftForInvoiceKeeps, GoOnKeeps DEF Operate
<1>4. ASSUME NEW w \in Callers,
             StaffCalls(w) \/ RecoveryThrows(w) \/ Fail(w)
      PROVE  IInv'
  BY <1>4, StaffKeeps, RecoveryThrowsKeeps, FailKeeps
<1> QED BY <1>1, <1>2, <1>3, <1>4, StutterKeeps DEF Next

LEMMA Invariance == Spec => []IInv
<1>1. Init => IInv
  BY Initially
<1>2. IInv /\ [Next]_vars => IInv'
  BY NextKeeps
<1> QED BY <1>1, <1>2, PTL DEF Spec

\* Every reachable state has its type: calls, operations, rows and history.
THEOREM TypeCorrect == Spec => []TypeOK
BY Invariance, PTL DEF IInv

\* However many jobs, requests and failures overlap, no step of a sequence is
\* performed a second time (dunning.service.ts:193).
THEOREM NoStepTwice == Spec => []StepOnce
BY Invariance, PTL DEF IInv

-----------------------------------------------------------------------------
(* The end of an enrolment is final, and the tenant follows its causes. *)

LEMMA EndStays ==
  ASSUME TypeOK, [Next]_vars, NEW e \in Invoices,
         enrolment[e].status \in {"RECOVERED", "CANCELLED"}
  PROVE  enrolment'[e].status = enrolment[e].status
<1>1. ASSUME NEW d \in Invoices, NEW status \in Statuses, d # e,
             SetStatus(d, status)
      PROVE  enrolment'[e].status = enrolment[e].status
  BY <1>1 DEF SetStatus, TypeOK
<1>2. ASSUME NEW w \in Callers, EnrollInvoice(w)
      PROVE  enrolment'[e].status = enrolment[e].status
  BY <1>2 DEF EnrollInvoice, SetStatus, TypeOK
<1>3. ASSUME NEW w \in Callers, ClaimStep(w)
      PROVE  enrolment'[e].status = enrolment[e].status
  <2> DEFINE d == Invoice(w)
  <2>1. CASE UNCHANGED enrolment
    BY <2>1
  <2>2. CASE /\ enrolment[d].status = "ACTIVE"
             /\ enrolment' = [enrolment EXCEPT
                  ![d].currentStep = work[w].step,
                  ![d].status = IF work[w].step = Steps THEN "EXHAUSTED"
                                                        ELSE @]
    <3>1. d # e
      BY <2>2
    <3> QED BY <2>2, <3>1 DEF TypeOK
  <2> QED BY <1>3, <2>1, <2>2 DEF ClaimStep
<1>4. ASSUME NEW w \in Callers, RecoverEnrollment(w)
      PROVE  enrolment'[e].status = enrolment[e].status
  <2>1. work[w].seen \in Open
    BY <1>4, OperationTyped DEF RecoverEnrollment, At
  <2> QED BY <1>4, <2>1 DEF RecoverEnrollment, SetStatus, Open, TypeOK
<1>5. ASSUME NEW d \in Invoices, SetEnrollmentState(d)
      PROVE  enrolment'[e].status = enrolment[e].status
  <2>1. d # e
    BY <1>5 DEF SetEnrollmentState, Open
  <2>2. PICK status \in Statuses : SetStatus(d, status)
    BY <1>5 DEF SetEnrollmentState, Statuses
  <2> QED BY <1>1, <2>1, <2>2
<1>6. CASE UNCHANGED enrolment
  BY <1>6
<1>7. ASSUME NEW w \in Callers,
             PerformStep(w) \/ AfterPayment(w) \/ LiftForInvoice(w)
               \/ GoOn(w) \/ StaffCalls(w) \/ RecoveryThrows(w) \/ Fail(w)
      PROVE  UNCHANGED enrolment
  BY <1>7 DEF PerformStep, AfterPayment, LiftForInvoice, GoOn, StaffCalls,
              RecoveryThrows, Fail, dunningVars
<1>8. ASSUME NEW w \in Callers, NEW d \in Invoices,
             \/ FindOverdue(w, d) \/ FindStep(w, d) \/ FindPaid(w, d)
             \/ RecordPayment(w, d)
      PROVE  UNCHANGED enrolment
  BY <1>8 DEF FindOverdue, FindStep, FindPaid, RecordPayment
<1>9. CASE UNCHANGED vars
  BY <1>9 DEF vars, dunningVars
<1>10. ASSUME NEW d \in Invoices, FallDue(d)
       PROVE  UNCHANGED enrolment
  BY <1>10 DEF FallDue
<1> QED BY <1>2, <1>3, <1>4, <1>5, <1>6, <1>7, <1>8, <1>9, <1>10
        DEF Next, Operate

\* A recovered or cancelled enrolment is never opened again, whatever was
\* claimed, read or paused before it ended (dunning.service.ts:109, :206).
THEOREM EndStaysForGood == Spec => EndIsFinal
<1>1. TypeOK /\ [Next]_vars
        => [\A e \in Invoices :
              enrolment[e].status \in {"RECOVERED", "CANCELLED"}
                => enrolment'[e].status = enrolment[e].status]_vars
  BY EndStays
<1> QED BY <1>1, TypeCorrect, PTL DEF Spec, EndIsFinal

LEMMA NextOfTenant ==
  ASSUME TypeOK, [Next]_vars
  PROVE  UNCHANGED tenantVars \/ \E w \in Callers : TenantStep(w)
<1>1. ASSUME NEW w \in Callers, PerformStep(w) \/ LiftForInvoice(w)
      PROVE  UNCHANGED tenantVars \/ TenantStep(w)
  <2>1. CASE PerformStep(w)
    <3>1. CASE UNCHANGED tenantVars
      BY <3>1
    <3>2. CASE SuspendTenant(w, Invoice(w))
      <4>1. Invoice(w) \in Causes
        BY <1>1, <2>1, OperationTyped, DunningAssumption
           DEF PerformStep, At
      <4> QED BY <3>2, <4>1 DEF TenantStep
    <3> QED BY <2>1, <3>1, <3>2 DEF PerformStep
  <2>2. CASE LiftForInvoice(w)
    BY <2>2 DEF LiftForInvoice, TenantStep
  <2> QED BY <1>1, <2>1, <2>2
<1>2. ASSUME NEW w \in Callers, StaffCalls(w) \/ GoOn(w) \/ Fail(w)
      PROVE  UNCHANGED tenantVars \/ TenantStep(w)
  BY <1>2 DEF StaffCalls, GoOn, Fail, TenantStep
<1>3. ASSUME NEW w \in Callers,
             \/ EnrollInvoice(w) \/ ClaimStep(w) \/ RecoverEnrollment(w)
             \/ AfterPayment(w) \/ RecoveryThrows(w)
      PROVE  UNCHANGED tenantVars
  BY <1>3 DEF EnrollInvoice, ClaimStep, RecoverEnrollment, AfterPayment,
              RecoveryThrows
<1>4. ASSUME NEW w \in Callers, NEW e \in Invoices,
             \/ FindOverdue(w, e) \/ FindStep(w, e) \/ FindPaid(w, e)
             \/ RecordPayment(w, e)
      PROVE  UNCHANGED tenantVars
  BY <1>4 DEF FindOverdue, FindStep, FindPaid, RecordPayment
<1>5. ASSUME NEW e \in Invoices, FallDue(e) \/ SetEnrollmentState(e)
      PROVE  UNCHANGED tenantVars
  BY <1>5 DEF FallDue, SetEnrollmentState
<1>6. CASE UNCHANGED vars
  BY <1>6 DEF vars, tenantVars
<1> QED BY <1>1, <1>2, <1>3, <1>4, <1>5, <1>6 DEF Next, Operate

\* However many suspensions, lifts and closings are under way at once, a tenant
\* is suspended exactly while a cause is ACTIVE, and a closed one stays closed,
\* as long as none of them commits a status that it would not have left had it
\* read again (tenant-suspension.service.ts:7, :55).
THEOREM SuspendedWhileCaused == Spec => []FollowsUnlessOvertaken
<1>1. Init => TenantInv
  BY Initially
<1>2. TypeOK /\ TenantInv /\ [Next]_vars => TenantInv'
  <2> SUFFICES ASSUME TypeOK, TenantInv, [Next]_vars
               PROVE  TenantInv'
    OBVIOUS
  <2>1. CASE UNCHANGED tenantVars
    BY <2>1 DEF tenantVars, TenantInv, StatusFollowsCauses, ActiveCauses
  <2>2. CASE \E w \in Callers : TenantStep(w)
    BY <2>2, TenantKept DEF TypeOK
  <2> QED BY <2>1, <2>2, NextOfTenant
<1>3. TenantInv => FollowsUnlessOvertaken
  BY DEF TenantInv, FollowsUnlessOvertaken
<1> QED BY <1>1, <1>2, <1>3, TypeCorrect, PTL DEF Spec
=============================================================================
