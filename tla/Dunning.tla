------------------------------- MODULE Dunning -------------------------------
(***************************************************************************)
(* The dunning of a tenant's Fauward invoices and the suspensions it ends  *)
(* in.  An overdue invoice is enrolled; the steps of the sequence run when *)
(* they are due, one of them suspends the tenant; a payment recovers the   *)
(* enrolment and lifts the suspension.  What the hourly job, the console   *)
(* and the payments do to an enrolment are operations of callers that run  *)
(* at once: a job that exceeds its time is reported and goes on, and the   *)
(* next one starts beside it.                                              *)
(*                                                                         *)
(* The sequence has at most one step that suspends, so that an invoice     *)
(* has at most one record.  The tenant's side is TenantSuspension.         *)
(***************************************************************************)
EXTENDS TenantSuspension

CONSTANTS
  Invoices,    \* overdue PLATFORM invoices of one tenant
  Steps,       \* the number of steps of the sequence
  SuspendAt,   \* the step that suspends
  MaxFaults,   \* bound: transactions that fail, operations that stop
  MaxActs      \* bound: what the staff does

ASSUME DunningAssumption ==
  /\ Invoices \subseteq Causes \ {Closing}
  /\ Steps \in Nat \ {0}
  /\ SuspendAt \in 1..Steps
  /\ MaxFaults \in Nat /\ MaxActs \in Nat

VARIABLES
  invoice,     \* the Invoice row: status, and whose it is to collect, which
               \* is Stripe's if the row has a stripeInvoiceId
  enrolment,   \* the DunningEnrollment of each invoice
  due,         \* how many of its steps are due by now
  work,        \* the operation each caller is in
  performed,   \* history: how often each step was performed
  faults, acts \* what the bounds count

dunningVars == <<invoice, enrolment, due, work, performed, faults, acts>>
vars == <<tenantVars, dunningVars>>

Statuses == {"NONE", "ACTIVE", "PAUSED", "RECOVERED", "EXHAUSTED",
             "CANCELLED"}
Open == {"ACTIVE", "PAUSED", "EXHAUSTED"}

Idle == [pc |-> "idle"]
\* recover: seen is the status the enrolment was read with; paid is whether
\* recordManualPayment called, which then looks for a suspension to lift.
Operations ==
  {Idle}
    \cup [pc : {"enroll", "paid", "lift"}, invoice : Invoices]
    \cup [pc : {"claim", "perform"}, invoice : Invoices, step : 1..Steps]
    \cup [pc : {"recover"}, invoice : Invoices, seen : Open, paid : BOOLEAN]

TypeOK ==
  /\ TenantTypeOK
  /\ invoice \in [Invoices -> [status : {"OVERDUE", "PAID"},
                               source : {"STRIPE", "PLATFORM"}]]
  /\ enrolment \in [Invoices -> [status : Statuses, currentStep : 0..Steps]]
  /\ due \in [Invoices -> 0..Steps]
  /\ work \in [Callers -> Operations]
  /\ performed \in [Invoices -> [1..Steps -> Nat]]
  /\ faults \in 0..MaxFaults
  /\ acts \in 0..MaxActs

Init ==
  /\ TenantInit
  /\ \E source \in [Invoices -> {"STRIPE", "PLATFORM"}] :
       invoice = [e \in Invoices |->
                    [status |-> "OVERDUE", source |-> source[e]]]
  /\ enrolment = [e \in Invoices |-> [status |-> "NONE", currentStep |-> 0]]
  /\ due = [e \in Invoices |-> 0]
  /\ work = [w \in Callers |-> Idle]
  /\ performed = [e \in Invoices |-> [i \in 1..Steps |-> 0]]
  /\ faults = 0
  /\ acts = 0

-----------------------------------------------------------------------------
At(w, pc) == work[w].pc = pc /\ ~Calling(w)
Invoice(w) == work[w].invoice
Free(w) == At(w, "idle")

Goto(w, operation) == work' = [work EXCEPT ![w] = operation]

SetStatus(e, status) == enrolment' = [enrolment EXCEPT ![e].status = status]

\* A step falls due: its dayOffset has passed.
FallDue(e) ==
  /\ due[e] < Steps
  /\ enrolment[e].status # "NONE"
  /\ due' = [due EXCEPT ![e] = @ + 1]
  /\ UNCHANGED <<tenantVars, invoice, enrolment, work, performed, faults,
                 acts>>

\* The job's first query, and enrollInvoice's look for an enrolment.
FindOverdue(w, e) ==
  /\ Free(w)
  /\ invoice[e].status = "OVERDUE"
  /\ enrolment[e].status = "NONE"
  /\ Goto(w, [pc |-> "enroll", invoice |-> e])
  /\ UNCHANGED <<tenantVars, invoice, enrolment, due, performed, faults, acts>>

\* enrollInvoice: the unique index on invoiceId lets one of them create it.
EnrollInvoice(w) ==
  /\ At(w, "enroll")
  /\ IF enrolment[Invoice(w)].status = "NONE"
     THEN SetStatus(Invoice(w), "ACTIVE")
     ELSE UNCHANGED enrolment
  /\ Goto(w, Idle)
  /\ UNCHANGED <<tenantVars, invoice, due, performed, faults, acts>>

\* advanceEnrollment: the step that is due, if one is.
FindStep(w, e) ==
  /\ Free(w)
  /\ enrolment[e].status = "ACTIVE"
  /\ enrolment[e].currentStep < due[e]
  /\ Goto(w, [pc |-> "claim", invoice |-> e,
              step |-> enrolment[e].currentStep + 1])
  /\ UNCHANGED <<tenantVars, invoice, enrolment, due, performed, faults, acts>>

\* Mutant of ClaimStep: the update asks for the step only.
ClaimStepOfAny(w) ==
  LET e == Invoice(w)
      i == work[w].step
  IN
  /\ At(w, "claim")
  /\ IF enrolment[e].currentStep = i - 1
     THEN /\ enrolment' = [enrolment EXCEPT ![e].currentStep = i,
                             ![e].status = IF i = Steps THEN "EXHAUSTED"
                                                        ELSE @]
          /\ Goto(w, [work[w] EXCEPT !.pc = "perform"])
     ELSE /\ Goto(w, Idle)
          /\ UNCHANGED enrolment
  /\ UNCHANGED <<tenantVars, invoice, due, performed, faults, acts>>

\* Mutant of ClaimStep: the update asks for the status only.
ClaimStepAgain(w) ==
  LET e == Invoice(w)
      i == work[w].step
  IN
  /\ At(w, "claim")
  /\ IF enrolment[e].status = "ACTIVE"
     THEN /\ enrolment' = [enrolment EXCEPT ![e].currentStep = i,
                             ![e].status = IF i = Steps THEN "EXHAUSTED"
                                                        ELSE @]
          /\ Goto(w, [work[w] EXCEPT !.pc = "perform"])
     ELSE /\ Goto(w, Idle)
          /\ UNCHANGED enrolment
  /\ UNCHANGED <<tenantVars, invoice, due, performed, faults, acts>>

\* Its transaction: the claim of the step, which ends the sequence when it is
\* the last.
ClaimStep(w) ==
  LET e == Invoice(w)
      i == work[w].step
  IN
  /\ At(w, "claim")
  /\ IF enrolment[e] = [status |-> "ACTIVE", currentStep |-> i - 1]
     THEN /\ enrolment' = [enrolment EXCEPT ![e].currentStep = i,
                             ![e].status = IF i = Steps THEN "EXHAUSTED"
                                                        ELSE @]
          /\ Goto(w, [work[w] EXCEPT !.pc = "perform"])
     ELSE /\ Goto(w, Idle)
          /\ UNCHANGED enrolment
  /\ UNCHANGED <<tenantVars, invoice, due, performed, faults, acts>>

\* performStep: e-mails, or the suspension; one that fails is not repeated.
PerformStep(w) ==
  LET e == Invoice(w)
      i == work[w].step
  IN
  /\ At(w, "perform")
  /\ performed' = [performed EXCEPT ![e][i] = @ + 1]
  /\ IF i = SuspendAt /\ record[e] # "ACTIVE"
     THEN SuspendTenant(w, e)
     ELSE UNCHANGED tenantVars
  /\ Goto(w, Idle)
  /\ UNCHANGED <<invoice, enrolment, due, faults, acts>>

\* Mutant of FindPaid: an enrolment whose steps all ran is not looked for.
FindPaidRunning(w, e) ==
  /\ Free(w)
  /\ invoice[e] = [status |-> "PAID", source |-> "PLATFORM"]
  /\ enrolment[e].status \in Open \ {"EXHAUSTED"}
  /\ Goto(w, [pc |-> "recover", invoice |-> e,
              seen |-> enrolment[e].status, paid |-> FALSE])
  /\ UNCHANGED <<tenantVars, invoice, enrolment, due, performed, faults, acts>>

\* The job's second part: open enrolments of paid invoices, of those that are
\* not Stripe's.
FindPaid(w, e) ==
  /\ Free(w)
  /\ invoice[e] = [status |-> "PAID", source |-> "PLATFORM"]
  /\ enrolment[e].status \in Open
  /\ Goto(w, [pc |-> "recover", invoice |-> e,
              seen |-> enrolment[e].status, paid |-> FALSE])
  /\ UNCHANGED <<tenantVars, invoice, enrolment, due, performed, faults, acts>>

\* recoverEnrollment, the update: nothing if the status has changed.
RecoverEnrollment(w) ==
  LET e == Invoice(w) IN
  /\ At(w, "recover")
  /\ IF enrolment[e].status = work[w].seen
     THEN SetStatus(e, "RECOVERED")
     ELSE UNCHANGED enrolment
  /\ Goto(w, IF work[w].paid THEN [pc |-> "lift", invoice |-> e] ELSE Idle)
  /\ UNCHANGED <<tenantVars, invoice, due, performed, faults, acts>>

\* recordManualPayment: the payment, in full; then what it calls.
RecordPayment(w, e) ==
  /\ Free(w)
  /\ invoice[e].status = "OVERDUE"
  /\ invoice' = [invoice EXCEPT ![e].status = "PAID"]
  /\ Goto(w, [pc |-> "paid", invoice |-> e])
  /\ UNCHANGED <<tenantVars, enrolment, due, performed, faults, acts>>

AfterPayment(w) ==
  LET e == Invoice(w) IN
  /\ At(w, "paid")
  /\ Goto(w, IF enrolment[e].status \in Open
             THEN [pc |-> "recover", invoice |-> e,
                   seen |-> enrolment[e].status, paid |-> TRUE]
             ELSE [pc |-> "lift", invoice |-> e])
  /\ UNCHANGED <<tenantVars, invoice, enrolment, due, performed, faults, acts>>

\* liftDunningSuspensionForInvoice: the invoice's record, if it is ACTIVE.
LiftForInvoice(w) ==
  /\ At(w, "lift")
  /\ IF record[Invoice(w)] = "ACTIVE"
     THEN LiftSuspension(w, {Invoice(w)})
     ELSE UNCHANGED tenantVars
  /\ Goto(w, Idle)
  /\ UNCHANGED <<invoice, enrolment, due, performed, faults, acts>>

\* setEnrollmentState: pause, resume and cancel.  Its update is conditional
\* on the status it has read, so that reading and writing are one step.
SetEnrollmentState(e) ==
  /\ acts < MaxActs
  /\ \/ /\ enrolment[e].status = "ACTIVE"
        /\ SetStatus(e, "PAUSED")
     \/ /\ enrolment[e].status = "PAUSED"
        /\ SetStatus(e, "ACTIVE")
     \/ /\ enrolment[e].status \in Open
        /\ SetStatus(e, "CANCELLED")
  /\ acts' = acts + 1
  /\ UNCHANGED <<tenantVars, invoice, due, work, performed, faults>>

\* A suspension by the staff has no sourceRef, so that each makes a record of
\* its own: a cause is used for one.
Unused(c) ==
  record[c] = "none" /\ \A w \in Callers :
                          call[w].pc = "suspend" => call[w].cause # c

\* The staff suspends the tenant for a cause of its own, lifts causes, closes
\* the tenant.
StaffCalls(w) ==
  /\ Free(w)
  /\ acts < MaxActs
  /\ \/ \E c \in Causes \ (Invoices \cup {Closing}) :
          Unused(c) /\ SuspendTenant(w, c)
     \/ \E T \in SUBSET ActiveCauses : LiftSuspension(w, T)
     \/ CloseTenant(w)
  /\ acts' = acts + 1
  /\ UNCHANGED <<invoice, enrolment, due, work, performed, faults>>

\* A suspension, a lift or a closing goes on.
GoOn(w) == Proceeds(w) /\ UNCHANGED dunningVars

\* A recovery throws after a payment: that is logged, and the suspension is
\* lifted all the same.
RecoveryThrows(w) ==
  /\ faults < MaxFaults
  /\ At(w, "paid") \/ (At(w, "recover") /\ work[w].paid)
  /\ Goto(w, [pc |-> "lift", invoice |-> Invoice(w)])
  /\ faults' = faults + 1
  /\ UNCHANGED <<tenantVars, invoice, enrolment, due, performed, acts>>

\* An operation throws, its process stops, or its transaction is rolled back.
Fail(w) ==
  /\ faults < MaxFaults
  /\ \/ Rollback(w) /\ UNCHANGED work
     \/ /\ ~Calling(w) /\ ~Free(w)
        /\ Goto(w, Idle)
        /\ UNCHANGED tenantVars
  /\ faults' = faults + 1
  /\ UNCHANGED <<invoice, enrolment, due, performed, acts>>

Operate(w) ==
  \/ EnrollInvoice(w) \/ ClaimStep(w) \/ PerformStep(w)
  \/ RecoverEnrollment(w) \/ AfterPayment(w) \/ LiftForInvoice(w) \/ GoOn(w)

Next ==
  \/ \E e \in Invoices : FallDue(e) \/ SetEnrollmentState(e)
  \/ \E w \in Callers :
       \/ \E e \in Invoices :
            \/ FindOverdue(w, e) \/ FindStep(w, e) \/ FindPaid(w, e)
            \/ RecordPayment(w, e)
       \/ Operate(w) \/ StaffCalls(w)
       \/ RecoveryThrows(w) \/ Fail(w)

\* What has begun goes on, and the job looks for paid invoices every hour.
Fairness ==
  /\ \A w \in Callers : WF_vars(Operate(w))
  /\ \A e \in Invoices : WF_vars(\E w \in Callers : FindPaid(w, e))

Spec == Init /\ [][Next]_vars /\ Fairness

-----------------------------------------------------------------------------
(* Properties *)

\* A re-run or a concurrent runner never performs a step twice
\* (dunning.service.ts:193), however jobs overlap, fail and stop, and an
\* invoice that is paused and resumed goes on where it was.
StepOnce ==
  \A e \in Invoices : \A i \in 1..Steps : performed[e][i] <= 1

\* RECOVERED and CANCELLED are final: a step that is claimed, a pause or a
\* second recovery that raced with the end never opens the enrolment again.
EndIsFinal ==
  [][\A e \in Invoices :
       enrolment[e].status \in {"RECOVERED", "CANCELLED"}
         => enrolment'[e].status = enrolment[e].status]_vars

\* A recovery that the payment could not do is done by the hourly job: in the
\* end no paid invoice has an open enrolment (platform-billing.service.ts:208)
\* - of those the job looks for, which the ones with a stripeInvoiceId are not.
PaidEnds ==
  \A e \in Invoices :
    <>[](invoice[e] = [status |-> "PAID", source |-> "PLATFORM"]
           => enrolment[e].status \notin Open)

\* What makes StepOnce inductive: a claimed step has one caller and has not
\* been performed, and only claimed steps have been.
ClaimsHold ==
  /\ \A w \in Callers :
       work[w].pc = "perform"
         => /\ work[w].step <= enrolment[Invoice(w)].currentStep
            /\ performed[Invoice(w)][work[w].step] = 0
  /\ \A v, w \in Callers :
       work[v].pc = "perform" /\ work[w].pc = "perform"
         /\ Invoice(v) = Invoice(w) /\ work[v].step = work[w].step
         => v = w
  /\ \A e \in Invoices : \A i \in 1..Steps :
       performed[e][i] # 0 => i <= enrolment[e].currentStep

IInv == TypeOK /\ ClaimsHold /\ StepOnce
=============================================================================
