-------------------------- MODULE TenantSuspension --------------------------
(***************************************************************************)
(* TenantSuspensionService: the only code that suspends a tenant or makes  *)
(* it active again.  Each cause of a suspension has a record; the tenant   *)
(* is active again when no record is ACTIVE.  Both calls are transactions  *)
(* at READ COMMITTED that read the tenant first, lock nothing, and decide  *)
(* at the end from what they have read.  What a transaction writes is seen *)
(* when it commits, so that the writes of one whose reads are done are one *)
(* step; a lift reads once more, after its write to the records.  Closing  *)
(* the tenant reads it, then writes it, then suspends it for good measure. *)
(*                                                                         *)
(* The module has the calls and their steps; Dunning makes them.           *)
(***************************************************************************)
EXTENDS Naturals, FiniteSets

CONSTANTS
  Callers,   \* requests and jobs that can be under way at once
  Causes,    \* what a tenant can be suspended for: a source and its ref
  Closing    \* the cause that closing the tenant leaves behind

ASSUME SuspensionAssumption == Closing \in Causes

VARIABLES
  tenant,    \* the Tenant row: status, and whether closedAt is set
  record,    \* the SuspensionRecord of each cause
  call,      \* where each caller's call stands, and what it has read
  overtaken  \* history: a transaction has committed what it would not have
             \* committed had it read again

tenantVars == <<tenant, record, call, overtaken>>

TenantStatus == {"ACTIVE", "SUSPENDED", "CANCELLED"}

NoCall == [pc |-> "none"]
Calls ==
  {NoCall}
    \cup [pc : {"suspend"}, cause : Causes, read : TenantStatus,
          closed : BOOLEAN]
    \cup [pc : {"lift"}, targets : SUBSET Causes, read : TenantStatus,
          closed : BOOLEAN]
    \cup [pc : {"lifted"}, targets : SUBSET Causes, becameActive : BOOLEAN]
    \cup [pc : {"close", "closed"}]

TenantTypeOK ==
  /\ tenant \in [status : TenantStatus, closed : BOOLEAN]
  /\ record \in [Causes -> {"none", "ACTIVE", "LIFTED"}]
  /\ call \in [Callers -> Calls]
  /\ overtaken \in BOOLEAN

TenantInit ==
  /\ tenant = [status |-> "ACTIVE", closed |-> FALSE]
  /\ record = [c \in Causes |-> "none"]
  /\ call = [w \in Callers |-> NoCall]
  /\ overtaken = FALSE

-----------------------------------------------------------------------------
isClosed == tenant.status = "CANCELLED" \/ tenant.closed

ActiveCauses == {c \in Causes : record[c] = "ACTIVE"}

Calling(w) == call[w].pc # "none"

Reading(w, c) ==
  call' = [call EXCEPT ![w] = [pc |-> "suspend", cause |-> c,
                               read |-> tenant.status, closed |-> isClosed]]

\* suspendTenant up to its first write: the tenant, and whether the cause has
\* an ACTIVE record already.
SuspendTenant(w, c) ==
  /\ ~Calling(w)
  /\ record[c] # "ACTIVE"
  /\ Reading(w, c)
  /\ UNCHANGED <<tenant, record, overtaken>>

\* The status that a suspension leaves behind which has read these.
AfterSuspend(status, closed) ==
  IF status # "SUSPENDED" /\ ~closed THEN "SUSPENDED" ELSE tenant.status

\* Its writes: the record, and the status unless the tenant was suspended or
\* closed when it was read.
Suspend(w) ==
  LET left == AfterSuspend(call[w].read, call[w].closed) IN
  /\ call[w].pc = "suspend"
  /\ record' = [record EXCEPT ![call[w].cause] = "ACTIVE"]
  /\ tenant' = [tenant EXCEPT !.status = left]
  /\ overtaken' = (overtaken \/ left # AfterSuspend(tenant.status, isClosed))
  /\ call' = [call EXCEPT ![w] = NoCall]

\* liftSuspension up to its first write: one ACTIVE record, or all of them.
LiftSuspension(w, T) ==
  /\ ~Calling(w)
  /\ T # {} /\ T \subseteq ActiveCauses
  /\ T = ActiveCauses \/ \E c \in T : T = {c}
  /\ call' = [call EXCEPT ![w] =
                [pc |-> "lift", targets |-> T,
                 read |-> tenant.status, closed |-> isClosed]]
  /\ UNCHANGED <<tenant, record, overtaken>>

\* It writes those of its records that are still ACTIVE, whose rows are
\* locked from now on, and reads which others are: what it does to the tenant
\* is decided here.
LiftRecords(w) ==
  LET T == call[w].targets \cap ActiveCauses IN
  /\ call[w].pc = "lift"
  /\ \A v \in Callers :
       call[v].pc = "lifted" => call[v].targets \cap call[w].targets = {}
  /\ call' = [call EXCEPT ![w] =
                [pc |-> "lifted", targets |-> T,
                 becameActive |-> /\ ActiveCauses \subseteq T
                                  /\ call[w].read = "SUSPENDED"
                                  /\ ~call[w].closed]]
  /\ UNCHANGED <<tenant, record, overtaken>>

\* The status that a lift leaves behind which has decided so.
AfterLift(becameActive) == IF becameActive THEN "ACTIVE" ELSE tenant.status

\* What a lift of T would decide now.
BecomesActive(T) ==
  ActiveCauses \subseteq T /\ tenant.status = "SUSPENDED" /\ ~isClosed

\* Mutant of Lift: the tenant is active again whatever remains.
LiftAlways(w) ==
  LET T == call[w].targets IN
  /\ call[w].pc = "lifted"
  /\ record' = [c \in Causes |-> IF c \in T THEN "LIFTED" ELSE record[c]]
  /\ tenant' = [tenant EXCEPT !.status = "ACTIVE"]
  /\ overtaken' = (overtaken \/ AfterLift(call[w].becameActive)
                                  # AfterLift(BecomesActive(T)))
  /\ call' = [call EXCEPT ![w] = NoCall]

\* It writes the tenant and commits.
Lift(w) ==
  LET T    == call[w].targets
      left == AfterLift(call[w].becameActive)
  IN
  /\ call[w].pc = "lifted"
  /\ record' = [c \in Causes |-> IF c \in T THEN "LIFTED" ELSE record[c]]
  /\ tenant' = [tenant EXCEPT !.status = left]
  /\ overtaken' = (overtaken \/ left # AfterLift(BecomesActive(T)))
  /\ call' = [call EXCEPT ![w] = NoCall]

\* closeTenant up to its transaction.
CloseTenant(w) ==
  /\ ~Calling(w)
  /\ ~tenant.closed
  /\ call' = [call EXCEPT ![w] = [pc |-> "close"]]
  /\ UNCHANGED <<tenant, record, overtaken>>

\* Its transaction.
Close(w) ==
  /\ call[w].pc = "close"
  /\ tenant' = [status |-> "CANCELLED", closed |-> TRUE]
  /\ call' = [call EXCEPT ![w] = [pc |-> "closed"]]
  /\ UNCHANGED <<record, overtaken>>

\* It calls suspendTenant, whose reads these are.
SuspendClosed(w) ==
  /\ call[w].pc = "closed"
  /\ IF record[Closing] # "ACTIVE"
     THEN Reading(w, Closing)
     ELSE call' = [call EXCEPT ![w] = NoCall]
  /\ UNCHANGED <<tenant, record, overtaken>>

\* A transaction is rolled back, or the process stops.
Rollback(w) ==
  /\ Calling(w)
  /\ call' = [call EXCEPT ![w] = NoCall]
  /\ UNCHANGED <<tenant, record, overtaken>>

Proceeds(w) ==
  \/ Suspend(w) \/ LiftRecords(w) \/ Lift(w) \/ Close(w) \/ SuspendClosed(w)

-----------------------------------------------------------------------------
(* Properties *)

\* The promise as it is made: "the tenant is ACTIVE again only when no ACTIVE
\* record remains", and "a closed tenant is never reactivated by lifting
\* suspensions" (tenant-suspension.service.ts:8 and :55).  It is violated: a
\* lift that a suspension or a closing overtakes writes what it decided before.
ActiveOnlyWithoutCauses ==
  tenant.status = "ACTIVE" => ~tenant.closed /\ ActiveCauses = {}

\* The status is what the causes ask for: a tenant that is not closed is
\* suspended exactly while one is ACTIVE, and a closed one is CANCELLED.
StatusFollowsCauses ==
  IF tenant.closed THEN tenant.status = "CANCELLED"
  ELSE (tenant.status = "SUSPENDED") <=> (ActiveCauses # {})

\* What is kept with any number of suspensions, lifts and closings at once:
\* the status follows the causes until one of them commits a status that it
\* would not have left had it looked again.  So those that overlap and do not
\* change what the other goes by - two suspensions, a suspension that a lift
\* still sees, a lift that leaves others ACTIVE, two closings - do no harm.
FollowsUnlessOvertaken == overtaken \/ StatusFollowsCauses

\* What makes it inductive.
TenantInv ==
  overtaken \/ /\ tenant.closed <=> tenant.status = "CANCELLED"
               /\ StatusFollowsCauses
=============================================================================
