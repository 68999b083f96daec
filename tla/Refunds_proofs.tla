--------------------------- MODULE Refunds_proofs ---------------------------
(***************************************************************************)
(* Theorems about Refunds for any keys, amounts and number of requests.    *)
(* The invariant is that a refund which is decided or sent is in one       *)
(* request's hands unless it is contested, and what is still known of one  *)
(* that is; the sums follow it, because the total of a set of refunds is   *)
(* the number of its units of money, whatever the order they are added in. *)
(***************************************************************************)
EXTENDS Refunds, FiniteSetTheorems, TLAPS

LEMMA Initially == Init => IInv
BY DEF Init, IInv, TypeOK, OneHand, InHand, SentIsDecided, Idle, Busy, At,
       Active, Statuses, Approvals, Settled

LEMMA BusyHasKey ==
  ASSUME TypeOK, NEW h \in Handlers, handler[h].pc # "idle"
  PROVE  handler[h] \in Busy /\ Key(h) \in Keys
BY DEF TypeOK, Idle, Busy, Key

\* Steps by which a request takes nothing into its hands.
LEMMA LetsGo ==
  ASSUME IInv, NEW h \in Handlers, NEW idle \in {Idle} \cup Busy,
         idle.pc \notin Active,
         idle.pc = "book" /\ idle.path = "stripe" => stripe,
         handler' = [handler EXCEPT ![h] = idle],
         UNCHANGED <<stripe, refund, refunded, sent, contested>>
  PROVE  IInv'
<1>1. TypeOK'
  BY DEF IInv, TypeOK
<1>2. OneHand'
  BY DEF IInv, TypeOK, OneHand, Key
<1>3. InHand'
  BY DEF IInv, TypeOK, InHand, At, Key, Active
<1>4. SentIsDecided'
  BY DEF IInv, SentIsDecided
<1> QED BY <1>1, <1>2, <1>3, <1>4 DEF IInv

LEMMA RequestKeeps ==
  ASSUME IInv, NEW h \in Handlers, NEW k \in Keys,
         NEW path \in {"stripe", "approval"}, Request(h, k, path)
  PROVE  IInv'
<1> DEFINE booking == [pc |-> "book", key |-> k, path |-> path]
<1>1. /\ booking \in {Idle} \cup Busy /\ booking.pc \notin Active
      /\ booking.path = "stripe" => stripe
  BY DEF Busy, Active, Request
<1>2. handler' = [handler EXCEPT ![h] = booking]
  BY DEF Request
<1> QED BY <1>1, <1>2, LetsGo DEF Request

LEMMA AbortKeeps ==
  ASSUME IInv, NEW h \in Handlers, Abort(h)
  PROVE  IInv'
<1>1. Idle.pc \notin Active /\ Idle.pc # "book"
  BY DEF Idle, Active
<1> QED BY <1>1, LetsGo DEF Abort, Return

\* A refund that nobody has asked for yet is in no one's hands.
LEMMA InNoHand ==
  ASSUME IInv, NEW k \in Keys, NEW g \in Handlers,
         refund[k].status = "NONE", handler[g].pc \in Active
  PROVE  Key(g) # k
BY DEF IInv, InHand, Active

LEMMA BookKeeps ==
  ASSUME IInv, NEW h \in Handlers, Book(h)
  PROVE  IInv'
<1> DEFINE k == Key(h)
<1>1. k \in Keys /\ handler[h] \in Busy /\ refund[k].status = "NONE"
  BY BusyHasKey DEF Book, At, IInv
<1>2. k \notin sent /\ refund[k].approval = "none"
  BY <1>1 DEF IInv, SentIsDecided
<1>3. \A g \in Handlers : handler[g].pc \in Active => Key(g) # k
  BY <1>1, InNoHand
<1>4. CASE handler[h].path = "stripe"
  <2>0. stripe
    BY <1>4 DEF Book, IInv, InHand
  <2>1. /\ refund' = [refund EXCEPT ![k].status = "PROCESSING"]
        /\ handler' = [handler EXCEPT ![h].pc = "charge"]
        /\ UNCHANGED <<stripe, refunded, sent, contested>>
    BY <1>4 DEF Book, Goto
  <2>2. TypeOK'
    BY <1>1, <2>1 DEF IInv, TypeOK, Busy, Statuses
  <2>3. OneHand'
    BY <1>1, <1>3, <2>1 DEF IInv, TypeOK, OneHand, Key, Busy, Active
  <2>4. InHand'
    BY <1>1, <1>3, <2>0, <2>1 DEF IInv, TypeOK, InHand, At, Key, Busy, Active
  <2>5. SentIsDecided'
    BY <1>1, <1>2, <2>1 DEF IInv, TypeOK, SentIsDecided, Settled
  <2> QED BY <2>2, <2>3, <2>4, <2>5 DEF IInv
<1>5. CASE handler[h].path # "stripe"
  <2>1. /\ refund' = [refund EXCEPT ![k] =
             [status |-> "PENDING_APPROVAL", approval |-> "PENDING"]]
        /\ handler' = [handler EXCEPT ![h] = Idle]
        /\ UNCHANGED <<stripe, refunded, sent, contested>>
    BY <1>5 DEF Book, Return
  <2>2. TypeOK'
    BY <1>1, <2>1 DEF IInv, TypeOK, Statuses, Approvals
  <2>3. OneHand'
    BY <2>1 DEF IInv, TypeOK, OneHand, Key, Idle, Active
  <2>4. InHand'
    BY <1>1, <1>3, <2>1 DEF IInv, TypeOK, InHand, At, Key, Idle, Active
  <2>5. SentIsDecided'
    BY <1>1, <1>2, <2>1 DEF IInv, TypeOK, SentIsDecided, Settled
  <2> QED BY <2>2, <2>3, <2>4, <2>5 DEF IInv
<1> QED BY <1>4, <1>5

LEMMA ChargeKeeps ==
  ASSUME IInv, NEW h \in Handlers, Charge(h)
  PROVE  IInv'
<1> DEFINE k == Key(h)
<1>1. /\ k \in Keys /\ handler[h] \in Busy /\ stripe
      /\ refund[k].status \notin {"NONE", "PENDING_APPROVAL"}
      /\ k \notin contested => refund[k].status = "PROCESSING"
  BY BusyHasKey DEF Charge, At, IInv, InHand
<1>2. PICK pc \in {"settle", "fail"} :
        handler' = [handler EXCEPT ![h].pc = pc]
  BY DEF Charge, Goto
<1>3. /\ sent' \in {sent, sent \cup {k}}
      /\ handler'[h].pc = "settle" => k \in sent'
  <2>1. CASE sent' = sent \cup {k}
    BY <2>1
  <2>2. CASE /\ handler' = [handler EXCEPT ![h].pc = "fail"]
             /\ UNCHANGED sent
    <3>1. handler'[h].pc = "fail"
      BY <1>1, <2>2 DEF IInv, TypeOK, Busy
    <3> QED BY <2>2, <3>1
  <2> QED BY <2>1, <2>2 DEF Charge, Goto
<1>4. UNCHANGED <<stripe, refund, refunded, contested>>
  BY DEF Charge
<1>5. TypeOK'
  BY <1>1, <1>2, <1>3, <1>4 DEF IInv, TypeOK, Busy
<1>6. OneHand'
  BY <1>1, <1>2, <1>4 DEF Charge, At, IInv, TypeOK, OneHand, Key, Busy, Active
<1>7. InHand'
  BY <1>1, <1>2, <1>3, <1>4 DEF IInv, TypeOK, InHand, At, Key, Busy
<1>8. SentIsDecided'
  BY <1>1, <1>3, <1>4 DEF IInv, TypeOK, SentIsDecided
<1> QED BY <1>5, <1>6, <1>7, <1>8 DEF IInv

\* A refund that is in a request's hands and not contested is in no other's.
LEMMA InMyHand ==
  ASSUME IInv, NEW h \in Handlers, NEW g \in Handlers, g # h,
         handler[h].pc \in Active, handler[g].pc \in Active,
         Key(h) \notin contested
  PROVE  Key(g) # Key(h)
BY DEF IInv, OneHand

\* Prisma's update of one column.
LEMMA StatusWrite ==
  ASSUME TypeOK, NEW k \in Keys, NEW s
  PROVE  [refund EXCEPT ![k].status = s]
           = [refund EXCEPT ![k] =
                [status |-> s, approval |-> refund[k].approval]]
<1> DEFINE row == [status |-> s, approval |-> refund[k].approval]
<1>1. refund[k] \in [status : Statuses, approval : Approvals]
  BY DEF TypeOK
<1>2. [refund[k] EXCEPT !.status = s] = row
  BY <1>1
<1> QED BY <1>2

\* The steps that end a request and leave its refund as decided or settled.
LEMMA WritesStatus ==
  ASSUME IInv, NEW h \in Handlers, handler[h].pc \in Active,
         NEW row \in [status : {"SUCCEEDED", "FAILED", "REJECTED",
                                "RECORDED_MANUAL"}, approval : Approvals],
         row.approval # "PENDING",
         row.status = "SUCCEEDED" => Key(h) \in sent,
         Key(h) \notin contested =>
           /\ row.status # "REJECTED" => row.approval \in {"none", "APPROVED"}
           /\ row.status \in {"REJECTED", "RECORDED_MANUAL"}
                => Key(h) \notin sent,
         refund' = [refund EXCEPT ![Key(h)] = row],
         handler' = [handler EXCEPT ![h] = Idle],
         refunded' \in Nat,
         UNCHANGED <<stripe, sent, contested>>
  PROVE  IInv'
<1>1. Key(h) \in Keys
  BY BusyHasKey DEF IInv, Active
<1>2. TypeOK'
  BY <1>1 DEF IInv, TypeOK, Statuses
<1>3. OneHand'
  BY DEF IInv, TypeOK, OneHand, Key, Idle, Active
<1>4. \A g \in Handlers :
        g # h /\ handler[g].pc \in Active /\ Key(h) \notin contested
          => Key(g) # Key(h)
  BY InMyHand
<1>5. InHand'
  BY <1>1, <1>4 DEF IInv, TypeOK, InHand, At, Key, Idle, Active
<1>6. SentIsDecided'
  BY <1>1 DEF IInv, TypeOK, SentIsDecided, Settled
<1> QED BY <1>2, <1>3, <1>5, <1>6 DEF IInv

\* Of a refund that is being sent, and of its approval.
LEMMA BeingSent ==
  ASSUME IInv, NEW h \in Handlers,
         handler[h].pc \in {"charge", "settle", "fail"}
  PROVE  /\ Key(h) \in Keys /\ stripe
         /\ refund[Key(h)].status \notin {"NONE", "PENDING_APPROVAL"}
         /\ refund[Key(h)].approval \in Approvals \ {"PENDING"}
         /\ Key(h) \notin contested =>
              /\ refund[Key(h)].status = "PROCESSING"
              /\ refund[Key(h)].approval \in {"none", "APPROVED"}
<1>1. Key(h) \in Keys
  BY BusyHasKey DEF IInv
<1>2. /\ stripe
      /\ refund[Key(h)].status \notin {"NONE", "PENDING_APPROVAL"}
      /\ Key(h) \notin contested => refund[Key(h)].status = "PROCESSING"
  BY DEF IInv, InHand
<1>3. refund[Key(h)].approval \in Approvals
  BY <1>1 DEF IInv, TypeOK
<1> QED BY <1>1, <1>2, <1>3 DEF IInv, SentIsDecided

LEMMA SettleKeeps ==
  ASSUME IInv, NEW h \in Handlers, Settle(h)
  PROVE  IInv'
<1> DEFINE k == Key(h)
           row == [status |-> "SUCCEEDED", approval |-> refund[k].approval]
<1>1. k \in Keys /\ k \in sent
  BY BeingSent DEF Settle, At, IInv, InHand
<1>2. /\ refund[k].approval \in Approvals \ {"PENDING"}
      /\ k \notin contested => refund[k].approval \in {"none", "APPROVED"}
  BY BeingSent DEF Settle, At
<1>3. refund' = [refund EXCEPT ![k] = row]
  BY <1>1, StatusWrite DEF Settle, IInv
<1>4. refunded' \in Nat
  <2>1. Amount[k] \in Nat
    BY <1>1, RefundAssumption
  <2> QED BY <2>1 DEF Settle, IInv, TypeOK
<1>5. handler[h].pc \in Active
  BY DEF Settle, At, Active
<1>6. row \in [status : {"SUCCEEDED", "FAILED", "REJECTED",
                         "RECORDED_MANUAL"}, approval : Approvals]
  BY <1>2 DEF Approvals
<1> QED
  BY <1>1, <1>2, <1>3, <1>4, <1>5, <1>6, WritesStatus DEF Settle, Return

LEMMA FailKeeps ==
  ASSUME IInv, NEW h \in Handlers, Fail(h)
  PROVE  IInv'
<1> DEFINE k == Key(h)
           row == [status |-> "FAILED", approval |-> refund[k].approval]
<1>1. k \in Keys
  BY BeingSent DEF Fail, At
<1>2. /\ refund[k].approval \in Approvals \ {"PENDING"}
      /\ k \notin contested => refund[k].approval \in {"none", "APPROVED"}
  BY BeingSent DEF Fail, At
<1>3. refund' = [refund EXCEPT ![k] = row]
  BY <1>1, StatusWrite DEF Fail, IInv
<1>4. handler[h].pc \in Active
  BY DEF Fail, At, Active
<1>5. row \in [status : {"SUCCEEDED", "FAILED", "REJECTED",
                         "RECORDED_MANUAL"}, approval : Approvals]
  BY <1>2 DEF Approvals
<1>6. refunded' \in Nat
  BY DEF Fail, IInv, TypeOK
<1> QED
  BY <1>2, <1>3, <1>4, <1>5, <1>6, WritesStatus DEF Fail, Return

\* A decision is taken up: of a refund that nobody else has in hand, or that
\* is contested from now on.
LEMMA DecideKeeps ==
  ASSUME IInv, NEW h \in Handlers, NEW k \in Keys,
         NEW decision \in {"approve", "reject"}, Decide(h, k, decision)
  PROVE  IInv'
<1>1. \A g \in Handlers :
        handler[g].pc \in Active /\ Key(g) = k => k \in contested'
  <2>1. ASSUME NEW g \in Handlers, Key(g) = k,
               handler[g].pc \in {"approve", "reject"}
        PROVE  k \in contested'
    BY <2>1 DEF Decide, Deciding
  <2>2. ASSUME NEW g \in Handlers, Key(g) = k,
               handler[g].pc \in {"charge", "settle", "fail"}
        PROVE  FALSE
    BY <2>2 DEF Decide, IInv, InHand
  <2> QED BY <2>1, <2>2 DEF Active
<1>2. /\ handler' = [handler EXCEPT ![h] =
                       [pc |-> decision, key |-> k, path |-> "approval"]]
      /\ contested \subseteq contested' /\ contested' \subseteq Keys
      /\ UNCHANGED <<stripe, refund, refunded, sent>>
  BY DEF Decide, IInv, TypeOK
<1>3. TypeOK'
  BY <1>2 DEF IInv, TypeOK, Busy
<1>4. OneHand'
  BY <1>1, <1>2 DEF IInv, TypeOK, OneHand, Key
<1>5. InHand'
  BY <1>2 DEF Decide, IInv, TypeOK, InHand, At, Key
<1>6. SentIsDecided'
  BY <1>2 DEF IInv, SentIsDecided
<1> QED BY <1>3, <1>4, <1>5, <1>6 DEF IInv

\* Of a refund that is being decided.
LEMMA BeingDecided ==
  ASSUME IInv, NEW h \in Handlers, handler[h].pc \in {"approve", "reject"}
  PROVE  /\ Key(h) \in Keys /\ handler[h] \in Busy
         /\ refund[Key(h)].status # "NONE"
         /\ Key(h) \notin contested =>
              /\ refund[Key(h)].status = "PENDING_APPROVAL"
              /\ Key(h) \notin sent
<1>1. Key(h) \in Keys /\ handler[h] \in Busy
  BY BusyHasKey DEF IInv
<1>2. /\ refund[Key(h)].status # "NONE"
      /\ Key(h) \notin contested
           => refund[Key(h)].status = "PENDING_APPROVAL"
  BY DEF IInv, InHand
<1> QED BY <1>1, <1>2 DEF IInv, SentIsDecided

LEMMA RejectKeeps ==
  ASSUME IInv, NEW h \in Handlers, Reject(h)
  PROVE  IInv'
<1> DEFINE row == [status |-> "REJECTED", approval |-> "REJECTED"]
<1>1. handler[h].pc \in Active
  BY DEF Reject, At, Active
<1>2. Key(h) \notin contested => Key(h) \notin sent
  BY BeingDecided DEF Reject, At
<1>3. row \in [status : {"SUCCEEDED", "FAILED", "REJECTED",
                         "RECORDED_MANUAL"}, approval : Approvals]
  BY DEF Approvals
<1>4. refunded' \in Nat
  BY DEF Reject, IInv, TypeOK
<1> QED BY <1>1, <1>2, <1>3, <1>4, WritesStatus DEF Reject, Return

LEMMA ApproveKeeps ==
  ASSUME IInv, NEW h \in Handlers, Approve(h)
  PROVE  IInv'
<1> DEFINE k == Key(h)
<1>1. /\ k \in Keys /\ handler[h] \in Busy /\ handler[h].pc \in Active
      /\ refund[k].status # "NONE"
  BY BeingDecided DEF Approve, At, Active
<1>2. k \notin contested => k \notin sent
  BY BeingDecided DEF Approve, At
<1>3. CASE stripe
  <2>1. /\ refund' = [refund EXCEPT ![k] =
             [status |-> "PROCESSING", approval |-> "APPROVED"]]
        /\ handler' = [handler EXCEPT ![h].pc = "charge"]
        /\ UNCHANGED <<stripe, refunded, sent, contested>>
    BY <1>3 DEF Approve, Goto
  <2>2. \A g \in Handlers :
          g # h /\ handler[g].pc \in Active /\ k \notin contested
            => Key(g) # k
    BY <1>1, InMyHand
  <2>3. TypeOK'
    BY <1>1, <2>1 DEF IInv, TypeOK, Busy, Statuses, Approvals
  <2>4. OneHand'
    BY <1>1, <2>1, <2>2 DEF IInv, TypeOK, OneHand, Key, Busy, Active
  <2>5. InHand'
    BY <1>1, <1>3, <2>1, <2>2
       DEF Approve, IInv, TypeOK, InHand, At, Key, Busy, Active
  <2>6. SentIsDecided'
    BY <1>1, <1>2, <2>1 DEF IInv, TypeOK, SentIsDecided, Settled
  <2> QED BY <2>3, <2>4, <2>5, <2>6 DEF IInv
<1>4. CASE ~stripe
  <2> DEFINE row == [status |-> "RECORDED_MANUAL", approval |-> "APPROVED"]
  <2>1. row \in [status : {"SUCCEEDED", "FAILED", "REJECTED",
                           "RECORDED_MANUAL"}, approval : Approvals]
    BY DEF Approvals
  <2>2. refunded' \in Nat
    BY <1>1, <1>4, RefundAssumption DEF Approve, IInv, TypeOK
  <2> QED
    BY <1>1, <1>2, <1>4, <2>1, <2>2, WritesStatus DEF Approve, Return
<1> QED BY <1>3, <1>4

LEMMA Stuttering ==
  ASSUME IInv, UNCHANGED vars
  PROVE  IInv'
BY DEF vars, IInv, TypeOK, OneHand, InHand, SentIsDecided, At, Key, With

\* What is decided or sent is in one request's hands unless it is contested.
THEOREM OneHandOnEach == Spec => []IInv
<1>1. ASSUME IInv, [Next]_vars PROVE IInv'
  <2>1. ASSUME NEW h \in Handlers, NEW k \in Keys,
               \/ \E path \in {"stripe", "approval"} : Request(h, k, path)
               \/ \E decision \in {"approve", "reject"} :
                    Decide(h, k, decision)
        PROVE  IInv'
    BY <1>1, <2>1, RequestKeeps, DecideKeeps
  <2>2. ASSUME NEW h \in Handlers,
               \/ Book(h) \/ Charge(h) \/ Settle(h) \/ Fail(h)
               \/ Reject(h) \/ Approve(h) \/ Abort(h)
        PROVE  IInv'
    BY <1>1, <2>2, BookKeeps, ChargeKeeps, SettleKeeps, FailKeeps,
       RejectKeeps, ApproveKeeps, AbortKeeps
  <2> QED BY <1>1, <2>1, <2>2, Stuttering DEF Next
<1> QED BY Initially, <1>1, PTL DEF Spec

\* Rows, sums and requests have their types in every reachable state.
THEOREM TypeCorrect == Spec => []TypeOK
<1>1. IInv => TypeOK
  BY DEF IInv
<1> QED BY <1>1, OneHandOnEach, PTL

\* Whatever requests, decisions, lost answers and crashes come in between,
\* what Stripe has sent or the books call refunded no longer waits, needed no
\* approval or has it if it was not contested, and succeeds only once sent.
THEOREM OnlyApprovedIsPaid == Spec => []PaidWasApproved
<1>1. IInv => PaidWasApproved
  BY DEF IInv, SentIsDecided, PaidWasApproved, Settled
<1> QED BY <1>1, OneHandOnEach, PTL

\* A refund that has an outcome keeps it unless two requests were deciding it
\* at once, and refundedAmount never goes down: the request that writes a row
\* by its id is otherwise the only one that has it, so that the row still
\* stands where the request found it.
THEOREM OutcomesStay == Spec => OutcomesAreFinal
<1>1. IInv /\ [Next]_vars
        => [/\ \A k \in Keys \ contested :
                 refund[k].status \notin IN_FLIGHT \cup {"NONE"}
                   => refund'[k] = refund[k]
            /\ refunded' >= refunded]_vars
  <2> SUFFICES ASSUME IInv, Next
               PROVE  /\ \A k \in Keys \ contested :
                           refund[k].status \notin IN_FLIGHT \cup {"NONE"}
                             => refund'[k] = refund[k]
                      /\ refunded' >= refunded
    OBVIOUS
  <2> PICK h \in Handlers :
        \/ \E k \in Keys :
             \/ \E path \in {"stripe", "approval"} : Request(h, k, path)
             \/ \E decision \in {"approve", "reject"} : Decide(h, k, decision)
        \/ Book(h) \/ Charge(h) \/ Settle(h) \/ Fail(h)
        \/ Reject(h) \/ Approve(h) \/ Abort(h)
    BY DEF Next
  <2>1. CASE \/ \E k \in Keys :
                  \/ \E path \in {"stripe", "approval"} : Request(h, k, path)
                  \/ \E decision \in {"approve", "reject"} :
                       Decide(h, k, decision)
             \/ Charge(h) \/ Abort(h)
    <3>1. UNCHANGED <<refund, refunded>>
      BY <2>1 DEF Request, Decide, Charge, Abort
    <3> QED
      BY <3>1 DEF IInv, TypeOK
  <2>2. CASE Book(h) \/ Settle(h) \/ Fail(h) \/ Reject(h) \/ Approve(h)
    <3>1. /\ Key(h) \in Keys
          /\ Key(h) \notin contested
               => refund[Key(h)].status \in IN_FLIGHT \cup {"NONE"}
      BY <2>2, BusyHasKey
         DEF Book, Settle, Fail, Reject, Approve, At, IInv, InHand, IN_FLIGHT
    <3>2. \A k \in Keys : k # Key(h) => refund'[k] = refund[k]
      BY <2>2 DEF Book, Settle, Fail, Reject, Approve, IInv, TypeOK
    <3>3. refunded \in Nat /\ Amount[Key(h)] \in Nat
      BY <3>1, RefundAssumption DEF IInv, TypeOK
    <3>4. refunded' \in {refunded, refunded + Amount[Key(h)]}
      BY <2>2 DEF Book, Settle, Fail, Reject, Approve
    <3>5. refunded' >= refunded
      BY <3>3, <3>4
    <3> QED
      BY <3>1, <3>2, <3>5
  <2> QED
    BY <2>1, <2>2
<1> QED
  BY <1>1, OneHandOnEach, PTL DEF Spec, OutcomesAreFinal

-----------------------------------------------------------------------------
(* The sums.  Units are what a set of refunds comes to, one by one: no      *)
(* recursion, and no order of adding.                                       *)

Unit(k) == {k} \X (1..Amount[k])
Units(S) == UNION {Unit(k) : k \in S}

LEMMA UnitCount ==
  ASSUME NEW k \in Keys
  PROVE  /\ IsFiniteSet(Unit(k))
         /\ Cardinality(Unit(k)) = Amount[k]
         /\ Amount[k] \in Nat
<1>1. Amount[k] \in Nat
  BY RefundAssumption
<1>2. IsFiniteSet({k}) /\ Cardinality({k}) = 1
  BY FS_Singleton
<1>3. IsFiniteSet(1..Amount[k]) /\ Cardinality(1..Amount[k]) = Amount[k]
  BY <1>1, FS_Interval
<1>4. /\ IsFiniteSet({k} \X (1..Amount[k]))
      /\ Cardinality({k} \X (1..Amount[k])) = 1 * Amount[k]
  <2>1. /\ IsFiniteSet({k} \X (1..Amount[k]))
        /\ Cardinality({k} \X (1..Amount[k]))
             = Cardinality({k}) * Cardinality(1..Amount[k])
    BY ONLY <1>2, <1>3, FS_Product, ZenonT(40)
  <2> QED
    BY <1>2, <1>3, <2>1
<1> QED BY <1>1, <1>4 DEF Unit

LEMMA UnitsOfNone == Units({}) = {} /\ Cardinality(Units({})) = 0
BY FS_EmptySet DEF Units

LEMMA UnitsFinite ==
  ASSUME NEW S \in SUBSET Keys
  PROVE  IsFiniteSet(Units(S)) /\ Cardinality(Units(S)) \in Nat
<1> DEFINE T == {Unit(k) : k \in S}
           f == [k \in S |-> Unit(k)]
<1>1. IsFiniteSet(S)
  BY RefundAssumption, FS_Subset
<1>2. f \in Surjection(S, T)
  BY DEF Surjection
<1>3. IsFiniteSet(T)
  BY <1>1, <1>2, FS_Surjection
<1>4. \A U \in T : IsFiniteSet(U)
  BY UnitCount
<1>5. IsFiniteSet(UNION T)
  BY <1>3, <1>4, FS_UNION
<1> QED BY <1>5, FS_CardinalityType DEF Units

LEMMA UnitsOfOneMore ==
  ASSUME NEW S \in SUBSET Keys, NEW k \in S
  PROVE  Cardinality(Units(S)) = Amount[k] + Cardinality(Units(S \ {k}))
<1> DEFINE R == S \ {k}
<1>1. Units(S) = Unit(k) \cup Units(R)
  BY DEF Units
<1>2. Unit(k) \cap Units(R) = {}
  BY DEF Units, Unit
<1>3. /\ IsFiniteSet(Units(R)) /\ Cardinality(Units(R)) \in Nat
      /\ IsFiniteSet(Unit(k)) /\ Cardinality(Unit(k)) = Amount[k]
      /\ Amount[k] \in Nat
  BY UnitsFinite, UnitCount
<1>4. Cardinality(Unit(k) \cap Units(R)) = 0
  BY <1>2, FS_EmptySet
<1>5. Cardinality(Unit(k) \cup Units(R))
        = Cardinality(Unit(k)) + Cardinality(Units(R))
            - Cardinality(Unit(k) \cap Units(R))
  BY <1>3, FS_Union
<1> HIDE DEF R
<1>6. Cardinality(Units(S)) = Amount[k] + Cardinality(Units(R))
  BY <1>1, <1>3, <1>4, <1>5
<1> QED BY <1>6 DEF R

\* The one of a set that the fold takes next.
Chosen(s) == CHOOSE x \in s : TRUE

\* f adds a set's amounts up as the fold does.
Adds(f, S) ==
  f = [s \in SUBSET S |->
         IF s = {} THEN 0 ELSE Amount[Chosen(s)] + f[s \ {Chosen(s)}]]

LEMMA TotalAdds ==
  ASSUME NEW S
  PROVE  Total(S) = (CHOOSE f : Adds(f, S))[S]
BY DEF Total, MapThenSumSet, MapThenFoldSet, Adds, Chosen

LEMMA UnitsAdd ==
  ASSUME NEW S \in SUBSET Keys
  PROVE  Adds([s \in SUBSET S |-> Cardinality(Units(s))], S)
<1> DEFINE g == [s \in SUBSET S |-> Cardinality(Units(s))]
<1>1. ASSUME NEW s \in SUBSET S
      PROVE  g[s] = IF s = {} THEN 0
                    ELSE Amount[Chosen(s)] + g[s \ {Chosen(s)}]
  <2>1. CASE s = {}
    BY <2>1, UnitsOfNone
  <2>2. CASE s # {}
    <3>1. Chosen(s) \in s
      BY <2>2 DEF Chosen
    <3> QED BY <2>2, <3>1, UnitsOfOneMore
  <2> QED BY <2>1, <2>2
<1>2. g = [s \in SUBSET S |-> g[s]]
  OBVIOUS
<1> HIDE DEF g
<1>3. Adds(g, S)
  BY <1>1, <1>2 DEF Adds
<1> QED BY <1>3 DEF g

LEMMA TotalIsUnits ==
  ASSUME NEW S \in SUBSET Keys
  PROVE  Total(S) = Cardinality(Units(S))
<1> DEFINE g == [s \in SUBSET S |-> Cardinality(Units(s))]
           f == CHOOSE h : Adds(h, S)
           T == {s \in SUBSET S : f[s] # g[s]}
<1>1. Adds(g, S)
  BY UnitsAdd
<1> HIDE DEF g
<1>2. Adds(f, S)
  BY <1>1
<1> HIDE DEF f
<1>3. T = {}
  <2> SUFFICES ASSUME T # {} PROVE FALSE
    OBVIOUS
  <2>1. IsFiniteSet(S)
    BY RefundAssumption, FS_Subset
  <2>2. IsWellFoundedOn(StrictSubsetOrdering(S), SUBSET S)
    BY <2>1, FS_StrictSubsetOrderingWellFounded, FS_FiniteSubsetsOfFinite
  <2>3. PICK s \in T : \A t \in T : <<t, s>> \notin StrictSubsetOrdering(S)
    <3> HIDE DEF T
    <3>1. T \subseteq SUBSET S
      BY DEF T
    <3> QED BY <2>2, <3>1, WFMin
  <2>4. s # {}
    BY <1>1, <1>2 DEF Adds
  <2> DEFINE x == Chosen(s)
  <2>5. x \in s
    BY <2>4 DEF Chosen
  <2> HIDE DEF x
  <2>6. s \ {x} \in SUBSET S /\ <<s \ {x}, s>> \in StrictSubsetOrdering(S)
    BY <2>5 DEF StrictSubsetOrdering
  <2>7. f[s \ {x}] = g[s \ {x}]
    BY <2>3, <2>6
  <2>8. f[s] = Amount[x] + f[s \ {x}] /\ g[s] = Amount[x] + g[s \ {x}]
    BY <1>1, <1>2, <2>4 DEF Adds, x
  <2> QED BY <2>7, <2>8
<1>4. f[S] = g[S]
  BY <1>3
<1>5. Total(S) = f[S]
  BY TotalAdds DEF f
<1>6. g[S] = Cardinality(Units(S))
  BY DEF g
<1> QED BY <1>4, <1>5, <1>6

LEMMA TotalOfOneMore ==
  ASSUME NEW S \in SUBSET Keys, NEW k \in Keys
  PROVE  /\ Total(S) \in Nat /\ Total(S \ {k}) \in Nat /\ Amount[k] \in Nat
         /\ Total(S) = Total(S \ {k}) + (IF k \in S THEN Amount[k] ELSE 0)
<1>1. S \ {k} \in SUBSET Keys
  OBVIOUS
<1>2. /\ Total(S) = Cardinality(Units(S))
      /\ Total(S \ {k}) = Cardinality(Units(S \ {k}))
  BY <1>1, TotalIsUnits
<1>3. /\ Cardinality(Units(S)) \in Nat
      /\ Cardinality(Units(S \ {k})) \in Nat
  BY <1>1, UnitsFinite
<1>4. Amount[k] \in Nat
  BY RefundAssumption
<1>5. CASE k \in S
  BY <1>2, <1>3, <1>4, <1>5, UnitsOfOneMore
<1>6. CASE k \notin S
  <2>1. S \ {k} = S
    BY <1>6
  <2> QED BY <1>2, <1>3, <1>4, <1>6, <2>1
<1> QED BY <1>5, <1>6

-----------------------------------------------------------------------------
(* The books.                                                              *)

\* What k counts for in a total when condition holds.
Share(k, condition) == IF condition THEN Amount[k] ELSE 0

LEMMA TotalWith ==
  ASSUME NEW statuses, NEW k \in Keys
  PROVE  /\ Total(With(statuses)) \in Nat
         /\ Total(With(statuses) \ {k}) \in Nat
         /\ Total(With(statuses))
              = Total(With(statuses) \ {k})
                  + Share(k, refund[k].status \in statuses)
<1>1. /\ With(statuses) \in SUBSET Keys
      /\ k \in With(statuses) <=> refund[k].status \in statuses
  BY DEF With
<1> QED BY <1>1, TotalOfOneMore DEF Share

\* A step that writes the row of k, counts what becomes settled, and leaves
\* room for what becomes booked.  A contested refund may be counted twice.
LEMMA RowWritten ==
  ASSUME BooksInv, NEW k \in Keys, NEW row,
         refund' = [refund EXCEPT ![k] = row], refunded' \in Nat,
         UNCHANGED <<stripe, contested>>,
         refunded' + Share(k, refund[k].status \in Settled)
           >= refunded + Share(k, row.status \in Settled),
         contested = {} =>
           refunded' + Share(k, refund[k].status \in Settled)
             = refunded + Share(k, row.status \in Settled),
         ~stripe \/ contested = {} =>
           refunded' + Share(k, row.status \in IN_FLIGHT)
             + Total(With(IN_FLIGHT) \ {k}) <= Paid
  PROVE  NeverOverRefunded' /\ BooksAgree'
<1>1. refund'[k] = row
  BY DEF BooksInv, IInv, TypeOK
<1>2. \A statuses : With(statuses)' \ {k} = With(statuses) \ {k}
  BY DEF With, BooksInv, IInv, TypeOK
<1>3. /\ Total(With(IN_FLIGHT)') \in Nat
      /\ Total(With(IN_FLIGHT) \ {k}) \in Nat
      /\ Total(With(IN_FLIGHT)') = Total(With(IN_FLIGHT) \ {k})
                                    + Share(k, row.status \in IN_FLIGHT)
  <2>1. /\ With(IN_FLIGHT)' \in SUBSET Keys
        /\ k \in With(IN_FLIGHT)' <=> row.status \in IN_FLIGHT
    BY <1>1 DEF With
  <2> QED BY <1>2, <2>1, TotalOfOneMore DEF Share
<1>4. /\ Total(With(Settled)') \in Nat
      /\ Total(With(Settled) \ {k}) \in Nat
      /\ Total(With(Settled)') = Total(With(Settled) \ {k})
                                  + Share(k, row.status \in Settled)
  <2>1. /\ With(Settled)' \in SUBSET Keys
        /\ k \in With(Settled)' <=> row.status \in Settled
    BY <1>1 DEF With
  <2> QED BY <1>2, <2>1, TotalOfOneMore DEF Share
<1>5. /\ refunded >= Total(With(Settled) \ {k})
                       + Share(k, refund[k].status \in Settled)
      /\ contested = {} =>
           refunded = Total(With(Settled) \ {k})
                       + Share(k, refund[k].status \in Settled)
      /\ refunded \in Nat
  <2>1. Total(With(Settled)) = Total(With(Settled) \ {k})
                                + Share(k, refund[k].status \in Settled)
    BY TotalWith
  <2>2. /\ refunded >= Total(With(Settled)) /\ refunded \in Nat
        /\ contested = {} => refunded = Total(With(Settled))
    BY DEF BooksInv, IInv, TypeOK, BooksAgree
  <2> QED BY <2>1, <2>2
<1>6. /\ Paid \in Nat
      /\ Share(k, row.status \in IN_FLIGHT) \in Nat
      /\ Share(k, row.status \in Settled) \in Nat
      /\ Share(k, refund[k].status \in Settled) \in Nat
  BY RefundAssumption DEF Share
<1>7. NeverOverRefunded'
  <2>1. \A r, t, s, u, p \in Nat :
          r + s + t <= p /\ u = t + s => r + u <= p
    OBVIOUS
  <2>2. ~stripe \/ contested = {}
          => refunded' + Total(With(IN_FLIGHT)') <= Paid
    BY <1>3, <1>6, <2>1
  <2> QED BY <2>2 DEF NeverOverRefunded
<1>8. BooksAgree'
  <2>1. \A q, r, t, was, is \in Nat :
          r >= t + was /\ q + was >= r + is => q >= t + is
    OBVIOUS
  <2>2. \A q, r, t, was, is \in Nat :
          r = t + was /\ q + was = r + is => q = t + is
    OBVIOUS
  <2>3. refunded' >= Total(With(Settled) \ {k})
                      + Share(k, row.status \in Settled)
    BY <1>4, <1>5, <1>6, <2>1
  <2>4. contested = {} =>
          refunded' = Total(With(Settled) \ {k})
                       + Share(k, row.status \in Settled)
    BY <1>4, <1>5, <1>6, <2>2
  <2> QED BY <1>4, <2>3, <2>4 DEF BooksAgree
<1> QED BY <1>7, <1>8

\* The books before a step, with k apart.
LEMMA BooksOf ==
  ASSUME BooksInv, NEW k \in Keys
  PROVE  /\ refunded \in Nat /\ Paid \in Nat /\ Amount[k] \in Nat
         /\ Total(With(IN_FLIGHT) \ {k}) \in Nat
         /\ Share(k, refund[k].status \in IN_FLIGHT) \in Nat
         /\ ~stripe \/ contested = {} =>
              refunded + Total(With(IN_FLIGHT) \ {k})
                + Share(k, refund[k].status \in IN_FLIGHT) <= Paid
<1>1. refunded \in Nat /\ Paid \in Nat /\ Amount[k] \in Nat
  BY RefundAssumption DEF BooksInv, IInv, TypeOK
<1>2. ~stripe \/ contested = {} => refunded + Total(With(IN_FLIGHT)) <= Paid
  BY DEF BooksInv, NeverOverRefunded
<1>3. Share(k, refund[k].status \in IN_FLIGHT) \in Nat
  BY <1>1 DEF Share
<1>4. /\ Total(With(IN_FLIGHT) \ {k}) \in Nat
      /\ Total(With(IN_FLIGHT)) = Total(With(IN_FLIGHT) \ {k})
            + Share(k, refund[k].status \in IN_FLIGHT)
  BY TotalWith
<1> QED BY <1>1, <1>2, <1>3, <1>4

LEMMA ShareIsNat ==
  ASSUME NEW k \in Keys, NEW condition
  PROVE  Share(k, condition) \in Nat
BY RefundAssumption DEF Share

LEMMA BookBooks ==
  ASSUME BooksInv, NEW h \in Handlers, Book(h)
  PROVE  NeverOverRefunded' /\ BooksAgree'
<1> DEFINE k == Key(h)
<1>1. k \in Keys /\ refund[k].status = "NONE"
  BY BusyHasKey DEF Book, At, BooksInv, IInv
<1>2. PICK row \in [status : IN_FLIGHT, approval : Approvals] :
        refund' = [refund EXCEPT ![k] = row]
  <2>1. CASE refund' = [refund EXCEPT ![k].status = "PROCESSING"]
    <3>1. refund' = [refund EXCEPT ![k] =
                       [status |-> "PROCESSING",
                        approval |-> refund[k].approval]]
      BY <1>1, <2>1, StatusWrite DEF BooksInv, IInv
    <3>2. refund[k].approval \in Approvals
      BY <1>1 DEF BooksInv, IInv, TypeOK
    <3> QED BY <3>1, <3>2 DEF IN_FLIGHT
  <2>2. CASE refund' = [refund EXCEPT ![k] =
               [status |-> "PENDING_APPROVAL", approval |-> "PENDING"]]
    BY <2>2 DEF IN_FLIGHT, Approvals
  <2> QED BY <2>1, <2>2 DEF Book
<1>3. With(IN_FLIGHT) \ {} = With(IN_FLIGHT) \ {k}
  BY <1>1 DEF With, IN_FLIGHT
<1>4. Amount[k] <= Paid - refunded - Total(With(IN_FLIGHT) \ {k})
  BY <1>3 DEF Book, Available
<1>5. /\ Share(k, row.status \in IN_FLIGHT) = Amount[k]
      /\ Share(k, row.status \in Settled) = 0
      /\ Share(k, refund[k].status \in Settled) = 0
  BY <1>1, <1>2 DEF Share, Settled, IN_FLIGHT
<1>6. UNCHANGED <<stripe, refunded, contested>>
  BY DEF Book
<1>7. refunded' + Amount[k] + Total(With(IN_FLIGHT) \ {k}) <= Paid
  BY <1>1, <1>4, <1>6, BooksOf
<1>8. /\ refunded' \in Nat
      /\ refunded' + 0 >= refunded + 0 /\ refunded' + 0 = refunded + 0
  <2>1. refunded \in Nat
    BY DEF BooksInv, IInv, TypeOK
  <2> QED BY <1>6, <2>1
<1> QED BY <1>1, <1>2, <1>5, <1>6, <1>7, <1>8, RowWritten

\* A refund whose request writes what came out of it was in flight, or it is
\* contested.
LEMMA WasInFlight ==
  ASSUME BooksInv, NEW h \in Handlers, handler[h].pc \in Active,
         Key(h) \notin contested
  PROVE  refund[Key(h)].status \in IN_FLIGHT
BY DEF BooksInv, IInv, InHand, Active, IN_FLIGHT

\* Steps that take a refund out of flight without counting it.
LEMMA DropBooks ==
  ASSUME BooksInv, NEW h \in Handlers, Fail(h) \/ Reject(h)
  PROVE  NeverOverRefunded' /\ BooksAgree'
<1> DEFINE k == Key(h)
           was == Share(k, refund[k].status \in Settled)
<1>1. k \in Keys /\ handler[h].pc \in Active
  BY BusyHasKey DEF Fail, Reject, At, BooksInv, IInv, Active
<1>2. PICK row \in [status : {"FAILED", "REJECTED"}, approval : Approvals] :
        refund' = [refund EXCEPT ![k] = row]
  <2>1. CASE Fail(h)
    <3>1. refund' = [refund EXCEPT ![k] =
                       [status |-> "FAILED",
                        approval |-> refund[k].approval]]
      BY <1>1, <2>1, StatusWrite DEF Fail, BooksInv, IInv
    <3>2. refund[k].approval \in Approvals
      BY <1>1 DEF BooksInv, IInv, TypeOK
    <3> QED BY <3>1, <3>2
  <2>2. CASE Reject(h)
    BY <2>2 DEF Reject, Approvals
  <2> QED BY <2>1, <2>2
<1>3. /\ Share(k, row.status \in IN_FLIGHT) = 0
      /\ Share(k, row.status \in Settled) = 0
  BY <1>2 DEF Share, Settled, IN_FLIGHT
<1>4. UNCHANGED <<stripe, refunded, contested>>
  BY DEF Fail, Reject
<1>5. was \in Nat /\ (contested = {} => was = 0)
  <2>1. contested = {} => refund[k].status \notin Settled
    BY <1>1, WasInFlight DEF IN_FLIGHT, Settled
  <2> QED BY <1>1, <2>1, ShareIsNat DEF Share
<1>6. ~stripe \/ contested = {} =>
        refunded' + 0 + Total(With(IN_FLIGHT) \ {k}) <= Paid
  BY <1>1, <1>4, BooksOf
<1>7. /\ refunded' \in Nat /\ refunded' + was >= refunded + 0
      /\ contested = {} => refunded' + was = refunded + 0
  <2>1. refunded \in Nat
    BY DEF BooksInv, IInv, TypeOK
  <2> HIDE DEF was
  <2> QED BY <1>4, <1>5, <2>1
<1> QED BY <1>1, <1>2, <1>3, <1>4, <1>6, <1>7, RowWritten

LEMMA SettleBooks ==
  ASSUME BooksInv, NEW h \in Handlers, Settle(h)
  PROVE  NeverOverRefunded' /\ BooksAgree'
<1> DEFINE k == Key(h)
           row == [status |-> "SUCCEEDED", approval |-> refund[k].approval]
           was == Share(k, refund[k].status \in Settled)
<1>1. k \in Keys /\ stripe /\ handler[h].pc \in Active
  BY BeingSent DEF Settle, At, BooksInv, Active
<1>2. refund' = [refund EXCEPT ![k] = row]
  BY <1>1, StatusWrite DEF Settle, BooksInv, IInv
<1>3. /\ Share(k, row.status \in IN_FLIGHT) = 0
      /\ Share(k, row.status \in Settled) = Amount[k]
  BY DEF Share, Settled, IN_FLIGHT
<1>4. refunded' = refunded + Amount[k] /\ UNCHANGED <<stripe, contested>>
  BY DEF Settle
<1>5. /\ was \in Nat
      /\ contested = {} =>
           was = 0 /\ Share(k, refund[k].status \in IN_FLIGHT) = Amount[k]
  <2>1. contested = {} => refund[k].status \in IN_FLIGHT
    BY <1>1, WasInFlight
  <2> QED BY <1>1, <2>1, ShareIsNat DEF Share, IN_FLIGHT, Settled
<1>6. /\ refunded' \in Nat
      /\ refunded' + was >= refunded + Amount[k]
      /\ contested = {} => refunded' + was = refunded + Amount[k]
  <2>1. refunded \in Nat /\ Amount[k] \in Nat
    BY <1>1, BooksOf
  <2> HIDE DEF was
  <2> QED BY <1>4, <1>5, <2>1
<1>7. ~stripe \/ contested = {} =>
        refunded' + 0 + Total(With(IN_FLIGHT) \ {k}) <= Paid
  BY <1>1, <1>4, <1>5, BooksOf
<1> HIDE DEF row
<1> QED BY <1>1, <1>2, <1>3, <1>4, <1>6, <1>7, RowWritten

LEMMA ApproveBooks ==
  ASSUME BooksInv, NEW h \in Handlers, Approve(h)
  PROVE  NeverOverRefunded' /\ BooksAgree'
<1> DEFINE k == Key(h)
           was == Share(k, refund[k].status \in Settled)
<1>1. k \in Keys /\ handler[h].pc \in Active
  BY BusyHasKey DEF Approve, At, BooksInv, IInv, Active
<1>2. Amount[k] <= Paid - refunded - Total(With(IN_FLIGHT) \ {k})
  BY DEF Approve, Available
<1>3. was \in Nat /\ (contested = {} => was = 0)
  <2>1. contested = {} => refund[k].status \notin Settled
    BY <1>1, WasInFlight DEF IN_FLIGHT, Settled
  <2> QED BY <1>1, <2>1, ShareIsNat DEF Share
<1>4. CASE stripe
  <2> DEFINE row == [status |-> "PROCESSING", approval |-> "APPROVED"]
  <2>1. /\ refund' = [refund EXCEPT ![k] = row]
        /\ UNCHANGED <<stripe, refunded, contested>>
    BY <1>4 DEF Approve
  <2>2. /\ Share(k, row.status \in IN_FLIGHT) = Amount[k]
        /\ Share(k, row.status \in Settled) = 0
    BY DEF Share, Settled, IN_FLIGHT
  <2> HIDE DEF row
  <2>3. /\ refunded' \in Nat /\ refunded' + was >= refunded + 0
        /\ contested = {} => refunded' + was = refunded + 0
    <3>1. refunded \in Nat
      BY DEF BooksInv, IInv, TypeOK
    <3> HIDE DEF was
    <3> QED BY <1>3, <2>1, <3>1
  <2>4. refunded' + Amount[k] + Total(With(IN_FLIGHT) \ {k}) <= Paid
    BY <1>1, <1>2, <2>1, BooksOf
  <2> QED BY <1>1, <2>1, <2>2, <2>3, <2>4, RowWritten
<1>5. CASE ~stripe
  <2> DEFINE row == [status |-> "RECORDED_MANUAL", approval |-> "APPROVED"]
  <2>1. /\ refund' = [refund EXCEPT ![k] = row]
        /\ refunded' = refunded + Amount[k]
        /\ UNCHANGED <<stripe, contested>>
    BY <1>5 DEF Approve
  <2>2. /\ Share(k, row.status \in IN_FLIGHT) = 0
        /\ Share(k, row.status \in Settled) = Amount[k]
    BY DEF Share, Settled, IN_FLIGHT
  <2> HIDE DEF row
  <2>3. /\ refunded' \in Nat /\ refunded' + was >= refunded + Amount[k]
        /\ contested = {} => refunded' + was = refunded + Amount[k]
    <3>1. refunded \in Nat /\ Amount[k] \in Nat
      BY <1>1, BooksOf
    <3> HIDE DEF was
    <3> QED BY <1>3, <2>1, <3>1
  <2>4. refunded' + 0 + Total(With(IN_FLIGHT) \ {k}) <= Paid
    BY <1>1, <1>2, <2>1, BooksOf
  <2> QED BY <1>1, <2>1, <2>2, <2>3, <2>4, RowWritten
<1> QED BY <1>4, <1>5

LEMMA SameBooks ==
  ASSUME BooksInv, UNCHANGED <<stripe, refund, refunded>>,
         contested \subseteq contested'
  PROVE  NeverOverRefunded' /\ BooksAgree'
BY DEF BooksInv, NeverOverRefunded, BooksAgree, With

LEMMA BooksInitially == Init => BooksInv
<1> SUFFICES ASSUME Init PROVE BooksInv
  OBVIOUS
<1>1. \A statuses \in {IN_FLIGHT, Settled} : With(statuses) = {}
  BY DEF Init, With, IN_FLIGHT, Settled
<1>2. Total({}) = 0
  BY TotalIsUnits, UnitsOfNone
<1>3. refunded = 0 /\ Paid \in Nat
  BY RefundAssumption DEF Init
<1> QED BY <1>1, <1>2, <1>3, Initially
        DEF BooksInv, NeverOverRefunded, BooksAgree

LEMMA BooksInvariance == Spec => []BooksInv
<1>1. ASSUME IInv, IInv', [Next]_vars, BooksInv PROVE BooksInv'
  <2> DEFINE B == NeverOverRefunded' /\ BooksAgree'
  <2>1. ASSUME NEW h \in Handlers,
               \/ \E k \in Keys :
                    \/ \E path \in {"stripe", "approval"} : Request(h, k, path)
                    \/ \E decision \in {"approve", "reject"} :
                         Decide(h, k, decision)
               \/ Charge(h) \/ Abort(h)
        PROVE  B
    BY <1>1, <2>1, SameBooks DEF Request, Decide, Charge, Abort
  <2>2. ASSUME NEW h \in Handlers,
               \/ Book(h) \/ Settle(h) \/ Fail(h)
               \/ Reject(h) \/ Approve(h)
        PROVE  B
    BY <1>1, <2>2, BookBooks, SettleBooks, DropBooks, ApproveBooks
  <2>3. ASSUME UNCHANGED vars PROVE B
    BY <1>1, <2>3, SameBooks DEF vars
  <2> HIDE DEF B
  <2>4. B
    BY <1>1, <2>1, <2>2, <2>3 DEF Next
  <2> QED BY <1>1, <2>4 DEF B, BooksInv
<1> QED BY BooksInitially, OneHandOnEach, <1>1, PTL DEF Spec

\* However requests, decisions, answers of Stripe and crashes interleave, what
\* was refunded, what is being sent and what waits for approval never exceed
\* the payment together (refund.service.ts:4, 58-64): with refunds by hand at
\* any time, with Stripe as long as no refund was decided by two at once.
THEOREM NoOverRefund == Spec => []NeverOverRefunded
<1>1. BooksInv => NeverOverRefunded
  BY DEF BooksInv
<1> QED BY <1>1, BooksInvariance, PTL

\* refundedAmount is never less than the total of the settled refunds, whoever
\* decides at once, and is that total as long as no refund was decided by two
\* at once (refund.service.ts:4).
THEOREM RefundedAmountIsTrue == Spec => []BooksAgree
<1>1. BooksInv => BooksAgree
  BY DEF BooksInv
<1> QED BY <1>1, BooksInvariance, PTL
=============================================================================
