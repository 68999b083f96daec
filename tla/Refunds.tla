------------------------------- MODULE Refunds -------------------------------
(***************************************************************************)
(* The refunds of one payment.  A refund is booked under a lock on the     *)
(* payment's row; then it is paid out through Stripe, or it waits for a    *)
(* second person, whose approval takes the lock once more.  The calls of   *)
(* Stripe and the writes of what came out of them are made without the     *)
(* lock, each write by the refund's id whatever its status is by then.     *)
(*                                                                         *)
(* A transaction that holds the lock is one step: the ones that do not     *)
(* hold it either change refundedAmount, and wait for it, or only free     *)
(* what was reserved.  A request that is answered with an error, or with   *)
(* the refund its idempotency key already has, changes nothing and is not  *)
(* a step.                                                                 *)
(***************************************************************************)
EXTENDS Integers, FiniteSets, FiniteSetsExt

CONSTANTS
  Keys,    \* the idempotency keys of the requests, one refund for each
  Amount,  \* what each request asks for
  Paid,    \* Payment.amount
  Handlers \* requests that can be under way at once

ASSUME RefundAssumption ==
  /\ IsFiniteSet(Keys)
  /\ Amount \in [Keys -> Nat \ {0}]
  /\ Paid \in Nat

VARIABLES
  stripe,    \* the payment has a gatewayRef and Stripe is configured
  refund,    \* the Refund row of each key and its RefundApproval row
  refunded,  \* Payment.refundedAmount
  sent,      \* Stripe: the keys for which it has sent the money back
  handler,   \* where each request stands
  contested  \* history: the refunds that two requests were deciding at once

vars == <<stripe, refund, refunded, sent, handler, contested>>

Statuses == {"NONE", "PENDING_APPROVAL", "PROCESSING", "SUCCEEDED", "FAILED",
             "RECORDED_MANUAL", "REJECTED"}
Approvals == {"none", "PENDING", "APPROVED", "REJECTED"}

IN_FLIGHT == {"PENDING_APPROVAL", "PROCESSING"}
Settled == {"SUCCEEDED", "RECORDED_MANUAL"}

\* book: about to book, to be paid out at once or to wait for approval.
Idle == [pc |-> "idle"]
Busy == [pc : {"book", "charge", "settle", "fail", "approve", "reject"},
         key : Keys, path : {"stripe", "approval"}]

TypeOK ==
  /\ stripe \in BOOLEAN
  /\ refund \in [Keys -> [status : Statuses, approval : Approvals]]
  /\ refunded \in Nat
  /\ sent \subseteq Keys
  /\ handler \in [Handlers -> {Idle} \cup Busy]
  /\ contested \subseteq Keys

Init ==
  /\ stripe \in BOOLEAN
  /\ refund = [k \in Keys |-> [status |-> "NONE", approval |-> "none"]]
  /\ refunded = 0
  /\ sent = {}
  /\ handler = [h \in Handlers |-> Idle]
  /\ contested = {}

-----------------------------------------------------------------------------
Total(S) == MapThenSumSet(LAMBDA k : Amount[k], S)

With(statuses) == {k \in Keys : refund[k].status \in statuses}

\* Mutant of Available: what waits or is being sent is not reserved.
AvailableOfSettled(own) == Paid - refunded

\* availableToRefund, own being the refund that is decided.
Available(own) == Paid - refunded - Total(With(IN_FLIGHT) \ own)

At(h, pc) == handler[h].pc = pc
Key(h) == handler[h].key

Goto(h, pc) == handler' = [handler EXCEPT ![h].pc = pc]
Return(h) == handler' = [handler EXCEPT ![h] = Idle]

\* requestRefund up to its transaction.  With Stripe, the amount and what the
\* person may do decide which path is taken.
Request(h, k, path) ==
  /\ At(h, "idle")
  /\ path = "stripe" => stripe
  /\ refund[k].status = "NONE"
  /\ handler' = [handler EXCEPT ![h] =
                   [pc |-> "book", key |-> k, path |-> path]]
  /\ UNCHANGED <<stripe, refund, refunded, sent, contested>>

\* Mutant of Book: the refund that waits for approval is sent all the same.
BookAndSend(h) ==
  LET k == Key(h) IN
  /\ At(h, "book")
  /\ refund[k].status = "NONE"
  /\ Amount[k] <= Available({})
  /\ refund' = [refund EXCEPT ![k] =
                  IF handler[h].path = "stripe"
                  THEN [status |-> "PROCESSING", approval |-> "none"]
                  ELSE [status |-> "PENDING_APPROVAL", approval |-> "PENDING"]]
  /\ Goto(h, "charge")
  /\ UNCHANGED <<stripe, refunded, sent, contested>>

\* Mutant of Book: the key is not unique, and its row is written again.
BookAnyway(h) ==
  LET k == Key(h) IN
  /\ At(h, "book")
  /\ Amount[k] <= Available({})
  /\ refund' = [refund EXCEPT ![k] =
                  IF handler[h].path = "stripe"
                  THEN [status |-> "PROCESSING", approval |-> "none"]
                  ELSE [status |-> "PENDING_APPROVAL", approval |-> "PENDING"]]
  /\ IF handler[h].path = "stripe" THEN Goto(h, "charge") ELSE Return(h)
  /\ UNCHANGED <<stripe, refunded, sent, contested>>

\* Its transaction, under the lock: the refund fits, and is the first with
\* its key; otherwise Refuse.
Book(h) ==
  LET k == Key(h) IN
  /\ At(h, "book")
  /\ refund[k].status = "NONE"
  /\ Amount[k] <= Available({})
  /\ IF handler[h].path = "stripe"
     THEN /\ refund' = [refund EXCEPT ![k].status = "PROCESSING"]
          /\ Goto(h, "charge")
     ELSE /\ refund' = [refund EXCEPT ![k] =
               [status |-> "PENDING_APPROVAL", approval |-> "PENDING"]]
          /\ Return(h)
  /\ UNCHANGED <<stripe, refunded, sent, contested>>

\* executeStripeRefund, the call.  Stripe sends the money back at most once
\* for a key; the answer may be lost.
Charge(h) ==
  /\ At(h, "charge")
  /\ \/ /\ sent' = sent \cup {Key(h)}
        /\ Goto(h, "settle") \/ Goto(h, "fail")
     \/ /\ Key(h) \notin sent
        /\ Goto(h, "fail")
        /\ UNCHANGED sent
  /\ UNCHANGED <<stripe, refund, refunded, contested>>

\* Its success: one transaction writes both rows.
Settle(h) ==
  /\ At(h, "settle")
  /\ refund' = [refund EXCEPT ![Key(h)].status = "SUCCEEDED"]
  /\ refunded' = refunded + Amount[Key(h)]
  /\ Return(h)
  /\ UNCHANGED <<stripe, sent, contested>>

Fail(h) ==
  /\ At(h, "fail")
  /\ refund' = [refund EXCEPT ![Key(h)].status = "FAILED"]
  /\ Return(h)
  /\ UNCHANGED <<stripe, refunded, sent, contested>>

Deciding(k) ==
  {g \in Handlers : handler[g].pc \in {"approve", "reject"} /\ Key(g) = k}

\* decideRefund up to its transaction, by somebody who did not request it.
\* The row is read without the lock: it says PENDING to everybody who comes
\* before the first decision is written.
Decide(h, k, decision) ==
  /\ At(h, "idle")
  /\ refund[k].status = "PENDING_APPROVAL"
  /\ refund[k].approval = "PENDING"
  /\ contested' = IF Deciding(k) = {} THEN contested ELSE contested \cup {k}
  /\ handler' = [handler EXCEPT ![h] =
                   [pc |-> decision, key |-> k, path |-> "approval"]]
  /\ UNCHANGED <<stripe, refund, refunded, sent>>

Reject(h) ==
  /\ At(h, "reject")
  /\ refund' = [refund EXCEPT ![Key(h)] =
                  [status |-> "REJECTED", approval |-> "REJECTED"]]
  /\ Return(h)
  /\ UNCHANGED <<stripe, refunded, sent, contested>>

\* Mutant of Approve: refundedAmount goes up for either kind of refund.
ApproveCountsAll(h) ==
  LET k == Key(h) IN
  /\ At(h, "approve")
  /\ Amount[k] <= Available({k})
  /\ refunded' = refunded + Amount[k]
  /\ \/ /\ stripe
        /\ refund' = [refund EXCEPT ![k] =
             [status |-> "PROCESSING", approval |-> "APPROVED"]]
        /\ Goto(h, "charge")
     \/ /\ ~stripe
        /\ refund' = [refund EXCEPT ![k] =
             [status |-> "RECORDED_MANUAL", approval |-> "APPROVED"]]
        /\ Return(h)
  /\ UNCHANGED <<stripe, sent, contested>>

\* The approval, under the lock.  With Stripe the money is sent now; without
\* it, it was sent by hand and is counted.
Approve(h) ==
  LET k == Key(h) IN
  /\ At(h, "approve")
  /\ Amount[k] <= Available({k})
  /\ \/ /\ stripe
        /\ refund' = [refund EXCEPT ![k] =
             [status |-> "PROCESSING", approval |-> "APPROVED"]]
        /\ Goto(h, "charge")
        /\ UNCHANGED refunded
     \/ /\ ~stripe
        /\ refund' = [refund EXCEPT ![k] =
             [status |-> "RECORDED_MANUAL", approval |-> "APPROVED"]]
        /\ refunded' = refunded + Amount[k]
        /\ Return(h)
  /\ UNCHANGED <<stripe, sent, contested>>

\* A transaction is refused (OVER_REFUND, the key is taken) or fails, or the
\* process stops.
Abort(h) ==
  /\ ~At(h, "idle")
  /\ Return(h)
  /\ UNCHANGED <<stripe, refund, refunded, sent, contested>>

Next ==
  \E h \in Handlers :
    \/ \E k \in Keys :
         \/ \E path \in {"stripe", "approval"} : Request(h, k, path)
         \/ \E decision \in {"approve", "reject"} : Decide(h, k, decision)
    \/ Book(h) \/ Charge(h) \/ Settle(h) \/ Fail(h)
    \/ Reject(h) \/ Approve(h) \/ Abort(h)

Spec == Init /\ [][Next]_vars

-----------------------------------------------------------------------------
(* Properties.  refund.service.ts, line 4, promises "no over-refunds,      *)
(* refundedAmount kept true, a second approver for manual or large         *)
(* refunds".  The lock keeps that between refunds.  What it does not cover *)
(* is two decisions of one refund, both made on what was read before the   *)
(* lock (lines 167-170): the refunds they are about are contested, and the *)
(* properties say what is kept with them and what only without.            *)

\* The promise as it is made: what the books call refunded is never more than
\* the payment.  It is violated: two approvals of one refund each take it for
\* their own in the balance, Stripe answers both with the one refund of its
\* key, and each answer is counted.
NoOverRefunds == refunded <= Paid

\* What was refunded, what is being sent and what waits for approval never
\* exceed the payment together, whatever requests, answers of Stripe and
\* crashes come in between: of refunds by hand even if they are contested,
\* because each approval is counted under the lock that it checks under; of
\* refunds through Stripe unless one was contested.
NeverOverRefunded ==
  ~stripe \/ contested = {} => refunded + Total(With(IN_FLIGHT)) <= Paid

\* refundedAmount is never less than the refunds that are settled come to,
\* however many decide at once, and is their total unless one was contested.
BooksAgree ==
  /\ refunded >= Total(With(Settled))
  /\ contested = {} => refunded = Total(With(Settled))

\* Money that Stripe has sent, or that the books say was refunded, belongs to
\* a refund that no longer waits; and if it was not contested, to one that
\* needed no approval or has it.  Nothing succeeds that Stripe has not sent.
\* (Of an approval and a rejection at once the later writes the row, and a
\* refund that was paid out can end REJECTED.)
PaidWasApproved ==
  \A k \in Keys :
    /\ k \in sent \/ refund[k].status \in Settled
         => /\ refund[k].approval # "PENDING"
            /\ k \notin contested => refund[k].approval # "REJECTED"
    /\ refund[k].status = "SUCCEEDED" => k \in sent

\* What has come out of a refund is final, and what was refunded stays so:
\* the writes by id, which look at no status, never hit a row that another
\* request has finished, unless two requests were deciding it at once.
OutcomesAreFinal ==
  [][/\ \A k \in Keys \ contested :
          refund[k].status \notin IN_FLIGHT \cup {"NONE"}
            => refund'[k] = refund[k]
     /\ refunded' >= refunded]_vars

-----------------------------------------------------------------------------
(* What makes the properties inductive: a refund that is decided or sent is *)
(* in the hands of one request, and stands where that request has left it,  *)
(* so that what becomes settled was in flight, once.  Of a contested refund *)
(* less is known: that it no longer waits once it is being sent, and that   *)
(* nothing is sent unless the payment goes through Stripe.                  *)

Active == {"approve", "reject", "charge", "settle", "fail"}

OneHand ==
  \A g, h \in Handlers :
    g # h /\ handler[g].pc \in Active /\ handler[h].pc \in Active
          /\ Key(g) = Key(h)
      => Key(h) \in contested

InHand ==
  \A h \in Handlers :
    /\ handler[h].pc \in {"approve", "reject"} =>
         /\ refund[Key(h)].status # "NONE"
         /\ Key(h) \notin contested
              => refund[Key(h)].status = "PENDING_APPROVAL"
    /\ handler[h].pc \in {"charge", "settle", "fail"} =>
         /\ stripe
         /\ refund[Key(h)].status \notin {"NONE", "PENDING_APPROVAL"}
         /\ Key(h) \notin contested => refund[Key(h)].status = "PROCESSING"
    /\ At(h, "settle") => Key(h) \in sent
    /\ At(h, "book") /\ handler[h].path = "stripe" => stripe

SentIsDecided ==
  \A k \in Keys :
    /\ refund[k].approval = "PENDING" => refund[k].status = "PENDING_APPROVAL"
    /\ refund[k].status = "NONE" => refund[k].approval = "none"
    /\ refund[k].status = "SUCCEEDED" => k \in sent
    /\ k \in sent => refund[k].status \notin {"NONE", "PENDING_APPROVAL"}
    /\ k \notin contested =>
         /\ refund[k].status \in Settled \cup {"PROCESSING", "FAILED"}
              => refund[k].approval \in {"none", "APPROVED"}
         /\ k \in sent
              => refund[k].status \in {"PROCESSING", "SUCCEEDED", "FAILED"}

IInv == TypeOK /\ OneHand /\ InHand /\ SentIsDecided

BooksInv == IInv /\ NeverOverRefunded /\ BooksAgree
=============================================================================
