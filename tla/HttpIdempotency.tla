-------------------------- MODULE HttpIdempotency ---------------------------
(***************************************************************************)
(* Idempotency keys of the write routes (bookings, invoices, quotes and    *)
(* payment intents): a request with a key looks the key up, reserves it,   *)
(* executes its route, stores the response and answers.                    *)
(*                                                                         *)
(* Every await between these is a step, and a request may fail at any of   *)
(* them.  Requests without a key bypass all of this and are left out.      *)
(***************************************************************************)
EXTENDS Naturals

CONSTANTS
  Keys,     \* pairs of a tenant and an Idempotency-Key it sent
  Requests  \* requests that can be under way at once

VARIABLES
  row,       \* the IdempotencyKey row of each key
  request,   \* how far each request has come, and its key
  executed,  \* how often the key's route committed since the key was free
  answered   \* the results that clients were sent under the key since then

keyVars == <<row, request, executed, answered>>

\* How a request ends; an ended one can be followed by a retry.
Ended == {"idle", "answered", "conflict", "refused", "failed"}

RequestSteps == Ended \cup {"look", "reserve", "execute", "store", "reply"}

\* The response is known by the effect it reports, the n-th under its key.
Row == [status : {"free", "processing", "completed"}, result : Nat]

Free == [status |-> "free", result |-> 0]

KeysTypeOK ==
  /\ row \in [Keys -> Row]
  /\ request \in [Requests -> [pc : RequestSteps, key : Keys]]
  /\ executed \in [Keys -> Nat]
  /\ answered \in [Keys -> SUBSET Nat]

KeysInit ==
  /\ row = [k \in Keys |-> Free]
  /\ request \in [Requests -> [pc : {"idle"}, key : Keys]]
  /\ executed = [k \in Keys |-> 0]
  /\ answered = [k \in Keys |-> {}]

-----------------------------------------------------------------------------
At(r, pc) == request[r].pc = pc
Goto(r, pc) == request' = [request EXCEPT ![r].pc = pc]

\* r reserved k and is not finished.
InFlight(r, k) ==
  /\ request[r].key = k
  /\ request[r].pc \in {"execute", "store", "reply"}

\* A client sends a request: a first one, a duplicate or a retry.
Send(r, k) ==
  /\ request[r].pc \in Ended
  /\ request' = [request EXCEPT ![r] = [pc |-> "look", key |-> k]]
  /\ UNCHANGED <<row, executed, answered>>

\* resolveIdempotency reads the row: a stored response is sent again, an
\* unfinished one is a conflict, and no row makes the request a new one.
Replay(r) ==
  LET k == request[r].key IN
  /\ At(r, "look")
  /\ row[k].status = "completed"
  /\ answered' = [answered EXCEPT ![k] = @ \cup {row[k].result}]
  /\ Goto(r, "answered")
  /\ UNCHANGED <<row, executed>>

Conflict(r) ==
  /\ At(r, "look")
  /\ row[request[r].key].status = "processing"
  /\ Goto(r, "conflict")
  /\ UNCHANGED <<row, executed, answered>>

Miss(r) ==
  /\ At(r, "look")
  /\ row[request[r].key].status = "free"
  /\ Goto(r, "reserve")
  /\ UNCHANGED <<row, executed, answered>>

\* Mutant: without the unique index both requests that missed get a row.
ReserveTwice(r) ==
  LET k == request[r].key IN
  /\ At(r, "reserve")
  /\ row' = [row EXCEPT ![k] = [status |-> "processing", result |-> 0]]
  /\ Goto(r, "execute")
  /\ UNCHANGED <<executed, answered>>

\* The row is created; (tenantId, key) is unique, so a second create throws.
Reserve(r) ==
  LET k == request[r].key IN
  /\ At(r, "reserve")
  /\ row[k].status = "free"
  /\ row' = [row EXCEPT ![k] = [status |-> "processing", result |-> 0]]
  /\ Goto(r, "execute")
  /\ UNCHANGED <<executed, answered>>

\* The route answers 400, 404 or 422: it stores nothing and keeps the row.
Refuse(r) ==
  /\ At(r, "execute")
  /\ Goto(r, "refused")
  /\ UNCHANGED <<row, executed, answered>>

\* Mutant: a route that answers without storing its response.
ExecuteUnstored(r) ==
  /\ At(r, "execute")
  /\ executed' = [executed EXCEPT ![request[r].key] = @ + 1]
  /\ Goto(r, "reply")
  /\ UNCHANGED <<row, answered>>

\* The transaction of the route commits.
Execute(r) ==
  /\ At(r, "execute")
  /\ executed' = [executed EXCEPT ![request[r].key] = @ + 1]
  /\ Goto(r, "store")
  /\ UNCHANGED <<row, answered>>

\* storeIdempotencyResult; the row of a request under way has not expired.
Store(r) ==
  LET k == request[r].key IN
  /\ At(r, "store")
  /\ row[k].status # "free"
  /\ row' = [row EXCEPT
       ![k] = [status |-> "completed", result |-> executed[k]]]
  /\ Goto(r, "reply")
  /\ UNCHANGED <<executed, answered>>

Answer(r) ==
  LET k == request[r].key IN
  /\ At(r, "reply")
  /\ answered' = [answered EXCEPT ![k] = @ \cup {executed[k]}]
  /\ Goto(r, "answered")
  /\ UNCHANGED <<row, executed>>

\* A throw anywhere, the losing create, or the end of the process: nothing
\* undoes the reservation.
Fail(r) ==
  /\ request[r].pc \notin Ended
  /\ Goto(r, "failed")
  /\ UNCHANGED <<row, executed, answered>>

\* Mutant: the cleanup deletes only keys with a response.
ExpireCompleted(k) ==
  /\ row[k].status = "completed"
  /\ \A r \in Requests : ~InFlight(r, k)
  /\ row' = [row EXCEPT ![k] = Free]
  /\ executed' = [executed EXCEPT ![k] = 0]
  /\ answered' = [answered EXCEPT ![k] = {}]
  /\ UNCHANGED request

\* 24 hours after it was reserved or stored, the hourly cleanup deletes a
\* row, finished or not.  No request is under way for that long.
Expire(k) ==
  /\ row[k].status # "free"
  /\ \A r \in Requests : ~InFlight(r, k)
  /\ row' = [row EXCEPT ![k] = Free]
  /\ executed' = [executed EXCEPT ![k] = 0]
  /\ answered' = [answered EXCEPT ![k] = {}]
  /\ UNCHANGED request

Serve(r) ==
  \/ Replay(r)
  \/ Conflict(r)
  \/ Miss(r)
  \/ Reserve(r)
  \/ Refuse(r)
  \/ Execute(r)
  \/ Store(r)
  \/ Answer(r)
  \/ Fail(r)

KeysNext ==
  \/ \E r \in Requests, k \in Keys : Send(r, k)
  \/ \E r \in Requests : Serve(r)
  \/ \E k \in Keys : Expire(k)

\* Clients need not retry.  A handler ends, if only by failing, and the
\* scheduled cleanup runs every hour.
KeysFairness ==
  /\ \A r \in Requests : WF_keyVars(Serve(r))
  /\ \A k \in Keys : WF_keyVars(Expire(k))

KeysSpec == KeysInit /\ [][KeysNext]_keyVars /\ KeysFairness

-----------------------------------------------------------------------------
\* However many duplicates and retries race, crash and come late, a key's
\* route commits at most once while the key is remembered: the look-up and
\* the create are two queries, and only the unique index decides.
ExecutedOnce == \A k \in Keys : executed[k] <= 1

\* A success that any client has been sent under a key is the stored one, so
\* that every later retry within the day is sent the same, and it reports an
\* effect that was committed.
AnswersAgree ==
  \A k \in Keys :
    answered[k] # {} =>
      /\ row[k].status = "completed"
      /\ answered[k] = {row[k].result}
      /\ row[k].result \in 1 .. executed[k]

\* A stored response is sent again until its key is forgotten: nothing stores
\* another over it, and the key never goes back to being executed.
ResponseIsKept ==
  [][\A k \in Keys :
       row[k].status = "completed" => row'[k] \in {row[k], Free}]_keyVars

\* A key left in processing by a refusal, an error or a crash can be used
\* again some day.
KeysFreed ==
  \A k \in Keys :
    (row[k].status = "processing") ~> (row[k].status # "processing")

-----------------------------------------------------------------------------
(* The inductive invariant.                                                *)

\* Two requests never hold one key.
OneHolder ==
  \A k \in Keys : \A r, s \in Requests :
    InFlight(r, k) /\ InFlight(s, k) => r = s

\* What the row and the histories are while a request holds the key.
HolderOK(r) ==
  LET k == request[r].key IN
  /\ At(r, "execute") => row[k].status = "processing" /\ executed[k] = 0
  /\ At(r, "store") => row[k].status = "processing" /\ executed[k] = 1
  /\ At(r, "reply") => row[k].status = "completed"

\* What the histories are, given the row.
KeyOK(k) ==
  /\ row[k].status = "free" => executed[k] = 0
  /\ row[k].status # "completed" => answered[k] = {}
  /\ executed[k] \in {0, 1}
  /\ row[k].status = "completed" =>
       /\ executed[k] = 1
       /\ row[k].result = 1
       /\ answered[k] \subseteq {1}

KeysInv ==
  /\ KeysTypeOK
  /\ OneHolder
  /\ \A r \in Requests : HolderOK(r)
  /\ \A k \in Keys : KeyOK(k)
=============================================================================
