--------------------------- MODULE LocationIngest ----------------------------
(***************************************************************************)
(* How the location pings of the drivers, and the manual actions and the   *)
(* resolved escalations of the staff, get into Redis: the sequence number  *)
(* of the shipment, its hot state, and the stream of the tenant.  A call   *)
(* works on one shipment, its awaits are steps, and calls for one shipment *)
(* run at once.                                                            *)
(*                                                                         *)
(* A call is known by its idempotency key.  SET NX lets one call through,  *)
(* and nothing but its expiry after a day frees a key: the response holds  *)
(* a bigint, so that cacheResponse throws where it would store it, after   *)
(* the points are in.  A later call with the same key is answered with an  *)
(* error and changes nothing; a key that has expired is a new one.  (To    *)
(* resolve an escalation takes no key: there it is only the call's name.)  *)
(*                                                                         *)
(* What becomes of the escalation flag and of Shipment.lastSeenAt, which   *)
(* only its rules read, is left out.                                       *)
(***************************************************************************)
EXTENDS Naturals, Sequences

CONSTANTS
  Shipments,   \* the shipments of one tenant
  Keys,        \* idempotency keys
  Points,      \* what the call with each key brings: when its points
               \* were taken
  Grace,       \* how much older than the hot state a point may be
  MaxLen       \* MAXLEN_APPROX: what a trimmed stream keeps at least

ASSUME IngestAssumption ==
  /\ Points \in [Keys -> Seq(Nat) \ {<<>>}]
  /\ Grace \in Nat
  /\ MaxLen \in Nat \ {0}

VARIABLES
  counter,   \* track:seq of each shipment
  hot,       \* its hot state: what the newest HSET wrote
  stream,    \* every entry that was added to the tenant's stream, in order
  trimmed,   \* how many of them XTRIM has removed
  call       \* where the call with each key is

ingestVars == <<counter, hot, stream, trimmed, call>>

Entries == [shipment : Shipments, seq : Nat, at : Nat]
\* placed: a position was written, not only a manual action.
HotStates == [at : Nat, seq : Nat, placed : BOOLEAN]
NoHotState == [at |-> 0, seq |-> 0, placed |-> FALSE]

\* seen: the hot state the call has read; seq: the number of its point.
\* A call that fails between hot state and stream loses its point.
Unused == [pc |-> "new"]
Over == [pc |-> "over"]
Lost == [pc : {"lost"}, shipment : Shipments, seq : Nat]
Running == {"read", "seq", "hot", "add", "trim"}
Kinds == {"ping", "manual", "resolve"}
Calls == [pc : Running, shipment : Shipments, kind : Kinds,
          points : Seq(Nat) \ {<<>>}, seen : HotStates, seq : Nat]

IngestTypeOK ==
  /\ counter \in [Shipments -> Nat]
  /\ hot \in [Shipments -> HotStates]
  /\ stream \in Seq(Entries)
  /\ trimmed \in 0..Len(stream)
  /\ call \in [Keys -> Calls \cup Lost \cup {Unused, Over}]

IngestInit ==
  /\ counter = [s \in Shipments |-> 0]
  /\ hot = [s \in Shipments |-> NoHotState]
  /\ stream = <<>>
  /\ trimmed = 0
  /\ call = [k \in Keys |-> Unused]

-----------------------------------------------------------------------------
Resume(k, c) == call' = [call EXCEPT ![k] = c]

\* The call c goes on with its next point, or has none left.
Passed(c) ==
  IF Len(c.points) = 1
  THEN Over
  ELSE [c EXCEPT !.pc = "seq", !.points = Tail(c.points)]

\* The order filter.  Without a hot state nothing is too old.
shouldDropForOrder(c) == Head(c.points) + Grace < c.seen.at

\* The next await after INCR: only a ping has its hot state written first.
Numbered(c, n) ==
  [c EXCEPT !.seq = n, !.pc = IF c.kind = "ping" THEN "hot" ELSE "add"]

\* The jitter filter may drop a point near the position that was read.
mayDropForJitter(c) == c.seen.placed

\* The key is new and the shipment is found.
Ingest(k) ==
  /\ call[k].pc = "new"
  /\ \E s \in Shipments, kind \in Kinds :
       /\ kind # "ping" => Len(Points[k]) = 1
       /\ Resume(k, [pc |-> IF kind = "ping" THEN "read" ELSE "seq",
                     shipment |-> s, kind |-> kind, points |-> Points[k],
                     seen |-> NoHotState, seq |-> 0])
  /\ UNCHANGED <<counter, hot, stream, trimmed>>

\* The hot state is read once, before the first point.
ReadHotState(k) ==
  /\ call[k].pc = "read"
  /\ LET c == call[k]
     IN  Resume(k, [c EXCEPT !.pc = "seq", !.seen = hot[c.shipment]])
  /\ UNCHANGED <<counter, hot, stream, trimmed>>

\* Mutant of NextSeq: the number is taken from the hot state.
NextSeqOfHotState(k) ==
  /\ call[k].pc = "seq"
  /\ LET c == call[k]
         n == hot[c.shipment].seq + 1
     IN  /\ counter' = [counter EXCEPT ![c.shipment] = n]
         /\ Resume(k, Numbered(c, n))
  /\ UNCHANGED <<hot, stream, trimmed>>

\* Mutant of NextSeq: the hot state is written before the filters.
NextSeqUnfiltered(k) ==
  /\ call[k].pc = "seq"
  /\ LET c == call[k]
         s == c.shipment
         n == counter[s] + 1
     IN  /\ counter' = [counter EXCEPT ![s] = n]
         /\ hot' = IF c.kind # "ping" THEN hot
                   ELSE [hot EXCEPT ![s].at = Head(c.points), ![s].seq = n]
         /\ \/ /\ c.kind # "ping" \/ ~shouldDropForOrder(c)
               /\ Resume(k, Numbered(c, n))
            \/ /\ c.kind = "ping"
               /\ (shouldDropForOrder(c) \/ mayDropForJitter(c))
               /\ Resume(k, Passed([c EXCEPT !.seq = n]))
  /\ UNCHANGED <<stream, trimmed>>

\* INCR, then the filters: a dropped point has used its number.
NextSeq(k) ==
  /\ call[k].pc = "seq"
  /\ LET c == call[k]
         n == counter[c.shipment] + 1
     IN  /\ counter' = [counter EXCEPT ![c.shipment] = n]
         /\ \/ /\ c.kind # "ping" \/ ~shouldDropForOrder(c)
               /\ Resume(k, Numbered(c, n))
            \/ /\ c.kind = "ping"
               /\ (shouldDropForOrder(c) \/ mayDropForJitter(c))
               /\ Resume(k, Passed([c EXCEPT !.seq = n]))
  /\ UNCHANGED <<hot, stream, trimmed>>

\* HSET of what the call has: a manual action has no position, and to
\* resolve writes the number alone.  Both are done then.
SetHotState(k) ==
  /\ call[k].pc = "hot"
  /\ LET c == call[k]
         h == hot[c.shipment]
     IN  /\ hot' = [hot EXCEPT ![c.shipment] =
              [at |-> IF c.kind = "resolve" THEN h.at ELSE Head(c.points),
               seq |-> c.seq,
               placed |-> h.placed \/ c.kind = "ping"]]
         /\ Resume(k, IF c.kind = "ping" THEN [c EXCEPT !.pc = "add"]
                      ELSE Over)
  /\ UNCHANGED <<counter, stream, trimmed>>

\* XADD.
AddToTenantStream(k) ==
  /\ call[k].pc = "add"
  /\ LET c == call[k]
     IN  /\ stream' = Append(stream, [shipment |-> c.shipment, seq |-> c.seq,
                                      at |-> Head(c.points)])
         /\ Resume(k, [c EXCEPT !.pc = "trim"])
  /\ UNCHANGED <<counter, hot, trimmed>>

\* XTRIM MAXLEN ~: removes from the front as much as suits it.
TrimStream(k) ==
  /\ call[k].pc = "trim"
  /\ \E n \in trimmed..Len(stream) :
       /\ n = trimmed \/ n + MaxLen <= Len(stream)
       /\ trimmed' = n
  /\ LET c == call[k]
     IN  Resume(k, IF c.kind = "ping" THEN Passed(c)
                   ELSE [c EXCEPT !.pc = "hot"])
  /\ UNCHANGED <<counter, hot, stream>>

\* A command or a query throws, or the process stops.
FailCall(k) ==
  /\ call[k].pc \in Running
  /\ LET c == call[k]
     IN  Resume(k, IF c.pc = "add" /\ c.kind = "ping"
                   THEN [pc |-> "lost", shipment |-> c.shipment,
                         seq |-> c.seq]
                   ELSE Over)
  /\ UNCHANGED <<counter, hot, stream, trimmed>>

ProcessCall(k) ==
  \/ Ingest(k) \/ ReadHotState(k) \/ NextSeq(k) \/ SetHotState(k)
  \/ AddToTenantStream(k) \/ TrimStream(k) \/ FailCall(k)

-----------------------------------------------------------------------------
(***************************************************************************)
(* No two entries of a shipment carry the same number, whatever calls      *)
(* overlap: the history is keyed by it, and createMany skips duplicates,   *)
(* so that the second of two would be gone without a trace.                *)
(***************************************************************************)
OneSeqEach ==
  \A i, j \in DOMAIN stream :
    /\ stream[i].shipment = stream[j].shipment
    /\ stream[i].seq = stream[j].seq
    => i = j

InStream(s, n) ==
  \E i \in DOMAIN stream : stream[i].shipment = s /\ stream[i].seq = n

\* A ping whose point is in the hot state and on its way to the stream.
AddsNext(k) == call[k].pc = "add" /\ call[k].kind = "ping"

(***************************************************************************)
(* The number the hot state shows is that of an entry of the stream, or a  *)
(* call is about to add it, or has failed before it could: no dropped      *)
(* point is shown, whatever calls overlap.                                 *)
(***************************************************************************)
HotIsRecorded ==
  \A s \in Shipments : hot[s].seq > 0 =>
    \/ InStream(s, hot[s].seq)
    \/ \E k \in Keys :
         /\ call[k].pc = "lost" \/ AddsNext(k)
         /\ call[k].shipment = s
         /\ call[k].seq = hot[s].seq

(***************************************************************************)
(* What the two rest on.  A number that a call holds is its own: no entry  *)
(* and no other call has it.  A call that writes the hot state after the   *)
(* stream has its entry there.                                             *)
(***************************************************************************)
Holds(k) ==
  call[k].pc = "add" \/ (call[k].pc = "hot" /\ call[k].kind = "ping")

NumbersGiven ==
  /\ \A i \in DOMAIN stream : stream[i].seq <= counter[stream[i].shipment]
  /\ \A k \in Keys :
       Holds(k) => call[k].seq <= counter[call[k].shipment]

NumbersApart ==
  \A k \in Keys : Holds(k) =>
    /\ ~InStream(call[k].shipment, call[k].seq)
    /\ \A j \in Keys :
         /\ j # k /\ Holds(j)
         /\ call[j].shipment = call[k].shipment
         => call[j].seq # call[k].seq

AddedFirst ==
  \A k \in Keys :
    /\ call[k].pc = "trim" \/ (call[k].pc = "hot" /\ call[k].kind # "ping")
    => InStream(call[k].shipment, call[k].seq)

IngestInv ==
  /\ IngestTypeOK
  /\ NumbersGiven /\ NumbersApart /\ AddedFirst
  /\ OneSeqEach /\ HotIsRecorded
=============================================================================
