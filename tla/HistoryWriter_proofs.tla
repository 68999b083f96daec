------------------------ MODULE HistoryWriter_proofs -------------------------
(***************************************************************************)
(* What HistoryWriter and LocationIngest promise, proved for any number of *)
(* shipments, calls, points and processes, any batch size and any trim.    *)
(***************************************************************************)
EXTENDS HistoryWriter, SequenceTheorems, TLAPS

\* What Append does to a sequence.
LEMMA AppendFacts ==
  ASSUME NEW S, NEW q \in Seq(S), NEW e \in S
  PROVE  /\ Append(q, e) \in Seq(S)
         /\ Len(Append(q, e)) = Len(q) + 1
         /\ \A i \in 1..Len(q) : Append(q, e)[i] = q[i]
         /\ Append(q, e)[Len(q) + 1] = e
  OBVIOUS

\* The first of a call's points is a time, and so are the others.
LEMMA PointFacts ==
  ASSUME NEW p \in Seq(Nat) \ {<<>>}
  PROVE  /\ Head(p) \in Nat
         /\ Len(p) # 1 => Tail(p) \in Seq(Nat) \ {<<>>}
<1>1. p \in Seq(Nat) /\ p # <<>>
  OBVIOUS
<1>2. Head(p) \in Nat /\ Tail(p) \in Seq(Nat) /\ Len(Tail(p)) = Len(p) - 1
  BY <1>1, HeadTailProperties
<1>3. Len(p) \in Nat
  BY <1>1, LenProperties
<1>4. Len(p) # 1 => Tail(p) # <<>>
  <2>1. SUFFICES ASSUME Len(p) # 1, Tail(p) = <<>> PROVE FALSE
    OBVIOUS
  <2>2. Len(Tail(p)) = 0
    BY <2>1, EmptySeq, Zenon
  <2>3. Len(p) - 1 = 0
    BY <1>2, <2>2, Zenon
  <2> QED  BY <1>3, <2>1, <2>3
<1> QED  BY <1>2, <1>4

\* A call that is under way has all its fields.
LEMMA RunningIsCall ==
  ASSUME IngestTypeOK, NEW k \in Keys, call[k].pc \in Running
  PROVE  call[k] \in Calls
  BY DEF IngestTypeOK, Calls, Running, Lost, Unused, Over

\* The other calls stay where they are.
LEMMA OthersStay ==
  ASSUME IngestTypeOK, NEW k \in Keys, NEW c, Resume(k, c)
  PROVE  /\ call'[k] = c
         /\ \A j \in Keys : j # k => call'[j] = call[j]
  BY DEF IngestTypeOK, Resume

\* So their types are those of the new record.
LEMMA ResumeTyped ==
  ASSUME IngestTypeOK, NEW k \in Keys, NEW c, Resume(k, c),
         c \in Calls \cup Lost \cup {Unused, Over}
  PROVE  call' \in [Keys -> Calls \cup Lost \cup {Unused, Over}]
  BY DEF IngestTypeOK, Resume

\* A call that leaves a point behind is over or a call with another point.
LEMMA PassedTyped ==
  ASSUME NEW c \in Calls
  PROVE  Passed(c) \in Calls \cup {Over}
<1>1. CASE Len(c.points) = 1
  BY <1>1 DEF Passed
<1>2. CASE Len(c.points) # 1
  <2>1. Tail(c.points) \in Seq(Nat) \ {<<>>}
    BY <1>2, PointFacts DEF Calls
  <2> QED  BY <1>2, <2>1 DEF Passed, Calls, Running
<1> QED  BY <1>1, <1>2

-----------------------------------------------------------------------------
(* Types of the ingest. *)

LEMMA NumberedTyped ==
  ASSUME NEW c \in Calls, NEW n \in Nat
  PROVE  /\ Numbered(c, n) \in Calls
         /\ [c EXCEPT !.seq = n] \in Calls
  BY DEF Numbered, Calls, Running

LEMMA InitTypes == ASSUME IngestInit PROVE IngestTypeOK
  BY DEF IngestInit, IngestTypeOK, HotStates, NoHotState, Unused

LEMMA IngestTypes ==
  ASSUME IngestTypeOK, IngestAssumption, NEW k \in Keys, ProcessCall(k)
  PROVE  IngestTypeOK'
<1> USE DEF IngestTypeOK
<1>1. CASE Ingest(k)
  <2>1. PICK s \in Shipments, kind \in Kinds :
          Resume(k, [pc |-> IF kind = "ping" THEN "read" ELSE "seq",
                     shipment |-> s, kind |-> kind, points |-> Points[k],
                     seen |-> NoHotState, seq |-> 0])
    BY <1>1 DEF Ingest
  <2>2. [pc |-> IF kind = "ping" THEN "read" ELSE "seq",
         shipment |-> s, kind |-> kind, points |-> Points[k],
         seen |-> NoHotState, seq |-> 0] \in Calls
    BY DEF Calls, Running, IngestAssumption, HotStates, NoHotState
  <2>3. call' \in [Keys -> Calls \cup Lost \cup {Unused, Over}]
    BY <2>1, <2>2, ResumeTyped
  <2> QED  BY <1>1, <2>3 DEF Ingest
<1>2. CASE ReadHotState(k)
  <2>1. call[k] \in Calls
    BY <1>2, RunningIsCall DEF ReadHotState, Running
  <2>2. [call[k] EXCEPT !.pc = "seq", !.seen = hot[call[k].shipment]]
          \in Calls
    BY <2>1 DEF Calls, Running
  <2>3. call' \in [Keys -> Calls \cup Lost \cup {Unused, Over}]
    BY <1>2, <2>2, ResumeTyped DEF ReadHotState
  <2> QED  BY <1>2, <2>3 DEF ReadHotState
<1>3. CASE NextSeq(k)
  <2> DEFINE c == call[k]
             n == counter[c.shipment] + 1
  <2>1. c \in Calls
    BY <1>3, RunningIsCall DEF NextSeq, Running
  <2>2. c.shipment \in Shipments /\ n \in Nat
    BY <2>1 DEF Calls
  <2>3. \/ Resume(k, Numbered(c, n))
        \/ Resume(k, Passed([c EXCEPT !.seq = n]))
    BY <1>3 DEF NextSeq
  <2>4. /\ Numbered(c, n) \in Calls
        /\ Passed([c EXCEPT !.seq = n]) \in Calls \cup {Over}
    BY <2>1, <2>2, NumberedTyped, PassedTyped
  <2>5. call' \in [Keys -> Calls \cup Lost \cup {Unused, Over}]
    BY <2>3, <2>4, ResumeTyped
  <2>6. counter' \in [Shipments -> Nat]
    BY <1>3, <2>2 DEF NextSeq
  <2> QED  BY <1>3, <2>5, <2>6 DEF NextSeq
<1>4. CASE SetHotState(k)
  <2> DEFINE c == call[k]
  <2>1. c \in Calls
    BY <1>4, RunningIsCall DEF SetHotState, Running
  <2>2. c.shipment \in Shipments /\ c.seq \in Nat /\ Head(c.points) \in Nat
    BY <2>1, PointFacts DEF Calls
  <2>3. hot' \in [Shipments -> HotStates]
    BY <1>4, <2>2 DEF SetHotState, HotStates
  <2>4. [c EXCEPT !.pc = "add"] \in Calls
    BY <2>1 DEF Calls, Running
  <2>5. call' \in [Keys -> Calls \cup Lost \cup {Unused, Over}]
    BY <1>4, <2>4, ResumeTyped DEF SetHotState
  <2> QED  BY <1>4, <2>3, <2>5 DEF SetHotState
<1>5. CASE AddToTenantStream(k)
  <2> DEFINE c == call[k]
             e == [shipment |-> c.shipment, seq |-> c.seq,
                   at |-> Head(c.points)]
  <2>1. c \in Calls
    BY <1>5, RunningIsCall DEF AddToTenantStream, Running
  <2>2. e \in Entries
    BY <2>1, PointFacts DEF Calls, Entries
  <2>3. /\ stream' = Append(stream, e)
        /\ Resume(k, [c EXCEPT !.pc = "trim"])
        /\ UNCHANGED <<counter, hot, trimmed>>
    BY <1>5 DEF AddToTenantStream
  <2>4. stream' \in Seq(Entries) /\ Len(stream') = Len(stream) + 1
    BY <2>2, <2>3, AppendFacts
  <2>5. trimmed' \in 0..Len(stream')
    BY <2>3, <2>4
  <2>6. [c EXCEPT !.pc = "trim"] \in Calls
    BY <2>1 DEF Calls, Running
  <2>7. call' \in [Keys -> Calls \cup Lost \cup {Unused, Over}]
    BY <2>3, <2>6, ResumeTyped
  <2> QED  BY <2>3, <2>4, <2>5, <2>7
<1>6. CASE TrimStream(k)
  <2> DEFINE c == call[k]
  <2>1. c \in Calls
    BY <1>6, RunningIsCall DEF TrimStream, Running
  <2>2. [c EXCEPT !.pc = "hot"] \in Calls /\ Passed(c) \in Calls \cup {Over}
    BY <2>1, PassedTyped DEF Calls, Running
  <2>3. call' \in [Keys -> Calls \cup Lost \cup {Unused, Over}]
    BY <1>6, <2>2, ResumeTyped DEF TrimStream
  <2>4. trimmed' \in 0..Len(stream)
    BY <1>6 DEF TrimStream
  <2> QED  BY <1>6, <2>3, <2>4 DEF TrimStream
<1>7. CASE FailCall(k)
  <2> DEFINE c == call[k]
  <2>1. c \in Calls
    BY <1>7, RunningIsCall DEF FailCall
  <2>2. [pc |-> "lost", shipment |-> c.shipment, seq |-> c.seq] \in Lost
    BY <2>1 DEF Calls, Lost
  <2>3. call' \in [Keys -> Calls \cup Lost \cup {Unused, Over}]
    BY <1>7, <2>2, ResumeTyped DEF FailCall
  <2> QED  BY <1>7, <2>3 DEF FailCall
<1> QED  BY <1>1, <1>2, <1>3, <1>4, <1>5, <1>6, <1>7 DEF ProcessCall

-----------------------------------------------------------------------------
(* The numbers, the stream and the hot state. *)

\* The call k is evidence for the number n that the hot state of s shows.
OnItsWay(k, s, n) ==
  /\ call[k].pc = "lost" \/ AddsNext(k)
  /\ call[k].shipment = s
  /\ call[k].seq = n

\* A step of one call that leaves numbers, hot states and stream alone.
LEMMA CallMoves ==
  ASSUME IngestInv, IngestTypeOK', NEW k \in Keys,
         UNCHANGED <<counter, hot, stream>>,
         \A j \in Keys : j # k => call'[j] = call[j],
         Holds(k)' => /\ Holds(k)
                      /\ call'[k].seq = call[k].seq
                      /\ call'[k].shipment = call[k].shipment,
         (call'[k].pc = "trim" \/ (call'[k].pc = "hot"
                                  /\ call'[k].kind # "ping"))
           => InStream(call'[k].shipment, call'[k].seq),
         \A s, n : OnItsWay(k, s, n) => OnItsWay(k, s, n)'
  PROVE  IngestInv'
<1>1. \A j \in Keys : j # k => /\ Holds(j)' <=> Holds(j)
                               /\ \A s, n : OnItsWay(j, s, n)
                                             => OnItsWay(j, s, n)'
  BY DEF Holds, OnItsWay, AddsNext
<1>2. \A s, n : InStream(s, n)' <=> InStream(s, n)
  BY DEF InStream
<1>3. NumbersGiven'
  BY <1>1 DEF IngestInv, NumbersGiven
<1>4. NumbersApart'
  BY <1>1, <1>2 DEF IngestInv, NumbersApart
<1>5. AddedFirst'
  BY <1>2 DEF IngestInv, AddedFirst
<1>6. OneSeqEach'
  BY DEF IngestInv, OneSeqEach
<1>7. HotIsRecorded'
  <2>1. SUFFICES ASSUME NEW s \in Shipments, hot[s].seq > 0,
                        ~InStream(s, hot[s].seq)
                 PROVE  \E j \in Keys : OnItsWay(j, s, hot[s].seq)'
    BY <1>2 DEF HotIsRecorded, OnItsWay
  <2>2. PICK j \in Keys : OnItsWay(j, s, hot[s].seq)
    BY <2>1 DEF IngestInv, HotIsRecorded, OnItsWay
  <2> QED  BY <1>1, <2>2
<1> QED  BY <1>3, <1>4, <1>5, <1>6, <1>7 DEF IngestInv

\* A call that has left its point behind holds no number.
LEMMA PassedHolds ==
  ASSUME NEW c \in Calls
  PROVE  Passed(c).pc \in {"over", "seq"}
  BY DEF Passed, Over, Calls

LEMMA InitNumbers == ASSUME IngestInit PROVE IngestInv
<1>1. DOMAIN stream = {}
  BY DEF IngestInit
<1>2. \A k \in Keys : ~Holds(k) /\ call[k].pc = "new"
  BY DEF IngestInit, Holds, Unused
<1>3. \A s \in Shipments : hot[s].seq = 0
  BY DEF IngestInit, NoHotState
<1> QED
  BY <1>1, <1>2, <1>3, InitTypes
  DEF IngestInv, NumbersGiven, NumbersApart, AddedFirst, OneSeqEach,
      HotIsRecorded

\* The steps that CallMoves covers.
LEMMA QuietSteps ==
  ASSUME IngestInv, IngestTypeOK', NEW k \in Keys,
         Ingest(k) \/ ReadHotState(k) \/ TrimStream(k) \/ FailCall(k)
  PROVE  IngestInv'
<1> USE DEF IngestInv
<1>1. CASE Ingest(k)
  <2>1. PICK s \in Shipments, kind \in Kinds :
          Resume(k, [pc |-> IF kind = "ping" THEN "read" ELSE "seq",
                     shipment |-> s, kind |-> kind, points |-> Points[k],
                     seen |-> NoHotState, seq |-> 0])
    BY <1>1 DEF Ingest
  <2>2. /\ call'[k].pc \in {"read", "seq"}
        /\ \A j \in Keys : j # k => call'[j] = call[j]
    BY <2>1, OthersStay
  <2>3. ~Holds(k)'
    BY <2>2 DEF Holds
  <2>4. \A t, n : ~OnItsWay(k, t, n)
    BY <1>1 DEF Ingest, OnItsWay, AddsNext
  <2> QED  BY <1>1, <2>2, <2>3, <2>4, CallMoves DEF Ingest
<1>2. CASE ReadHotState(k)
  <2>1. call[k] \in Calls
    BY <1>2, RunningIsCall DEF ReadHotState, Running
  <2>2. /\ call'[k] = [call[k] EXCEPT !.pc = "seq",
                                     !.seen = hot[call[k].shipment]]
        /\ \A j \in Keys : j # k => call'[j] = call[j]
    BY <1>2, OthersStay DEF ReadHotState
  <2>3. call'[k].pc = "seq"
    BY <2>1, <2>2 DEF Calls
  <2>4. ~Holds(k)'
    BY <2>3 DEF Holds
  <2>5. \A t, n : ~OnItsWay(k, t, n)
    BY <1>2 DEF ReadHotState, OnItsWay, AddsNext
  <2> QED
    BY <1>2, <2>2, <2>3, <2>4, <2>5, CallMoves DEF ReadHotState
<1>3. CASE TrimStream(k)
  <2>1. call[k] \in Calls
    BY <1>3, RunningIsCall DEF TrimStream, Running
  <2>2. \A j \in Keys : j # k => call'[j] = call[j]
    BY <1>3, OthersStay DEF TrimStream
  <2>3. call'[k] = IF call[k].kind = "ping" THEN Passed(call[k])
                   ELSE [call[k] EXCEPT !.pc = "hot"]
    BY <1>3, OthersStay DEF TrimStream
  <2>4. \A t, n : ~OnItsWay(k, t, n)
    BY <1>3 DEF TrimStream, OnItsWay, AddsNext
  <2>5. InStream(call[k].shipment, call[k].seq)
    BY <1>3 DEF TrimStream, AddedFirst
  <2>6. CASE call[k].kind = "ping"
    <3>1. call'[k].pc \in {"over", "seq"}
      BY <2>1, <2>3, <2>6, PassedHolds
    <3>2. ~Holds(k)'
      BY <3>1 DEF Holds
    <3> QED  BY <1>3, <2>2, <2>4, <3>1, <3>2, CallMoves DEF TrimStream
  <2>7. CASE call[k].kind # "ping"
    <3>1. /\ call'[k].pc = "hot" /\ call'[k].kind # "ping"
          /\ call'[k].shipment = call[k].shipment
          /\ call'[k].seq = call[k].seq
      BY <2>1, <2>3, <2>7 DEF Calls
    <3>2. ~Holds(k)'
      BY <3>1 DEF Holds
    <3> QED
      BY <1>3, <2>2, <2>4, <2>5, <3>1, <3>2, CallMoves DEF TrimStream
  <2> QED  BY <2>6, <2>7
<1>4. CASE FailCall(k)
  <2>1. call[k] \in Calls
    BY <1>4, RunningIsCall DEF FailCall
  <2>2. \A j \in Keys : j # k => call'[j] = call[j]
    BY <1>4, OthersStay DEF FailCall
  <2>3. call'[k] = IF call[k].pc = "add" /\ call[k].kind = "ping"
                   THEN [pc |-> "lost", shipment |-> call[k].shipment,
                         seq |-> call[k].seq]
                   ELSE Over
    BY <1>4, OthersStay DEF FailCall
  <2>4. call'[k].pc \in {"lost", "over"}
    BY <2>3 DEF Over
  <2>5. ~Holds(k)'
    BY <2>4 DEF Holds
  <2>6. \A t, n : OnItsWay(k, t, n) => OnItsWay(k, t, n)'
    BY <1>4, <2>3 DEF FailCall, OnItsWay, AddsNext, Running
  <2> QED  BY <1>4, <2>2, <2>4, <2>5, <2>6, CallMoves DEF FailCall
<1> QED  BY <1>1, <1>2, <1>3, <1>4

\* The entries of the stream have a shipment and a number.
LEMMA EntriesTyped ==
  ASSUME IngestTypeOK
  PROVE  /\ DOMAIN stream = 1..Len(stream)
         /\ Len(stream) \in Nat
         /\ \A i \in DOMAIN stream : /\ stream[i] \in Entries
                                     /\ stream[i].shipment \in Shipments
                                     /\ stream[i].seq \in Nat
<1>1. /\ Len(stream) \in Nat /\ DOMAIN stream = 1..Len(stream)
      /\ \A i \in 1..Len(stream) : stream[i] \in Entries
  BY LenProperties DEF IngestTypeOK
<1> QED  BY <1>1 DEF Entries

\* The step that gives a point its number.
LEMMA NextSeqKeeps ==
  ASSUME IngestInv, IngestTypeOK', NEW k \in Keys, NextSeq(k)
  PROVE  IngestInv'
<1> USE DEF IngestInv
<1> DEFINE c == call[k]
           s == c.shipment
           n == counter[s] + 1
<1>1. c \in Calls
  BY RunningIsCall DEF NextSeq, Running
<1>2. /\ s \in Shipments /\ counter[s] \in Nat /\ n > counter[s]
      /\ counter'[s] = n
      /\ \A t \in Shipments : t # s => counter'[t] = counter[t]
  BY <1>1 DEF NextSeq, IngestTypeOK, Calls
<1>3. UNCHANGED <<hot, stream, trimmed>>
  BY DEF NextSeq
<1>4. \A j \in Keys : j # k => call'[j] = call[j]
  BY OthersStay DEF NextSeq
<1>5. \/ call'[k] = Numbered(c, n)
      \/ call'[k] = Passed([c EXCEPT !.seq = n])
  BY OthersStay DEF NextSeq
<1>6. call'[k].pc \in {"add", "hot", "over", "seq"}
  <2>1. Numbered(c, n).pc \in {"add", "hot"}
    BY <1>1 DEF Numbered, Calls
  <2>2. [c EXCEPT !.seq = n] \in Calls
    BY <1>1, <1>2, NumberedTyped
  <2>3. Passed([c EXCEPT !.seq = n]).pc \in {"over", "seq"}
    BY <2>2, PassedHolds
  <2> QED  BY <1>5, <2>1, <2>3
<1>7. call'[k].pc \in {"add", "hot"} =>
        /\ call'[k].shipment = s /\ call'[k].seq = n
        /\ call'[k].pc = "hot" => call'[k].kind = "ping"
  <2>1. /\ Numbered(c, n).shipment = s /\ Numbered(c, n).seq = n
        /\ Numbered(c, n).pc = "hot" => Numbered(c, n).kind = "ping"
    BY <1>1 DEF Numbered, Calls
  <2>2. [c EXCEPT !.seq = n] \in Calls
    BY <1>1, <1>2, NumberedTyped
  <2>3. Passed([c EXCEPT !.seq = n]).pc \in {"over", "seq"}
    BY <2>2, PassedHolds
  <2> QED  BY <1>5, <2>1, <2>3
<1>8. Holds(k)' => call'[k].shipment = s /\ call'[k].seq = n
  BY <1>6, <1>7 DEF Holds
<1>9. \A j \in Keys : j # k => /\ Holds(j)' <=> Holds(j)
                               /\ \A t, m : OnItsWay(j, t, m)
                                             => OnItsWay(j, t, m)'
  BY <1>4 DEF Holds, OnItsWay, AddsNext
<1>10. \A t, m : InStream(t, m)' <=> InStream(t, m)
  BY <1>3 DEF InStream
<1>11. \A t \in Shipments : counter[t] \in Nat /\ counter'[t] \in Nat
                            /\ counter[t] <= counter'[t]
  BY <1>2, SMTT(30) DEF IngestTypeOK
<1>12. \A i \in DOMAIN stream : stream[i].shipment \in Shipments
                                /\ stream[i].seq \in Nat
  BY EntriesTyped
<1>13. \A j \in Keys : Holds(j) => /\ call[j].shipment \in Shipments
                                   /\ call[j].seq \in Nat
  <2>1. SUFFICES ASSUME NEW j \in Keys, Holds(j)
                 PROVE  call[j].shipment \in Shipments /\ call[j].seq \in Nat
    OBVIOUS
  <2>2. call[j] \in Calls
    BY <2>1, RunningIsCall DEF Holds, Running
  <2> QED  BY <2>2 DEF Calls
<1>14. NumbersGiven'
  <2>1. \A i \in DOMAIN stream :
          stream[i].seq <= counter'[stream[i].shipment]
    BY <1>11, <1>12 DEF NumbersGiven
  <2>2. ASSUME NEW j \in Keys, Holds(j)'
        PROVE  call'[j].seq <= counter'[call'[j].shipment]
    <3>1. CASE j = k
      BY <1>2, <1>8, <2>2, <3>1
    <3>2. CASE j # k
      BY <1>4, <1>9, <1>11, <1>13, <2>2, <3>2 DEF NumbersGiven
    <3> QED  BY <3>1, <3>2
  <2> QED  BY <1>3, <2>1, <2>2 DEF NumbersGiven
<1>15. ~InStream(s, n)
  BY <1>2, <1>12 DEF InStream, NumbersGiven
<1>16. \A j \in Keys : Holds(j) /\ call[j].shipment = s => call[j].seq # n
  BY <1>2, <1>13 DEF NumbersGiven
<1>17. NumbersApart'
  <2>1. ASSUME NEW j \in Keys, Holds(j)'
        PROVE  ~InStream(call'[j].shipment, call'[j].seq)
    BY <1>4, <1>8, <1>9, <1>15, <2>1 DEF NumbersApart
  <2>2. ASSUME NEW i \in Keys, NEW j \in Keys, Holds(i)', Holds(j)', i # j,
               call'[i].shipment = call'[j].shipment
        PROVE  call'[i].seq # call'[j].seq
    <3>1. CASE i = k
      BY <1>4, <1>8, <1>9, <1>16, <2>2, <3>1
    <3>2. CASE j = k
      BY <1>4, <1>8, <1>9, <1>16, <2>2, <3>2
    <3>3. CASE i # k /\ j # k
      BY <1>4, <1>9, <2>2, <3>3 DEF NumbersApart
    <3> QED  BY <3>1, <3>2, <3>3
  <2> QED  BY <1>10, <2>1, <2>2 DEF NumbersApart
<1>18. AddedFirst'
  <2>1. SUFFICES ASSUME NEW j \in Keys,
                        \/ call'[j].pc = "trim"
                        \/ call'[j].pc = "hot" /\ call'[j].kind # "ping"
                 PROVE  InStream(call'[j].shipment, call'[j].seq)
    BY <1>10 DEF AddedFirst
  <2>2. j # k
    BY <1>6, <1>7, <2>1
  <2> QED  BY <1>4, <2>1, <2>2 DEF AddedFirst
<1>19. OneSeqEach'
  BY <1>3 DEF OneSeqEach
<1>20. HotIsRecorded'
  <2>1. SUFFICES ASSUME NEW t \in Shipments, hot[t].seq > 0,
                        ~InStream(t, hot[t].seq)
                 PROVE  \E j \in Keys : OnItsWay(j, t, hot[t].seq)'
    BY <1>3, <1>10 DEF HotIsRecorded, OnItsWay
  <2>2. PICK j \in Keys : OnItsWay(j, t, hot[t].seq)
    BY <2>1 DEF HotIsRecorded, OnItsWay
  <2>3. j # k
    BY <2>2 DEF NextSeq, OnItsWay, AddsNext
  <2> QED  BY <1>3, <1>9, <2>2, <2>3
<1> QED  BY <1>14, <1>17, <1>18, <1>19, <1>20

\* The step that writes the hot state.
LEMMA SetHotStateKeeps ==
  ASSUME IngestInv, IngestTypeOK', NEW k \in Keys, SetHotState(k)
  PROVE  IngestInv'
<1> USE DEF IngestInv
<1> DEFINE c == call[k]
           s == c.shipment
<1>1. c \in Calls /\ c.pc = "hot"
  BY RunningIsCall DEF SetHotState, Running
<1>2. /\ s \in Shipments /\ hot'[s].seq = c.seq
      /\ \A t \in Shipments : t # s => hot'[t] = hot[t]
  BY <1>1 DEF SetHotState, IngestTypeOK, Calls
<1>3. UNCHANGED <<counter, stream, trimmed>>
  BY DEF SetHotState
<1>4. \A j \in Keys : j # k => call'[j] = call[j]
  BY OthersStay DEF SetHotState
<1>5. call'[k] = IF c.kind = "ping" THEN [c EXCEPT !.pc = "add"] ELSE Over
  BY OthersStay DEF SetHotState
<1>6. c.kind = "ping" => /\ call'[k].pc = "add" /\ call'[k].kind = "ping"
                         /\ call'[k].shipment = s /\ call'[k].seq = c.seq
  BY <1>1, <1>5 DEF Calls
<1>7. c.kind # "ping" => call'[k].pc = "over"
  BY <1>5 DEF Over
<1>8. \A j \in Keys : j # k => /\ Holds(j)' <=> Holds(j)
                               /\ \A t, m : OnItsWay(j, t, m)
                                             => OnItsWay(j, t, m)'
  BY <1>4 DEF Holds, OnItsWay, AddsNext
<1>9. Holds(k)' => Holds(k) /\ call'[k].shipment = s /\ call'[k].seq = c.seq
  BY <1>1, <1>6, <1>7 DEF Holds
<1>10. \A t, m : InStream(t, m)' <=> InStream(t, m)
  BY <1>3 DEF InStream
<1>11. \A j \in Keys : Holds(j)' => /\ Holds(j)
                                    /\ call'[j].shipment = call[j].shipment
                                    /\ call'[j].seq = call[j].seq
  BY <1>4, <1>8, <1>9
<1>12. NumbersGiven'
  BY <1>3, <1>11 DEF NumbersGiven
<1>13. NumbersApart'
  BY <1>10, <1>11 DEF NumbersApart
<1>14. AddedFirst'
  <2>1. SUFFICES ASSUME NEW j \in Keys,
                        \/ call'[j].pc = "trim"
                        \/ call'[j].pc = "hot" /\ call'[j].kind # "ping"
                 PROVE  InStream(call'[j].shipment, call'[j].seq)
    BY <1>10 DEF AddedFirst
  <2>2. j # k
    BY <1>6, <1>7, <2>1
  <2> QED  BY <1>4, <2>1, <2>2 DEF AddedFirst
<1>15. OneSeqEach'
  BY <1>3 DEF OneSeqEach
<1>16. HotIsRecorded'
  <2>1. ASSUME NEW t \in Shipments, hot'[t].seq > 0
        PROVE  \/ InStream(t, hot'[t].seq)
               \/ \E j \in Keys : OnItsWay(j, t, hot[t].seq)'
    <3>1. CASE t = s /\ c.kind = "ping"
      BY <1>2, <1>6, <3>1 DEF OnItsWay, AddsNext
    <3>2. CASE t = s /\ c.kind # "ping"
      BY <1>1, <1>2, <3>2 DEF AddedFirst
    <3>3. CASE t # s
      <4>1. hot'[t] = hot[t]
        BY <1>2, <3>3
      <4>2. \/ InStream(t, hot[t].seq)
            \/ \E j \in Keys : OnItsWay(j, t, hot[t].seq)
        BY <2>1, <4>1 DEF HotIsRecorded, OnItsWay
      <4>3. ASSUME NEW j \in Keys, OnItsWay(j, t, hot[t].seq)
            PROVE  OnItsWay(j, t, hot[t].seq)'
        <5>1. j # k
          BY <1>1, <4>3 DEF OnItsWay, AddsNext
        <5> QED  BY <1>8, <4>1, <4>3, <5>1
      <4> QED  BY <4>1, <4>2, <4>3
    <3> QED  BY <3>1, <3>2, <3>3
  <2> QED  BY <1>10, <2>1 DEF HotIsRecorded, OnItsWay
<1> QED  BY <1>12, <1>13, <1>14, <1>15, <1>16

\* The step that adds an entry: its number was in this call's hands alone.
LEMMA AddKeeps ==
  ASSUME IngestInv, IngestTypeOK', NEW k \in Keys, AddToTenantStream(k)
  PROVE  IngestInv'
<1> USE DEF IngestInv
<1> DEFINE c == call[k]
           s == c.shipment
           e == [shipment |-> s, seq |-> c.seq, at |-> Head(c.points)]
           last == Len(stream) + 1
<1>1. c \in Calls /\ c.pc = "add"
  BY RunningIsCall DEF AddToTenantStream, Running
<1>2. s \in Shipments /\ c.seq \in Nat /\ e \in Entries
  BY <1>1, PointFacts DEF Calls, Entries
<1>3. /\ stream' = Append(stream, e)
      /\ UNCHANGED <<counter, hot, trimmed>>
  BY DEF AddToTenantStream
<1>4. \A j \in Keys : j # k => call'[j] = call[j]
  BY OthersStay DEF AddToTenantStream
<1>5. call'[k] = [c EXCEPT !.pc = "trim"]
  BY OthersStay DEF AddToTenantStream
<1>6. /\ call'[k].pc = "trim" /\ call'[k].shipment = s
      /\ call'[k].seq = c.seq
  BY <1>1, <1>5 DEF Calls
<1>7. /\ Len(stream) \in Nat /\ DOMAIN stream = 1..Len(stream)
      /\ DOMAIN stream' = 1..last
      /\ \A i \in DOMAIN stream : stream'[i] = stream[i]
      /\ stream'[last] = e
  <2>1. stream \in Seq(Entries)
    BY DEF IngestTypeOK
  <2>2. stream' \in Seq(Entries)
    BY DEF IngestTypeOK
  <2>3. Len(stream') = last
    BY <1>2, <1>3, <2>1, AppendFacts
  <2>4. /\ Len(stream) \in Nat /\ DOMAIN stream = 1..Len(stream)
        /\ DOMAIN stream' = 1..Len(stream')
    BY <2>1, <2>2, LenProperties
  <2> QED  BY <1>2, <1>3, <2>1, <2>3, <2>4, AppendFacts
<1>8. DOMAIN stream' = DOMAIN stream \cup {last} /\ last \notin DOMAIN stream
  BY <1>7
<1>9. e.shipment = s /\ e.seq = c.seq
  OBVIOUS
<1>10. \A t, m : InStream(t, m)' <=> InStream(t, m) \/ (t = s /\ m = c.seq)
  BY <1>7, <1>8, <1>9 DEF InStream
<1>11. \A j \in Keys : Holds(j)' => /\ j # k /\ Holds(j)
                                    /\ call'[j] = call[j]
  BY <1>4, <1>6 DEF Holds
<1>12. Holds(k)
  BY <1>1 DEF Holds
<1>13. NumbersGiven'
  BY <1>3, <1>7, <1>8, <1>9, <1>11, <1>12 DEF NumbersGiven
<1>14. NumbersApart'
  BY <1>10, <1>11, <1>12 DEF NumbersApart
<1>15. AddedFirst'
  BY <1>4, <1>6, <1>10 DEF AddedFirst
<1>16. OneSeqEach'
  <2>1. \A i \in DOMAIN stream :
          ~(stream[i].shipment = s /\ stream[i].seq = c.seq)
    BY <1>12 DEF NumbersApart, InStream
  <2> QED  BY <1>7, <1>8, <1>9, <2>1 DEF OneSeqEach
<1>17. HotIsRecorded'
  <2>1. ASSUME NEW t \in Shipments, hot[t].seq > 0
        PROVE  \/ InStream(t, hot[t].seq)'
               \/ \E j \in Keys : OnItsWay(j, t, hot[t].seq)'
    <3>1. CASE InStream(t, hot[t].seq)
      BY <1>3, <1>10, <3>1
    <3>2. ASSUME NEW j \in Keys, OnItsWay(j, t, hot[t].seq)
          PROVE  \/ InStream(t, hot[t].seq)'
                 \/ OnItsWay(j, t, hot[t].seq)'
      <4>1. CASE j = k
        BY <1>3, <1>10, <3>2, <4>1 DEF OnItsWay
      <4>2. CASE j # k
        BY <1>3, <1>4, <3>2, <4>2 DEF OnItsWay, AddsNext
      <4> QED  BY <4>1, <4>2
    <3> QED  BY <2>1, <3>1, <3>2 DEF HotIsRecorded, OnItsWay
  <2> QED  BY <1>3, <2>1 DEF HotIsRecorded, OnItsWay
<1> QED  BY <1>13, <1>14, <1>15, <1>16, <1>17

LEMMA IngestKeeps ==
  ASSUME IngestInv, IngestAssumption, NEW k \in Keys, ProcessCall(k)
  PROVE  IngestInv'
<1>1. IngestTypeOK'
  BY IngestTypes DEF IngestInv
<1> QED
  BY <1>1, QuietSteps, NextSeqKeeps, SetHotStateKeeps, AddKeeps
  DEF ProcessCall

LEMMA IngestStays ==
  ASSUME IngestInv, UNCHANGED ingestVars
  PROVE  IngestInv'
  BY DEF IngestInv, IngestTypeOK, NumbersGiven, NumbersApart, AddedFirst,
         OneSeqEach, HotIsRecorded, Holds, InStream, AddsNext, ingestVars

-----------------------------------------------------------------------------
(* The writer. *)

\* A step of a call only ever adds to the stream.
LEMMA StreamGrows ==
  ASSUME IngestTypeOK, IngestTypeOK', NEW k \in Keys, ProcessCall(k)
  PROVE  /\ Len(stream) \in Nat /\ Len(stream') \in Nat
         /\ Len(stream) <= Len(stream')
         /\ DOMAIN stream = 1..Len(stream) /\ DOMAIN stream' = 1..Len(stream')
         /\ \A i \in DOMAIN stream : stream'[i] = stream[i]
<1>1. /\ Len(stream) \in Nat /\ Len(stream') \in Nat
      /\ DOMAIN stream = 1..Len(stream) /\ DOMAIN stream' = 1..Len(stream')
  BY LenProperties DEF IngestTypeOK
<1>2. CASE AddToTenantStream(k)
  <2> DEFINE c == call[k]
             e == [shipment |-> c.shipment, seq |-> c.seq,
                   at |-> Head(c.points)]
  <2>1. call[k] \in Calls
    BY <1>2, RunningIsCall DEF AddToTenantStream, Running
  <2>2. e \in Entries
    BY <2>1, PointFacts DEF Calls, Entries
  <2>3. stream' = Append(stream, e)
    BY <1>2 DEF AddToTenantStream
  <2>4. stream \in Seq(Entries)
    BY DEF IngestTypeOK
  <2>5. /\ Len(stream') = Len(stream) + 1
        /\ \A i \in 1..Len(stream) : stream'[i] = stream[i]
    BY <2>2, <2>3, <2>4, AppendFacts
  <2> QED  BY <1>1, <2>5
<1>3. CASE UNCHANGED stream
  BY <1>1, <1>3
<1> QED
  BY <1>2, <1>3
  DEF ProcessCall, Ingest, ReadHotState, NextSeq, SetHotState, TrimStream,
      FailCall

LEMMA IngestStepKeeps ==
  ASSUME IInv, IngestAssumption, NEW k \in Keys, ProcessCall(k),
         UNCHANGED writerVars
  PROVE  IInv'
<1>1. IngestInv'
  BY IngestKeeps DEF IInv
<1>2. IngestTypeOK /\ IngestTypeOK'
  BY <1>1 DEF IInv, IngestInv
<1>3. /\ Len(stream) \in Nat /\ Len(stream') \in Nat
      /\ Len(stream) <= Len(stream')
      /\ DOMAIN stream = 1..Len(stream) /\ DOMAIN stream' = 1..Len(stream')
      /\ \A i \in DOMAIN stream : stream'[i] = stream[i]
  BY <1>2, StreamGrows
<1>4. /\ 0..Len(stream) \subseteq 0..Len(stream')
      /\ DOMAIN stream \subseteq DOMAIN stream'
  BY <1>3
<1>5. TypeOK'
  <2>1. group' \in [exists : BOOLEAN, from : Nat, last : 0..Len(stream')]
    BY <1>4 DEF IInv, TypeOK, writerVars
  <2> QED  BY <1>2, <2>1 DEF IInv, TypeOK, writerVars
<1>6. handed \subseteq DOMAIN stream
  BY <1>3 DEF IInv, TypeOK
<1>7. \A i \in handed : stream'[i] = stream[i]
  BY <1>3, <1>6
<1>8. CrumbsAreEntries'
  BY <1>3, <1>4 DEF IInv, CrumbsAreEntries, writerVars
<1>9. BatchesOK'
  <2>1. \A w \in Writers : writer[w].batch \subseteq handed
    BY DEF IInv, TypeOK
  <2> QED  BY <1>7, <2>1 DEF IInv, BatchesOK, writerVars
<1>10. AckedIsStored'
  BY <1>7 DEF IInv, AckedIsStored, writerVars
<1>11. OnlyFaultsStrand'
  BY DEF IInv, OnlyFaultsStrand, writerVars
<1> QED  BY <1>1, <1>5, <1>8, <1>9, <1>10, <1>11 DEF IInv

Phases == {"rest", "group", "read", "insert", "ack"}
WriterTypes(H) ==
  [Writers -> [pc : Phases, knows : BOOLEAN, batch : SUBSET H]]

\* What a step of the process w does to the records of the processes.
LEMMA GotoFacts ==
  ASSUME TypeOK, NEW w \in Writers, NEW pc \in Phases, Goto(w, pc)
  PROVE  /\ writer'[w].pc = pc /\ writer'[w].batch = writer[w].batch
         /\ \A v \in Writers : v # w => writer'[v] = writer[v]
         /\ writer' \in WriterTypes(handed)
  BY DEF TypeOK, Goto, WriterTypes, Phases

LEMMA LearnFacts ==
  ASSUME TypeOK, NEW w \in Writers, NEW pc \in Phases,
         writer' = [writer EXCEPT ![w].pc = pc, ![w].knows = TRUE]
  PROVE  /\ writer'[w].pc = pc /\ writer'[w].batch = writer[w].batch
         /\ \A v \in Writers : v # w => writer'[v] = writer[v]
         /\ writer' \in WriterTypes(handed)
<1>1. writer \in WriterTypes(handed)
  BY DEF TypeOK, WriterTypes, Phases
<1> QED
  BY ONLY <1>1, w \in Writers, pc \in Phases, ZenonT(40),
          writer' = [writer EXCEPT ![w].pc = pc, ![w].knows = TRUE]
     DEF WriterTypes

LEMMA BatchFacts ==
  ASSUME TypeOK, NEW w \in Writers, NEW pc \in Phases,
         NEW H, handed \subseteq H, NEW b \in SUBSET H,
         writer' = [writer EXCEPT ![w].pc = pc, ![w].batch = b]
  PROVE  /\ writer'[w].pc = pc /\ writer'[w].batch = b
         /\ \A v \in Writers : v # w => writer'[v] = writer[v]
         /\ writer' \in WriterTypes(H)
<1>1. writer \in WriterTypes(H)
  BY DEF TypeOK, WriterTypes, Phases
<1>2. [writer[w] EXCEPT !.pc = pc, !.batch = b]
        \in [pc : Phases, knows : BOOLEAN, batch : SUBSET H]
  BY <1>1 DEF WriterTypes
<1> QED  BY <1>1, <1>2 DEF WriterTypes

\* A step that leaves the batches, and what becomes of them, alone.
LEMMA WriterGoesOn ==
  ASSUME IInv, NEW w \in Writers,
         writer[w].batch = {}, writer'[w].batch = {},
         writer'[w].pc \in {"rest", "group", "read"},
         \A v \in Writers : v # w => writer'[v] = writer[v],
         writer' \in WriterTypes(handed),
         UNCHANGED <<ingestVars, pending, crumbs, handed, dropped, faults>>,
         group' \in [exists : BOOLEAN, from : Nat, last : 0..Len(stream)],
         handed \subseteq 1..group'.last
  PROVE  IInv'
<1>1. IngestInv'
  BY IngestStays DEF IInv
<1>2. \A v \in Writers : writer'[v].batch = writer[v].batch
  OBVIOUS
<1>3. TypeOK'
  <2>1. UNCHANGED stream
    BY DEF ingestVars
  <2> QED
    BY <1>1, <2>1 DEF IInv, TypeOK, IngestInv, WriterTypes, Phases
<1>4. CrumbsAreEntries'
  BY DEF IInv, CrumbsAreEntries, ingestVars
<1>5. BatchesOK'
  BY <1>2 DEF IInv, BatchesOK, ingestVars
<1>6. AckedIsStored'
  BY DEF IInv, AckedIsStored, ingestVars
<1>7. OnlyFaultsStrand'
  <2>1. {writer'[v].batch : v \in Writers} = {writer[v].batch : v \in Writers}
    BY <1>2
  <2> QED  BY <1>2, <2>1 DEF IInv, OnlyFaultsStrand
<1> QED  BY <1>1, <1>3, <1>4, <1>5, <1>6, <1>7 DEF IInv

\* The first steps of a pass have no batch in their hands.
LEMMA BeginKeeps ==
  ASSUME IInv, NEW w \in Writers,
         StartPass(w) \/ CreateConsumerGroup(w)
  PROVE  IInv'
<1>1. TypeOK
  BY DEF IInv
<1>2. writer[w].batch = {}
  BY DEF IInv, BatchesOK, StartPass, CreateConsumerGroup
<1>3. /\ writer'[w].batch = writer[w].batch
      /\ writer'[w].pc \in {"rest", "group", "read"}
      /\ \A v \in Writers : v # w => writer'[v] = writer[v]
      /\ writer' \in WriterTypes(handed)
  <2>1. CASE StartPass(w)
    BY <1>1, <2>1, GotoFacts DEF StartPass, Phases
  <2>2. CASE CreateConsumerGroup(w)
    BY <1>1, <2>2, LearnFacts DEF CreateConsumerGroup, Phases
  <2> QED  BY <2>1, <2>2
<1>4. Len(stream) \in Nat
  BY EntriesTyped DEF IInv, IngestInv
<1>5. /\ group' \in [exists : BOOLEAN, from : Nat, last : 0..Len(stream)]
      /\ handed \subseteq 1..group'.last
  <2>1. /\ group \in [exists : BOOLEAN, from : Nat, last : 0..Len(stream)]
        /\ handed \subseteq 1..group.last
    BY DEF IInv, TypeOK
  <2>2. CASE group' = group
    BY <2>1, <2>2
  <2>3. CASE group' = [exists |-> TRUE, from |-> Len(stream),
                       last |-> Len(stream)]
    BY <1>4, <2>1, <2>3
  <2> QED  BY <2>2, <2>3 DEF StartPass, CreateConsumerGroup
<1>6. UNCHANGED <<ingestVars, pending, crumbs, handed, dropped, faults>>
  BY DEF StartPass, CreateConsumerGroup
<1> QED  BY <1>2, <1>3, <1>5, <1>6, WriterGoesOn

\* What '>' stands for has not been handed out.
LEMMA NextBatchFacts ==
  ASSUME TypeOK, WriterAssumption, NEW n \in NextBatch
  PROVE  /\ n \in DOMAIN stream /\ n \in 1..Len(stream) /\ n > group.last
         /\ group.last \in Nat
         /\ NextBatch \cap handed = {}
<1> DEFINE first == 1 + IF trimmed > group.last THEN trimmed ELSE group.last
<1>1. /\ Len(stream) \in Nat /\ DOMAIN stream = 1..Len(stream)
      /\ trimmed \in Nat
  BY EntriesTyped DEF TypeOK, IngestTypeOK
<1>2. group.last \in Nat /\ handed \subseteq 1..group.last
  BY <1>1 DEF TypeOK
<1>3. first \in Nat /\ first > group.last
  BY <1>1, <1>2
<1>4. \A i \in NextBatch : i \in first..Len(stream)
  BY DEF NextBatch
<1>5. \A i \in NextBatch : /\ i \in 1..Len(stream) /\ i > group.last
  BY <1>1, <1>2, <1>3, <1>4
<1>6. NextBatch \cap handed = {}
  BY <1>2, <1>5
<1> QED  BY <1>1, <1>2, <1>5, <1>6

\* What the processes have in their hands when one of them changes batch.
LEMMA OneBatch ==
  ASSUME NEW w \in Writers,
         \A v \in Writers : v # w => writer'[v] = writer[v]
  PROVE  writer'[w].batch \cup UNION {writer[v].batch : v \in Writers}
           = writer[w].batch \cup UNION {writer'[v].batch : v \in Writers}
<1> DEFINE Old == UNION {writer[v].batch : v \in Writers}
           New == UNION {writer'[v].batch : v \in Writers}
<1>1. ASSUME NEW i \in New PROVE i \in writer'[w].batch \cup Old
  <2>1. PICK v \in Writers : i \in writer'[v].batch
    BY <1>1
  <2> QED  BY <2>1
<1>2. ASSUME NEW i \in Old PROVE i \in writer[w].batch \cup New
  <2>1. PICK v \in Writers : i \in writer[v].batch
    BY <1>2
  <2> QED  BY <2>1
<1>3. writer'[w].batch \subseteq New /\ writer[w].batch \subseteq Old
  OBVIOUS
<1> HIDE DEF Old, New
<1> QED  BY <1>1, <1>2, <1>3

LEMMA ReadGroupKeeps ==
  ASSUME IInv, WriterAssumption, NEW w \in Writers, ReadGroup(w)
  PROVE  IInv'
<1>1. TypeOK /\ IngestInv' /\ writer[w].pc = "read"
  BY IngestStays DEF IInv, ReadGroup
<1>2. writer[w].batch = {}
  BY <1>1 DEF IInv, BatchesOK
<1>3. CASE NextBatch = {}
  <2>1. Goto(w, "rest")
    BY <1>3 DEF ReadGroup
  <2>2. UNCHANGED <<ingestVars, group, pending, crumbs, handed, dropped,
                    faults>>
    BY <1>3 DEF ReadGroup
  <2>3. /\ group' \in [exists : BOOLEAN, from : Nat, last : 0..Len(stream)]
        /\ handed \subseteq 1..group'.last
    BY <2>2, <1>1 DEF TypeOK
  <2>4. /\ writer'[w].batch = {} /\ writer'[w].pc = "rest"
        /\ \A v \in Writers : v # w => writer'[v] = writer[v]
        /\ writer' \in WriterTypes(handed)
    BY <1>1, <1>2, <2>1, GotoFacts DEF Phases
  <2> QED  BY <1>2, <2>2, <2>3, <2>4, WriterGoesOn
<1>4. CASE NextBatch # {}
  <2>1. PICK n \in NextBatch : /\ \A i \in NextBatch : i <= n
                               /\ group' = [group EXCEPT !.last = n]
    BY <1>4 DEF ReadGroup
  <2>2. /\ pending' = pending \cup NextBatch
        /\ handed' = handed \cup NextBatch
        /\ UNCHANGED <<ingestVars, crumbs, dropped, faults>>
    BY <1>4 DEF ReadGroup
  <2>3. writer' = [writer EXCEPT ![w].pc = "insert", ![w].batch = NextBatch]
    BY <1>4 DEF ReadGroup
  <2>4. /\ writer'[w].batch = NextBatch /\ writer'[w].pc = "insert"
        /\ \A v \in Writers : v # w => writer'[v] = writer[v]
        /\ writer' \in WriterTypes(handed')
    <3>1. handed \subseteq handed' /\ NextBatch \in SUBSET handed'
      BY <2>2
    <3>2. "insert" \in Phases
      BY DEF Phases
    <3> QED  BY <1>1, <2>3, <3>1, <3>2, BatchFacts, Zenon
  <2>5. /\ n \in 1..Len(stream) /\ n > group.last /\ group.last \in Nat
        /\ NextBatch \cap handed = {}
    BY <1>1, NextBatchFacts
  <2>6. NextBatch \subseteq 1..n
    <3>1. \A i \in NextBatch : i \in 1..Len(stream) /\ i <= n
      BY <1>1, <2>1, NextBatchFacts
    <3> QED  BY <3>1, <2>5
  <2>7. group'.last = n /\ group' \in [exists : BOOLEAN, from : Nat,
                                       last : 0..Len(stream)]
    BY <1>1, <2>1, <2>5 DEF TypeOK
  <2>8. handed' \subseteq 1..group'.last
    <3>1. handed \subseteq 1..group.last
      BY <1>1 DEF TypeOK
    <3>2. 1..group.last \subseteq 1..n
      BY <2>5
    <3> QED  BY <2>2, <2>6, <2>7, <3>1, <3>2
  <2>9. TypeOK'
    <3>1. UNCHANGED stream
      BY <2>2 DEF ingestVars
    <3>2. pending' \subseteq handed' /\ dropped' \subseteq handed'
      BY <1>1, <2>2 DEF TypeOK
    <3> QED
      BY <1>1, <2>2, <2>4, <2>7, <2>8, <3>1, <3>2
      DEF TypeOK, IngestInv, WriterTypes, Phases
  <2>10. CrumbsAreEntries'
    BY <2>2 DEF IInv, CrumbsAreEntries, ingestVars
  <2>11. NextBatch \cap dropped = {}
    BY <1>1, <2>5 DEF TypeOK
  <2>12. BatchesOK'
    BY <2>2, <2>4, <2>11 DEF IInv, BatchesOK, ingestVars
  <2>13. AckedIsStored'
    BY <2>2 DEF IInv, AckedIsStored, ingestVars
  <2>14. OnlyFaultsStrand'
    <3>1. \A v \in Writers : writer[v].batch \subseteq handed
      BY <1>1 DEF TypeOK
    <3>2. UNION {writer'[v].batch : v \in Writers}
            = NextBatch \cup UNION {writer[v].batch : v \in Writers}
      BY <1>2, <2>4, OneBatch
    <3>3. \A v \in Writers : v # w => writer[v].batch \cap NextBatch = {}
      BY <2>5, <3>1
    <3>4. \A u, v \in Writers :
            u # v => writer'[u].batch \cap writer'[v].batch = {}
      BY <2>4, <3>3 DEF IInv, OnlyFaultsStrand
    <3> QED  BY <2>2, <3>2, <3>4 DEF IInv, OnlyFaultsStrand
  <2> QED  BY <1>1, <2>9, <2>10, <2>12, <2>13, <2>14 DEF IInv
<1> QED  BY <1>3, <1>4

\* skipDuplicates skips only what is there: no two entries are one row.
LEMMA InsertKeeps ==
  ASSUME IInv, NEW w \in Writers, BatchInsertBreadcrumbs(w)
  PROVE  IInv'
<1> DEFINE b == writer[w].batch
           new == {e \in {stream[i] : i \in b} :
                     \A f \in crumbs : ~SameRow(e, f)}
<1>1. TypeOK /\ IngestInv' /\ IngestTypeOK
  BY IngestStays DEF IInv, IngestInv, BatchInsertBreadcrumbs
<1>2. /\ crumbs' = crumbs \cup new
      /\ UNCHANGED <<ingestVars, group, pending, handed, dropped, faults>>
  BY DEF BatchInsertBreadcrumbs
<1>3. /\ writer'[w].pc = "ack" /\ writer'[w].batch = b
      /\ \A v \in Writers : v # w => writer'[v] = writer[v]
      /\ writer' \in WriterTypes(handed)
  BY <1>1, GotoFacts DEF BatchInsertBreadcrumbs, Phases
<1>4. b \subseteq handed /\ handed \subseteq DOMAIN stream
  <2>1. handed \subseteq 1..group.last /\ group.last \in 0..Len(stream)
    BY <1>1 DEF TypeOK
  <2>2. Len(stream) \in Nat /\ DOMAIN stream = 1..Len(stream)
    BY <1>1, EntriesTyped
  <2>3. b \subseteq handed
    BY <1>1 DEF TypeOK
  <2> QED  BY <2>1, <2>2, <2>3
<1>5. \A i \in b : stream[i] \in Entries
  BY <1>1, <1>4, EntriesTyped
<1>6. UNCHANGED stream
  BY <1>2 DEF ingestVars
<1>7. \A i \in b : stream[i] \in crumbs'
  <2>1. SUFFICES ASSUME NEW i \in b, stream[i] \notin new
                 PROVE  stream[i] \in crumbs
    BY <1>2
  <2>2. PICK f \in crumbs : SameRow(stream[i], f)
    BY <2>1
  <2>3. PICK j \in DOMAIN stream : f = stream[j]
    BY DEF IInv, CrumbsAreEntries
  <2>4. i = j
    BY <1>4, <2>2, <2>3 DEF IInv, IngestInv, OneSeqEach, SameRow
  <2> QED  BY <2>3, <2>4
<1>8. TypeOK'
  <2>1. crumbs' \subseteq Entries
    BY <1>1, <1>2, <1>5 DEF TypeOK
  <2> QED
    BY <1>1, <1>2, <1>3, <1>6, <2>1
    DEF TypeOK, IngestInv, WriterTypes, Phases
<1>9. CrumbsAreEntries'
  <2>1. \A e \in new : \E i \in DOMAIN stream : e = stream[i]
    BY <1>4
  <2> QED  BY <1>2, <1>6, <2>1 DEF IInv, CrumbsAreEntries
<1>10. BatchesOK'
  BY <1>2, <1>3, <1>6, <1>7 DEF IInv, BatchesOK
<1>11. AckedIsStored'
  BY <1>2, <1>6 DEF IInv, AckedIsStored
<1>12. OnlyFaultsStrand'
  <2>1. \A v \in Writers : writer'[v].batch = writer[v].batch
    BY <1>3
  <2>2. {writer'[v].batch : v \in Writers} = {writer[v].batch : v \in Writers}
    BY <2>1
  <2> QED  BY <1>2, <2>1, <2>2 DEF IInv, OnlyFaultsStrand
<1> QED  BY <1>1, <1>8, <1>9, <1>10, <1>11, <1>12 DEF IInv

LEMMA AckKeeps ==
  ASSUME IInv, NEW w \in Writers, AckMessage(w)
  PROVE  IInv'
<1> DEFINE b == writer[w].batch
<1>1. TypeOK /\ IngestInv'
  BY IngestStays DEF IInv, AckMessage
<1>2. PICK n \in b : pending' = pending \ {n} /\ Keep(w, b \ {n})
  BY DEF AckMessage
<1>3. UNCHANGED <<ingestVars, group, crumbs, handed, dropped, faults>>
  BY DEF AckMessage
<1>4. b \subseteq handed
  BY <1>1 DEF TypeOK
<1>5. /\ writer'[w].pc = (IF b \ {n} = {} THEN "rest" ELSE "ack")
      /\ writer'[w].batch = b \ {n}
      /\ \A v \in Writers : v # w => writer'[v] = writer[v]
      /\ writer' \in WriterTypes(handed)
  <2> DEFINE rest == b \ {n}
             pc == IF rest = {} THEN "rest" ELSE "ack"
  <2>1. handed \subseteq handed /\ rest \in SUBSET handed
    BY <1>4
  <2>2. pc \in Phases
    BY DEF Phases
  <2>3. writer' = [writer EXCEPT ![w].pc = pc, ![w].batch = rest]
    BY <1>2 DEF Keep
  <2> HIDE DEF rest, pc
  <2>4. /\ writer'[w].pc = pc /\ writer'[w].batch = rest
        /\ \A v \in Writers : v # w => writer'[v] = writer[v]
        /\ writer' \in WriterTypes(handed)
    BY <1>1, <2>1, <2>2, <2>3, BatchFacts, Zenon
  <2> QED  BY <2>4 DEF rest, pc
<1>6. UNCHANGED stream
  BY <1>3 DEF ingestVars
<1>7. \A i \in b : stream[i] \in crumbs
  BY DEF IInv, BatchesOK, AckMessage
<1>8. TypeOK'
  <2>1. pending' \subseteq handed'
    BY <1>1, <1>2, <1>3 DEF TypeOK
  <2> QED
    BY <1>1, <1>3, <1>5, <1>6, <2>1
    DEF TypeOK, IngestInv, WriterTypes, Phases
<1>9. CrumbsAreEntries'
  BY <1>3, <1>6 DEF IInv, CrumbsAreEntries
<1>10. BatchesOK'
  BY <1>3, <1>5, <1>6, <1>7 DEF IInv, BatchesOK
<1>11. AckedIsStored'
  BY <1>2, <1>3, <1>6, <1>7 DEF IInv, AckedIsStored
<1>12. OnlyFaultsStrand'
  <2> DEFINE Old == UNION {writer[v].batch : v \in Writers}
             New == UNION {writer'[v].batch : v \in Writers}
  <2>1. (b \ {n}) \cup Old = b \cup New
    BY <1>5, OneBatch
  <2>2. n \notin New
    <3>1. ASSUME NEW v \in Writers PROVE n \notin writer'[v].batch
      <4>1. CASE v = w
        BY <1>5, <4>1
      <4>2. CASE v # w
        BY <1>5, <4>2 DEF IInv, OnlyFaultsStrand
      <4> QED  BY <4>1, <4>2
    <3> QED  BY <3>1
  <2>3. n \notin dropped
    BY DEF IInv, BatchesOK
  <2>4. b \subseteq Old /\ b \ {n} \subseteq New
    BY <1>5
  <2>5. pending = dropped \cup Old
    BY DEF IInv, OnlyFaultsStrand
  <2> HIDE DEF Old, New
  <2>6. pending' = dropped \cup New
    BY <1>2, <2>1, <2>2, <2>3, <2>4, <2>5
  <2>7. \A u, v \in Writers :
          u # v => writer'[u].batch \cap writer'[v].batch = {}
    BY <1>5 DEF IInv, OnlyFaultsStrand
  <2> QED  BY <1>3, <2>6, <2>7 DEF OnlyFaultsStrand, New
<1> QED  BY <1>1, <1>8, <1>9, <1>10, <1>11, <1>12 DEF IInv

LEMMA FailKeeps ==
  ASSUME IInv, WriterAssumption, NEW w \in Writers, FailPass(w)
  PROVE  IInv'
<1> DEFINE b == writer[w].batch
<1>1. TypeOK /\ IngestInv'
  BY IngestStays DEF IInv, FailPass
<1>2. PICK knows \in {writer[w].knows, FALSE} :
        writer' = [writer EXCEPT ![w] = [pc |-> "rest", knows |-> knows,
                                         batch |-> {}]]
  BY DEF FailPass
<1>3. /\ dropped' = dropped \cup b /\ faults' \in 0..MaxFaults
      /\ UNCHANGED <<ingestVars, group, pending, crumbs, handed>>
  BY <1>1 DEF FailPass, TypeOK, WriterAssumption
<1>4. b \subseteq handed
  BY <1>1 DEF TypeOK
<1>5. /\ writer'[w].pc = "rest" /\ writer'[w].batch = {}
      /\ \A v \in Writers : v # w => writer'[v] = writer[v]
      /\ writer' \in WriterTypes(handed)
  <2>1. writer \in WriterTypes(handed)
    BY <1>1 DEF TypeOK, WriterTypes, Phases
  <2>2. [pc |-> "rest", knows |-> knows, batch |-> {}]
          \in [pc : Phases, knows : BOOLEAN, batch : SUBSET handed]
    BY <2>1 DEF WriterTypes, Phases
  <2>3. writer'[w] = [pc |-> "rest", knows |-> knows, batch |-> {}]
    BY <1>2, <2>1 DEF WriterTypes
  <2>4. writer'[w].pc = "rest" /\ writer'[w].batch = {}
    BY <2>3
  <2> QED  BY <1>2, <2>1, <2>2, <2>4 DEF WriterTypes
<1>6. UNCHANGED stream
  BY <1>3 DEF ingestVars
<1>7. TypeOK'
  <2>1. dropped' \subseteq handed'
    BY <1>1, <1>3, <1>4 DEF TypeOK
  <2> QED
    BY <1>1, <1>3, <1>5, <1>6, <2>1
    DEF TypeOK, IngestInv, WriterTypes, Phases
<1>8. CrumbsAreEntries'
  BY <1>3, <1>6 DEF IInv, CrumbsAreEntries
<1>9. BatchesOK'
  <2>1. \A v \in Writers : v # w => writer[v].batch \cap dropped' = {}
    BY <1>3 DEF IInv, BatchesOK, OnlyFaultsStrand
  <2> QED  BY <1>3, <1>5, <1>6, <2>1 DEF IInv, BatchesOK
<1>10. AckedIsStored'
  BY <1>3, <1>6 DEF IInv, AckedIsStored
<1>11. OnlyFaultsStrand'
  <2> DEFINE Old == UNION {writer[v].batch : v \in Writers}
             New == UNION {writer'[v].batch : v \in Writers}
  <2>1. Old = b \cup New
    BY <1>5, OneBatch
  <2>2. pending = dropped \cup Old
    BY DEF IInv, OnlyFaultsStrand
  <2> HIDE DEF Old, New
  <2>3. pending' = dropped' \cup New
    BY <1>3, <2>1, <2>2
  <2>4. \A u, v \in Writers :
          u # v => writer'[u].batch \cap writer'[v].batch = {}
    BY <1>5 DEF IInv, OnlyFaultsStrand
  <2> QED  BY <2>3, <2>4 DEF OnlyFaultsStrand, New
<1> QED  BY <1>1, <1>7, <1>8, <1>9, <1>10, <1>11 DEF IInv

-----------------------------------------------------------------------------
LEMMA Initially == ASSUME Init, WriterAssumption PROVE IInv
<1>1. IngestInv
  BY InitNumbers DEF Init
<1>2. Len(stream) \in Nat /\ 0 \in 0..Len(stream)
  BY <1>1, EntriesTyped DEF IngestInv
<1>3. TypeOK
  BY <1>1, <1>2
  DEF Init, TypeOK, IngestInv, NoGroup, WriterAssumption
<1>4. \A w \in Writers : writer[w].batch = {} /\ writer[w].pc = "rest"
  BY DEF Init
<1>5. UNION {writer[w].batch : w \in Writers} = {}
  BY <1>4
<1> QED
  BY <1>1, <1>3, <1>4, <1>5
  DEF Init, IInv, CrumbsAreEntries, BatchesOK, AckedIsStored,
      OnlyFaultsStrand

LEMMA Always == Spec => []IInv
<1> USE IngestAssumption, WriterAssumption
<1>1. Init => IInv
  BY Initially
<1>2. IInv /\ [Next]_vars => IInv'
  <2>1. SUFFICES ASSUME IInv, [Next]_vars PROVE IInv'
    OBVIOUS
  <2>2. CASE UNCHANGED vars
    <3>1. IngestInv' /\ UNCHANGED <<stream, writerVars>>
      BY <2>1, <2>2, IngestStays DEF IInv, vars, ingestVars
    <3> QED
      BY <2>1, <3>1
      DEF IInv, IngestInv, TypeOK, CrumbsAreEntries, BatchesOK,
          AckedIsStored, OnlyFaultsStrand, writerVars
  <2>3. ASSUME NEW k \in Keys, ProcessCall(k), UNCHANGED writerVars
        PROVE  IInv'
    BY <2>1, <2>3, IngestStepKeeps
  <2>4. ASSUME NEW w \in Writers, ProcessBatch(w) PROVE IInv'
    BY <2>1, <2>4, BeginKeeps, ReadGroupKeeps, InsertKeeps, AckKeeps
    DEF ProcessBatch
  <2>5. ASSUME NEW w \in Writers, FailPass(w) PROVE IInv'
    BY <2>1, <2>5, FailKeeps
  <2> QED  BY <2>1, <2>2, <2>3, <2>4, <2>5 DEF Next
<1> QED  BY <1>1, <1>2, PTL DEF Spec

(***************************************************************************)
(* Every variable of the ingest and of the writer keeps its type; in       *)
(* particular only what was handed out is pending or given up.             *)
(***************************************************************************)
THEOREM TypeCorrect == Spec => []TypeOK
  BY Always, PTL DEF IInv

(***************************************************************************)
(* No two entries of a shipment have one number: seq.service.ts takes it   *)
(* with INCR, and nobody else has it until the entry is in the stream.     *)
(***************************************************************************)
THEOREM NumbersAreUnique == Spec => []OneSeqEach
  BY Always, PTL DEF IInv, IngestInv

(***************************************************************************)
(* The hot state of ingest.service.ts never shows a point the filters      *)
(* dropped: its number is in the stream, or on its way, or lost.           *)
(***************************************************************************)
THEOREM HotShowsRecorded == Spec => []HotIsRecorded
  BY Always, PTL DEF IInv, IngestInv

(***************************************************************************)
(* What history-writer.worker.ts acknowledged has its breadcrumb, though   *)
(* createMany skips duplicates and every process is the same consumer.     *)
(***************************************************************************)
THEOREM AckedStored == Spec => []AckedIsStored
  BY Always, PTL DEF IInv

(***************************************************************************)
(* What is pending is in one process's batch or was in that of a pass      *)
(* that failed: as many processes as may run strand nothing by themselves. *)
(***************************************************************************)
THEOREM NothingElseStrands == Spec => []OnlyFaultsStrand
  BY Always, PTL DEF IInv
=============================================================================
