-------------------------- MODULE FieldSync_proofs --------------------------
(***************************************************************************)
(* Theorems about FieldSync for any mutations, kinds, batch size, number   *)
(* of calls and faults: types, and that nothing is shown as synced or kept *)
(* as answered that is not in the database with all its writes.  The       *)
(* invariant follows a mutation through a handler: of the one it writes,   *)
(* the writes before the next one are made, and what it reports is made.   *)
(* How often a write is made is bounded with the chances to make it again: *)
(* no step grows the two together by more than its fault or sign-out.      *)
(***************************************************************************)
EXTENDS FieldSync, FiniteSetTheorems, TLAPS

\* The number of writes of each kind; a refused mutation is the one without.
LEMMA WritesCount ==
  ASSUME NEW m \in Mutations
  PROVE  /\ Len(Writes(m)) \in 0..9
         /\ Kind[m] = "refused" <=> Len(Writes(m)) = 0
<1>1. Kind[m] \in Kinds
  BY FieldAssumption
<1>3. CASE Kind[m] = "location"
  <2>1. Writes(m) = LocationWrites
    BY <1>3 DEF Writes
  <2>2. Len(Writes(m)) = 3
    BY <2>1 DEF LocationWrites
  <2> QED BY <1>3, <2>2
<1>4. CASE Kind[m] = "stop"
  <2>1. Writes(m) = StopWrites
    BY <1>4 DEF Writes
  <2>2. Len(Writes(m)) = 4
    BY <2>1 DEF StopWrites
  <2> QED BY <1>4, <2>2
<1>5. CASE Kind[m] = "scan"
  <2>1. Writes(m) = ScanWrites
    BY <1>5 DEF Writes
  <2>2. Len(Writes(m)) = 2
    BY <2>1 DEF ScanWrites
  <2> QED BY <1>5, <2>2
<1>6. CASE Kind[m] = "proof"
  <2>1. Writes(m) = ProofWrites
    BY <1>6 DEF Writes
  <2>2. Len(Writes(m)) = 6
    BY <2>1 DEF ProofWrites
  <2> QED BY <1>6, <2>2
<1>7. CASE Kind[m] = "cash"
  <2>1. Writes(m) = CashWrites
    BY <1>7 DEF Writes
  <2>2. Len(Writes(m)) = 9
    BY <2>1 DEF CashWrites
  <2> QED BY <1>7, <2>2
<1>8. CASE Kind[m] = "refused"
  <2>1. Writes(m) = << >>
    BY <1>8 DEF Writes
  <2>2. Len(Writes(m)) = 0
    BY <2>1
  <2> QED BY <1>8, <2>2
<1> QED BY <1>1, <1>3, <1>4, <1>5, <1>6, <1>7, <1>8 DEF Kinds

LEMMA InRange ==
  ASSUME NEW l \in 0..9, NEW i \in 1..l
  PROVE  i \in 1..9 /\ l # 0
OBVIOUS

LEMMA MostWrites == Len(CashWrites) = 9
BY DEF CashWrites

LEMMA OffTyped == Off \in Request
BY DEF Off, Request

LEMMA Initially == Init => IInv
<1> SUFFICES ASSUME Init PROVE IInv
  OBVIOUS
<1>1. TypeOK
  BY OffTyped DEF Init, TypeOK, States
<1>2. ReportedWasMade /\ StepsWereMade
  BY DEF Init, ReportedWasMade, StepsWereMade, Off
<1>3. SyncedWasMade
  BY DEF Init, SyncedWasMade
<1> QED BY <1>1, <1>2, <1>3 DEF IInv

-----------------------------------------------------------------------------
(* The app: calls are started, kept or ended, and nothing new is synced. *)

\* What a call can be replaced with without reporting or writing anything:
\* one that is off or about to look up its first mutation, or itself, no
\* longer awaited.
Harmless(c, d) ==
  /\ d \in Request
  /\ \/ /\ d.ok = {} /\ d.at = {} /\ d.step = 1
        /\ d.pc \in {"off", "find"}
     \/ /\ d.ok = c.ok /\ d.at = c.at /\ d.step = c.step /\ d.pc = c.pc

LEMMA CallsKeep ==
  ASSUME IInv, request' \in [Requests -> Request],
         \A r \in Requests : Harmless(request[r], request'[r]),
         UNCHANGED done
  PROVE  ReportedWasMade' /\ StepsWereMade'
<1>1. ReportedWasMade'
  BY DEF IInv, ReportedWasMade, Harmless, Made
<1>2. StepsWereMade'
  BY DEF IInv, StepsWereMade, Harmless
<1> QED BY <1>1, <1>2

LEMMA SameCalls ==
  ASSUME IInv
  PROVE  \A r \in Requests : Harmless(request[r], request[r])
BY DEF IInv, TypeOK, Harmless

LEMMA SyncedKeeps ==
  ASSUME IInv,
         \A m \in Mutations : state'[m] = "synced" => state[m] = "synced",
         \A m \in Mutations : key'[m] = "stored" => key[m] = "stored",
         UNCHANGED done
  PROVE  SyncedWasMade'
BY DEF IInv, SyncedWasMade, Made

LEMMA RecordKeeps ==
  ASSUME IInv, NEW m \in Mutations, Record(m)
  PROVE  IInv'
<1>1. Cardinality({n \in Mutations : state[n] # "unborn"}) \in Nat
  BY FieldAssumption, FS_Subset, FS_CardinalityType
<1>2. TypeOK'
  BY <1>1 DEF Record, IInv, TypeOK, States
<1>3. \A n \in Mutations : state'[n] = "synced" => state[n] = "synced"
  BY DEF Record, IInv, TypeOK
<1>4. request' \in [Requests -> Request]
  BY <1>2 DEF TypeOK
<1> QED BY <1>2, <1>3, <1>4, SameCalls, CallsKeep, SyncedKeeps
        DEF Record, IInv

LEMMA StartSyncKeeps ==
  ASSUME IInv, NEW r \in Requests, StartSync(r)
  PROVE  IInv'
<1> DEFINE call == [Off EXCEPT !.pc = "find", !.awaited = TRUE,
                               !.batch = Batch, !.todo = Batch]
<1>1. Batch \subseteq Mutations
  BY DEF Batch, IInv, TypeOK
<1>2. /\ call \in Request
      /\ call.ok = {} /\ call.at = {} /\ call.step = 1 /\ call.pc = "find"
  BY <1>1 DEF Off, Request
<1>3. request' = [request EXCEPT ![r] = call]
  BY DEF StartSync
<1>4. /\ request' \in [Requests -> Request]
      /\ \A q \in Requests : Harmless(request[q], request'[q])
  BY <1>2, <1>3, SameCalls DEF IInv, TypeOK, Harmless
<1>5. TypeOK'
  BY <1>1, <1>4 DEF StartSync, IInv, TypeOK, States
<1>6. \A m \in Mutations : state'[m] = "synced" => state[m] = "synced"
  BY DEF StartSync
<1> QED BY <1>4, <1>5, <1>6, CallsKeep, SyncedKeeps DEF StartSync, IInv

LEMMA CallOff ==
  ASSUME IInv, NEW r \in Requests, request' = [request EXCEPT ![r] = Off]
  PROVE  /\ request' \in [Requests -> Request]
         /\ \A q \in Requests : Harmless(request[q], request'[q])
<1>1. Off.ok = {} /\ Off.at = {} /\ Off.step = 1 /\ Off.pc = "off"
  BY DEF Off
<1> QED BY <1>1, OffTyped, SameCalls DEF IInv, TypeOK, Harmless

LEMMA AnswerKeeps ==
  ASSUME IInv, NEW r \in Requests, Answer(r)
  PROVE  IInv'
<1> DEFINE c == request[r]
<1>1. /\ request' \in [Requests -> Request]
      /\ \A q \in Requests : Harmless(request[q], request'[q])
  BY CallOff DEF Answer
<1>2. \A m \in Mutations :
        state'[m] = IF m \in Kept(c.ok) THEN "synced"
                    ELSE IF m \in Kept(c.batch \ c.ok) THEN "failed"
                    ELSE state[m]
  BY DEF Answer, Kept
<1>3. state' \in [Mutations -> States]
  <2>1. state' = [m \in Mutations |-> state'[m]]
    BY DEF Answer
  <2>2. \A m \in Mutations : state'[m] \in States
    BY <1>2 DEF IInv, TypeOK, States
  <2> QED BY <2>1, <2>2
<1>4. TypeOK'
  BY <1>1, <1>3 DEF Answer, IInv, TypeOK
<1>5. SyncedWasMade'
  <2>1. \A m \in Mutations : state'[m] = "synced"
                               => m \in c.ok \/ state[m] = "synced"
    BY <1>2 DEF Kept
  <2> QED BY <2>1 DEF Answer, IInv, SyncedWasMade, ReportedWasMade, Made
<1> QED BY <1>1, <1>4, <1>5, CallsKeep DEF Answer, IInv

LEMMA NoLongerAwaited ==
  ASSUME IInv, NEW r \in Requests
  PROVE  /\ [request[r] EXCEPT !.awaited = FALSE] \in Request
         /\ Harmless(request[r], [request[r] EXCEPT !.awaited = FALSE])
         /\ Harmless(request[r], Off)
<1>1. request[r] \in Request
  BY DEF IInv, TypeOK
<1>2. Off.ok = {} /\ Off.at = {} /\ Off.step = 1 /\ Off.pc = "off"
  BY DEF Off
<1> QED BY <1>1, <1>2, OffTyped DEF Request, Harmless

LEMMA GiveUpKeeps ==
  ASSUME IInv, NEW r \in Requests, GiveUp(r)
  PROVE  IInv'
<1> DEFINE c == request[r]
           call == IF c.pc = "off" THEN Off ELSE [c EXCEPT !.awaited = FALSE]
<1>1. call \in Request /\ Harmless(c, call)
  BY NoLongerAwaited, OffTyped
<1>2. request' = [request EXCEPT ![r] = call]
  BY DEF GiveUp
<1>3. /\ request' \in [Requests -> Request]
      /\ \A q \in Requests : Harmless(request[q], request'[q])
  BY <1>1, <1>2, SameCalls DEF IInv, TypeOK
<1>4. TypeOK'
  <2>1. state' \in [Mutations -> States]
    BY DEF GiveUp, IInv, TypeOK, States
  <2>2. syncing' \in BOOLEAN
    BY Zenon DEF GiveUp, IInv, TypeOK
  <2>3. faults' \in Nat
    BY DEF GiveUp, IInv, TypeOK
  <2> QED BY <1>3, <2>1, <2>2, <2>3 DEF GiveUp, IInv, TypeOK
<1>5. \A m \in Mutations : state'[m] = "synced" => state[m] = "synced"
  BY DEF GiveUp
<1> QED BY <1>3, <1>4, <1>5, CallsKeep, SyncedKeeps DEF GiveUp, IInv

LEMMA DropTyped ==
  ASSUME IInv, NEW M, NEW as \in {"lost", "dropped"}, Drop(M, as)
  PROVE  /\ queue' \subseteq Mutations
         /\ state' \in [Mutations -> States]
         /\ \A m \in Mutations : state'[m] = "synced" => state[m] = "synced"
BY DEF Drop, IInv, TypeOK, States

LEMMA RestartKeeps ==
  ASSUME IInv, Restart
  PROVE  IInv'
<1>1. /\ request' \in [Requests -> Request]
      /\ \A q \in Requests : Harmless(request[q], request'[q])
  BY NoLongerAwaited, OffTyped DEF Restart
<1>2. /\ queue' \subseteq Mutations
      /\ state' \in [Mutations -> States]
      /\ \A m \in Mutations : state'[m] = "synced" => state[m] = "synced"
  BY DropTyped DEF Restart, IInv, TypeOK
<1>3. TypeOK'
  <2>1. syncing' \in BOOLEAN
    BY Zenon DEF Restart, IInv, TypeOK
  <2>2. faults' \in Nat
    BY DEF Restart, Fault, IInv, TypeOK
  <2> QED BY <1>1, <1>2, <2>1, <2>2 DEF Restart, IInv, TypeOK
<1> QED BY <1>1, <1>2, <1>3, CallsKeep, SyncedKeeps DEF Restart, IInv

LEMMA ClearKeeps ==
  ASSUME IInv, Clear \/ SignOut
  PROVE  IInv'
<1>1. \E M : Drop(M, "dropped")
  BY DEF Clear, SignOut
<1>2. /\ queue' \subseteq Mutations
      /\ state' \in [Mutations -> States]
      /\ \A m \in Mutations : state'[m] = "synced" => state[m] = "synced"
  BY <1>1, DropTyped
<1>3. TypeOK'
  <2>1. syncing' \in BOOLEAN
    BY Zenon DEF Clear, SignOut, IInv, TypeOK
  <2>2. faults' \in Nat /\ signOuts' \in Nat
    BY DEF Clear, SignOut, IInv, TypeOK
  <2>3. UNCHANGED <<born, key, request, done>>
    BY DEF Clear, SignOut
  <2> QED BY <1>2, <2>1, <2>2, <2>3 DEF IInv, TypeOK
<1>4. request' \in [Requests -> Request]
  BY <1>3 DEF TypeOK
<1> QED BY <1>2, <1>3, <1>4, SameCalls, CallsKeep, SyncedKeeps
        DEF Clear, SignOut, IInv

-----------------------------------------------------------------------------
(* The server. *)

LEMMA CallTyped ==
  ASSUME TypeOK, NEW r \in Requests
  PROVE  /\ request[r] \in Request
         /\ request[r].batch \subseteq Mutations
         /\ request[r].todo \subseteq Mutations
         /\ request[r].at \subseteq Mutations
         /\ request[r].ok \subseteq Mutations
         /\ request[r].step \in Nat
         /\ request[r].awaited \in BOOLEAN
BY DEF TypeOK, Request

LEMMA MadeStays ==
  ASSUME TypeOK, NEW m \in Mutations, Made(m), UNCHANGED done
  PROVE  Made(m)'
BY DEF Made

\* What replaces the call of a handler that is at m, or was.
LEMMA HandlerKeeps ==
  ASSUME IInv, NEW r \in Requests, NEW d \in Request,
         request' = [request EXCEPT ![r] = d],
         UNCHANGED done,
         \A m \in d.ok : Kind[m] # "refused" /\ Made(m),
         d.pc \in {"write", "store"} \/ d.step = 1,
         d.pc = "store" => d.at \subseteq d.ok,
         \A m, n \in d.at : m = n,
         \A m \in d.at : \A i \in 1..Len(CashWrites) :
           i < d.step => done[m][i] >= 1
  PROVE  /\ request' \in [Requests -> Request]
         /\ ReportedWasMade' /\ StepsWereMade'
<1>1. /\ request'[r] = d
      /\ \A q \in Requests \ {r} : request'[q] = request[q]
      /\ request' \in [Requests -> Request]
  BY DEF IInv, TypeOK
<1>2. ReportedWasMade'
  BY <1>1 DEF IInv, ReportedWasMade, Made
<1>3. StepsWereMade'
  BY <1>1 DEF IInv, StepsWereMade
<1> QED BY <1>1, <1>2, <1>3

LEMMA AdvanceKeeps ==
  ASSUME IInv, NEW r \in Requests, NEW m \in Mutations,
         NEW reported \in SUBSET {m},
         \A n \in reported : Kind[n] # "refused" /\ Made(n),
         Advance(r, m, reported), UNCHANGED done
  PROVE  /\ request' \in [Requests -> Request]
         /\ ReportedWasMade' /\ StepsWereMade'
<1> DEFINE c == request[r]
           d == [c EXCEPT !.ok = c.ok \cup reported, !.todo = c.todo \ {m},
                   !.at = {}, !.step = 1,
                   !.pc = IF c.todo = {m} THEN "reply" ELSE "find"]
<1>1. c \in Request
  BY CallTyped DEF IInv
<1>2. /\ d \in Request
      /\ d.ok = c.ok \cup reported /\ d.at = {} /\ d.step = 1
      /\ d.pc \in {"reply", "find"}
  BY <1>1 DEF Request
<1>3. request' = [request EXCEPT ![r] = d]
  BY DEF Advance
<1>4. \A n \in d.ok : Kind[n] # "refused" /\ Made(n)
  BY <1>2 DEF IInv, ReportedWasMade
<1> HIDE DEF d
<1> QED BY <1>2, <1>3, <1>4, HandlerKeeps

LEMMA GoToKeeps ==
  ASSUME IInv, NEW r \in Requests, NEW m \in Mutations,
         NEW pc \in {"create", "write"}, GoTo(r, m, pc), UNCHANGED done,
         request[r].step = 1
  PROVE  /\ request' \in [Requests -> Request]
         /\ ReportedWasMade' /\ StepsWereMade'
<1> DEFINE c == request[r]
           d == [c EXCEPT !.pc = pc, !.at = {m}]
<1>1. c \in Request
  BY CallTyped DEF IInv
<1>2. /\ d \in Request
      /\ d.ok = c.ok /\ d.at = {m} /\ d.step = 1 /\ d.pc = pc
  BY <1>1 DEF Request
<1>3. request' = [request EXCEPT ![r] = d]
  BY DEF GoTo
<1>4. \A n \in d.ok : Kind[n] # "refused" /\ Made(n)
  BY <1>2 DEF IInv, ReportedWasMade
<1>5. \A n \in d.at : \A i \in 1..Len(CashWrites) :
        i < d.step => done[n][i] >= 1
  BY <1>2, MostWrites
<1> HIDE DEF d
<1> QED BY <1>2, <1>3, <1>4, <1>5, HandlerKeeps

\* A step that keeps the calls' parts of the invariant, the app's state, and
\* every key but one that it begins or forgets.
LEMMA ServerKeeps ==
  ASSUME IInv, request' \in [Requests -> Request],
         ReportedWasMade', StepsWereMade',
         key' \in [Mutations -> {"none", "begun", "stored"}],
         \A m \in Mutations : key'[m] = "stored" => key[m] = "stored",
         UNCHANGED <<queue, born, state, syncing, done, signOuts>>,
         faults' \in Nat
  PROVE  IInv'
<1>1. TypeOK'
  BY DEF IInv, TypeOK
<1> QED BY <1>1, SyncedKeeps DEF IInv

LEMMA FaultsTyped ==
  ASSUME TypeOK
  PROVE  faults \in Nat /\ faults + 1 \in Nat
BY DEF TypeOK

LEMMA FindKeeps ==
  ASSUME IInv, NEW r \in Requests, NEW m \in Mutations, Find(r, m)
  PROVE  IInv'
<1>1. request[r].step = 1
  BY DEF Find, At, IInv, StepsWereMade
<1>2. /\ request' \in [Requests -> Request]
      /\ ReportedWasMade' /\ StepsWereMade'
  <2>1. CASE key[m] = "stored" /\ Advance(r, m, {m})
    <3>1. Kind[m] # "refused" /\ Made(m)
      BY <2>1 DEF IInv, SyncedWasMade
    <3> QED BY <2>1, <3>1, AdvanceKeeps DEF Find
  <2>2. CASE GoTo(r, m, "write")
    BY <1>1, <2>2, GoToKeeps DEF Find
  <2>3. CASE GoTo(r, m, "create")
    BY <1>1, <2>3, GoToKeeps DEF Find
  <2> QED BY <2>1, <2>2, <2>3 DEF Find
<1>3. /\ UNCHANGED <<queue, born, state, syncing, key, done, signOuts>>
      /\ faults' \in Nat
  BY FaultsTyped DEF Find, IInv
<1>4. key' \in [Mutations -> {"none", "begun", "stored"}]
  BY <1>3 DEF IInv, TypeOK
<1> QED BY <1>2, <1>3, <1>4, ServerKeeps

LEMMA CreateKeeps ==
  ASSUME IInv, NEW r \in Requests, NEW m \in Mutations, Create(r, m)
  PROVE  IInv'
<1>1. request[r].step = 1
  BY DEF Create, At, IInv, StepsWereMade
<1>2. /\ request' \in [Requests -> Request]
      /\ ReportedWasMade' /\ StepsWereMade'
  <2>1. CASE GoTo(r, m, "write")
    BY <1>1, <2>1, GoToKeeps DEF Create
  <2>2. CASE Advance(r, m, {})
    BY <2>2, AdvanceKeeps DEF Create
  <2> QED BY <2>1, <2>2 DEF Create
<1>3. /\ key' \in [Mutations -> {"none", "begun", "stored"}]
      /\ \A n \in Mutations : key'[n] = "stored" => key[n] = "stored"
  BY DEF Create, IInv, TypeOK
<1>4. /\ UNCHANGED <<queue, born, state, syncing, done, signOuts>>
      /\ faults' \in Nat
  BY FaultsTyped DEF Create, IInv
<1> QED BY <1>2, <1>3, <1>4, ServerKeeps

LEMMA GivesUpKeeps ==
  ASSUME IInv, NEW r \in Requests, NEW m \in Mutations,
         Refuse(r, m) \/ QueryFails(r, m)
  PROVE  IInv'
<1>1. /\ Advance(r, m, {})
      /\ UNCHANGED <<queue, born, state, syncing, key, done, signOuts>>
      /\ faults' \in Nat
  BY FaultsTyped DEF Refuse, QueryFails, Fault, IInv
<1>2. /\ request' \in [Requests -> Request]
      /\ ReportedWasMade' /\ StepsWereMade'
  BY <1>1, AdvanceKeeps
<1>3. key' \in [Mutations -> {"none", "begun", "stored"}]
  BY <1>1 DEF IInv, TypeOK
<1> QED BY <1>1, <1>2, <1>3, ServerKeeps

LEMMA StoreKeeps ==
  ASSUME IInv, NEW r \in Requests, NEW m \in Mutations,
         Handles(r, m), Store(r, m)
  PROVE  IInv'
<1>1. Kind[m] # "refused" /\ Made(m)
  <2>1. m \in request[r].at /\ request[r].pc = "store"
    BY DEF Store, Handles, At
  <2>2. m \in request[r].ok
    BY <2>1 DEF IInv, StepsWereMade
  <2> QED BY <2>2 DEF IInv, ReportedWasMade
<1>2. /\ request' \in [Requests -> Request]
      /\ ReportedWasMade' /\ StepsWereMade'
  BY AdvanceKeeps DEF Store
<1>3. /\ key' \in [Mutations -> {"none", "begun", "stored"}]
      /\ \A n \in Mutations : key'[n] = "stored" => key[n] = "stored" \/ n = m
  BY DEF Store, IInv, TypeOK
<1>4. UNCHANGED <<queue, born, state, syncing, done, faults, signOuts>>
  BY DEF Store
<1>5. TypeOK'
  BY <1>2, <1>3, <1>4 DEF IInv, TypeOK
<1>6. SyncedWasMade'
  BY <1>1, <1>3, <1>4 DEF IInv, SyncedWasMade, Made
<1> QED BY <1>2, <1>5, <1>6 DEF IInv

LEMMA LeaveKeeps ==
  ASSUME IInv, NEW r \in Requests, Discard(r) \/ Die(r)
  PROVE  IInv'
<1> DEFINE dead == [Off EXCEPT !.awaited = TRUE, !.batch = request[r].batch]
<1>1. PICK d \in {Off, dead} : request' = [request EXCEPT ![r] = d]
  BY DEF Discard, Die
<1>2. request[r].batch \subseteq Mutations
  BY CallTyped DEF IInv
<1>3. /\ d \in Request
      /\ d.ok = {} /\ d.at = {} /\ d.step = 1 /\ d.pc = "off"
  <2>1. CASE d = Off
    BY <2>1 DEF Off, Request
  <2>2. CASE d = dead
    BY <1>2, <2>2 DEF Off, Request
  <2> QED BY <2>1, <2>2
<1>4. /\ UNCHANGED <<queue, born, state, syncing, key, done, signOuts>>
      /\ faults' \in Nat
  BY FaultsTyped DEF Discard, Die, Fault, IInv
<1>5. /\ request' \in [Requests -> Request]
      /\ ReportedWasMade' /\ StepsWereMade'
  BY <1>1, <1>3, <1>4, HandlerKeeps
<1>6. key' \in [Mutations -> {"none", "begun", "stored"}]
  BY <1>4 DEF IInv, TypeOK
<1> QED BY <1>4, <1>5, <1>6, ServerKeeps

LEMMA ExpireKeeps ==
  ASSUME IInv, NEW m \in Mutations, Expire(m)
  PROVE  IInv'
<1>1. /\ key' \in [Mutations -> {"none", "begun", "stored"}]
      /\ \A n \in Mutations : key'[n] = "stored" => key[n] = "stored"
  BY DEF Expire, Fault, IInv, TypeOK
<1>2. UNCHANGED <<queue, born, state, syncing, request, done, signOuts>>
      /\ faults' \in Nat
  BY FaultsTyped DEF Expire, Fault, IInv
<1>3. request' \in [Requests -> Request]
  BY <1>2 DEF IInv, TypeOK
<1>4. ReportedWasMade' /\ StepsWereMade'
  BY <1>2, <1>3, SameCalls, CallsKeep
<1> QED BY <1>1, <1>2, <1>3, <1>4, ServerKeeps

LEMMA WriteKeeps ==
  ASSUME IInv, NEW r \in Requests, NEW m \in Mutations,
         Handles(r, m), Write(r, m)
  PROVE  IInv'
<1> DEFINE c == request[r]
           i == c.step
           d == IF i < Len(Writes(m)) THEN [c EXCEPT !.step = i + 1]
                ELSE [c EXCEPT !.pc = "store", !.ok = c.ok \cup {m}]
<1>1. /\ c.pc = "write" /\ m \in c.at /\ c \in Request
      /\ i \in 1..Len(Writes(m)) /\ i \in 1..Len(CashWrites)
      /\ Len(Writes(m)) \in Nat /\ Kind[m] # "refused"
  <2>1. c.pc = "write" /\ m \in c.at /\ c \in Request
    BY CallTyped DEF Write, Handles, At, IInv
  <2>2. i \in 1..Len(Writes(m))
    BY DEF Write
  <2>3. /\ Len(Writes(m)) \in 0..9
        /\ Kind[m] = "refused" <=> Len(Writes(m)) = 0
    BY WritesCount
  <2>4. i \in 1..9 /\ Len(Writes(m)) # 0
    BY ONLY <2>2, <2>3, InRange
  <2> QED BY <2>1, <2>2, <2>3, <2>4, MostWrites
<1>2. /\ request' = [request EXCEPT ![r] = d]
      /\ done' = [done EXCEPT ![m][i] = @ + 1]
      /\ UNCHANGED <<queue, born, state, syncing, key, faults, signOuts>>
  BY DEF Write
<1>3. /\ done' \in [Mutations -> [1..Len(CashWrites) -> Nat]]
      /\ done'[m][i] >= 1
      /\ \A n \in Mutations, j \in 1..Len(CashWrites) :
           done'[n][j] >= done[n][j]
  <2>1. done[m][i] \in Nat /\ done[m] \in [1..Len(CashWrites) -> Nat]
    BY <1>1 DEF IInv, TypeOK
  <2>2. done'[m] = [done[m] EXCEPT ![i] = done[m][i] + 1]
    BY <1>2 DEF IInv, TypeOK
  <2>3. \A n \in Mutations \ {m} : done'[n] = done[n]
    BY <1>2 DEF IInv, TypeOK
  <2>4. done'[m] \in [1..Len(CashWrites) -> Nat] /\ done'[m][i] >= 1
    BY <1>1, <2>1, <2>2
  <2>5. done' \in [Mutations -> [1..Len(CashWrites) -> Nat]]
    <3>1. done' = [done EXCEPT ![m] = done'[m]]
      BY <1>2 DEF IInv, TypeOK
    <3> QED BY <2>4, <3>1 DEF IInv, TypeOK
  <2>6. \A n \in Mutations, j \in 1..Len(CashWrites) :
          done[n][j] \in Nat
    BY DEF IInv, TypeOK
  <2>7. \A j \in 1..Len(CashWrites) : done'[m][j] >= done[m][j]
    BY <1>1, <2>1, <2>2, <2>6
  <2> QED BY <2>3, <2>4, <2>5, <2>6, <2>7
<1>4. \A n \in Mutations : Made(n) => Made(n)'
  <2>1. ASSUME NEW n \in Mutations, Made(n), NEW j \in 1..Len(Writes(n))
        PROVE  done'[n][j] >= 1
    <3>1. j \in 1..Len(CashWrites)
      <4>1. Len(Writes(n)) \in 0..9
        BY WritesCount
      <4>2. j \in 1..9
        BY <4>1, InRange
      <4> QED BY <4>2, MostWrites
    <3>2. done[n][j] \in Nat /\ done'[n][j] \in Nat
      BY <1>3, <3>1 DEF IInv, TypeOK
    <3> QED BY <1>3, <2>1, <3>1, <3>2 DEF Made
  <2> QED BY <2>1 DEF Made
<1>5. /\ d \in Request
      /\ d.at = c.at
      /\ \/ /\ i < Len(Writes(m))
            /\ d.step = i + 1 /\ d.ok = c.ok /\ d.pc = "write"
         \/ /\ i = Len(Writes(m))
            /\ d.step = i /\ d.ok = c.ok \cup {m} /\ d.pc = "store"
  <2>1. /\ c.ok \cup {m} \in SUBSET Mutations /\ i + 1 \in Nat
        /\ i <= Len(Writes(m)) /\ i \in Nat
    BY <1>1 DEF Request
  <2>2. CASE i < Len(Writes(m))
    <3>1. d = [c EXCEPT !.step = i + 1]
      BY <2>2
    <3> QED BY <1>1, <2>1, <2>2, <3>1 DEF Request
  <2>3. CASE ~(i < Len(Writes(m)))
    <3>1. d = [c EXCEPT !.pc = "store", !.ok = c.ok \cup {m}]
      BY <2>3
    <3>2. i = Len(Writes(m))
      BY <1>1, <2>1, <2>3
    <3> QED BY <1>1, <2>1, <3>1, <3>2 DEF Request
  <2> QED BY <2>2, <2>3
<1>6. /\ request'[r] = d
      /\ \A q \in Requests \ {r} : request'[q] = request[q]
      /\ request' \in [Requests -> Request]
  BY <1>2, <1>5 DEF IInv, TypeOK
\* The writes before the next one.
<1>7. \A j \in 1..Len(CashWrites) : j <= i => done'[m][j] >= 1
  <2>1. ASSUME NEW j \in 1..Len(CashWrites), j < i
        PROVE  done'[m][j] >= 1
    <3>1. done[m][j] >= 1
      BY <1>1, <2>1 DEF IInv, StepsWereMade
    <3>2. done[m][j] \in Nat /\ done'[m][j] \in Nat
      BY <1>3 DEF IInv, TypeOK
    <3> QED BY <1>3, <3>1, <3>2
  <2> QED BY <1>1, <1>3, <2>1
<1>8. i = Len(Writes(m)) => Made(m)'
  <2>1. Len(Writes(m)) \in 0..9
    BY WritesCount
  <2>2. \A j \in 1..Len(Writes(m)) : j \in 1..Len(CashWrites)
    BY <2>1, InRange, MostWrites
  <2> QED BY <1>7, <2>1, <2>2 DEF Made
<1> HIDE DEF d
<1>9. TypeOK'
  BY <1>2, <1>3, <1>6 DEF IInv, TypeOK
<1>10. ReportedWasMade'
  <2>1. ASSUME NEW q \in Requests, NEW n \in request'[q].ok
        PROVE  Kind[n] # "refused" /\ Made(n)'
    <3>1. CASE n \in request[q].ok
      <4>1. n \in Mutations
        BY <3>1, CallTyped DEF IInv
      <4> QED BY <1>4, <3>1, <4>1 DEF IInv, ReportedWasMade
    <3>2. CASE n \notin request[q].ok
      <4>1. q = r /\ n = m /\ i = Len(Writes(m))
        BY <1>5, <1>6, <2>1, <3>2
      <4> QED BY <1>1, <1>8, <4>1
    <3> QED BY <3>1, <3>2
  <2> QED BY <2>1 DEF ReportedWasMade
<1>11. StepsWereMade'
  <2>1. ASSUME NEW q \in Requests \ {r}
        PROVE  \A n \in request'[q].at : \A j \in 1..Len(CashWrites) :
                 j < request'[q].step => done'[n][j] >= 1
    <3>1. ASSUME NEW n \in request[q].at, NEW j \in 1..Len(CashWrites),
                 j < request[q].step
          PROVE  done'[n][j] >= 1
      <4>1. n \in Mutations
        BY CallTyped DEF IInv
      <4>2. done[n][j] >= 1
        BY <3>1 DEF IInv, StepsWereMade
      <4>3. done[n][j] \in Nat /\ done'[n][j] \in Nat
        BY <1>3, <4>1 DEF IInv, TypeOK
      <4> QED BY <1>3, <4>1, <4>2, <4>3
    <3> QED BY <1>6, <3>1
  <2>2. \A n \in d.at : n = m
    BY <1>1, <1>5 DEF IInv, StepsWereMade
  <2>3. \A n \in d.at : \A j \in 1..Len(CashWrites) :
          j < d.step => done'[n][j] >= 1
    <3>1. \A j \in 1..Len(CashWrites) : j < d.step => j <= i
      BY <1>1, <1>5
    <3> QED BY <1>7, <2>2, <3>1
  <2>4. /\ d.pc \in {"write", "store"}
        /\ d.pc = "store" => d.at \subseteq d.ok
    BY <1>5, <2>2
  <2> QED BY <1>6, <2>1, <2>2, <2>3, <2>4 DEF IInv, StepsWereMade
<1>12. SyncedWasMade'
  BY <1>2, <1>4 DEF IInv, SyncedWasMade
<1> QED BY <1>9, <1>10, <1>11, <1>12 DEF IInv

LEMMA StutterKeeps ==
  ASSUME IInv, UNCHANGED vars
  PROVE  IInv'
BY DEF vars, IInv, TypeOK, ReportedWasMade, StepsWereMade, SyncedWasMade,
       Made

LEMMA NextKeeps ==
  ASSUME IInv, [Next]_vars
  PROVE  IInv'
<1>1. ASSUME NEW m \in Mutations, Record(m) \/ Expire(m)
      PROVE  IInv'
  BY <1>1, RecordKeeps, ExpireKeeps
<1>2. ASSUME NEW r \in Requests, App(r)
      PROVE  IInv'
  BY <1>2, StartSyncKeeps, AnswerKeeps, GiveUpKeeps DEF App
<1>3. ASSUME NEW r \in Requests, NEW m \in Mutations, Handles(r, m),
             Process(r, m) \/ QueryFails(r, m)
      PROVE  IInv'
  BY <1>3, FindKeeps, CreateKeeps, GivesUpKeeps, WriteKeeps, StoreKeeps
     DEF Process
<1>4. ASSUME NEW r \in Requests, Discard(r) \/ Die(r)
      PROVE  IInv'
  BY <1>4, LeaveKeeps
<1>5. CASE Restart \/ Clear \/ SignOut
  BY <1>5, RestartKeeps, ClearKeeps
<1> QED BY <1>1, <1>2, <1>3, <1>4, <1>5, StutterKeeps DEF Next, Handle

-----------------------------------------------------------------------------
(* How often a write is made.  A step changes one call, or takes all of     *)
(* them from the app, and the chances to make a write once more do not     *)
(* grow by more than the bound does.                                       *)

Bound == (1 + signOuts) * (1 + faults)

LEMMA Products ==
  ASSUME NEW s \in Nat, NEW f \in Nat
  PROVE  /\ (1 + s) * (1 + f) \in Nat
         /\ (1 + s) * (1 + (f + 1)) = (1 + s) * (1 + f) + 1 + s
         /\ (1 + (s + 1)) * (1 + f) = (1 + s) * (1 + f) + 1 + f
OBVIOUS

\* Sums of which one part makes up for what another loses.
LEMMA SharesAdd ==
  \A d, e, c, b, s, t, x, y, g \in Nat :
    /\ c + s <= b + t /\ e + t <= d + s + g
    /\ d + b <= x /\ y >= x + g
    => e + c <= y
OBVIOUS

LEMMA GainAdds ==
  /\ \A d, s, t, g \in Nat : t <= s + g => d + t <= d + s + g
  /\ \A d, c, e, x, y, g \in Nat :
       d + c <= x /\ e <= c + g /\ y >= x + g => d + e <= y
OBVIOUS

LEMMA BoundGrows ==
  ASSUME TypeOK, TypeOK'
  PROVE  /\ Bound \in Nat /\ Bound' \in Nat
         /\ faults' = faults /\ signOuts' = signOuts => Bound' = Bound
         /\ faults' = faults + 1 /\ signOuts' = signOuts
              => Bound' = Bound + 1 + signOuts
         /\ faults' = faults /\ signOuts' = signOuts + 1
              => Bound' = Bound + 1 + faults
<1>1. signOuts \in Nat /\ faults \in Nat /\ signOuts' \in Nat /\ faults' \in Nat
  BY DEF TypeOK
<1>2. Bound \in Nat /\ Bound' \in Nat
  BY <1>1, Products DEF Bound
<1>3. ASSUME faults' = faults + 1, signOuts' = signOuts
      PROVE  Bound' = Bound + 1 + signOuts
  BY <1>1, <1>3, Products DEF Bound
<1>4. ASSUME faults' = faults, signOuts' = signOuts + 1
      PROVE  Bound' = Bound + 1 + faults
  BY <1>1, <1>4, Products DEF Bound
<1>5. faults' = faults /\ signOuts' = signOuts => Bound' = Bound
  BY DEF Bound
<1> QED BY <1>2, <1>3, <1>4, <1>5

LEMMA CallsFinite ==
  /\ IsFiniteSet(Awaited) /\ IsFiniteSet(Awaited')
  /\ \A m, i : /\ IsFiniteSet(NowCalls(m, i)) /\ IsFiniteSet(NowCalls(m, i)')
               /\ IsFiniteSet(AgainCalls(m)) /\ IsFiniteSet(AgainCalls(m)')
<1>1. \A S : S \subseteq Requests => IsFiniteSet(S)
  BY FieldAssumption, FS_Subset
<1>2. Awaited \subseteq Requests /\ Awaited' \subseteq Requests
  BY DEF Awaited
<1>3. \A m, i :
        /\ NowCalls(m, i) \subseteq Requests
        /\ NowCalls(m, i)' \subseteq Requests
        /\ AgainCalls(m) \subseteq Requests
        /\ AgainCalls(m)' \subseteq Requests
  BY DEF NowCalls, AgainCalls
<1> QED BY <1>1, <1>2, <1>3

\* A set of which only the membership of one element may grow.
LEMMA OneElement ==
  ASSUME NEW S, NEW T, IsFiniteSet(S), IsFiniteSet(T), NEW x,
         T \ {x} \subseteq S
  PROVE  /\ Cardinality(S) \in Nat /\ Cardinality(T) \in Nat
         /\ Cardinality(T) + One(x \in S) <= Cardinality(S) + One(x \in T)
<1> DEFINE R == S \ {x}
           U == T \ {x}
<1>1. Cardinality(S) \in Nat /\ Cardinality(T) \in Nat
  BY FS_CardinalityType
<1>2. /\ IsFiniteSet(R) /\ IsFiniteSet(U)
      /\ Cardinality(R) = IF x \in S THEN Cardinality(S) - 1
                                     ELSE Cardinality(S)
      /\ Cardinality(U) = IF x \in T THEN Cardinality(T) - 1
                                     ELSE Cardinality(T)
  BY FS_RemoveElement
<1>3. U \subseteq R
  OBVIOUS
<1>4. Cardinality(U) <= Cardinality(R)
  BY <1>2, <1>3, FS_Subset
<1>5. Cardinality(U) \in Nat /\ Cardinality(R) \in Nat
  BY <1>2, FS_CardinalityType
<1> HIDE DEF R, U
<1> QED BY <1>1, <1>2, <1>4, <1>5 DEF One

\* What one call and the app contribute to the chances.
Share(r, m, i) == One(Now(r, m, i)) + One(Again(r, m)) + One(Sendable(m))

LEMMA ShareTyped ==
  ASSUME NEW r, NEW m, NEW i
  PROVE  /\ Share(r, m, i) \in Nat /\ Share(r, m, i)' \in Nat
         /\ One(Sendable(m)) \in {0, 1} /\ One(Sendable(m))' \in {0, 1}
BY DEF Share, One

LEMMA OneCallShares ==
  ASSUME NEW r \in Requests, NEW m, NEW i,
         \A q \in Requests \ {r} : /\ Now(q, m, i)' => Now(q, m, i)
                                   /\ Again(q, m)' => Again(q, m)
  PROVE  /\ Chances(m, i) \in Nat /\ Chances(m, i)' \in Nat
         /\ Chances(m, i)' + Share(r, m, i) <= Chances(m, i) + Share(r, m, i)'
<1> DEFINE S == NowCalls(m, i)
           T == AgainCalls(m)
<1>1. S' \ {r} \subseteq S /\ T' \ {r} \subseteq T
  BY DEF NowCalls, AgainCalls
<1>2. /\ IsFiniteSet(S) /\ IsFiniteSet(S')
      /\ IsFiniteSet(T) /\ IsFiniteSet(T')
  BY CallsFinite
<1>3. /\ Cardinality(S) \in Nat /\ Cardinality(S') \in Nat
      /\ Cardinality(S') + One(r \in S) <= Cardinality(S) + One(r \in S')
  BY <1>1, <1>2, OneElement
<1>4. /\ Cardinality(T) \in Nat /\ Cardinality(T') \in Nat
      /\ Cardinality(T') + One(r \in T) <= Cardinality(T) + One(r \in T')
  BY <1>1, <1>2, OneElement
<1>5. /\ One(r \in S) = One(Now(r, m, i)) /\ One(r \in S') = One(Now(r, m, i))'
      /\ One(r \in T) = One(Again(r, m)) /\ One(r \in T') = One(Again(r, m))'
  BY DEF NowCalls, AgainCalls, One
<1>6. /\ Chances(m, i) = Cardinality(S) + Cardinality(T) + One(Sendable(m))
      /\ Chances(m, i)'
           = Cardinality(S') + Cardinality(T') + One(Sendable(m))'
  BY DEF Chances
<1>7. /\ One(Now(r, m, i)) \in Nat /\ One(Now(r, m, i))' \in Nat
      /\ One(Again(r, m)) \in Nat /\ One(Again(r, m))' \in Nat
      /\ One(Sendable(m)) \in Nat /\ One(Sendable(m))' \in Nat
  BY DEF One
<1> HIDE DEF S, T
<1> QED BY <1>3, <1>4, <1>5, <1>6, <1>7 DEF Share

\* A step that changes the call of r only: the write is made, or not, and the
\* bound makes up for what the share of r and the app grows by.
LEMMA OneCallBounded ==
  ASSUME RInv, TypeOK', NEW r \in Requests,
         NEW m \in Mutations, NEW i \in 1..Len(CashWrites),
         \A q \in Requests \ {r} : /\ Now(q, m, i)' => Now(q, m, i)
                                   /\ Again(q, m)' => Again(q, m),
         NEW gain \in Nat, Bound' >= Bound + gain,
         done'[m][i] + Share(r, m, i)' <= done[m][i] + Share(r, m, i) + gain
  PROVE  done'[m][i] + Chances(m, i)' <= Bound'
<1>1. done[m][i] \in Nat /\ done'[m][i] \in Nat
  BY DEF RInv, IInv, TypeOK
<1>2. /\ Chances(m, i) \in Nat /\ Chances(m, i)' \in Nat
      /\ Chances(m, i)' + Share(r, m, i) <= Chances(m, i) + Share(r, m, i)'
  BY OneCallShares
<1>3. Share(r, m, i) \in Nat /\ Share(r, m, i)' \in Nat
  BY ShareTyped
<1>4. done[m][i] + Chances(m, i) <= Bound
  BY DEF RInv, ChancesBounded, Bound
<1>5. Bound \in Nat /\ Bound' \in Nat
  BY BoundGrows DEF RInv, IInv
<1> QED
  BY ONLY SharesAdd, <1>1, <1>2, <1>3, <1>4, <1>5, gain \in Nat,
     Bound' >= Bound + gain,
     done'[m][i] + Share(r, m, i)' <= done[m][i] + Share(r, m, i) + gain

LEMMA BoundedAll ==
  ASSUME \A m \in Mutations, i \in 1..Len(CashWrites) :
           done'[m][i] + Chances(m, i)' <= Bound'
  PROVE  ChancesBounded'
BY DEF ChancesBounded, Bound

\* What has to hold of the key of a mutation for the chances of the calls that
\* stay as they are not to grow.
KeysOnward ==
  \A m \in Mutations : /\ key'[m] = "none" => key[m] = "none"
                       /\ key[m] = "stored" => key'[m] = "stored"

LEMMA OneCall ==
  ASSUME RInv, TypeOK', NEW r \in Requests, NEW d \in Request, Shaped(d),
         request' = [request EXCEPT ![r] = d],
         KeysOnward, UNCHANGED signOuts,
         One(d.awaited) + One(~syncing')
           <= One(request[r].awaited) + One(~syncing),
         NEW gain \in Nat, Bound' >= Bound + gain,
         \A m \in Mutations, i \in 1..Len(CashWrites) :
           done'[m][i] + Share(r, m, i)' <= done[m][i] + Share(r, m, i) + gain
  PROVE  CallsShaped' /\ SyncsBounded' /\ ChancesBounded'
<1>1. /\ request'[r] = d
      /\ \A q \in Requests \ {r} : request'[q] = request[q]
  BY DEF RInv, IInv, TypeOK
<1>2. CallsShaped'
  <2>1. \A q \in Requests : Shaped(request'[q])
    BY <1>1 DEF RInv, CallsShaped
  <2> QED BY <2>1 DEF CallsShaped, Shaped
<1>3. SyncsBounded'
  <2>1. Awaited' \ {r} \subseteq Awaited
    BY <1>1 DEF Awaited
  <2>2. /\ Cardinality(Awaited) \in Nat /\ Cardinality(Awaited') \in Nat
        /\ Cardinality(Awaited') + One(r \in Awaited)
             <= Cardinality(Awaited) + One(r \in Awaited')
    BY <2>1, CallsFinite, OneElement
  <2>3. /\ One(r \in Awaited) = One(request[r].awaited)
        /\ One(r \in Awaited') = One(d.awaited)
    BY <1>1 DEF Awaited, One
  <2>4. /\ One(request[r].awaited) \in Nat /\ One(d.awaited) \in Nat
        /\ One(~syncing) \in Nat /\ One(~syncing') \in Nat
        /\ One(~syncing)' = One(~syncing')
    BY DEF One
  <2>5. Cardinality(Awaited) + One(~syncing) <= 1 + signOuts
    BY DEF RInv, SyncsBounded
  <2>6. signOuts \in Nat
    BY DEF RInv, IInv, TypeOK
  <2>7. Cardinality(Awaited') + One(~syncing)' <= 1 + signOuts
    BY ONLY <2>2, <2>3, <2>4, <2>5, <2>6,
            One(d.awaited) + One(~syncing')
              <= One(request[r].awaited) + One(~syncing)
  <2> QED BY <2>7 DEF SyncsBounded
<1>4. ASSUME NEW m \in Mutations, NEW i \in 1..Len(CashWrites)
      PROVE  done'[m][i] + Chances(m, i)' <= Bound'
  <2>1. \A q \in Requests \ {r} : /\ Now(q, m, i)' => Now(q, m, i)
                                  /\ Again(q, m)' => Again(q, m)
    BY <1>1 DEF Now, Again, Writing, At, KeysOnward
  <2> QED BY <2>1, OneCallBounded
<1> QED BY <1>2, <1>3, <1>4, BoundedAll

\* Steps of the server that change neither the keys nor what is made: only
\* the share of the call can grow.
LEMMA ServerStep ==
  ASSUME RInv, TypeOK', NEW r \in Requests, NEW d \in Request, Shaped(d),
         request' = [request EXCEPT ![r] = d],
         d.awaited = request[r].awaited,
         UNCHANGED <<syncing, done, signOuts>>, KeysOnward,
         NEW gain \in {0, 1}, faults' = faults + gain,
         \A m \in Mutations, i \in 1..Len(CashWrites) :
           Share(r, m, i)' <= Share(r, m, i) + gain
  PROVE  CallsShaped' /\ SyncsBounded' /\ ChancesBounded'
<1>1. gain \in Nat /\ Bound' >= Bound + gain
  <2>1. faults \in Nat /\ signOuts \in Nat /\ Bound \in Nat
    BY BoundGrows DEF RInv, IInv, TypeOK
  <2>2. CASE gain = 0
    BY <2>1, <2>2, BoundGrows DEF RInv, IInv
  <2>3. CASE gain = 1
    BY <2>1, <2>3, BoundGrows DEF RInv, IInv
  <2> QED BY <2>2, <2>3
<1>2. One(d.awaited) + One(~syncing')
        <= One(request[r].awaited) + One(~syncing)
  <2>1. One(d.awaited) = One(request[r].awaited)
        /\ One(~syncing') = One(~syncing)
    BY DEF One
  <2>2. One(request[r].awaited) \in Nat /\ One(~syncing) \in Nat
    BY DEF One
  <2> QED BY <2>1, <2>2
<1>3. ASSUME NEW m \in Mutations, NEW i \in 1..Len(CashWrites)
      PROVE  done'[m][i] + Share(r, m, i)' <= done[m][i] + Share(r, m, i) + gain
  <2>1. done[m][i] \in Nat /\ done'[m][i] = done[m][i]
    BY DEF RInv, IInv, TypeOK
  <2>2. Share(r, m, i) \in Nat /\ Share(r, m, i)' \in Nat
    BY ShareTyped
  <2>3. Share(r, m, i)' <= Share(r, m, i) + gain
    OBVIOUS
  <2> QED BY ONLY GainAdds, gain \in Nat, <2>1, <2>2, <2>3
<1> QED BY <1>1, <1>2, <1>3, OneCall

\* The call after the result of m is pushed.
Pushed(c, m, reported) ==
  [c EXCEPT !.ok = c.ok \cup reported, !.todo = c.todo \ {m},
            !.at = {}, !.step = 1,
            !.pc = IF c.todo = {m} THEN "reply" ELSE "find"]

LEMMA AdvancePushes ==
  ASSUME NEW r \in Requests, NEW m, NEW reported, Advance(r, m, reported)
  PROVE  request' = [request EXCEPT ![r] = Pushed(request[r], m, reported)]
BY DEF Advance, Pushed

\* Only the mutation a handler is at is in its hands.
LEMMA AtIt ==
  ASSUME RInv, NEW r \in Requests, NEW m \in Mutations, Handles(r, m)
  PROVE  /\ request[r].at \subseteq {m}
         /\ m \in request[r].todo
         /\ request[r].pc # "find" => request[r].at = {m}
         /\ request[r].pc = "find" => request[r].at = {}
BY DEF Handles, At, RInv, IInv, StepsWereMade, CallsShaped, Shaped

\* A result is pushed: of the shares, only that of m can change.
LEMMA PushKeeps ==
  ASSUME RInv, TypeOK', NEW r \in Requests, NEW m \in Mutations,
         Handles(r, m), NEW reported \in SUBSET {m}, Advance(r, m, reported),
         UNCHANGED <<syncing, done, signOuts>>, KeysOnward,
         \A n \in Mutations \ {m} : key'[n] = key[n],
         NEW gain \in {0, 1}, faults' = faults + gain,
         gain = 1
           \/ key'[m] = "stored"
           \/ ~Writing(r, m)
           \/ key[m] = "none"
           \/ \A i \in 1..Len(CashWrites) : Now(r, m, i)
  PROVE  CallsShaped' /\ SyncsBounded' /\ ChancesBounded'
<1> DEFINE c == request[r]
           d == Pushed(c, m, reported)
<1>1. /\ d \in Request /\ Shaped(d)
      /\ d.todo = c.todo \ {m} /\ d.at = {}
      /\ d.awaited = c.awaited
  <2>1. c \in Request
    BY CallTyped DEF RInv, IInv
  <2>2. /\ d \in Request
        /\ d.todo = c.todo \ {m} /\ d.at = {} /\ d.step = 1
        /\ d.pc = IF c.todo = {m} THEN "reply" ELSE "find"
        /\ d.awaited = c.awaited
    BY <2>1 DEF Request, Pushed
  <2>3. d.pc = "reply" => d.todo = {}
    BY <2>2
  <2>4. Shaped(d)
    BY <2>2, <2>3 DEF Shaped
  <2> QED BY <2>2, <2>4
<1>2. request' = [request EXCEPT ![r] = d]
  BY AdvancePushes
<1> HIDE DEF d
<1>3. request'[r] = d
  BY <1>2 DEF RInv, IInv, TypeOK
<1>4. c.at \subseteq {m}
  BY AtIt
<1>5. ASSUME NEW n \in Mutations, NEW i \in 1..Len(CashWrites)
      PROVE  Share(r, n, i)' <= Share(r, n, i) + gain
  <2>1. ~Writing(r, n)'
    BY <1>1, <1>3 DEF Writing
  <2>2. Sendable(n)' => Sendable(n)
    BY DEF Sendable, KeysOnward
  <2>3. CASE n # m
    <3>1. ~Writing(r, n)
      BY <1>4, <2>3 DEF Writing
    <3>2. Now(r, n, i)' => Now(r, n, i)
      BY <1>1, <1>3, <2>1, <2>3, <3>1 DEF Now
    <3>3. Again(r, n)' => Again(r, n)
      BY <1>1, <1>3, <2>3, <3>1 DEF Again
    <3> QED BY <2>2, <3>2, <3>3 DEF Share, One
  <2>4. CASE n = m
    <3>1. ~Now(r, n, i)'
      BY <1>1, <1>3, <2>4 DEF Now
    <3>2. Again(r, n)' => gain = 1 \/ Again(r, n) \/ Now(r, n, i)
      BY <1>1, <1>3, <2>4 DEF Again, KeysOnward
    <3> QED BY <2>2, <3>1, <3>2 DEF Share, One
  <2> QED BY <2>3, <2>4
<1> QED BY <1>1, <1>2, <1>5, ServerStep

\* The handler goes on with m, and comes to its key or its first write.
LEMMA GoToBounded ==
  ASSUME RInv, TypeOK', NEW r \in Requests, NEW m \in Mutations,
         Handles(r, m), request[r].pc \in {"find", "create"},
         NEW pc \in {"create", "write"}, GoTo(r, m, pc),
         UNCHANGED <<syncing, done, faults, signOuts>>, KeysOnward,
         \A n \in Mutations \ {m} : key'[n] = key[n],
         key[m] # "stored", pc = "write" => key'[m] = "begun"
  PROVE  CallsShaped' /\ SyncsBounded' /\ ChancesBounded'
<1> DEFINE c == request[r]
           d == [c EXCEPT !.pc = pc, !.at = {m}]
<1>1. c \in Request /\ m \in c.todo /\ c.at \subseteq {m} /\ c.step = 1
  BY CallTyped, AtIt DEF RInv, IInv, StepsWereMade
<1>2. /\ d \in Request
      /\ d.todo = c.todo /\ d.at = {m} /\ d.step = 1 /\ d.pc = pc
      /\ d.awaited = c.awaited
  BY <1>1 DEF Request
<1>3. Shaped(d)
  BY <1>1, <1>2 DEF Shaped
<1>4. request' = [request EXCEPT ![r] = d]
  BY DEF GoTo
<1> HIDE DEF d
<1>5. request'[r] = d
  BY <1>4 DEF RInv, IInv, TypeOK
<1>6. \A n : ~Writing(r, n)
  BY DEF Writing
<1>7. ASSUME NEW n \in Mutations, NEW i \in 1..Len(CashWrites)
      PROVE  Share(r, n, i)' <= Share(r, n, i) + 0
  <2>1. Sendable(n)' => Sendable(n)
    BY DEF Sendable, KeysOnward
  <2>2. CASE n # m
    <3>1. ~Writing(r, n)'
      BY <1>2, <1>5, <2>2 DEF Writing
    <3>2. Now(r, n, i)' => Now(r, n, i)
      BY <1>2, <1>5, <1>6, <3>1 DEF Now
    <3>3. Again(r, n)' => Again(r, n)
      BY <1>2, <1>5, <1>6, <2>2, <3>1 DEF Again
    <3> QED BY <2>1, <3>2, <3>3 DEF Share, One
  <2>3. CASE n = m
    <3>1. c.awaited => Again(r, n)
      BY <1>6, <2>3 DEF Again
    <3>2. ~c.awaited => Now(r, n, i) /\ ~Again(r, n)'
      BY <1>1, <1>2, <1>5, <1>6, <2>3 DEF Now, Again
    <3>3. c.awaited => ~Now(r, n, i)' \/ ~Again(r, n)'
      <4>1. CASE pc = "create"
        <5>1. ~Writing(r, n)'
          BY <1>2, <1>5, <4>1 DEF Writing
        <5> QED BY <1>2, <1>5, <5>1 DEF Now
      <4>2. CASE pc = "write" /\ key'[m] = "begun"
        <5>1. Writing(r, n)'
          BY <1>2, <1>5, <2>3, <4>2 DEF Writing
        <5> QED BY <2>3, <4>2, <5>1 DEF Again
      <4> QED BY <4>1, <4>2
    <3> QED BY <2>1, <3>1, <3>2, <3>3 DEF Share, One
  <2> QED BY <2>2, <2>3
<1>8. faults' = faults + 0
  BY DEF RInv, IInv, TypeOK
<1> QED BY <1>2, <1>3, <1>4, <1>7, <1>8, ServerStep

LEMMA KeysSame ==
  ASSUME UNCHANGED key
  PROVE  KeysOnward /\ \A n \in Mutations : key'[n] = key[n]
BY DEF KeysOnward

LEMMA FindBounded ==
  ASSUME RInv, TypeOK', NEW r \in Requests, NEW m \in Mutations,
         Handles(r, m), Find(r, m)
  PROVE  CallsShaped' /\ SyncsBounded' /\ ChancesBounded'
<1>1. /\ request[r].pc = "find"
      /\ UNCHANGED <<syncing, key, done, faults, signOuts>>
  BY DEF Find, At
<1>2. KeysOnward /\ \A n \in Mutations : key'[n] = key[n]
  BY <1>1, KeysSame
<1>3. CASE key[m] = "stored" /\ Advance(r, m, {m})
  <2>1. ~Writing(r, m)
    BY <1>1 DEF Writing
  <2>2. faults' = faults + 0
    BY <1>1 DEF RInv, IInv, TypeOK
  <2> QED BY <1>1, <1>2, <1>3, <2>1, <2>2, PushKeeps
<1>4. CASE key[m] = "begun" /\ GoTo(r, m, "write")
  BY <1>1, <1>2, <1>4, GoToBounded
<1>5. CASE key[m] = "none" /\ GoTo(r, m, "create")
  BY <1>1, <1>2, <1>5, GoToBounded
<1> QED BY <1>3, <1>4, <1>5 DEF Find

LEMMA CreateBounded ==
  ASSUME RInv, TypeOK', NEW r \in Requests, NEW m \in Mutations,
         Handles(r, m), Create(r, m)
  PROVE  CallsShaped' /\ SyncsBounded' /\ ChancesBounded'
<1>1. /\ request[r].pc = "create"
      /\ UNCHANGED <<syncing, done, faults, signOuts>>
  BY DEF Create, At
<1>2. CASE /\ key[m] = "none"
           /\ key' = [key EXCEPT ![m] = "begun"]
           /\ GoTo(r, m, "write")
  <2>1. /\ key'[m] = "begun"
        /\ \A n \in Mutations \ {m} : key'[n] = key[n]
    BY <1>2 DEF RInv, IInv, TypeOK
  <2>2. KeysOnward
    BY <1>2, <2>1 DEF KeysOnward
  <2> QED BY <1>1, <1>2, <2>1, <2>2, GoToBounded
<1>3. CASE Advance(r, m, {}) /\ UNCHANGED key
  <2>1. ~Writing(r, m)
    BY <1>1 DEF Writing
  <2>2. faults' = faults + 0
    BY <1>1 DEF RInv, IInv, TypeOK
  <2> QED BY <1>1, <1>3, <2>1, <2>2, KeysSame, PushKeeps
<1> QED BY <1>2, <1>3 DEF Create

LEMMA RefuseBounded ==
  ASSUME RInv, TypeOK', NEW r \in Requests, NEW m \in Mutations,
         Handles(r, m), Refuse(r, m)
  PROVE  CallsShaped' /\ SyncsBounded' /\ ChancesBounded'
<1>1. /\ request[r].pc = "write" /\ Advance(r, m, {})
      /\ UNCHANGED <<syncing, key, done, faults, signOuts>>
  BY DEF Refuse, At
<1>2. m \in request[r].todo /\ m \in request[r].at
  BY <1>1, AtIt
<1>3. request[r].step = 1
  <2>1. Len(Writes(m)) = 0
    BY DEF Refuse
  <2>2. Kind[m] = "refused"
    BY <2>1, WritesCount
  <2> QED BY <1>2, <2>2 DEF RInv, CallsShaped, Shaped
<1>4. \A i \in 1..Len(CashWrites) : Now(r, m, i)
  BY <1>1, <1>2, <1>3, MostWrites DEF Now, Writing, At
<1>5. faults' = faults + 0
  BY <1>1 DEF RInv, IInv, TypeOK
<1> QED BY <1>1, <1>4, <1>5, KeysSame, PushKeeps

LEMMA QueryFailsBounded ==
  ASSUME RInv, TypeOK', NEW r \in Requests, NEW m \in Mutations,
         Handles(r, m), QueryFails(r, m)
  PROVE  CallsShaped' /\ SyncsBounded' /\ ChancesBounded'
<1>1. /\ Advance(r, m, {}) /\ faults' = faults + 1
      /\ UNCHANGED <<syncing, key, done, signOuts>>
  BY DEF QueryFails, Fault
<1> QED BY <1>1, KeysSame, PushKeeps

LEMMA StoreBounded ==
  ASSUME RInv, TypeOK', NEW r \in Requests, NEW m \in Mutations,
         Handles(r, m), Store(r, m)
  PROVE  CallsShaped' /\ SyncsBounded' /\ ChancesBounded'
<1>1. /\ Advance(r, m, {})
      /\ UNCHANGED <<syncing, done, faults, signOuts>>
  BY DEF Store
<1>2. /\ \A n \in Mutations \ {m} : key'[n] = key[n]
      /\ key'[m] = IF key[m] = "none" THEN "none" ELSE "stored"
  BY DEF Store, RInv, IInv, TypeOK
<1>3. KeysOnward
  BY <1>2 DEF KeysOnward
<1>4. faults' = faults + 0
  BY <1>1 DEF RInv, IInv, TypeOK
<1> QED BY <1>1, <1>2, <1>3, <1>4, PushKeeps

\* The end of a call that the app no longer awaits, or the death of one.
LEMMA LeaveBounded ==
  ASSUME RInv, TypeOK', NEW r \in Requests, Discard(r) \/ Die(r)
  PROVE  CallsShaped' /\ SyncsBounded' /\ ChancesBounded'
<1> DEFINE c == request[r]
           dead == [Off EXCEPT !.awaited = TRUE, !.batch = request[r].batch]
           d == IF c.awaited THEN dead ELSE Off
<1>1. c \in Request
  BY CallTyped DEF RInv, IInv
<1>2. request' = [request EXCEPT ![r] = d]
  BY DEF Discard, Die
<1>3. /\ d \in Request /\ Shaped(d) /\ d.awaited = c.awaited
      /\ d.todo = {} /\ d.at = {}
  <2>1. CASE c.awaited
    BY <1>1, <2>1 DEF Off, Request, Shaped
  <2>2. CASE ~c.awaited
    BY <1>1, <2>2 DEF Off, Request, Shaped
  <2> QED BY <2>1, <2>2
<1> HIDE DEF d
<1>4. request'[r] = d
  BY <1>2 DEF RInv, IInv, TypeOK
<1>5. UNCHANGED <<syncing, key, done, signOuts>>
  BY DEF Discard, Die
<1>6. PICK gain \in {0, 1} :
        faults' = faults + gain /\ (c.awaited => gain = 1)
  <2>1. CASE Discard(r)
    <3>1. faults' = faults + 0 /\ ~c.awaited
      BY <2>1 DEF Discard, RInv, IInv, TypeOK
    <3> QED BY <3>1
  <2>2. CASE Die(r)
    <3>1. faults' = faults + 1
      BY <2>2 DEF Die, Fault
    <3> QED BY <3>1
  <2> QED BY <2>1, <2>2
<1>7. ASSUME NEW n \in Mutations, NEW i \in 1..Len(CashWrites)
      PROVE  Share(r, n, i)' <= Share(r, n, i) + gain
  <2>1. ~Now(r, n, i)' /\ (Again(r, n)' => gain = 1)
    BY <1>3, <1>4, <1>6 DEF Now, Again
  <2>2. Sendable(n)' => Sendable(n)
    BY <1>5 DEF Sendable
  <2> QED BY <2>1, <2>2 DEF Share, One
<1> QED BY <1>2, <1>3, <1>5, <1>6, <1>7, KeysSame, ServerStep

\* The app starts a sync: the call takes over the chance of the app.
LEMMA StartSyncBounded ==
  ASSUME RInv, TypeOK', NEW r \in Requests, StartSync(r)
  PROVE  CallsShaped' /\ SyncsBounded' /\ ChancesBounded'
<1> DEFINE d == [Off EXCEPT !.pc = "find", !.awaited = TRUE,
                            !.batch = Batch, !.todo = Batch]
<1>1. Batch \subseteq Mutations
  BY DEF Batch, RInv, IInv, TypeOK
<1>2. d \in Request /\ Shaped(d) /\ d.awaited /\ d.at = {}
  BY <1>1 DEF Off, Request, Shaped
<1>3. request' = [request EXCEPT ![r] = d]
  BY DEF StartSync
<1> HIDE DEF d
<1>4. request'[r] = d
  BY <1>3 DEF RInv, IInv, TypeOK
<1>5. /\ ~syncing /\ syncing'
      /\ UNCHANGED <<key, done, faults, signOuts>>
  BY DEF StartSync
<1>6. ~request[r].awaited
  BY DEF StartSync, Free, Off
<1>7. One(d.awaited) + One(~syncing')
        <= One(request[r].awaited) + One(~syncing)
  BY <1>2, <1>5, <1>6 DEF One
<1>8. 0 \in Nat /\ Bound' >= Bound + 0
  BY <1>5, BoundGrows DEF RInv, IInv
<1>9. ASSUME NEW n \in Mutations, NEW i \in 1..Len(CashWrites)
      PROVE  done'[n][i] + Share(r, n, i)' <= done[n][i] + Share(r, n, i) + 0
  <2>1. ~Now(r, n, i)' /\ ~Sendable(n)'
    BY <1>2, <1>4, <1>5 DEF Now, Writing, Sendable
  <2>2. Again(r, n)' => Sendable(n)
    BY <1>5 DEF Again, Sendable
  <2>3. Share(r, n, i)' <= Share(r, n, i)
    BY <2>1, <2>2 DEF Share, One
  <2>4. done[n][i] \in Nat /\ done'[n][i] = done[n][i]
    BY <1>5 DEF RInv, IInv, TypeOK
  <2> QED BY <2>3, <2>4, ShareTyped
<1> QED BY <1>2, <1>3, <1>5, <1>7, <1>8, <1>9, KeysSame, OneCall

\* What a call becomes that the app no longer awaits: off when it has nothing
\* to handle, or left to a handler by a fault.
Ended(r, e) ==
  /\ request' = [request EXCEPT ![r] = e]
  /\ Shaped(e)
  /\ ~e.awaited
  /\ \/ /\ e.todo = {}
        /\ request[r].pc \in {"off", "reply"}
        /\ faults' = faults
     \/ /\ e.pc = request[r].pc /\ e.todo = request[r].todo
        /\ e.at = request[r].at /\ e.step = request[r].step
        /\ faults' = faults + 1

\* A sync ends with the answer or without: the app takes the chance back, and
\* a handler that it gives up goes on beside it.
LEMMA EndSyncBounded ==
  ASSUME RInv, TypeOK', NEW r \in Requests, Answer(r) \/ GiveUp(r)
  PROVE  CallsShaped' /\ SyncsBounded' /\ ChancesBounded'
<1> DEFINE c == request[r]
<1>1. c \in Request /\ c.awaited /\ Shaped(c)
  BY CallTyped DEF Answer, GiveUp, RInv, IInv, CallsShaped
<1>2. UNCHANGED <<key, done, signOuts>> /\ ~syncing'
  BY DEF Answer, GiveUp
<1>3. PICK e \in Request : Ended(r, e)
  <2>1. ASSUME request' = [request EXCEPT ![r] = Off],
               c.pc \in {"off", "reply"}, faults' = faults
        PROVE  \E e \in Request : Ended(r, e)
    <3>1. Off \in Request /\ Shaped(Off) /\ ~Off.awaited /\ Off.todo = {}
      BY OffTyped DEF Off, Shaped
    <3> QED BY <2>1, <3>1 DEF Ended
  <2>2. CASE Answer(r)
    BY <2>1, <2>2 DEF Answer
  <2>3. CASE GiveUp(r) /\ c.pc = "off"
    BY <2>1, <2>3 DEF GiveUp
  <2>4. CASE GiveUp(r) /\ c.pc # "off"
    <3> DEFINE e == [c EXCEPT !.awaited = FALSE]
    <3>1. /\ e \in Request /\ ~e.awaited
          /\ e.pc = c.pc /\ e.todo = c.todo /\ e.at = c.at /\ e.step = c.step
      BY <1>1 DEF Request
    <3>2. Shaped(e)
      BY <1>1, <3>1 DEF Shaped
    <3>3. request' = [request EXCEPT ![r] = e] /\ faults' = faults + 1
      BY <2>4 DEF GiveUp
    <3> HIDE DEF e
    <3> QED BY <3>1, <3>2, <3>3 DEF Ended
  <2> QED BY <2>2, <2>3, <2>4
<1>4. request'[r] = e
  BY <1>3 DEF Ended, RInv, IInv, TypeOK
<1>5. One(e.awaited) + One(~syncing') <= One(c.awaited) + One(~syncing)
  BY <1>1, <1>2, <1>3 DEF One, Ended
<1>6. signOuts \in Nat /\ faults \in Nat /\ Bound \in Nat
  BY BoundGrows DEF RInv, IInv, TypeOK
<1>7. CASE e.todo = {} /\ c.pc \in {"off", "reply"} /\ faults' = faults
  <2>1. 0 \in Nat /\ Bound' >= Bound + 0
    BY <1>2, <1>6, <1>7, BoundGrows DEF RInv, IInv
  <2>2. ASSUME NEW n \in Mutations, NEW i \in 1..Len(CashWrites)
        PROVE  done'[n][i] + Share(r, n, i)' <= done[n][i] + Share(r, n, i) + 0
    <3>1. ~Now(r, n, i)' /\ ~Again(r, n)'
      BY <1>3, <1>4, <1>7 DEF Now, Again, Ended
    <3>2. Sendable(n)' => Again(r, n)
      BY <1>1, <1>2, <1>7 DEF Again, Sendable, Writing
    <3>3. Share(r, n, i)' <= Share(r, n, i)
      BY <3>1, <3>2 DEF Share, One
    <3>4. done[n][i] \in Nat /\ done'[n][i] = done[n][i]
      BY <1>2 DEF RInv, IInv, TypeOK
    <3> QED BY <3>3, <3>4, ShareTyped
  <2> QED BY <1>2, <1>3, <1>5, <2>1, <2>2, KeysSame, OneCall
     DEF Ended
<1>8. CASE /\ e.pc = c.pc /\ e.todo = c.todo /\ e.at = c.at
           /\ e.step = c.step /\ faults' = faults + 1
  <2>1. 1 \in Nat /\ Bound' >= Bound + 1
    BY <1>2, <1>6, <1>8, BoundGrows DEF RInv, IInv
  <2>2. ASSUME NEW n \in Mutations, NEW i \in 1..Len(CashWrites)
        PROVE  done'[n][i] + Share(r, n, i)' <= done[n][i] + Share(r, n, i) + 1
    <3>1. Writing(r, n)' <=> Writing(r, n)
      BY <1>4, <1>8 DEF Writing
    <3>2. ~Again(r, n)'
      BY <1>3, <1>4 DEF Again, Ended
    <3>3. Share(r, n, i)' <= Share(r, n, i) + 1
      <4>1. CASE Writing(r, n)
        <5>1. Now(r, n, i)' => Now(r, n, i)
          BY <1>4, <1>8, <3>1, <4>1 DEF Now, At
        <5> QED BY <3>2, <5>1 DEF Share, One
      <4>2. CASE ~Writing(r, n)
        <5>1. Sendable(n)' => Again(r, n)
          BY <1>1, <1>2, <4>2 DEF Again, Sendable
        <5> QED BY <3>2, <5>1 DEF Share, One
      <4> QED BY <4>1, <4>2
    <3>4. done[n][i] \in Nat /\ done'[n][i] = done[n][i]
      BY <1>2 DEF RInv, IInv, TypeOK
    <3> QED BY <3>3, <3>4, ShareTyped
  <2> QED BY <1>2, <1>3, <1>5, <2>1, <2>2, KeysSame, OneCall
     DEF Ended
<1> QED BY <1>3, <1>7, <1>8 DEF Ended

\* A write is made: the handler's chance to make it is used up.
LEMMA WriteBounded ==
  ASSUME RInv, TypeOK', NEW r \in Requests, NEW m \in Mutations,
         Handles(r, m), Write(r, m)
  PROVE  CallsShaped' /\ SyncsBounded' /\ ChancesBounded'
<1> DEFINE c == request[r]
           j == c.step
           d == IF j < Len(Writes(m))
                THEN [c EXCEPT !.step = j + 1]
                ELSE [c EXCEPT !.pc = "store", !.ok = c.ok \cup {m}]
<1>1. /\ c \in Request /\ Shaped(c) /\ c.pc = "write"
      /\ c.at = {m} /\ m \in c.todo
  BY CallTyped, AtIt DEF Write, At, RInv, IInv, CallsShaped
<1>2. j \in 1..Len(Writes(m)) /\ j \in 1..Len(CashWrites)
  <2>1. Len(Writes(m)) \in 0..9 /\ j \in 1..Len(Writes(m))
    BY WritesCount DEF Write
  <2> QED BY <2>1, InRange, MostWrites
<1>3. Kind[m] # "refused"
  BY <1>2, WritesCount, InRange
<1>4. /\ d \in Request
      /\ d.at = c.at /\ d.todo = c.todo /\ d.awaited = c.awaited
      /\ \/ d.pc = "write" /\ d.step = j + 1
         \/ d.pc = "store"
  <2>1. CASE j < Len(Writes(m))
    <3>1. j + 1 \in Nat
      BY <1>2
    <3> QED BY <1>1, <2>1, <3>1 DEF Request
  <2>2. CASE ~(j < Len(Writes(m)))
    BY <1>1, <2>2 DEF Request
  <2> QED BY <2>1, <2>2
<1>5. Shaped(d)
  BY <1>1, <1>3, <1>4 DEF Shaped
<1>6. request' = [request EXCEPT ![r] = d]
  BY DEF Write
<1> HIDE DEF d
<1>7. request'[r] = d
  BY <1>6 DEF RInv, IInv, TypeOK
<1>8. UNCHANGED <<syncing, key, faults, signOuts>>
  BY DEF Write
<1>9. 0 \in Nat /\ Bound' >= Bound + 0
  BY <1>8, BoundGrows DEF RInv, IInv
<1>10. One(d.awaited) + One(~syncing') <= One(c.awaited) + One(~syncing)
  BY <1>4, <1>8 DEF One
<1>11. ASSUME NEW n \in Mutations, NEW i \in 1..Len(CashWrites)
       PROVE  done'[n][i] + Share(r, n, i)' <= done[n][i] + Share(r, n, i) + 0
  <2>1. /\ done[n][i] \in Nat /\ done'[n][i] \in Nat
        /\ done'[n][i] = IF n = m /\ i = j THEN done[n][i] + 1
                                           ELSE done[n][i]
    BY <1>2 DEF Write, RInv, IInv, TypeOK
  <2>2. Writing(r, n)' <=> Writing(r, n)
    BY <1>1, <1>4, <1>7 DEF Writing
  <2>3. (Sendable(n)' <=> Sendable(n)) /\ (Again(r, n)' <=> Again(r, n))
    BY <1>4, <1>7, <1>8, <2>2 DEF Sendable, Again
  <2>4. Now(r, n, i)' => Now(r, n, i) /\ ~(n = m /\ i = j)
    <3>1. CASE Writing(r, n)
      <4>1. n = m
        BY <1>1, <3>1 DEF Writing
      <4>2. j \in Nat /\ i \in Nat
        BY <1>2
      <4>3. ASSUME Now(r, n, i)' PROVE j + 1 <= i
        BY <1>4, <1>7, <2>2, <3>1, <4>3 DEF Now, At
      <4> QED BY <1>1, <3>1, <4>1, <4>2, <4>3 DEF Now, At
    <3>2. CASE ~Writing(r, n)
      <4>1. n # m
        BY <1>1, <3>2 DEF Writing
      <4> QED BY <1>4, <1>7, <2>2, <3>2, <4>1 DEF Now
    <3> QED BY <3>1, <3>2
  <2>5. n = m /\ i = j => Now(r, n, i)
    BY <1>1, <1>2 DEF Now, Writing, At
  <2>6. /\ One(Now(r, n, i)) \in Nat /\ One(Now(r, n, i))' \in Nat
        /\ One(Now(r, n, i))' + (IF n = m /\ i = j THEN 1 ELSE 0)
             <= One(Now(r, n, i))
    BY <2>4, <2>5 DEF One
  <2>7. /\ One(Again(r, n))' = One(Again(r, n))
        /\ One(Sendable(n))' = One(Sendable(n))
        /\ One(Again(r, n)) \in Nat /\ One(Sendable(n)) \in Nat
    BY <2>3 DEF One
  <2>8. Share(r, n, i)' + (IF n = m /\ i = j THEN 1 ELSE 0) <= Share(r, n, i)
    BY <2>6, <2>7 DEF Share
  <2> QED BY <2>1, <2>8, ShareTyped
<1> QED BY <1>4, <1>5, <1>6, <1>8, <1>9, <1>10, <1>11, KeysSame, OneCall

\* The driver's own steps that end no sync.
LEMMA NothingSent ==
  ASSUME RInv, UNCHANGED <<syncing, key, request, done, faults, signOuts>>
  PROVE  CallsShaped' /\ SyncsBounded' /\ ChancesBounded'
<1>1. CallsShaped'
  BY DEF RInv, CallsShaped
<1>2. SyncsBounded'
  BY DEF RInv, SyncsBounded, Awaited
<1>3. ChancesBounded'
  BY DEF RInv, ChancesBounded, Chances, NowCalls, AgainCalls, Now, Again,
         Sendable, Writing, At
<1> QED BY <1>1, <1>2, <1>3

LEMMA ChancesTyped ==
  ASSUME NEW m, NEW i
  PROVE  /\ Cardinality(NowCalls(m, i)) \in Nat
         /\ Cardinality(NowCalls(m, i)') \in Nat
         /\ Cardinality(AgainCalls(m)) \in Nat
         /\ Cardinality(AgainCalls(m)') \in Nat
         /\ Cardinality(Awaited) \in Nat
         /\ One(Sendable(m)) \in Nat /\ One(Sendable(m))' \in Nat
         /\ Chances(m, i) \in Nat /\ Chances(m, i)' \in Nat
<1>1. /\ Cardinality(NowCalls(m, i)) \in Nat
      /\ Cardinality(NowCalls(m, i)') \in Nat
      /\ Cardinality(AgainCalls(m)) \in Nat
      /\ Cardinality(AgainCalls(m)') \in Nat
      /\ Cardinality(Awaited) \in Nat
  BY CallsFinite, FS_CardinalityType
<1>2. One(Sendable(m)) \in Nat /\ One(Sendable(m))' \in Nat
  BY DEF One
<1> QED BY <1>1, <1>2 DEF Chances

\* The sum that the chances are, before a step and after it.
Sums(m, i) ==
  /\ Cardinality(NowCalls(m, i)) \in Nat
  /\ Cardinality(NowCalls(m, i)') \in Nat
  /\ Cardinality(AgainCalls(m)) \in Nat
  /\ Cardinality(AgainCalls(m)') \in Nat
  /\ One(Sendable(m)) \in {0, 1} /\ One(Sendable(m))' \in {0, 1}
  /\ Chances(m, i)
       = Cardinality(NowCalls(m, i)) + Cardinality(AgainCalls(m))
           + One(Sendable(m))
  /\ Chances(m, i)'
       = Cardinality(NowCalls(m, i)') + Cardinality(AgainCalls(m)')
           + One(Sendable(m))'

LEMMA ChancesAdd ==
  ASSUME NEW m, NEW i
  PROVE  Sums(m, i)
<1>1. One(Sendable(m)) \in {0, 1} /\ One(Sendable(m))' \in {0, 1}
  BY DEF One
<1> QED BY <1>1, ChancesTyped DEF Sums, Chances

\* A step that makes no write, and grows the chances no more than the bound.
LEMMA StaysBounded ==
  ASSUME RInv, TypeOK', UNCHANGED done,
         NEW m \in Mutations, NEW i \in 1..Len(CashWrites), NEW gain \in Nat,
         Bound' >= Bound + gain, Chances(m, i)' <= Chances(m, i) + gain
  PROVE  done'[m][i] + Chances(m, i)' <= Bound'
<1>1. done[m][i] \in Nat /\ done'[m][i] = done[m][i]
  BY DEF RInv, IInv, TypeOK
<1>2. Chances(m, i) \in Nat /\ Chances(m, i)' \in Nat
  BY ChancesTyped
<1>3. Bound \in Nat /\ Bound' \in Nat
  BY BoundGrows DEF RInv, IInv
<1>4. done[m][i] + Chances(m, i) <= Bound
  BY DEF RInv, ChancesBounded, Bound
<1> QED
  BY ONLY GainAdds, <1>1, <1>2, <1>3, <1>4, gain \in Nat,
     Bound' >= Bound + gain, Chances(m, i)' <= Chances(m, i) + gain

\* The driver signs out: the app gets a chance, and the call that is awaited
\* keeps its own.
LEMMA SignOutBounded ==
  ASSUME RInv, TypeOK', SignOut
  PROVE  CallsShaped' /\ SyncsBounded' /\ ChancesBounded'
<1>1. /\ UNCHANGED <<key, request, done, faults>>
      /\ ~syncing' /\ signOuts' = signOuts + 1
  BY DEF SignOut
<1>2. CallsShaped'
  BY <1>1 DEF RInv, CallsShaped
<1>3. signOuts \in Nat /\ faults \in Nat
  BY DEF RInv, IInv, TypeOK
<1>4. SyncsBounded'
  <2>1. Awaited' = Awaited
    BY <1>1 DEF Awaited
  <2>2. Cardinality(Awaited) \in Nat
    BY CallsFinite, FS_CardinalityType
  <2>3. Cardinality(Awaited) <= 1 + signOuts
    BY <1>3, <2>2 DEF RInv, SyncsBounded, One
  <2>4. One(~syncing)' = 1
    BY <1>1 DEF One
  <2> QED BY <1>1, <1>3, <2>1, <2>2, <2>3, <2>4 DEF SyncsBounded
<1>5. ASSUME NEW m \in Mutations, NEW i \in 1..Len(CashWrites)
      PROVE  done'[m][i] + Chances(m, i)' <= Bound'
  <2>1. NowCalls(m, i)' = NowCalls(m, i) /\ AgainCalls(m)' = AgainCalls(m)
    BY <1>1 DEF NowCalls, AgainCalls, Now, Again, Writing, At
  <2>2. Sums(m, i)
    BY ChancesAdd
  <2>3. Chances(m, i)' <= Chances(m, i) + 1
    BY ONLY <2>1, <2>2 DEF Sums
  <2>4. 1 \in Nat /\ Bound' >= Bound + 1
    BY <1>1, <1>3, BoundGrows DEF RInv, IInv
  <2> QED BY <1>1, <2>3, <2>4, StaysBounded
<1> QED BY <1>2, <1>4, <1>5, BoundedAll

\* The key of m is deleted: every call that is awaited, or the app, can send
\* m again.
LEMMA ExpireBounded ==
  ASSUME RInv, TypeOK', NEW m \in Mutations, Expire(m)
  PROVE  CallsShaped' /\ SyncsBounded' /\ ChancesBounded'
<1>1. /\ UNCHANGED <<syncing, request, done, signOuts>>
      /\ faults' = faults + 1
      /\ \A n \in Mutations \ {m} : key'[n] = key[n]
  BY DEF Expire, Fault, RInv, IInv, TypeOK
<1>2. CallsShaped' /\ SyncsBounded'
  BY <1>1 DEF RInv, CallsShaped, SyncsBounded, Awaited
<1>3. ASSUME NEW n \in Mutations, NEW i \in 1..Len(CashWrites)
      PROVE  done'[n][i] + Chances(n, i)' <= Bound'
  <2>1. NowCalls(n, i)' = NowCalls(n, i)
    BY <1>1 DEF NowCalls, Now, Writing, At
  <2>2. signOuts \in Nat /\ Sums(n, i)
    BY ChancesAdd DEF RInv, IInv, TypeOK
  <2>3. Chances(n, i)' <= Chances(n, i) + (1 + signOuts)
    <3>1. CASE n = m
      <4>1. AgainCalls(n)' \subseteq Awaited
        BY <1>1 DEF AgainCalls, Again, Awaited
      <4>2. Cardinality(AgainCalls(n)') <= Cardinality(Awaited)
        BY <4>1, CallsFinite, FS_Subset
      <4>3. /\ One(Sendable(n))' <= One(~syncing) /\ One(~syncing) \in Nat
            /\ One(Sendable(n))' \in Nat
        BY <1>1 DEF One, Sendable
      <4>4. Cardinality(Awaited) + One(~syncing) <= 1 + signOuts
        BY DEF RInv, SyncsBounded
      <4>5. One(Sendable(n))' + Cardinality(AgainCalls(n)') <= 1 + signOuts
        <5>1. /\ Cardinality(AgainCalls(n)') \in Nat
              /\ Cardinality(Awaited) \in Nat
          BY CallsFinite, FS_CardinalityType
        <5> QED BY ONLY <2>2, <4>2, <4>3, <4>4, <5>1
      <4>6. Chances(n, i)'
              <= Cardinality(NowCalls(n, i)) + (1 + signOuts)
        BY ONLY <2>1, <2>2, <4>5 DEF Sums
      <4>7. Cardinality(NowCalls(n, i)) <= Chances(n, i)
        BY ONLY <2>2 DEF Sums
      <4> QED BY ONLY <2>2, <4>6, <4>7, SMTT(30) DEF Sums
    <3>2. CASE n # m
      <4>1. AgainCalls(n)' = AgainCalls(n)
        BY <1>1, <3>2 DEF AgainCalls, Again, Writing
      <4>2. One(Sendable(n))' = One(Sendable(n))
        BY <1>1, <3>2 DEF One, Sendable
      <4> QED BY ONLY <2>1, <2>2, <4>1, <4>2 DEF Sums
    <3> QED BY <3>1, <3>2
  <2>4. Bound \in Nat /\ Bound' = Bound + 1 + signOuts
    BY <1>1, BoundGrows DEF RInv, IInv
  <2>5. 1 + signOuts \in Nat /\ Bound' >= Bound + (1 + signOuts)
    BY ONLY <2>2, <2>4
  <2> QED BY <1>1, <2>3, <2>5, StaysBounded
<1> QED BY <1>2, <1>3, BoundedAll

LEMMA UnionBounded ==
  ASSUME NEW S, NEW T, NEW U, IsFiniteSet(S), IsFiniteSet(T), IsFiniteSet(U),
         U \subseteq S \cup T
  PROVE  /\ Cardinality(U) <= Cardinality(S) + Cardinality(T)
         /\ Cardinality(S) \in Nat /\ Cardinality(T) \in Nat
         /\ Cardinality(U) \in Nat
<1>1. /\ IsFiniteSet(S \cup T)
      /\ Cardinality(S \cup T)
           = Cardinality(S) + Cardinality(T) - Cardinality(S \cap T)
  BY FS_Union
<1>2. IsFiniteSet(S \cap T)
  BY FS_Intersection
<1>3. Cardinality(U) <= Cardinality(S \cup T)
  BY <1>1, FS_Subset
<1>4. /\ Cardinality(S) \in Nat /\ Cardinality(T) \in Nat
      /\ Cardinality(U) \in Nat /\ Cardinality(S \cap T) \in Nat
      /\ Cardinality(S \cup T) \in Nat
  BY <1>1, <1>2, FS_CardinalityType
<1> QED BY ONLY <1>1, <1>3, <1>4

\* The app is started again: what the awaited calls do they do once more, and
\* what could be sent again after them is sent by the app.
LEMMA RestartBounded ==
  ASSUME RInv, TypeOK', Restart
  PROVE  CallsShaped' /\ SyncsBounded' /\ ChancesBounded'
<1>1. /\ UNCHANGED <<key, done, signOuts>>
      /\ ~syncing' /\ faults' = faults + 1
  BY DEF Restart, Fault
<1>2. ASSUME NEW r \in Requests
      PROVE  /\ Shaped(request[r]) /\ Shaped(request'[r])
             /\ ~request'[r].awaited
             /\ request'[r].at = request[r].at
             /\ request'[r].todo = request[r].todo
             /\ request[r].todo # {} =>
                  /\ request'[r].pc = request[r].pc
                  /\ request'[r].step = request[r].step
  <2>1. request[r] \in Request /\ Shaped(request[r])
    BY CallTyped DEF RInv, IInv, CallsShaped
  <2>2. request'[r] = IF request[r].pc = "off" THEN Off
                      ELSE [request[r] EXCEPT !.awaited = FALSE]
    BY DEF Restart
  <2>3. CASE request[r].pc = "off"
    BY <2>1, <2>2, <2>3 DEF Off, Shaped
  <2>4. CASE request[r].pc # "off"
    <3>1. /\ request'[r].at = request[r].at
          /\ request'[r].todo = request[r].todo
          /\ request'[r].pc = request[r].pc
          /\ request'[r].step = request[r].step
          /\ ~request'[r].awaited
      BY <2>1, <2>2, <2>4 DEF Request
    <3> QED BY <2>1, <3>1 DEF Shaped
  <2> QED BY <2>3, <2>4
<1>3. CallsShaped'
  BY <1>2 DEF CallsShaped, Shaped
<1>4. signOuts \in Nat
  BY DEF RInv, IInv, TypeOK
<1>5. SyncsBounded'
  <2>1. Awaited' = {}
    BY <1>2 DEF Awaited
  <2>2. Cardinality(Awaited') = 0
    BY <2>1, FS_EmptySet
  <2>3. One(~syncing)' = 1
    BY <1>1 DEF One
  <2> QED BY <1>1, <1>4, <2>2, <2>3 DEF SyncsBounded
<1>6. ASSUME NEW m \in Mutations, NEW i \in 1..Len(CashWrites)
      PROVE  done'[m][i] + Chances(m, i)' <= Bound'
  <2>1. AgainCalls(m)' = {}
    BY <1>2 DEF AgainCalls, Again
  <2>2. Cardinality(AgainCalls(m)') = 0
    BY <2>1, FS_EmptySet
  <2>3. ASSUME NEW r \in NowCalls(m, i)'
        PROVE  /\ r \in Requests
               /\ Now(r, m, i) \/ (request[r].awaited /\ ~Writing(r, m))
    <3>1. r \in Requests /\ Now(r, m, i)'
      BY DEF NowCalls
    <3>2. m \in request[r].todo /\ (Writing(r, m)' <=> Writing(r, m))
      BY <1>2, <3>1 DEF Now, Writing
    <3> QED BY <1>2, <3>1, <3>2 DEF Now, At
  <2>4. Chances(m, i)' <= Chances(m, i) + (1 + signOuts)
    <3>1. CASE key[m] = "stored"
      <4>1. NowCalls(m, i)' \subseteq NowCalls(m, i) \cup Awaited
        BY <2>3 DEF NowCalls, Awaited
      <4>2. Cardinality(NowCalls(m, i)')
              <= Cardinality(NowCalls(m, i)) + Cardinality(Awaited)
        BY <4>1, CallsFinite, UnionBounded
      <4>3. One(Sendable(m))' = 0
        BY <1>1, <3>1 DEF One, Sendable
      <4>4. Cardinality(Awaited) <= 1 + signOuts
        <5>1. /\ Cardinality(Awaited) \in Nat
              /\ One(~syncing) \in Nat
          BY ChancesTyped DEF One
        <5>2. Cardinality(Awaited) + One(~syncing) <= 1 + signOuts
          BY DEF RInv, SyncsBounded
        <5> QED BY ONLY <1>4, <5>1, <5>2
      <4>5. Cardinality(Awaited) \in Nat /\ Sums(m, i)
        BY ChancesTyped, ChancesAdd
      <4> QED
        BY ONLY <1>4, <2>2, <4>2, <4>3, <4>4, <4>5, SMTT(30) DEF Sums
    <3>2. CASE key[m] # "stored"
      <4>1. NowCalls(m, i)' \subseteq NowCalls(m, i) \cup AgainCalls(m)
        BY <2>3, <3>2 DEF NowCalls, AgainCalls, Again
      <4>2. Cardinality(NowCalls(m, i)')
              <= Cardinality(NowCalls(m, i)) + Cardinality(AgainCalls(m))
        BY <4>1, CallsFinite, UnionBounded
      <4>3. Sums(m, i)
        BY ChancesAdd
      <4> QED BY ONLY <1>4, <2>2, <4>2, <4>3, SMTT(30) DEF Sums
    <3> QED BY <3>1, <3>2
  <2>5. signOuts \in Nat
    BY DEF RInv, IInv, TypeOK
  <2>6. Bound \in Nat /\ Bound' = Bound + 1 + signOuts
    BY <1>1, BoundGrows DEF RInv, IInv
  <2>7. 1 + signOuts \in Nat /\ Bound' >= Bound + (1 + signOuts)
    BY ONLY <2>5, <2>6
  <2> QED BY <1>1, <2>4, <2>7, StaysBounded
<1> QED BY <1>3, <1>5, <1>6, BoundedAll

LEMMA InitiallyBounded == Init => RInv
<1> SUFFICES ASSUME Init PROVE RInv
  OBVIOUS
<1>1. \A r \in Requests : request[r] = Off
  BY DEF Init
<1>2. CallsShaped
  BY <1>1 DEF CallsShaped, Shaped, Off
<1>3. Cardinality({}) = 0
  BY FS_EmptySet
<1>4. Awaited = {}
  BY <1>1 DEF Awaited, Off
<1>5. SyncsBounded
  BY <1>3, <1>4 DEF SyncsBounded, Init, One
<1>6. ASSUME NEW m \in Mutations, NEW i \in 1..Len(CashWrites)
      PROVE  done[m][i] + Chances(m, i) <= (1 + signOuts) * (1 + faults)
  <2>1. NowCalls(m, i) = {} /\ AgainCalls(m) = {}
    BY <1>1 DEF NowCalls, AgainCalls, Now, Again, Off
  <2>2. done[m][i] = 0 /\ faults = 0 /\ signOuts = 0
    BY DEF Init
  <2>3. One(Sendable(m)) \in 0..1
    BY DEF One
  <2>4. Chances(m, i) = 0 + 0 + One(Sendable(m))
    BY <1>3, <2>1 DEF Chances
  <2> QED BY <2>2, <2>3, <2>4
<1> QED BY <1>2, <1>5, <1>6, Initially DEF RInv, ChancesBounded

LEMMA BoundedNext ==
  ASSUME RInv, [Next]_vars
  PROVE  RInv'
<1>1. IInv'
  BY NextKeeps DEF RInv
<1>2. TypeOK'
  BY <1>1 DEF IInv
<1> DEFINE B == CallsShaped' /\ SyncsBounded' /\ ChancesBounded'
<1>3. ASSUME NEW m \in Mutations, Record(m) \/ Expire(m)
      PROVE  B
  BY <1>2, <1>3, NothingSent, ExpireBounded DEF Record
<1>4. ASSUME NEW r \in Requests, App(r)
      PROVE  B
  BY <1>2, <1>4, StartSyncBounded, EndSyncBounded DEF App
<1>5. ASSUME NEW r \in Requests, NEW m \in Mutations, Handles(r, m),
             Process(r, m) \/ QueryFails(r, m)
      PROVE  B
  BY <1>2, <1>5, FindBounded, CreateBounded, RefuseBounded, WriteBounded,
     StoreBounded, QueryFailsBounded DEF Process
<1>6. ASSUME NEW r \in Requests, Discard(r) \/ Die(r)
      PROVE  B
  BY <1>2, <1>6, LeaveBounded
<1>7. ASSUME Restart \/ Clear \/ SignOut
      PROVE  B
  BY <1>2, <1>7, RestartBounded, NothingSent, SignOutBounded DEF Clear
<1>8. ASSUME UNCHANGED vars
      PROVE  B
  BY <1>8, NothingSent DEF vars
<1> HIDE DEF B
<1>9. B
  BY <1>3, <1>4, <1>5, <1>6, <1>7, <1>8 DEF Next, Handle
<1> QED BY <1>1, <1>9 DEF RInv, B

LEMMA RInvariance == Spec => []RInv
<1>1. Init => RInv
  BY InitiallyBounded
<1>2. RInv /\ [Next]_vars => RInv'
  BY BoundedNext
<1> QED BY <1>1, <1>2, PTL DEF Spec

LEMMA RepeatsBounded ==
  ASSUME RInv
  PROVE  RepeatNeedsFault
<1>1. ASSUME NEW m \in Mutations, NEW i \in 1..Len(CashWrites)
      PROVE  done[m][i] <= (1 + signOuts) * (1 + faults)
  <2>1. done[m][i] \in Nat /\ Chances(m, i) \in Nat
    BY ChancesTyped DEF RInv, IInv, TypeOK
  <2>2. signOuts \in Nat /\ faults \in Nat
    BY DEF RInv, IInv, TypeOK
  <2>3. Bound \in Nat
    BY <2>2, Products DEF Bound
  <2>4. done[m][i] + Chances(m, i) <= Bound
    BY DEF RInv, ChancesBounded, Bound
  <2>5. done[m][i] <= Bound
    BY ONLY <2>1, <2>3, <2>4
  <2> QED BY <2>5 DEF Bound
<1> QED BY <1>1 DEF RepeatNeedsFault

LEMMA Invariance == Spec => []IInv
<1>1. Init => IInv
  BY Initially
<1>2. IInv /\ [Next]_vars => IInv'
  BY NextKeeps
<1> QED BY <1>1, <1>2, PTL DEF Spec

\* Every reachable state of the app, the keys, the calls and the history has
\* its type.
THEOREM TypeCorrect == Spec => []TypeOK
BY Invariance, PTL DEF IInv

\* However the app gives up, restarts and sends again while handlers go on,
\* what it shows as synced and what the server calls a duplicate is in the
\* database with every one of its writes (field.routes.ts:230-263, 1006-1030).
THEOREM NothingSyncedIsMissing == Spec => []SyncedWasMade
BY Invariance, PTL DEF IInv

\* A write of a mutation is repeated only after a fault, and in no more calls
\* at once than the driver has signed out under one: a handler that runs a key
\* without a response again, beside the one that had it, adds nothing
\* (field.routes.ts:230-263, sync-engine.ts).
THEOREM RepeatsNeedFaults == Spec => []RepeatNeedsFault
BY RInvariance, RepeatsBounded, PTL
=============================================================================
