---------------------------- MODULE HistoryWriter ----------------------------
(***************************************************************************)
(* The worker that turns the entries of a tenant's stream into rows of     *)
(* tracking_breadcrumbs, in any number of processes that read as one       *)
(* consumer of one group.  Redis hands an entry to a group once, with '>', *)
(* and keeps it as pending until it is acknowledged; no code reads what is *)
(* pending.  The group begins where the stream ends when it is created.    *)
(***************************************************************************)
EXTENDS LocationIngest

CONSTANTS
  Writers,     \* processes
  BatchSize,   \* BATCH_SIZE
  MaxFaults    \* bound: passes that fail, processes that stop

ASSUME WriterAssumption ==
  /\ BatchSize \in Nat \ {0}
  /\ MaxFaults \in Nat

VARIABLES
  group,     \* the history-writer group, if there is one
  pending,   \* entries that were handed out and not acknowledged
  crumbs,    \* tracking_breadcrumbs
  writer,    \* what each process is at
  handed,    \* history: entries that were handed out
  dropped,   \* history: those whose batch was given up
  faults     \* what MaxFaults counts

writerVars == <<group, pending, crumbs, writer, handed, dropped, faults>>
vars == <<ingestVars, writerVars>>

\* from: the newest entry at its creation; last: the last one handed out.
NoGroup == [exists |-> FALSE, from |-> 0, last |-> 0]

TypeOK ==
  /\ IngestTypeOK
  /\ group \in [exists : BOOLEAN, from : Nat, last : 0..Len(stream)]
  /\ pending \subseteq handed
  /\ crumbs \subseteq Entries
  /\ writer \in [Writers -> [pc : {"rest", "group", "read", "insert", "ack"},
                             knows : BOOLEAN, batch : SUBSET handed]]
  /\ handed \subseteq 1..group.last
  /\ dropped \subseteq handed
  /\ faults \in 0..MaxFaults

Init ==
  /\ IngestInit
  /\ group = NoGroup
  /\ pending = {}
  /\ crumbs = {}
  /\ writer = [w \in Writers |-> [pc |-> "rest", knows |-> FALSE,
                                  batch |-> {}]]
  /\ handed = {}
  /\ dropped = {}
  /\ faults = 0

-----------------------------------------------------------------------------
Goto(w, pc) == writer' = [writer EXCEPT ![w].pc = pc]

\* Mutant of StartPass: a timer starts passes beside the one that runs.
StartPassBeside(w) ==
  /\ writer[w].pc \in {"rest", "insert"}
  /\ stream # <<>>
  /\ Goto(w, IF writer[w].knows THEN "read" ELSE "group")
  /\ UNCHANGED <<ingestVars, group, pending, crumbs, handed, dropped, faults>>

\* KEYS finds the stream once it has had an entry.
StartPass(w) ==
  /\ writer[w].pc = "rest"
  /\ stream # <<>>
  /\ Goto(w, IF writer[w].knows THEN "read" ELSE "group")
  /\ UNCHANGED <<ingestVars, group, pending, crumbs, handed, dropped, faults>>

\* Mutant of CreateConsumerGroup: BUSYGROUP ends the pass.
CreateConsumerGroupOnce(w) ==
  /\ writer[w].pc = "group"
  /\ IF group.exists
     THEN /\ Goto(w, "rest")
          /\ UNCHANGED group
     ELSE /\ group' = [exists |-> TRUE, from |-> Len(stream),
                       last |-> Len(stream)]
          /\ writer' = [writer EXCEPT ![w].pc = "read", ![w].knows = TRUE]
  /\ UNCHANGED <<ingestVars, pending, crumbs, handed, dropped, faults>>

\* XGROUP CREATE at '$'; that the group exists already is fine.
CreateConsumerGroup(w) ==
  /\ writer[w].pc = "group"
  /\ group' = IF group.exists THEN group
              ELSE [exists |-> TRUE, from |-> Len(stream),
                    last |-> Len(stream)]
  /\ writer' = [writer EXCEPT ![w].pc = "read", ![w].knows = TRUE]
  /\ UNCHANGED <<ingestVars, pending, crumbs, handed, dropped, faults>>

\* The entries '>' stands for: not handed out yet, and not trimmed.
NextBatch ==
  LET first == 1 + IF trimmed > group.last THEN trimmed ELSE group.last
  IN  {i \in first..Len(stream) : i < first + BatchSize}

\* XREADGROUP.
ReadGroup(w) ==
  /\ writer[w].pc = "read"
  /\ IF NextBatch = {}
     THEN /\ Goto(w, "rest")
          /\ UNCHANGED <<group, pending, handed>>
     ELSE /\ \E n \in NextBatch :
               /\ \A i \in NextBatch : i <= n
               /\ group' = [group EXCEPT !.last = n]
          /\ pending' = pending \cup NextBatch
          /\ handed' = handed \cup NextBatch
          /\ writer' = [writer EXCEPT ![w].pc = "insert",
                                      ![w].batch = NextBatch]
  /\ UNCHANGED <<ingestVars, crumbs, dropped, faults>>

SameRow(e, f) == e.shipment = f.shipment /\ e.seq = f.seq

\* createMany, skipDuplicates.
BatchInsertBreadcrumbs(w) ==
  /\ writer[w].pc = "insert"
  /\ crumbs' = crumbs \cup
       {e \in {stream[i] : i \in writer[w].batch} :
          \A f \in crumbs : ~SameRow(e, f)}
  /\ Goto(w, "ack")
  /\ UNCHANGED <<ingestVars, group, pending, handed, dropped, faults>>

\* The pass goes on with the rest of its batch, or ends.
Keep(w, rest) ==
  writer' = [writer EXCEPT ![w].pc = IF rest = {} THEN "rest" ELSE "ack",
                           ![w].batch = rest]

\* Mutant of AckMessage: an entry is acknowledged with all before it.
AckMessagesUpTo(w) ==
  /\ writer[w].pc = "ack"
  /\ \E n \in writer[w].batch :
       /\ \A i \in writer[w].batch : n <= i
       /\ pending' = {i \in pending : i > n}
       /\ Keep(w, writer[w].batch \ {n})
  /\ UNCHANGED <<ingestVars, group, crumbs, handed, dropped, faults>>

\* XACK, entry by entry.
AckMessage(w) ==
  /\ writer[w].pc = "ack"
  /\ \E n \in writer[w].batch :
       /\ \A i \in writer[w].batch : n <= i
       /\ pending' = pending \ {n}
       /\ Keep(w, writer[w].batch \ {n})
  /\ UNCHANGED <<ingestVars, group, crumbs, handed, dropped, faults>>

\* Something throws, and the pass ends; or the process stops and starts
\* again, and does not know the group.
FailPass(w) ==
  /\ faults < MaxFaults
  /\ faults' = faults + 1
  /\ writer[w].pc # "rest"
  /\ \E knows \in {writer[w].knows, FALSE} :
       writer' = [writer EXCEPT ![w] = [pc |-> "rest", knows |-> knows,
                                        batch |-> {}]]
  /\ dropped' = dropped \cup writer[w].batch
  /\ UNCHANGED <<ingestVars, group, pending, crumbs, handed>>

ProcessBatch(w) ==
  \/ StartPass(w) \/ CreateConsumerGroup(w) \/ ReadGroup(w)
  \/ BatchInsertBreadcrumbs(w) \/ AckMessage(w)

Next ==
  \/ \E k \in Keys : ProcessCall(k) /\ UNCHANGED writerVars
  \/ \E w \in Writers : ProcessBatch(w) \/ FailPass(w)

Fairness == \A w \in Writers : WF_vars(ProcessBatch(w))

Spec == Init /\ [][Next]_vars /\ Fairness

-----------------------------------------------------------------------------
(***************************************************************************)
(* An entry that was handed out and is not pending any more has its        *)
(* breadcrumb, with any number of processes as one consumer and with       *)
(* passes that end at any place: what is acknowledged is stored first.     *)
(***************************************************************************)
AckedIsStored == \A i \in handed \ pending : stream[i] \in crumbs

(***************************************************************************)
(* What is pending is in the hands of exactly one process, or was in those *)
(* of one that failed: only a fault strands an entry, and no pass loses    *)
(* the batch of another.                                                   *)
(***************************************************************************)
OnlyFaultsStrand ==
  /\ pending = dropped \cup UNION {writer[w].batch : w \in Writers}
  /\ \A v, w \in Writers :
       v # w => writer[v].batch \cap writer[w].batch = {}

(***************************************************************************)
(* Every entry is stored in the end, but for those the group began after,  *)
(* those that were trimmed before they were read, and those whose batch    *)
(* was given up.  (What an entry is once, it stays: that all are, again    *)
(* and again, says it of each.)                                            *)
(***************************************************************************)
Settled(i) ==
  \/ stream[i] \in crumbs
  \/ group.exists /\ i <= group.from
  \/ i <= trimmed
  \/ i \in dropped

EntriesAreStored == []<>(\A i \in DOMAIN stream : Settled(i))

(***************************************************************************)
(* What the safety properties rest on: the history has only entries of the *)
(* stream, a process at rest has no batch, one that acknowledges has       *)
(* stored it, and no batch has an entry that was given up.                 *)
(***************************************************************************)
CrumbsAreEntries == \A e \in crumbs : \E i \in DOMAIN stream : e = stream[i]

BatchesOK ==
  \A w \in Writers :
    /\ writer[w].pc \in {"rest", "group", "read"} => writer[w].batch = {}
    /\ writer[w].pc = "ack" =>
         \A i \in writer[w].batch : stream[i] \in crumbs
    /\ writer[w].batch \cap dropped = {}

IInv ==
  /\ IngestInv /\ TypeOK
  /\ CrumbsAreEntries /\ BatchesOK
  /\ AckedIsStored /\ OnlyFaultsStrand
=============================================================================
