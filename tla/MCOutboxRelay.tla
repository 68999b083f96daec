--------------------------- MODULE MCOutboxRelay ---------------------------
(* Small instances of OutboxRelay for TLC. *)
EXTENDS OutboxRelay, TLC

\* Rows that differ in what is done for them: one goes to the feed and to
\* three queues, the other to the feed and to the outbox queue alone.
MCTypes2 == 1 :> "attention" @@ 2 :> "tenant"
=============================================================================
