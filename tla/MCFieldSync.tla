---------------------------- MODULE MCFieldSync -----------------------------
(* Small instances of FieldSync for TLC. *)
EXTENDS FieldSync, TLC

CONSTANTS m1, m2, m3

\* A completed stop, a scan, and a pickup the server does not accept.
MCKind == m1 :> "stop" @@ m2 :> "scan" @@ m3 :> "refused"
=============================================================================
