-------------------------- MODULE MCHistoryWriter ---------------------------
(* A small instance of HistoryWriter for TLC. *)
EXTENDS HistoryWriter, TLC

CONSTANTS s1, k1, k2, w1, w2

\* An old point after a new one, and another call beside them.
MCPoints == k1 :> <<3, 1>> @@ k2 :> <<3>>
=============================================================================
