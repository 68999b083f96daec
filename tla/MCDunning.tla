------------------------------ MODULE MCDunning ------------------------------
(* Small instances of Dunning for TLC. *)
EXTENDS Dunning

CONSTANTS e1, fraud, closing, w1, w2, w3
=============================================================================
