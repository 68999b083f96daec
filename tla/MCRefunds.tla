------------------------------ MODULE MCRefunds ------------------------------
(* Small instances of Refunds for TLC. *)
EXTENDS Refunds, TLC

CONSTANTS k1, k2, k3, h1, h2, h3

\* Any two of them fit the payment, except the two large ones.
MCAmount == k1 :> 1 @@ k2 :> 3 @@ k3 :> 3

MCSymmetry == Permutations({h1, h2, h3}) \cup Permutations({k2, k3})
=============================================================================
