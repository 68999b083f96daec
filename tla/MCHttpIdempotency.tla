-------------------------- MODULE MCHttpIdempotency -------------------------
(* Small instances of HttpIdempotency for TLC. *)
EXTENDS HttpIdempotency, TLC

CONSTANTS k1, k2, r1, r2, r3
=============================================================================
