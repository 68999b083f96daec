------------------------- MODULE MCWebhookDelivery -------------------------
(* Instance of WebhookDelivery for TLC.                                    *)
EXTENDS WebhookDelivery, TLC

CONSTANTS j1, j2, w1, w2

MCJobs == {j1, j2}
MCWorkers == {w1, w2}

\* One job may be run by two workers at once, the other may not.
MCOverrun == {j1}

Symmetry == Permutations(MCWorkers)
=============================================================================
