----------------------- MODULE MCNotificationDelivery -----------------------
(* Small instances of NotificationDelivery for TLC. *)
EXTENDS NotificationDelivery, TLC

CONSTANTS j1, w1, w2

\* With providers for both channels, or for none.
MCInit == Init /\ configured \in {{}, {"email", "sms"}}

MCSpec == MCInit /\ [][Next]_vars /\ Fairness
=============================================================================
