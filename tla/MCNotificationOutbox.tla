------------------------- MODULE MCNotificationOutbox -------------------------
(* Instances of NotificationOutbox for TLC. *)
EXTENDS NotificationOutbox, TLC

\* Runners are interchangeable.
RunnerSymmetry == Permutations(Runners)
=============================================================================
