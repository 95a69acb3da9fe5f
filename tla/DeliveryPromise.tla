--------------------------- MODULE DeliveryPromise ---------------------------
(***************************************************************************)
(* What a reserved notification operation promises the staff member who   *)
(* looks at it: every selected member gets one final result, a result is   *)
(* never taken back, and the operation's status is always the one its      *)
(* deliveries add up to.  Leases, claims, retries and polling are hidden;  *)
(* NotificationOutbox implements this specification.                       *)
(***************************************************************************)
CONSTANT Selected       \* the members selected at the send reservation (S)

VARIABLES delivery,     \* delivery[m]: admin_notification_deliveries.status
          status,       \* admin_notification_operations.status
          completed     \* whether completed_at is set

vars == <<delivery, status, completed>>

Final == {"sent", "failed", "unknown", "skipped"}

\* The status a whole delivery population adds up to.
Aggregate(d) ==
  IF \E m \in Selected : d[m] = "pending" THEN "sending"
  ELSE IF \A m \in Selected : d[m] = "sent" THEN "completed"
  ELSE "completed_with_errors"

\* At the reservation a selected member is either to be sent to, or refused.
Init ==
  /\ delivery \in [Selected -> {"pending", "skipped"}]
  /\ \E m \in Selected : delivery[m] = "pending"
  /\ status = "ready"
  /\ completed = FALSE

\* Work has begun: the operation is shown as being sent.
Announce ==
  /\ status = "ready"
  /\ \E m \in Selected : delivery[m] = "pending"
  /\ status' = "sending"
  /\ UNCHANGED <<delivery, completed>>

\* One member's result arrives, once, and the operation follows at once.
Settle(m, result) ==
  /\ delivery[m] = "pending"
  /\ delivery' = [delivery EXCEPT ![m] = result]
  /\ status' = Aggregate(delivery')
  /\ completed' = (status' # "sending")

Next ==
  \/ Announce
  \/ \E m \in Selected, result \in Final : Settle(m, result)

Spec == Init /\ [][Next]_vars
=============================================================================
