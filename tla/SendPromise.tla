----------------------------- MODULE SendPromise -----------------------------
(***************************************************************************)
(* What staff members who work on one notification together are promised:  *)
(* the notification has one message and one set of targets at any time;    *)
(* sending it is a single step, which sends exactly what the sender was    *)
(* shown, if that is what the notification still is; and afterwards it is  *)
(* as it was sent.  Requests, reads, validations, tokens, comparisons and  *)
(* crashes are hidden; NotificationOperation implements this.              *)
(***************************************************************************)
EXTENDS Integers

CONSTANTS Members, Staff, Linkages

VARIABLES message,     \* which message it has: a new number for each
          targets,     \* the members selected
          shown,       \* shown[p]: what the staff member p has been shown last
          sent         \* what was sent

vars == <<message, targets, shown, sent>>

\* Those of the targets who get the message, each under one linkage.
Recipients == UNION {[V -> Linkages] : V \in SUBSET Members}
Nothing == [targets |-> {}, message |-> 0, recipients |-> [m \in {} |-> 0]]

Init ==
  /\ message = 1
  /\ targets \in SUBSET Members
  /\ shown = [p \in Staff |-> Nothing]
  /\ sent = Nothing

Unsent == sent = Nothing

EditMessage ==
  /\ Unsent
  /\ message' = message + 1
  /\ UNCHANGED <<targets, shown, sent>>

ChooseTargets ==
  /\ Unsent
  /\ targets' \in SUBSET Members
  /\ UNCHANGED <<message, shown, sent>>

\* The targets shown are the ones chosen; the message may have been edited
\* since the answer was begun.
Show(p) ==
  /\ \E read \in 1..message, r \in Recipients \ {Nothing.recipients} :
       /\ DOMAIN r \subseteq targets
       /\ shown' = [shown EXCEPT ![p] = [targets |-> targets, message |-> read, recipients |-> r]]
  /\ UNCHANGED <<message, targets, sent>>

\* There is nothing to confirm.
Withdraw(p) ==
  /\ shown' = [shown EXCEPT ![p] = Nothing]
  /\ UNCHANGED <<message, targets, sent>>

Send(p) ==
  /\ Unsent
  /\ shown[p] # Nothing
  /\ shown[p].message = message /\ shown[p].targets = targets
  /\ sent' = shown[p]
  /\ UNCHANGED <<message, targets, shown>>

Next ==
  \/ EditMessage
  \/ ChooseTargets
  \/ \E p \in Staff : Show(p) \/ Withdraw(p) \/ Send(p)

Spec == Init /\ [][Next]_vars
=============================================================================
