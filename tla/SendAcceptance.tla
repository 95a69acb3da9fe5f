----------------------------- MODULE SendAcceptance -----------------------------
(***************************************************************************)
(* The last part of send_operation: from a validation that cleared the      *)
(* operation, through the guards that ask LINE, to the reservation, the     *)
(* enqueueing and the answer the client gets, while other clients send or   *)
(* edit the same operation, the process may die and the recovery loop runs. *)
(*                                                                         *)
(* What is validated and confirmed is modelled in NotificationOperation,    *)
(* what becomes of the reserved commands in NotificationOutbox.  Here the   *)
(* question is whether the answers tell the clients what happened, and      *)
(* whether a reservation that nobody was told of is worked on all the same. *)
(***************************************************************************)
EXTENDS Integers, FiniteSets

CONSTANTS
  Clients,     \* staff browsers, each with one request at a time
  Sendable,    \* members the validation clears (sendable_count)
  Limits,      \* values of max_recipients LINE may report; NoLimit for None
  Faults,      \* which faults happen: "line", "storage", "queue", "handler", "crash"
  MaxTries,    \* bound on the tries of a client
  MaxEdits,    \* bound on the edits that follow the validation
  MaxTurns     \* bound on the changes of what LINE reports

NoLimit == 999

CountAssumption ==
  /\ Sendable \in Nat \ {0} /\ Limits \subseteq Nat
  /\ Sendable < NoLimit /\ IsFiniteSet(Clients)
FaultAssumption ==
  Faults \subseteq {"line", "storage", "queue", "handler", "crash"}
BoundAssumption ==
  MaxTries \in Nat \ {0} /\ MaxEdits \in Nat /\ MaxTurns \in Nat

VARIABLES
  op,          \* the stored operation: status, stamp, who reserved it
  work,        \* the reserved commands: "none", "waiting", "taken"
  capability,  \* what LINE reports: mode, limit
  text,        \* whether the final text fits
  edits, turns,
  reports,     \* ghost: what LINE has reported so far
  pc,          \* where each client's request is
  tries,       \* how often each client has tried
  copy,        \* the stamp the request's validation left behind
  answer,      \* what the last try was answered
  audits       \* the events recorded: <<event, client, try>>

stored == <<op, work, audits>>
line == <<capability, text, edits, turns, reports>>
requests == <<pc, tries, copy, answer>>
vars == <<stored, line, requests>>

Try(c) == <<c, tries[c]>>
Nobody == <<"nobody", 0>>
\* "live" is staging_live or production_live.
Modes == {"disabled", "live"}

Init ==
  /\ op = [status |-> "ready", stamp |-> 0, reserved |-> Nobody]
  /\ work = "none"
  /\ capability \in [mode : Modes, limit : Limits]
  /\ text \in BOOLEAN
  /\ edits = 0 /\ turns = 0
  /\ reports = {<<capability, text>>}
  /\ pc = [c \in Clients |-> "idle"]
  /\ tries = [c \in Clients |-> 0]
  /\ copy = [c \in Clients |-> 0]
  /\ answer = [c \in Clients |-> "none"]
  /\ audits = {}

-----------------------------------------------------------------------------
(* The surroundings. *)

LineTurns ==
  /\ turns < MaxTurns
  /\ turns' = turns + 1
  /\ \/ /\ capability' \in [mode : Modes, limit : Limits]
        /\ UNCHANGED text
     \/ text' \in BOOLEAN /\ UNCHANGED capability
  /\ reports' = reports \cup {<<capability', text'>>}
  /\ UNCHANGED <<stored, edits, requests>>

\* Another staff member edits the operation and validates it again.
Edit ==
  /\ edits < MaxEdits
  /\ op.reserved = Nobody
  /\ edits' = edits + 1
  /\ op' = [op EXCEPT !.stamp = @ + 1]
  /\ UNCHANGED <<work, audits, capability, text, turns, reports, requests>>

\* Variant: the recovery loop lists operations that are being sent, no others.
RunnerTakesSending ==
  /\ work = "waiting" /\ op.status = "sending"
  /\ work' = "taken"
  /\ UNCHANGED <<op, audits, line, requests>>

\* The recovery loop dispatches whatever is reserved, and completes it.
RunnerTakes ==
  /\ work = "waiting"
  /\ work' = "taken"
  /\ op' = [op EXCEPT !.status = "sending"]
  /\ UNCHANGED <<audits, line, requests>>

RunnerCompletes ==
  /\ work = "taken" /\ op.status = "sending"
  /\ op' = [op EXCEPT !.status = "completed"]
  /\ UNCHANGED <<work, audits, line, requests>>

-----------------------------------------------------------------------------
(* One request.  A definition called a variant is a deliberate bug; no        *)
(* specification uses it.                                                     *)

Goes(c, place) ==
  /\ pc' = [pc EXCEPT ![c] = place]
  /\ UNCHANGED <<tries, copy, answer>>

Answers(c, reply) ==
  /\ pc' = [pc EXCEPT ![c] = "idle"]
  /\ answer' = [answer EXCEPT ![c] = reply]
  /\ UNCHANGED <<tries, copy>>

Audits(event, c) == audits' = audits \cup {<<event, Try(c)>>}

\* A client sends what was confirmed, again, after confirming anew or editing if
\* it must, when it was not told that the operation is accepted.
Start(c) ==
  /\ pc[c] = "idle"
  /\ answer[c] # "accepted"
  /\ tries[c] < MaxTries
  /\ pc' = [pc EXCEPT ![c] = "read"]
  /\ tries' = [tries EXCEPT ![c] = @ + 1]
  /\ answer' = [answer EXCEPT ![c] = "none"]
  /\ UNCHANGED <<stored, line, copy>>

\* A status that cannot be sent is refused and recorded.
RejectStatus(c) ==
  /\ pc[c] = "read"
  /\ op.status \in {"sending", "completed"}
  /\ Audits("send_rejected", c)
  /\ Answers(c, "conflict")
  /\ UNCHANGED <<op, work, line>>

\* The operation is reserved and not yet dispatched: the accepted state again.
AlreadyAccepted(c) ==
  /\ pc[c] = "read"
  /\ op.status = "ready" /\ op.reserved # Nobody
  /\ Answers(c, "accepted")
  /\ UNCHANGED <<stored, line>>

\* The validation clears the operation; it has written it, and read it back.
Validate(c) ==
  /\ pc[c] = "read"
  /\ op.status = "ready" /\ op.reserved = Nobody
  /\ op' = [op EXCEPT !.stamp = @ + 1]
  /\ copy' = [copy EXCEPT ![c] = op.stamp + 1]
  /\ pc' = [pc EXCEPT ![c] = "capability"]
  /\ UNCHANGED <<work, audits, line, tries, answer>>

\* AdminSendCapabilityGuard: live, ready and within LINE's limit.
Capable ==
  /\ capability.mode # "disabled"
  /\ capability.limit # NoLimit => Sendable <= capability.limit

\* Not ready, above the limit, or LINE is not reached: refused, not recorded.
CheckCapability(c) ==
  /\ pc[c] = "capability"
  /\ \/ Capable /\ Goes(c, "message")
     \/ ~Capable /\ Answers(c, "conflict")
     \/ "line" \in Faults /\ Answers(c, "conflict")
  /\ UNCHANGED <<stored, line>>

\* check_message asks for the capability again, and for the deep link.
CheckMessage(c) ==
  /\ pc[c] = "message"
  /\ \/ capability.mode # "disabled" /\ text /\ Goes(c, "reserve")
     \/ capability.mode # "disabled" /\ ~text /\ Answers(c, "too_long")
     \/ (capability.mode = "disabled" \/ "line" \in Faults) /\ Answers(c, "unavailable")
  /\ UNCHANGED <<stored, line>>

MayReserve(c) == op.reserved = Nobody /\ op.stamp = copy[c]

\* begin_send_attempt: one transaction under the row lock.  Its answer may be
\* lost with the transaction committed or not.
Reserve(c) ==
  /\ pc[c] = "reserve"
  /\ MayReserve(c)
  /\ op' = [op EXCEPT !.reserved = Try(c), !.stamp = @ + 1]
  /\ work' = "waiting"
  /\ Audits("send_requested", c)
  /\ \/ Goes(c, "enqueue")
     \/ "storage" \in Faults /\ Answers(c, "error")
  /\ UNCHANGED line

\* Somebody else reserved it (recorded) or edited it (not recorded).
ReserveRefused(c) ==
  /\ pc[c] = "reserve"
  /\ ~MayReserve(c)
  /\ IF op.reserved # Nobody THEN Audits("send_rejected", c) ELSE UNCHANGED audits
  /\ Answers(c, "conflict")
  /\ UNCHANGED <<op, work, line>>

\* Any repository call may fail; the exception is no conflict and no outage.
StorageFails(c) ==
  /\ "storage" \in Faults
  /\ pc[c] \in {"read", "reserve", "failed", "reread"}
  /\ Answers(c, "error")
  /\ UNCHANGED <<stored, line>>

\* The inline queue dispatches in this request.
Enqueue(c) ==
  /\ pc[c] = "enqueue"
  /\ work' = "taken"
  /\ op' = [op EXCEPT !.status = IF work = "waiting" THEN "sending" ELSE @]
  /\ Goes(c, "reread")
  /\ UNCHANGED <<audits, line>>

\* QueueError: the reservation stands; the recovery loop will find it.
EnqueueFails(c) ==
  /\ "queue" \in Faults
  /\ pc[c] = "enqueue"
  /\ Goes(c, "failed")
  /\ UNCHANGED <<stored, line>>

\* The handler of the inline queue raises something else, before or after the
\* commands were taken: a service or a resource that is not found, or a command
\* the contract refuses, a ValueError that is answered as an invalid request.
HandlerRaises(c) ==
  /\ "handler" \in Faults
  /\ pc[c] = "enqueue"
  /\ \/ UNCHANGED <<op, work>>
     \/ /\ work = "waiting"
        /\ work' = "taken"
        /\ op' = [op EXCEPT !.status = "sending"]
  /\ \E reply \in {"error", "invalid", "not_found"} : Answers(c, reply)
  /\ UNCHANGED <<audits, line>>

\* Variant: a failed enqueue is recorded as a rejection.
RecordFailureAsRejection(c) ==
  /\ pc[c] = "failed"
  /\ Audits("send_rejected", c)
  /\ Answers(c, "accepted")
  /\ UNCHANGED <<op, work, line>>

\* The failure is recorded, if it can be; the operation stays accepted.
RecordFailure(c) ==
  /\ pc[c] = "failed"
  /\ \/ Audits("enqueue_failed", c)
     \/ "storage" \in Faults /\ UNCHANGED audits
  /\ Answers(c, "accepted")
  /\ UNCHANGED <<op, work, line>>

Reread(c) ==
  /\ pc[c] = "reread"
  /\ Answers(c, "accepted")
  /\ UNCHANGED <<stored, line>>

\* The process dies with every request in it; clients see a broken connection.
Crash ==
  /\ "crash" \in Faults
  /\ \E c \in Clients : pc[c] # "idle"
  /\ answer' = [c \in Clients |-> IF pc[c] = "idle" THEN answer[c] ELSE "error"]
  /\ pc' = [c \in Clients |-> "idle"]
  /\ UNCHANGED <<stored, line, tries, copy>>

Step(c) ==
  \/ RejectStatus(c) \/ AlreadyAccepted(c) \/ Validate(c)
  \/ CheckCapability(c) \/ CheckMessage(c)
  \/ Reserve(c) \/ ReserveRefused(c)
  \/ Enqueue(c) \/ RecordFailure(c) \/ Reread(c)

Fails(c) == StorageFails(c) \/ EnqueueFails(c) \/ HandlerRaises(c)

Next ==
  \/ \E c \in Clients : Start(c) \/ Step(c) \/ Fails(c)
  \/ LineTurns \/ Edit \/ RunnerTakes \/ RunnerCompletes \/ Crash

Spec == Init /\ [][Next]_vars

\* The event loop runs each request on, the recovery loop is started again with
\* the process; clients need not try, and nothing has to fail or to complete.
Fairness ==
  /\ \A c \in Clients : WF_vars(Step(c))
  /\ WF_vars(RunnerTakes)

-----------------------------------------------------------------------------
(* Properties *)

TypeOK ==
  /\ op.status \in {"ready", "sending", "completed"} /\ op.stamp \in Nat
  /\ op.reserved \in {Nobody} \cup (Clients \X (1..MaxTries))
  /\ work \in {"none", "waiting", "taken"}
  /\ capability \in [mode : Modes, limit : Limits] /\ text \in BOOLEAN
  /\ pc \in [Clients -> {"idle", "read", "capability", "message", "reserve",
                         "enqueue", "failed", "reread"}]
  /\ tries \in [Clients -> 0..MaxTries] /\ copy \in [Clients -> Nat]
  /\ answer \in [Clients -> {"none", "accepted", "conflict", "too_long", "unavailable",
                             "invalid", "not_found", "error"}]

\* Whoever is told that the operation is accepted can rely on it.
AcceptedIsReserved ==
  \A c \in Clients : answer[c] = "accepted" => op.reserved # Nobody

\* A refusal is one: the try that is told of a conflict, a message that does not
\* fit or an outage has reserved nothing, so that the client may edit or retry.
\* An invalid request, a missing resource or an error may be the answer of a try
\* that did reserve: its client has to read the operation to know.
RefusedReservedNothing ==
  \A c \in Clients :
    answer[c] \in {"conflict", "too_long", "unavailable"} => op.reserved # Try(c)

\* The audit tells of one reservation, by the try that made it, and never calls
\* that same try rejected, however requests and retries overlap.
AuditIsConsistent ==
  \A a, b \in audits :
    a[1] = "send_requested" =>
      /\ b[1] = "send_requested" => a = b
      /\ b[1] = "send_rejected" => a[2] # b[2]

\* Retries after lost answers and competing clients never reserve a second time.
StaysReserved == op.reserved # Nobody => op'.reserved = op.reserved

\* Nothing is reserved unless LINE reported, at some time, a mode that sends
\* with room for every recipient, and, at some time, that the text fits.
ReservedIsPermitted ==
  op.reserved # Nobody =>
    /\ \E rep \in reports : rep[1].mode # "disabled" /\ Sendable <= rep[1].limit
    /\ \E rep \in reports : rep[1].mode # "disabled" /\ rep[2]
=============================================================================
