------------------------------ MODULE LineExchange ------------------------------
(***************************************************************************)
(* How the Admin client reads the answers of the LINE service about one    *)
(* notification command: HttpLineInternalApiClient._request, the identity  *)
(* and time checks, and the class of the error it raises.  NotificationOutbox *)
(* takes these classes as the answers of LINE; here they are compared with *)
(* what LINE really holds.                                                 *)
(*                                                                         *)
(* A request may be lost on either side of LINE, refused by a gateway in   *)
(* front of it, or answered by LINE; and LINE's answer may be damaged.     *)
(***************************************************************************)
CONSTANTS
  Verdicts,        \* the final statuses LINE can give the command
  GatewayStatuses, \* statuses a gateway answers without asking LINE
  Transport        \* the transport failures: "timeout", "network", "protocol"

Success == {"200", "202"}
ClientErrors == {"403", "404", "409", "422", "429"}
ServerErrors == {"500", "503"}
Redirects == {"302"}
Bodies == {"own", "other command", "other target", "sent undated", "garbage",
           "scope_forbidden"}
NoVerdict == "none"

VerdictAssumption ==
  Verdicts \subseteq {"sent", "failed", "unknown", "rejected",
                      "recipient_not_linked"}
\* A gateway does not answer with a status that means something to LINE alone.
GatewayAssumption ==
  GatewayStatuses \subseteq (ClientErrors \cup ServerErrors \cup Redirects) \ {"404"}
TransportAssumption == Transport \subseteq {"timeout", "network", "protocol"}

VARIABLES
  line,        \* LINE's record of the command: "none", "pending" or a verdict
  authorised,  \* LINE serves this service's scope
  acceptable,  \* LINE accepts the command when it is valid (else 422)
  request,     \* "none", "submit" or "result": the exchange under way
  answer,      \* the answer on its way back, or the transport failure
  outcome,     \* what the last exchange concluded
  took,        \* ghost: LINE stored the command in this exchange
  knew         \* ghost: LINE's record when it answered

vars == <<line, authorised, acceptable, request, answer, outcome, took, knew>>

NoAnswer == [status |-> "none", body |-> "garbage", verdict |-> NoVerdict]
Answer(status, body, verdict) ==
  [status |-> status, body |-> body, verdict |-> verdict]

Init ==
  /\ line = "none"
  /\ authorised \in BOOLEAN
  /\ acceptable \in BOOLEAN
  /\ request = "none"
  /\ answer = NoAnswer
  /\ outcome = "none"
  /\ took = FALSE
  /\ knew = "none"

-----------------------------------------------------------------------------
(* The exchange *)

\* submit_notification_command, or get_notification_result for a command that
\* was accepted.
Ask(kind) ==
  /\ request = "none"
  /\ request' = kind
  /\ answer' = NoAnswer
  /\ outcome' = "none"
  /\ took' = FALSE
  /\ UNCHANGED <<line, authorised, acceptable, knew>>

Expected == IF request = "submit" THEN "202" ELSE "200"

\* What LINE answers when it holds record r.
LineAnswer(r) ==
  CASE ~authorised -> Answer("403", "scope_forbidden", NoVerdict)
    [] authorised /\ request = "submit" /\ ~acceptable ->
         Answer("422", "garbage", NoVerdict)
    [] authorised /\ request = "result" /\ r = "none" ->
         Answer("404", "garbage", NoVerdict)
    [] OTHER -> Answer(Expected, "own", r)

Takes == request = "submit" /\ authorised /\ acceptable /\ line = "none"

\* LINE handles the request and its answer arrives.
LineHandles ==
  /\ request # "none" /\ answer = NoAnswer
  /\ line' = IF Takes THEN "pending" ELSE line
  /\ took' = Takes
  /\ knew' = line'
  /\ answer' = LineAnswer(line')
  /\ UNCHANGED <<authorised, acceptable, request, outcome>>

\* LINE handles the request; its answer is replaced by a server error or a
\* transport failure, or arrives with a body that is not about this command.
LineHandlesInVain(status, body) ==
  /\ request # "none" /\ answer = NoAnswer
  /\ \/ status \in ServerErrors \cup Transport /\ body = "garbage"
     \/ status = Expected /\ body \in Bodies \ {"own", "scope_forbidden"}
  /\ line' = IF Takes THEN "pending" ELSE line
  /\ took' = Takes
  /\ knew' = line'
  /\ answer' = Answer(status, body, line')
  /\ UNCHANGED <<authorised, acceptable, request, outcome>>

\* The request never reaches LINE: a transport failure, a gateway's answer, or
\* the answer to another request.
NeverReachesLine(status, body, verdict) ==
  /\ request # "none" /\ answer = NoAnswer
  /\ \/ status \in GatewayStatuses \cup Transport /\ body = "garbage"
     \/ status = Expected /\ body \in {"other command", "other target"}
  /\ answer' = Answer(status, body, verdict)
  /\ UNCHANGED <<line, authorised, acceptable, request, outcome, took, knew>>

-----------------------------------------------------------------------------
(* The classes.  A definition called a variant is a deliberate bug; no         *)
(* specification uses it.                                                      *)

\* Timeouts, network errors and 5xx.
Unavailable(a) ==
  a.status \in {"timeout", "network"} \cup ServerErrors

\* The other transport errors of httpx are not caught: they escape as they are.
Unclassified(a) == a.status = "protocol"

\* A 404 is "not found" only where a result is asked for.
ResultNotFound(a) == a.status = "404" /\ request = "result"

\* Variant: any 403 is taken for a denial of the scope.
AnyForbidden(a) == a.status = "403"

\* A 403 is a denial of the scope only with exactly LINE's body for it.
ScopeForbidden(a) == a.status = "403" /\ a.body = "scope_forbidden"

\* model_validate, validate_notification_result_identity and _timestamps.
Unreadable(a) ==
  /\ a.status = Expected
  /\ \/ a.body \in {"garbage", "other command", "other target"}
     \/ a.body = "sent undated"

\* Every other 4xx, and every other status but the expected one.
Rejected(a) ==
  /\ a.status \notin {Expected, "timeout", "network", "protocol"}
  /\ ~Unavailable(a) /\ ~ResultNotFound(a) /\ ~ScopeForbidden(a)

Classified(a) ==
  CASE Unavailable(a) \/ Unreadable(a) -> "retryable"
    [] Unclassified(a)   -> "raised"
    [] ResultNotFound(a) -> "not_found"
    [] ScopeForbidden(a) -> "forbidden"
    [] Rejected(a)       -> "permanent"
    [] OTHER -> IF request = "submit" THEN "accepted" ELSE a.verdict

Conclude ==
  /\ answer # NoAnswer
  /\ outcome' = Classified(answer)
  /\ request' = "none"
  /\ answer' = NoAnswer
  /\ UNCHANGED <<line, authorised, acceptable, took, knew>>

-----------------------------------------------------------------------------
(* LINE *)

\* LINE works the command off.
Settle(v) ==
  /\ line = "pending"
  /\ line' = v
  /\ UNCHANGED <<authorised, acceptable, request, answer, outcome, took, knew>>

\* LINE's mapping of services to organizations is edited.
Reconfigure ==
  /\ authorised' = ~authorised
  /\ UNCHANGED <<line, acceptable, request, answer, outcome, took, knew>>

Next ==
  \/ \E kind \in {"submit", "result"} : Ask(kind)
  \/ LineHandles
  \/ \E s \in Success \cup ServerErrors \cup Transport, b \in Bodies :
       LineHandlesInVain(s, b)
  \/ \E s \in Success \cup GatewayStatuses \cup Transport, b \in Bodies,
        v \in {"pending"} \cup Verdicts : NeverReachesLine(s, b, v)
  \/ Conclude
  \/ \E v \in Verdicts : Settle(v)
  \/ Reconfigure

Spec == Init /\ [][Next]_vars

-----------------------------------------------------------------------------
(* Properties *)

Statuses == Success \cup ClientErrors \cup ServerErrors \cup Redirects \cup Transport
LineRecord == {"none", "pending"} \cup Verdicts
Outcomes == {"none", "retryable", "raised", "not_found", "forbidden",
             "permanent", "accepted"} \cup LineRecord

\* Types; an answer belongs to the exchange under way.
TypeOK ==
  /\ line \in LineRecord /\ knew \in LineRecord
  /\ authorised \in BOOLEAN /\ acceptable \in BOOLEAN /\ took \in BOOLEAN
  /\ request \in {"none", "submit", "result"}
  /\ answer \in [status : Statuses \cup {"none"}, body : Bodies,
                 verdict : LineRecord]
  /\ outcome \in Outcomes
  /\ answer # NoAnswer => request # "none"
  /\ took => line # "none"

\* A command is believed to be accepted only when LINE has it.
AcceptedIsHeld == outcome = "accepted" => line # "none"

\* A submission is given up for good only when LINE did not take the command in
\* that exchange: a lost or unreadable answer is never a refusal.
GivenUpIsNotTaken ==
  outcome \in {"permanent", "forbidden"} => ~took

\* A poll that ends the polling says what LINE held when it answered, or that
\* LINE itself refused to say: a gateway's refusal or another command's result
\* never becomes the result of this one.
ConcludesFinally ==
  Classified(answer) \in Verdicts \cup {"not_found", "forbidden"}
    /\ outcome' # outcome /\ outcome' # "none" =>
      \/ outcome' \in Verdicts /\ knew = outcome' /\ line = outcome'
      \/ outcome' = "not_found" /\ knew = "none"
      \/ outcome' = "forbidden" /\ answer.body = "scope_forbidden"

=============================================================================
