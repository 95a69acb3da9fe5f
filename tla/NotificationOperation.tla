------------------------- MODULE NotificationOperation -------------------------
(***************************************************************************)
(* One notification operation from its creation to its send reservation:   *)
(* staff members edit its message, replace its targets, validate it,       *)
(* confirm what they were shown and send it, each from a browser of their  *)
(* own and all at the same time.                                           *)
(*                                                                         *)
(* Every write of NotificationService compares, under the row lock, the    *)
(* stored operation with the one the request has read (expected_operation, *)
(* updated_at included): such a transaction is one step.  Between two      *)
(* repository calls of a request any other request may step.               *)
(*                                                                         *)
(* What the external systems and LINE say of a member when it is looked up *)
(* is a free choice of every validation: a verdict per selected member and *)
(* a flaw of the job or the message.  The message is its message_version.  *)
(*                                                                         *)
(* A definition called a variant is a deliberate bug; no specification     *)
(* uses it.                                                                *)
(***************************************************************************)
EXTENDS Integers, FiniteSets

CONSTANTS
  Members,        \* candidates of the job, the only possible targets
  Staff,          \* staff members, each with one request at a time
  Automatic,      \* the operation was created with automatic_selection
  Linkages,       \* linkage versions LINE can report of a linked member
  Refusals,       \* other verdicts a lookup can give of a member
  Flaws,          \* flaws a validation can find
  RecipientLimit, \* selected_recipient_limit
  CanCrash,       \* a request may die between two of its steps
  MaxStamp,       \* bound: no request starts after this many writes
  MaxMessage      \* bound: edits that change the message

ASSUME LookupAssumption ==
  /\ Refusals \subseteq {"opted_out", "not_linked", "ineligible", "missing", "unknown"}
  /\ Linkages \cap {"skip", "block", "opted_out", "not_linked", "ineligible",
                    "missing", "unknown"} = {}
  /\ {"none"} \subseteq Flaws
  /\ Flaws \subseteq {"none", "job", "version", "empty", "unfilled"}
ASSUME SwitchAssumption == Automatic \in BOOLEAN /\ CanCrash \in BOOLEAN
ASSUME BoundAssumption ==
  RecipientLimit \in Nat /\ MaxStamp \in Nat /\ MaxMessage \in Nat \ {0}

VARIABLES
  op,          \* the stored operation
  targets,     \* members with a selected target row
  deliveries,  \* delivery status of each member, once reserved
  outbox,      \* the command reserved for each member of V
  pc,          \* where each staff member's request is
  copy,        \* the operation as the request has read it
  seen,        \* the targets as the request has read them
  origin,      \* original_status of a running validation
  summary,     \* what the request's validation found
  errand,      \* what the validation is run for: "validate", "again", "send"
  token,       \* what the staff member was shown and may confirm
  confirmed    \* the confirmation the reservation was made with

stored == <<op, targets, deliveries, outbox, confirmed>>
request == <<pc, copy, seen, origin, summary, errand>>
vars == <<op, targets, deliveries, outbox, pc, copy, seen, origin, summary,
          errand, token, confirmed>>

-----------------------------------------------------------------------------
(* Data *)

NoStamp == 0
Empty == [m \in {} |-> "skip"]
Functions(S, R) == UNION {[D -> R] : D \in SUBSET S}
Editable == {"draft", "ready", "blocked"}
Rejected == {"blocked", "sending", "completed"}
Status == Editable \cup Rejected \cup {"validating"}
Disposition == Linkages \cup {"skip", "block"}
Results == Functions(Members, Disposition)
Exclusions == Functions(Members, {"skip", "block"})
Command == [message : 1..MaxMessage, linkage : Linkages]
Deliveries == Functions(Members, {"pending", "skipped"})
Commands == Functions(Members, Command)

\* stamp stands for updated_at, validated for validated_at, revision for the
\* uuid of the last target replacement; results, proceed and reconfirm are the
\* validation snapshot and excluded its automatic_selection context.
Operation ==
  [status : Status, message : 1..MaxMessage, stamp : Nat, validated : Nat, revision : Nat,
   results : Results, proceed : BOOLEAN, reconfirm : BOOLEAN,
   excluded : Exclusions, reserved : BOOLEAN]
Summary == [results : Results, flaw : Flaws \cup {"job"}, reconfirm : BOOLEAN,
            validated : Nat]
Token == [op : Operation, targets : SUBSET Members, shown : Results]

Created ==
  [status |-> "draft", message |-> 1, stamp |-> 1, validated |-> NoStamp,
   revision |-> 0, results |-> Empty, proceed |-> FALSE, reconfirm |-> FALSE,
   excluded |-> Empty, reserved |-> FALSE]
NoSummary == [results |-> Empty, flaw |-> "none", reconfirm |-> FALSE,
              validated |-> NoStamp]
NothingShown == [targets |-> {}, message |-> 0, recipients |-> Empty]
NoToken == [op |-> Created, targets |-> {}, shown |-> Empty]

Sends(results) == {m \in DOMAIN results : results[m] \in Linkages}
Blocks(results) == {m \in DOMAIN results : results[m] = "block"}

\* _target_results, for one selected member.  A recorded exclusion stands,
\* unless the preferences are unknown.
DispositionOf(m, verdict, excluded) ==
  IF verdict[m] = "unknown" THEN "block"
  ELSE IF m \in DOMAIN excluded THEN excluded[m]
  ELSE IF verdict[m] = "missing" THEN "block"
  ELSE IF verdict[m] \in Linkages THEN verdict[m]
  ELSE "skip"

\* In an automatic operation a flaw of the job or an empty message blocks all.
ResultsOf(S, verdict, flaw, excluded) ==
  [m \in S |-> IF Automatic /\ flaw \in {"job", "version", "empty"} THEN "block"
               ELSE DispositionOf(m, verdict, excluded)]

\* target_difference.
Differs(S, verdict, excluded) ==
  \E m \in S \ DOMAIN excluded : verdict[m] \in {"ineligible", "missing"}

\* Variant: the disposition of an item is not tested.
LatchedWhole(S, verdict, flaw) == S

\* The members _snapshot_for newly excludes: never for a transient reason, a
\* preference or the message.
Latched(S, verdict, flaw) ==
  CASE flaw \in {"job", "version"} -> S
    [] flaw = "empty"              -> {}
    [] OTHER -> {m \in S : verdict[m] \in {"not_linked", "ineligible", "missing"}}

\* excluded.setdefault: an exclusion keeps its first disposition.
Exclude(excluded, S, results) ==
  [m \in DOMAIN excluded \cup S |->
     IF m \in DOMAIN excluded THEN excluded[m] ELSE results[m]]

CanProceed(s) ==
  s.flaw = "none" /\ Sends(s.results) # {} /\ Blocks(s.results) = {}

\* Variant: the validation snapshot is cleared, context and all.
UnvalidatedWhole(o) ==
  [o EXCEPT !.validated = NoStamp, !.results = Empty, !.proceed = FALSE,
            !.reconfirm = FALSE, !.excluded = Empty]

\* context_snapshot: a write that discards the validation keeps the context.
Unvalidated(o) ==
  [o EXCEPT !.validated = NoStamp, !.results = Empty, !.proceed = FALSE,
            !.reconfirm = FALSE]

-----------------------------------------------------------------------------
(* Requests *)

\* create_operation and the first replacement of its targets.
Init ==
  /\ op = Created
  /\ targets \in SUBSET Members
  /\ deliveries = Empty
  /\ outbox = Empty
  /\ pc = [p \in Staff |-> "idle"]
  /\ copy = [p \in Staff |-> Created]
  /\ seen = [p \in Staff |-> {}]
  /\ origin = [p \in Staff |-> "draft"]
  /\ summary = [p \in Staff |-> NoSummary]
  /\ errand = [p \in Staff |-> "validate"]
  /\ token = [p \in Staff |-> NoToken]
  /\ confirmed = NoToken

GoTo(p, place) == pc' = [pc EXCEPT ![p] = place]

\* The request is answered, with or without an error; nothing of it stays in
\* the server.
Forget(p) ==
  /\ copy' = [copy EXCEPT ![p] = Created]
  /\ seen' = [seen EXCEPT ![p] = {}]
  /\ origin' = [origin EXCEPT ![p] = "draft"]
  /\ summary' = [summary EXCEPT ![p] = NoSummary]
  /\ errand' = [errand EXCEPT ![p] = "validate"]
End(p) == GoTo(p, "idle") /\ Forget(p)

\* A staff member starts a request.
Begin(p, place, purpose) ==
  /\ pc[p] = "idle"
  /\ op.stamp <= MaxStamp
  /\ GoTo(p, place)
  /\ errand' = [errand EXCEPT ![p] = purpose]
  /\ UNCHANGED <<stored, copy, seen, origin, summary, token>>

BeginRequest(p) ==
  \/ \E place \in {"edit", "replace", "validate"} : Begin(p, place, "validate")
  \/ token[p] # NoToken /\ Begin(p, "send", "send")
  \/ Automatic /\ Begin(p, "view", "validate")

\* Variant: a running validation does not keep others out.
IsEditableAlways(o) == ~o.reserved

\* get_operation, then _ensure_editable on what was read.
IsEditable(o) == o.status \in Editable /\ ~o.reserved

ReadToWrite(p, place, next) ==
  /\ pc[p] = place
  /\ IF IsEditable(op)
     THEN /\ GoTo(p, next)
          /\ copy' = [copy EXCEPT ![p] = op]
          /\ UNCHANGED <<seen, origin, summary, errand>>
     ELSE End(p)
  /\ UNCHANGED <<stored, token>>

\* Variant: the stored operation is not compared.
MayWriteBlindly(p) == TRUE

\* expected_operation and the guards of the repository, under the row lock.
MayWrite(p) == op = copy[p] /\ ~op.reserved

\* updated_at = now.
Stamped(o) == [o EXCEPT !.stamp = op.stamp + 1]

-----------------------------------------------------------------------------
(* Editing *)

ReadDraft(p) == ReadToWrite(p, "edit", "edit_write")

\* update_draft; an edit may leave the message as it is.
UpdateDraft(p, change) ==
  /\ pc[p] = "edit_write"
  /\ change \in {0, 1}
  /\ copy[p].message + change <= MaxMessage
  /\ IF MayWrite(p)
     THEN op' = Stamped([Unvalidated(copy[p]) EXCEPT !.status = "draft",
                                                     !.message = @ + change])
     ELSE op' = op
  /\ End(p)
  /\ UNCHANGED <<targets, deliveries, outbox, token, confirmed>>

ReadForTargets(p) == ReadToWrite(p, "replace", "replace_write")

\* replace_targets: S is selected, the exclusions of R are lifted.
ReplaceTargets(p, S, R) ==
  /\ pc[p] = "replace_write"
  /\ R \subseteq S \cap DOMAIN copy[p].excluded
  /\ IF MayWrite(p)
     THEN /\ targets' = S
          /\ op' = Stamped([Unvalidated(copy[p]) EXCEPT
               !.status = "draft",
               !.revision = IF Automatic THEN op.stamp + 1 ELSE @,
               !.excluded = [m \in (DOMAIN @ \cap S) \ R |-> @[m]]])
     ELSE UNCHANGED <<op, targets>>
  /\ End(p)
  /\ UNCHANGED <<deliveries, outbox, token, confirmed>>

-----------------------------------------------------------------------------
(* Validation *)

ReadToValidate(p) == ReadToWrite(p, "validate", "validate_targets")

\* _ensure_editable looks for deliveries, then get_targets.
ReadTargets(p) ==
  /\ pc[p] = "validate_targets"
  /\ IF DOMAIN deliveries = {}
     THEN /\ GoTo(p, "validate_start")
          /\ seen' = [seen EXCEPT ![p] = targets]
          /\ UNCHANGED <<copy, origin, summary, errand>>
     ELSE End(p)
  /\ UNCHANGED <<stored, token>>

\* The operation is marked validating.
StartValidation(p) ==
  /\ pc[p] = "validate_start"
  /\ IF MayWrite(p)
     THEN /\ op' = Stamped([Unvalidated(copy[p]) EXCEPT !.status = "validating"])
          /\ copy' = [copy EXCEPT ![p] = op']
          /\ origin' = [origin EXCEPT ![p] = copy[p].status]
          /\ GoTo(p, "lookup")
          /\ UNCHANGED <<seen, summary, errand>>
     ELSE End(p) /\ op' = op
  /\ UNCHANGED <<targets, deliveries, outbox, token, confirmed>>

\* The validation comes to a result and stores it, with the targets S.
Finish(p, status, s, excluded, S) ==
  /\ pc[p] = "lookup"
  /\ IF MayWrite(p)
     THEN /\ op' = Stamped([copy[p] EXCEPT
               !.status = status, !.validated = s.validated, !.results = s.results,
               !.proceed = CanProceed(s), !.reconfirm = s.reconfirm,
               !.excluded = IF Automatic THEN excluded ELSE Empty])
          /\ targets' = S
          /\ summary' = [summary EXCEPT ![p] = s]
          /\ GoTo(p, IF errand[p] = "send" THEN "reread" ELSE "validated")
          /\ UNCHANGED <<copy, seen, origin, errand>>
     ELSE End(p) /\ UNCHANGED <<op, targets>>
  /\ UNCHANGED <<deliveries, outbox, token, confirmed>>

NoSelectedTargets(p) ==
  /\ seen[p] = {}
  /\ Finish(p, "draft", [NoSummary EXCEPT !.flaw = "job", !.validated = copy[p].stamp],
            copy[p].excluded, seen[p])

\* The lookups answer.
Conclude(p, verdict, flaw) ==
  LET s == [results   |-> ResultsOf(seen[p], verdict, flaw, copy[p].excluded),
            flaw      |-> flaw,
            reconfirm |-> flaw = "version" \/ Differs(seen[p], verdict, copy[p].excluded),
            validated |-> copy[p].stamp]
  IN  /\ seen[p] # {}
      /\ Finish(p, "ready", s,
                Exclude(copy[p].excluded, Latched(seen[p], verdict, flaw), s.results),
                seen[p])

\* Nobody can be sent to: the job is gone, or a system does not answer.
AllBlocked(p) ==
  [NoSummary EXCEPT
     !.results = IF Automatic THEN [m \in seen[p] |-> "block"] ELSE Empty,
     !.flaw = "job", !.validated = copy[p].stamp]

JobNotFound(p) ==
  /\ seen[p] # {}
  /\ Finish(p, "ready", AllBlocked(p),
            Exclude(copy[p].excluded, seen[p], [m \in seen[p] |-> "block"]), seen[p])

\* Nothing is latched, and the targets are not rewritten.
ExternalSystemUnavailable(p) ==
  /\ seen[p] # {}
  /\ Finish(p, "blocked", AllBlocked(p), copy[p].excluded, targets)

\* Variant: the error goes to the caller, the status is not restored.
RestoreNothing(p) ==
  /\ pc[p] = "lookup"
  /\ seen[p] # {}
  /\ op' = op
  /\ End(p)
  /\ UNCHANGED <<targets, deliveries, outbox, token, confirmed>>

\* _restore_status, and the error goes to the caller.
RestoreStatus(p) ==
  /\ pc[p] = "lookup"
  /\ seen[p] # {}
  /\ op' = IF MayWrite(p) THEN Stamped([copy[p] EXCEPT !.status = origin[p]]) ELSE op
  /\ End(p)
  /\ UNCHANGED <<targets, deliveries, outbox, token, confirmed>>

\* AdminApplicationService.validate: an automatic operation whose exclusions
\* have changed is validated once more.
ValidatesAgain(p) ==
  /\ Automatic /\ errand[p] = "validate"
  /\ summary[p].reconfirm /\ summary[p].flaw \in {"none", "unfilled"}
  /\ Sends(summary[p].results) # {} /\ Blocks(summary[p].results) = {}

AfterValidation(p) ==
  /\ pc[p] = "validated"
  /\ \/ op.status = "blocked" /\ errand[p] = "validate" /\ End(p)
     \/ /\ op.status # "blocked" /\ ValidatesAgain(p)
        /\ GoTo(p, "validate")
        /\ errand' = [errand EXCEPT ![p] = "again"]
        /\ UNCHANGED <<copy, seen, origin, summary>>
     \/ /\ op.status # "blocked" \/ errand[p] = "again"
        /\ ~ValidatesAgain(p)
        /\ GoTo(p, "respond")
        /\ UNCHANGED <<copy, seen, origin, summary, errand>>
  /\ UNCHANGED <<stored, token>>

-----------------------------------------------------------------------------
(* Confirmation: what the staff member is shown, with the token for it *)

ReadOperation(p, place, next) ==
  /\ pc[p] = place
  /\ copy' = [copy EXCEPT ![p] = op]
  /\ GoTo(p, next)
  /\ UNCHANGED <<stored, seen, origin, summary, errand, token>>

ReadToRespond(p) == ReadOperation(p, "respond", "respond_targets")

\* The answer to a validation request shows this validation's results.
Respond(p) ==
  /\ pc[p] = "respond_targets"
  /\ token' = [token EXCEPT ![p] =
       IF /\ CanProceed(summary[p]) /\ ~summary[p].reconfirm
          /\ copy[p].status = "ready" /\ copy[p].validated = summary[p].validated
          /\ DOMAIN summary[p].results = targets
       THEN [op |-> copy[p], targets |-> targets, shown |-> summary[p].results]
       ELSE NoToken]
  /\ End(p)
  /\ UNCHANGED stored

ReadToView(p) == ReadOperation(p, "view", "view_targets")

ReadTargetsToView(p) ==
  /\ pc[p] = "view_targets"
  /\ seen' = [seen EXCEPT ![p] = targets]
  /\ GoTo(p, "view_answer")
  /\ UNCHANGED <<stored, copy, origin, summary, errand, token>>

\* confirmation() shows the stored results, when they have not changed since.
View(p) ==
  /\ pc[p] = "view_answer"
  /\ token' = IF op # copy[p] \/ targets # seen[p] THEN token
              ELSE [token EXCEPT ![p] =
                IF /\ op.status = "ready" /\ op.validated # NoStamp /\ ~op.reserved
                   /\ op.proceed /\ ~op.reconfirm
                   /\ DOMAIN op.results = targets /\ Sends(op.results) # {}
                THEN [op |-> op, targets |-> targets, shown |-> op.results]
                ELSE NoToken]
  /\ End(p)
  /\ UNCHANGED stored

-----------------------------------------------------------------------------
(* Sending *)

ReadToSend(p) ==
  /\ pc[p] = "send"
  /\ IF op.status \in Rejected \/ op.reserved THEN End(p)
     ELSE /\ copy' = [copy EXCEPT ![p] = op]
          /\ GoTo(p, "send_check")
          /\ UNCHANGED <<seen, origin, summary, errand>>
  /\ UNCHANGED <<stored, token>>

\* The token must be the identity of what is stored; then the operation is
\* validated again.
CheckConfirmation(p) ==
  /\ pc[p] = "send_check"
  /\ IF /\ DOMAIN deliveries = {}
        /\ copy[p].validated # NoStamp
        /\ token[p].op = copy[p] /\ token[p].targets = targets
     THEN /\ GoTo(p, "validate")
          /\ UNCHANGED <<copy, seen, origin, summary, errand>>
     ELSE End(p)
  /\ UNCHANGED <<stored, token>>

\* Variant: any validation will do.
StillValidatedStatus(p) == op.status = "ready"

\* The validation of this request is the one that is stored.
StillValidated(p) ==
  /\ op.status = "ready"
  /\ op.validated = summary[p].validated
  /\ op.results = summary[p].results

SendsOf(results) == [m \in Sends(results) |-> results[m]]

\* Variant: the message is not compared.
StillConfirmedRecipients(p) ==
  /\ SendsOf(summary[p].results) = SendsOf(token[p].op.results)
  /\ DOMAIN summary[p].results = token[p].targets

\* V with its linkage versions, S, the message and the revision are those the
\* token stands for.
StillConfirmed(p) ==
  /\ SendsOf(summary[p].results) = SendsOf(token[p].op.results)
  /\ DOMAIN summary[p].results = token[p].targets
  /\ op.message = token[p].op.message
  /\ Automatic => op.revision = token[p].op.revision

CompareConfirmation(p) ==
  /\ pc[p] = "reread"
  /\ IF /\ StillValidated(p) /\ StillConfirmed(p)
        /\ CanProceed(summary[p]) /\ ~summary[p].reconfirm
        /\ Cardinality(DOMAIN summary[p].results) <= RecipientLimit
     THEN /\ copy' = [copy EXCEPT ![p] = op]
          /\ GoTo(p, "reserve")
          /\ UNCHANGED <<seen, origin, summary, errand>>
     ELSE End(p)
  /\ UNCHANGED <<stored, token>>

\* Variant: members to skip get no delivery.
DeliveriesOfSends(results) == [m \in Sends(results) |-> "pending"]

\* The delivery population of a reservation.
DeliveriesOf(results) ==
  [m \in DOMAIN results \ Blocks(results) |->
     IF m \in Sends(results) THEN "pending" ELSE "skipped"]

\* Variant: the operation is not compared with the one that was confirmed.
MayReserveUncompared(p) == ~op.reserved /\ DOMAIN deliveries = {}

MayReserve(p) == ~op.reserved /\ DOMAIN deliveries = {} /\ op = copy[p]

\* begin_send_attempt.
Reserve(p) ==
  /\ pc[p] = "reserve"
  /\ IF MayReserve(p)
     THEN /\ deliveries' = DeliveriesOf(summary[p].results)
          /\ outbox' = [m \in Sends(summary[p].results) |->
               [message |-> copy[p].message, linkage |-> summary[p].results[m]]]
          /\ op' = Stamped([copy[p] EXCEPT !.reserved = TRUE])
          /\ confirmed' = token[p]
     ELSE UNCHANGED <<op, deliveries, outbox, confirmed>>
  /\ End(p)
  /\ UNCHANGED <<targets, token>>

-----------------------------------------------------------------------------
(* The surroundings *)

\* The execution of the reservation writes the aggregate status.
Execute ==
  /\ op.reserved
  /\ \/ op.status = "ready" /\ op' = Stamped([op EXCEPT !.status = "sending"])
     \/ op.status = "sending" /\ op' = Stamped([op EXCEPT !.status = "completed"])
  /\ UNCHANGED <<targets, deliveries, outbox, request, token, confirmed>>

\* A guard or a system the request calls outside a validation says no.
Refuse(p) ==
  /\ pc[p] \notin {"idle", "lookup"}
  /\ End(p)
  /\ UNCHANGED <<stored, token>>

\* The request dies in a validation, or the write of its result fails: the
\* operation stays validating.
Crash(p) ==
  /\ CanCrash
  /\ pc[p] = "lookup"
  /\ End(p)
  /\ UNCHANGED <<stored, token>>

-----------------------------------------------------------------------------
Edit(p) ==
  \/ ReadDraft(p)
  \/ \E change \in {0, 1} : UpdateDraft(p, change)
  \/ ReadForTargets(p)
  \/ \E S, R \in SUBSET Members : ReplaceTargets(p, S, R)

Validate(p) ==
  \/ ReadToValidate(p)
  \/ ReadTargets(p)
  \/ StartValidation(p)
  \/ NoSelectedTargets(p)
  \/ \E verdict \in [Members -> Linkages \cup Refusals], flaw \in Flaws :
       Conclude(p, verdict, flaw)
  \/ JobNotFound(p)
  \/ ExternalSystemUnavailable(p)
  \/ RestoreStatus(p)
  \/ AfterValidation(p)

Confirm(p) ==
  \/ ReadToRespond(p)
  \/ Respond(p)
  \/ ReadToView(p)
  \/ ReadTargetsToView(p)
  \/ View(p)

Send(p) ==
  \/ ReadToSend(p)
  \/ CheckConfirmation(p)
  \/ CompareConfirmation(p)
  \/ Reserve(p)

Serve(p) == Edit(p) \/ Validate(p) \/ Confirm(p) \/ Send(p)

Next ==
  \/ \E p \in Staff : BeginRequest(p) \/ Serve(p) \/ Refuse(p) \/ Crash(p)
  \/ Execute

Spec == Init /\ [][Next]_vars

\* The server goes on with every request it has accepted: every call it awaits
\* has a timeout.
FairSpec == Spec /\ \A p \in Staff : WF_vars(Serve(p))

-----------------------------------------------------------------------------
(* Properties *)

Place == {"idle", "edit", "edit_write", "replace", "replace_write", "validate",
          "validate_targets", "validate_start", "lookup", "validated", "reread",
          "respond", "respond_targets", "view", "view_targets", "view_answer",
          "send", "send_check", "reserve"}

\* The values the variables range over.
TypeOK ==
  /\ op \in Operation
  /\ targets \subseteq Members
  /\ deliveries \in Deliveries
  /\ outbox \in Commands
  /\ pc \in [Staff -> Place]
  /\ copy \in [Staff -> Operation]
  /\ seen \in [Staff -> SUBSET Members]
  /\ origin \in [Staff -> Editable]
  /\ summary \in [Staff -> Summary]
  /\ errand \in [Staff -> {"validate", "again", "send"}]
  /\ token \in [Staff -> Token]
  /\ confirmed \in Token

\* What a request holds in hand is a state the operation was in, now or
\* earlier, and one its next step may start from; the operation and the targets
\* a validation starts with were read in two transactions, and still belong
\* together if the operation has not changed since.
InHand ==
  \A p \in Staff :
    /\ copy[p].stamp \in 1..op.stamp
    /\ pc[p] \in {"edit_write", "replace_write", "validate_targets", "validate_start"}
         => IsEditable(copy[p])
    /\ pc[p] = "validate_start" /\ op = copy[p] => targets = seen[p]
    /\ pc[p] = "reserve" =>
         /\ copy[p].status = "ready"
         /\ copy[p].results = summary[p].results
         /\ Sends(copy[p].results) # {} /\ Blocks(copy[p].results) = {}

\* A validation that runs is the only one, and nobody else touches the
\* operation or its targets until it is over: its results are of the message,
\* the targets and the exclusions that are stored.
SoleValidator ==
  \A p \in Staff : pc[p] = "lookup" =>
    /\ op = copy[p] /\ op.status = "validating" /\ targets = seen[p]
    /\ \A q \in Staff \ {p} : pc[q] # "lookup"

\* A stored validation is of the stored targets: the two frozen
\* representations selected_deliveries compares never disagree, whoever wrote
\* last; and a reservation's deliveries and commands are exactly the ones its
\* snapshot calls for.
PopulationAgrees ==
  /\ op.results # Empty => DOMAIN op.results = targets
  /\ op.reserved <=> DOMAIN deliveries # {}
  /\ op.reserved =>
       /\ DOMAIN deliveries = targets /\ targets = DOMAIN op.results
       /\ DOMAIN outbox = {m \in targets : deliveries[m] = "pending"}
       /\ DOMAIN outbox = Sends(op.results)

\* What is reserved is what the staff member who sent it was shown: the same
\* selection S, the same members V to send to with the same linkage versions,
\* the same message.
ReservedIsConfirmed ==
  op.reserved =>
    /\ confirmed.targets = targets
    /\ DOMAIN confirmed.shown = targets
    /\ SendsOf(confirmed.shown) = [m \in DOMAIN outbox |-> outbox[m].linkage]
    /\ \A m \in DOMAIN outbox : outbox[m].message = confirmed.op.message
    /\ confirmed.op.message = op.message

\* A reserved selection is within the recipient limit.  The limit is tested
\* before the reservation and counts what the request validated: whoever
\* selects more meanwhile must make the reservation fail.
WithinLimit == op.reserved => Cardinality(targets) <= RecipientLimit

\* What an answer with a token shows, and what the reservation sends.
ShownBy(t) ==
  IF t = NoToken THEN NothingShown
  ELSE [targets |-> t.targets, message |-> t.op.message, recipients |-> SendsOf(t.shown)]
Reserved ==
  IF ~op.reserved THEN NothingShown
  ELSE [targets |-> DOMAIN deliveries,
        message |-> CHOOSE x \in {outbox[m].message : m \in DOMAIN outbox} : TRUE,
        recipients |-> [m \in DOMAIN outbox |-> outbox[m].linkage]]

Promise == INSTANCE SendPromise WITH
  message <- op.message,
  shown <- [p \in Staff |-> ShownBy(token[p])],
  sent <- Reserved

\* Whatever the requests of several staff members do between their reads and
\* writes, sending is one step: it sends what its sender was shown, and that
\* is what the operation was at that moment (send_operation,
\* begin_send_attempt).
SendsAsPromised == Promise!Spec

\* No stored validation and no reservation sends to a member an earlier
\* validation has excluded and no staff member has selected again.
ExcludedNotSent ==
  (Sends(op.results) \cup DOMAIN outbox) \cap DOMAIN op.excluded = {}

\* An exclusion outlives edits, failed and repeated validations: only a
\* replacement of the targets lifts it.
ExclusionsPersist ==
  [][\A m \in DOMAIN op.excluded :
       \/ m \in DOMAIN op'.excluded /\ op'.excluded[m] = op.excluded[m]
       \/ op'.revision # op.revision]_vars

\* Both: nobody excluded is sent to until the targets are replaced.
ExclusionsRespected == []ExcludedNotSent /\ ExclusionsPersist

\* After the reservation nothing of what was reserved changes, and there is no
\* second reservation: stale editors, validations and senders all fail.
FrozenOnceReserved ==
  [][op.reserved =>
       /\ UNCHANGED <<targets, deliveries, outbox, confirmed>>
       /\ op' = [op EXCEPT !.status = op'.status, !.stamp = op'.stamp]
       /\ op'.status \in {op.status, "sending", "completed"}]_vars

\* A validation comes to an end, if no request dies in it: the operation can be
\* edited again.
ValidationEnds == (op.status = "validating") ~> (op.status # "validating")
=============================================================================
