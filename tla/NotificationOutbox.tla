-------------------------- MODULE NotificationOutbox --------------------------
(***************************************************************************)
(* The execution of one reserved notification operation: its outbox rows,  *)
(* its deliveries and its aggregate status, the dispatchers that claim a   *)
(* row under a lease and submit it to the LINE service, and the            *)
(* reconcilers that poll LINE for the result.                              *)
(*                                                                         *)
(* A method of SqlAlchemyAdminNotificationRepository that writes runs in   *)
(* one transaction under the operation's row lock, and is one step here.   *)
(* An await outside a transaction (an HTTP call, the gap between two       *)
(* repository calls) is a point where the other processes may step.        *)
(*                                                                         *)
(* Time is the order of events.  lease_expires_at is read twice by the     *)
(* code: compared with the clock (lease: "null", "running" or "over") and  *)
(* used to sort the claimable rows (earlier: the strict order of the       *)
(* timestamps).                                                            *)
(***************************************************************************)
EXTENDS Integers, FiniteSets, Sequences

CONSTANTS
  Members,        \* members with an outbox row, numbered by outbox_id (V)
  Refused,        \* members selected but not sendable: skipped at once (S \ V)
  Runners,        \* one AdminNotificationRunner task per running instance
  Requests,       \* send requests that dispatch inline after reserving
  Tokens,         \* claim tokens (uuid4)
  NoToken,        \* claim_token IS NULL
  Inherited,      \* members whose rows date from before leases existed
  NoLinkage,      \* inherited rows that never recorded a linkage_version
  PageLimit,      \* results polled per reconciliation (50 in the code)
  LineVerdicts,   \* the final statuses LINE can give a command
  Prompt,         \* a live worker finishes a submission within its lease
  ConsistentLine, \* LINE never denies a command it would accept, or did
  Unanswered      \* members about whose command LINE may never be conclusive

ASSUME MembersAssumption ==
  /\ Members \subseteq Nat \ {0} /\ IsFiniteSet(Members) /\ Members # {}
  /\ IsFiniteSet(Refused) /\ Refused \cap Members = {}
  /\ NoLinkage \subseteq Inherited /\ Inherited \subseteq Members
ASSUME ProcessAssumption == Runners \cap Requests = {}
ASSUME TokenAssumption == NoToken \notin Tokens
ASSUME PageAssumption == PageLimit \in Nat \ {0}
ASSUME LineAssumption ==
  LineVerdicts \subseteq {"sent", "failed", "unknown", "rejected",
                          "recipient_not_linked"}
ASSUME FlagAssumption == Prompt \in BOOLEAN /\ ConsistentLine \in BOOLEAN
ASSUME UnansweredAssumption == Unanswered \subseteq Members

Processes == Runners \cup Requests
Selected == Members \cup Refused
NoMember == 0

OutboxState == {"pending", "delivering", "accepted", "retryable_failure",
                "permanent_failure", "reconciled"}
DeliveryFinal == {"sent", "failed", "unknown", "skipped"}
DeliveryStatus == {"pending"} \cup DeliveryFinal
OperationFinal == {"completed", "completed_with_errors"}
OperationStatus == {"ready", "sending"} \cup OperationFinal
Outcome == {"accepted", "retryable_failure", "permanent_failure"}

VARIABLES
  outbox,     \* state column of each member's outbox row
  lease,      \* lease_expires_at against the clock: "null", "running", "over"
  earlier,    \* <<a, b>>: a's lease_expires_at is before b's
  token,      \* claim_token column
  delivery,   \* status column of each selected member's delivery
  status,     \* the operation's status
  completed,  \* completed_at IS NOT NULL
  audit,      \* statuses written by delivery_aggregate_updated audit events
  pc,         \* where each process is
  item,       \* the member the process is submitting or polling
  held,       \* the claim token the dispatching process holds
  answer,     \* what the process is about to record
  page,       \* members the reconciler has still to poll
  copy,       \* the reconciler's snapshot of the deliveries
  cursor,     \* the reconciler's in-memory page cursor
  line,       \* LINE's record of the command of each member
  refusing,   \* members whose command LINE would deny (4xx)
  wire        \* <<p, m>>: a POST for m issued by p not yet seen by LINE

rows == <<outbox, lease, earlier, token>>
operation == <<delivery, status, completed, audit>>
worker == <<pc, item, held, answer>>
poller == <<page, copy, cursor>>
provider == <<line, refusing, wire>>
vars == <<outbox, lease, earlier, token, delivery, status, completed, audit,
          pc, item, held, answer, page, copy, cursor, line, refusing, wire>>

-----------------------------------------------------------------------------
(* The aggregate of the repository (_aggregate), written with every change. *)
(* A definition called a variant is a deliberate bug; no specification      *)
(* uses it.                                                                 *)

\* Variant with a bug: any population without a pending delivery is a success.
AggregateOptimistic(d) ==
  IF \E m \in Selected : d[m] = "pending" THEN "sending" ELSE "completed"

Aggregate(d) ==
  IF \E m \in Selected : d[m] = "pending" THEN "sending"
  ELSE IF \A m \in Selected : d[m] = "sent" THEN "completed"
  ELSE "completed_with_errors"

\* Variants: the rows are aggregated as they were before this transaction; an
\* audit event is written every time.
WriteAggregateOfOldRows(d) ==
  LET new == Aggregate(delivery)
      done == completed \/ new \in OperationFinal
  IN  /\ status' = new
      /\ completed' = done
      /\ audit' = IF status = new /\ completed = done THEN audit
                  ELSE Append(audit, new)
WriteAggregateNoisily(d) ==
  /\ status' = Aggregate(d)
  /\ completed' = (completed \/ status' \in OperationFinal)
  /\ audit' = Append(audit, status')

\* completed_at is set by the first final aggregate and then kept; an
\* aggregate that changes nothing writes no audit event.
WriteAggregate(d) ==
  LET new == Aggregate(d)
      done == completed \/ new \in OperationFinal
  IN  /\ status' = new
      /\ completed' = done
      /\ audit' = IF status = new /\ completed = done THEN audit
                  ELSE Append(audit, new)

\* Variant: a permanent failure stays in the outbox row, as it did before the
\* recovery release.
FailSubmissionOutboxOnly(S) == delivery

\* _fail_submission: only a delivery that is still pending is failed.
FailSubmission(S) ==
  [m \in Selected |->
     IF m \in S /\ delivery[m] = "pending" THEN "failed" ELSE delivery[m]]

-----------------------------------------------------------------------------
(* Reservation: the state begin_send_attempt commits, or, for an inherited *)
(* row, a state the previous release could have left behind.               *)

\* Variant: LINE's word is stored as it comes.
ProjectionVerbatim(verdict) == verdict

Projection(verdict) ==
  CASE verdict = "sent"                 -> "sent"
    [] verdict = "recipient_not_linked" -> "skipped"
    [] verdict = "unknown"              -> "unknown"
    [] OTHER                            -> "failed"

\* The previous release failed only the outbox row on a permanent failure
\* and settled only the delivery on a final result.
InheritedRow(m) ==
  \/ outbox[m] = "pending" /\ line[m] = "none" /\ delivery[m] = "pending"
  \/ outbox[m] \in {"delivering", "retryable_failure"} /\ delivery[m] = "pending"
  \/ outbox[m] = "permanent_failure" /\ line[m] = "none" /\ delivery[m] = "pending"
  \/ outbox[m] = "accepted" /\ line[m] # "none" /\ delivery[m] = "pending"
  \/ outbox[m] = "accepted" /\ line[m] \in LineVerdicts
                            /\ delivery[m] = Projection(line[m])

Init ==
  /\ outbox \in [Members -> OutboxState \ {"reconciled"}]
  /\ \A m \in Members \ Inherited : outbox[m] = "pending"
  /\ line \in [Members -> {"none", "pending"} \cup LineVerdicts]
  /\ \A m \in Members \ Inherited : line[m] = "none"
  /\ delivery \in [Selected -> DeliveryStatus]
  /\ \A m \in Members \ Inherited : delivery[m] = "pending"
  /\ \A m \in Inherited : InheritedRow(m)
  /\ \A m \in Refused : delivery[m] = "skipped"
  /\ status \in IF Inherited = {} THEN {"ready"}
                ELSE {"ready", "sending", Aggregate(delivery)}
  /\ completed = FALSE
  /\ audit = <<>>
  /\ lease = [m \in Members |-> "null"]
  /\ earlier = {}
  /\ token = [m \in Members |-> NoToken]
  /\ pc = [p \in Processes |-> IF p \in Runners THEN "idle" ELSE "dispatch"]
  /\ item = [p \in Processes |-> NoMember]
  /\ held = [p \in Processes |-> NoToken]
  /\ answer = [p \in Processes |-> "none"]
  /\ page = [p \in Processes |-> {}]
  /\ copy = [p \in Processes |-> [m \in Selected |-> "pending"]]
  /\ cursor = [p \in Processes |-> NoMember]
  /\ refusing \in SUBSET {m \in Members : line[m] = "none"}
  /\ wire = {}

-----------------------------------------------------------------------------
(* Dispatch *)

\* list_recovery_operations still returns the operation.
Listed ==
  \/ \E m \in Members : outbox[m] \notin {"reconciled", "permanent_failure"}
  \/ ~completed

\* A runner cycle starts on the operation.
BeginCycle(p) ==
  /\ p \in Runners
  /\ pc[p] = "idle"
  /\ Listed
  /\ pc' = [pc EXCEPT ![p] = "dispatch"]
  /\ UNCHANGED <<rows, operation, item, held, answer, poller, provider>>

\* What follows dispatch_operation, whether it returned or raised: the runner
\* reconciles, the inline request is over.
AfterDispatch(p) == IF p \in Runners THEN "reconcile" ELSE "done"

LeaveDispatch(p) ==
  /\ pc' = [pc EXCEPT ![p] = AfterDispatch(p)]
  /\ item' = [item EXCEPT ![p] = NoMember]
  /\ held' = [held EXCEPT ![p] = NoToken]
  /\ answer' = [answer EXCEPT ![p] = "none"]

\* Variants: leases are ignored; permanent failures are tried again.
ClaimableUnleased(m) ==
  outbox[m] \in {"pending", "retryable_failure", "delivering"}
ClaimablePermanent(m) ==
  \/ outbox[m] \in {"pending", "retryable_failure", "permanent_failure"}
  \/ outbox[m] = "delivering" /\ lease[m] \in {"null", "over"}

Claimable(m) ==
  \/ outbox[m] \in {"pending", "retryable_failure"}
  \/ outbox[m] = "delivering" /\ lease[m] \in {"null", "over"}

\* Variant: rows are claimed in the order of their ids only.
ClaimedBeforeById(a, b) == a < b

\* ORDER BY lease_expires_at ASC NULLS FIRST, created_at, outbox_id LIMIT 1;
\* the rows of one reservation share created_at.
ClaimedBefore(a, b) ==
  \/ lease[a] = "null" /\ lease[b] # "null"
  \/ lease[a] = "null" /\ lease[b] = "null" /\ a < b
  \/ <<a, b>> \in earlier

FirstClaimable(m) ==
  /\ Claimable(m)
  /\ \A other \in Members \ {m} : Claimable(other) => ClaimedBefore(m, other)

Leased == {m \in Members : lease[m] # "null"}
OrderWithout(m) == {pair \in earlier : pair[1] # m /\ pair[2] # m}

\* uuid4: a token that no row holds and no worker remembers.
TokensInUse == {token[m] : m \in Members} \cup {held[p] : p \in Processes}
FreshToken == CHOOSE t \in Tokens : t \notin TokensInUse

\* claim_outbox_records: one row, a new token, and a lease that is the last
\* of all to run over.
Claim(p, m) ==
  /\ pc[p] = "dispatch"
  /\ FirstClaimable(m)
  /\ \E t \in Tokens : t \notin TokensInUse
  /\ outbox' = [outbox EXCEPT ![m] = "delivering"]
  /\ lease' = [lease EXCEPT ![m] = "running"]
  /\ earlier' = OrderWithout(m) \cup {<<a, m>> : a \in Leased \ {m}}
  /\ token' = [token EXCEPT ![m] = FreshToken]
  /\ pc' = [pc EXCEPT ![p] = IF m \in NoLinkage THEN "lookup" ELSE "submit"]
  /\ item' = [item EXCEPT ![p] = m]
  /\ held' = [held EXCEPT ![p] = FreshToken]
  /\ UNCHANGED <<operation, answer, poller, provider>>

ClaimNothing(p) ==
  /\ pc[p] = "dispatch"
  /\ ~\E m \in Members : Claimable(m)
  /\ LeaveDispatch(p)
  /\ UNCHANGED <<rows, operation, poller, provider>>

\* The POST leaves for LINE.
Submit(p) ==
  /\ pc[p] = "submit"
  /\ pc' = [pc EXCEPT ![p] = "posting"]
  /\ wire' = wire \cup {<<p, item[p]>>}
  /\ UNCHANGED <<rows, operation, item, held, answer, poller, line, refusing>>

\* The worker that waits for the reply to m's POST, if it still does, gets it.
Reply(p, m, reply) ==
  IF pc[p] = "posting" /\ item[p] = m
  THEN /\ pc' = [pc EXCEPT ![p] = "answered"]
       /\ answer' = [answer EXCEPT ![p] = reply]
  ELSE UNCHANGED <<pc, answer>>

\* LINE answers 202: a new command is stored, a known one is only recognised.
LineAccepts(p, m) ==
  /\ <<p, m>> \in wire
  /\ m \notin refusing
  /\ wire' = wire \ {<<p, m>>}
  /\ line' = [line EXCEPT ![m] = IF @ = "none" THEN "pending" ELSE @]
  /\ Reply(p, m, "accepted")
  /\ UNCHANGED <<rows, operation, item, held, poller, refusing>>

\* LINE stores the command but the reply is lost on its way back.
LineReplyLost(p, m) ==
  /\ <<p, m>> \in wire
  /\ m \notin refusing
  /\ wire' = wire \ {<<p, m>>}
  /\ line' = [line EXCEPT ![m] = IF @ = "none" THEN "pending" ELSE @]
  /\ UNCHANGED <<rows, operation, worker, poller, refusing>>

\* LINE answers 4xx.
LineDenies(p, m) ==
  /\ <<p, m>> \in wire
  /\ m \in refusing
  /\ wire' = wire \ {<<p, m>>}
  /\ Reply(p, m, "permanent_failure")
  /\ UNCHANGED <<rows, operation, item, held, poller, line, refusing>>

\* The POST never reaches LINE.
PostLost(p, m) ==
  /\ <<p, m>> \in wire
  /\ wire' = wire \ {<<p, m>>}
  /\ UNCHANGED <<rows, operation, worker, poller, line, refusing>>

\* Variant: no answer is taken for a refusal.
SubmissionFailsForGood(p) ==
  /\ pc[p] = "posting"
  /\ pc' = [pc EXCEPT ![p] = "answered"]
  /\ answer' = [answer EXCEPT ![p] = "permanent_failure"]
  /\ UNCHANGED <<rows, operation, item, held, poller, provider>>

\* 30 s without a reply, a broken connection, a 5xx or an invalid body.
SubmissionFails(p) ==
  /\ pc[p] = "posting"
  /\ pc' = [pc EXCEPT ![p] = "answered"]
  /\ answer' = [answer EXCEPT ![p] = "retryable_failure"]
  /\ UNCHANGED <<rows, operation, item, held, poller, provider>>

\* A row without linkage_version is never posted: LINE is asked whether it
\* knows the command.
LookupKnown(p) ==
  /\ pc[p] = "lookup"
  /\ line[item[p]] # "none"
  /\ pc' = [pc EXCEPT ![p] = "answered"]
  /\ answer' = [answer EXCEPT ![p] = "accepted"]
  /\ UNCHANGED <<rows, operation, item, held, poller, provider>>

\* Any failure of that lookup leaves the claim to run over.
LookupFails(p) ==
  /\ pc[p] = "lookup"
  /\ LeaveDispatch(p)
  /\ UNCHANGED <<rows, operation, poller, provider>>

\* Variant: the row's state is checked, the token is not.
ClaimStandsUnfenced(p) == outbox[item[p]] = "delivering"

ClaimStands(p) ==
  outbox[item[p]] = "delivering" /\ token[item[p]] = held[p]

\* A retryable failure ends the lease now: after every lease that is already
\* over, before every one that is running.
OrderEndingNow(m) ==
  OrderWithout(m)
    \cup {<<a, m>> : a \in {x \in Leased \ {m} : lease[x] = "over"}}
    \cup {<<m, b>> : b \in {x \in Leased \ {m} : lease[x] = "running"}}

\* update_outbox_state.
RecordOutcome(p) ==
  /\ pc[p] = "answered"
  /\ LeaveDispatch(p)
  /\ IF ClaimStands(p)
     THEN LET m == item[p]
              retry == answer[p] = "retryable_failure"
              settled == FailSubmission(
                           IF answer[p] = "permanent_failure" THEN {m} ELSE {})
          IN  /\ outbox' = [outbox EXCEPT ![m] = answer[p]]
              /\ token' = [token EXCEPT ![m] = NoToken]
              /\ lease' = [lease EXCEPT ![m] = IF retry THEN "over" ELSE "null"]
              /\ earlier' = IF retry THEN OrderEndingNow(m) ELSE OrderWithout(m)
              /\ delivery' = settled
              /\ WriteAggregate(settled)
     ELSE UNCHANGED <<rows, operation>>
  /\ UNCHANGED <<poller, provider>>

\* dispatch_operation raises (a database error, an unclassified HTTP error):
\* the row keeps its claim and the runner goes on to reconcile.
DispatchRaises(p) ==
  /\ pc[p] \in {"dispatch", "submit", "posting", "lookup", "answered"}
  /\ LeaveDispatch(p)
  /\ UNCHANGED <<rows, operation, poller, provider>>

-----------------------------------------------------------------------------
(* Reconciliation *)

Accepted == {m \in Members : outbox[m] = "accepted"}
FirstOf(m, S) == m \in S /\ \A k \in S : m <= k
LastOf(m, S) == m \in S /\ \A k \in S : k <= m

\* Variant: every reconciliation polls from the first row.
PageAfterRestart(c) ==
  {m \in Accepted : Cardinality({k \in Accepted : k < m}) < PageLimit}

\* The first PageLimit accepted rows after the cursor, or from the start.
PageAfter(c) ==
  LET beyond == {m \in Accepted : m > c}
      base == IF beyond = {} THEN Accepted ELSE beyond
  IN  {m \in base : Cardinality({k \in base : k < m}) < PageLimit}

\* get_outbox_records, and the page of this reconciliation.
ReadOutbox(p) ==
  /\ pc[p] = "reconcile"
  /\ pc' = [pc EXCEPT ![p] = "snapshot"]
  /\ page' = [page EXCEPT ![p] = PageAfter(cursor[p])]
  /\ \E last \in Members \cup {NoMember} :
       /\ IF page'[p] = {} THEN last = NoMember ELSE LastOf(last, page'[p])
       /\ cursor' = [cursor EXCEPT ![p] = last]
  /\ UNCHANGED <<rows, operation, item, held, answer, copy, provider>>

\* get_deliveries, a later read.
ReadDeliveries(p) ==
  /\ pc[p] = "snapshot"
  /\ pc' = [pc EXCEPT ![p] = "poll"]
  /\ copy' = [copy EXCEPT ![p] = delivery]
  /\ UNCHANGED <<rows, operation, item, held, answer, page, cursor, provider>>

\* The GET for the next member of the page concludes with a delivery status.
PollConcludes(p, m, result) ==
  /\ pc[p] = "poll"
  /\ FirstOf(m, page[p])
  /\ page' = [page EXCEPT ![p] = @ \ {m}]
  /\ pc' = [pc EXCEPT ![p] = "polled"]
  /\ item' = [item EXCEPT ![p] = m]
  /\ answer' = [answer EXCEPT ![p] = result]
  /\ UNCHANGED <<rows, operation, held, copy, cursor, provider>>

\* LINE reports a final status.
PollFinal(p, m) ==
  /\ line[m] \in LineVerdicts
  /\ PollConcludes(p, m, Projection(line[m]))

\* 404, whatever the reason LINE no longer finds the command.
PollNotFound(p, m) ==
  PollConcludes(p, m, IF copy[p][m] = "pending" THEN "failed" ELSE copy[p][m])

\* 403 scope_forbidden: the message may have gone out.
PollForbidden(p, m) ==
  PollConcludes(p, m, IF copy[p][m] = "pending" THEN "unknown" ELSE copy[p][m])

\* LINE still works on the command, or the GET fails in any other way.
PollInconclusive(p, m) ==
  /\ pc[p] = "poll"
  /\ FirstOf(m, page[p])
  /\ page' = [page EXCEPT ![p] = @ \ {m}]
  /\ UNCHANGED <<rows, operation, worker, copy, cursor, provider>>

BackToPoll(p) ==
  /\ pc' = [pc EXCEPT ![p] = "poll"]
  /\ item' = [item EXCEPT ![p] = NoMember]
  /\ answer' = [answer EXCEPT ![p] = "none"]

\* reconcile_outbox_result.
Reconcile(p) ==
  /\ pc[p] = "polled"
  /\ BackToPoll(p)
  /\ LET m == item[p] IN
     IF outbox[m] = "accepted" /\ answer[p] # "pending"
     THEN LET settled == IF delivery[m] = "pending"
                         THEN [delivery EXCEPT ![m] = answer[p]] ELSE delivery
          IN  /\ outbox' = [outbox EXCEPT ![m] = "reconciled"]
              /\ lease' = [lease EXCEPT ![m] = "null"]
              /\ earlier' = OrderWithout(m)
              /\ token' = [token EXCEPT ![m] = NoToken]
              /\ delivery' = settled
              /\ WriteAggregate(settled)
     ELSE UNCHANGED <<rows, operation>>
  /\ UNCHANGED <<held, poller, provider>>

EndCycle(p, c) ==
  /\ pc' = [pc EXCEPT ![p] = "idle"]
  /\ item' = [item EXCEPT ![p] = NoMember]
  /\ answer' = [answer EXCEPT ![p] = "none"]
  /\ page' = [page EXCEPT ![p] = {}]
  /\ copy' = [copy EXCEPT ![p] = [m \in Selected |-> "pending"]]
  /\ cursor' = [cursor EXCEPT ![p] = c]

\* refresh_delivery_aggregate: repairs inherited permanent failures, then
\* aggregates; a completed operation's cursor is dropped.
Refresh(p) ==
  /\ pc[p] = "poll"
  /\ page[p] = {}
  /\ delivery' = FailSubmission({m \in Members : outbox[m] = "permanent_failure"})
  /\ WriteAggregate(delivery')
  /\ EndCycle(p, IF completed' THEN NoMember ELSE cursor[p])
  /\ UNCHANGED <<rows, held, provider>>

\* reconcile_operation raises; the runner isolates it and ends the cycle.
ReconcileRaises(p) ==
  /\ pc[p] \in {"reconcile", "snapshot", "poll", "polled"}
  /\ EndCycle(p, cursor[p])
  /\ UNCHANGED <<rows, operation, held, provider>>

-----------------------------------------------------------------------------
(* The surroundings *)

\* The process dies, or its task is cancelled at shutdown.  A new runner
\* starts with nothing in memory; POSTs already sent are not recalled.
Crash(p) ==
  /\ pc[p] # "done"
  /\ pc' = [pc EXCEPT ![p] = IF p \in Runners THEN "idle" ELSE "done"]
  /\ item' = [item EXCEPT ![p] = NoMember]
  /\ held' = [held EXCEPT ![p] = NoToken]
  /\ answer' = [answer EXCEPT ![p] = "none"]
  /\ page' = [page EXCEPT ![p] = {}]
  /\ copy' = [copy EXCEPT ![p] = [m \in Selected |-> "pending"]]
  /\ cursor' = [cursor EXCEPT ![p] = NoMember]
  /\ UNCHANGED <<rows, operation, provider>>

\* A live worker is between the claim of m and the record of its outcome.
WorksOn(p, m) ==
  /\ pc[p] \in {"submit", "posting", "lookup", "answered"}
  /\ item[p] = m

\* The clock passes m's lease_expires_at; leases run over in their order.
LeaseRunsOver(m) ==
  /\ lease[m] = "running"
  /\ \A a \in Members : <<a, m>> \in earlier => lease[a] = "over"
  /\ Prompt => ~\E p \in Processes : WorksOn(p, m) /\ held[p] = token[m]
  /\ lease' = [lease EXCEPT ![m] = "over"]
  /\ UNCHANGED <<outbox, earlier, token, operation, worker, poller, provider>>

\* LINE finishes a command.
LineFinishes(m, verdict) ==
  /\ line[m] = "pending"
  /\ line' = [line EXCEPT ![m] = verdict]
  /\ UNCHANGED <<rows, operation, worker, poller, refusing, wire>>

\* LINE's view of a command changes (scope, linkage, maintenance).
LineChangesItsMind(m) ==
  /\ ~ConsistentLine
  /\ refusing' = IF m \in refusing THEN refusing \ {m} ELSE refusing \cup {m}
  /\ UNCHANGED <<rows, operation, worker, poller, line, wire>>

-----------------------------------------------------------------------------
Dispatch(p) ==
  \/ BeginCycle(p)
  \/ \E m \in Members : Claim(p, m)
  \/ ClaimNothing(p)
  \/ Submit(p)
  \/ SubmissionFails(p)
  \/ LookupKnown(p)
  \/ LookupFails(p)
  \/ RecordOutcome(p)

Poll(p) ==
  \/ ReadOutbox(p)
  \/ ReadDeliveries(p)
  \/ \E m \in Members : \/ PollFinal(p, m)
                        \/ PollNotFound(p, m)
                        \/ PollForbidden(p, m)
                        \/ PollInconclusive(p, m)
  \/ Reconcile(p)
  \/ Refresh(p)

Fault(p) == DispatchRaises(p) \/ ReconcileRaises(p) \/ Crash(p)

Network(p, m) ==
  \/ LineAccepts(p, m)
  \/ LineReplyLost(p, m)
  \/ LineDenies(p, m)
  \/ PostLost(p, m)

Surroundings ==
  \/ \E p \in Processes, m \in Members : Network(p, m)
  \/ \E m \in Members : LeaseRunsOver(m) \/ LineChangesItsMind(m)
  \/ \E m \in Members, verdict \in LineVerdicts : LineFinishes(m, verdict)

Next ==
  \/ \E p \in Processes : Dispatch(p) \/ Poll(p) \/ Fault(p)
  \/ Surroundings

Spec == Init /\ [][Next]_vars

-----------------------------------------------------------------------------
(* Safety *)

Place == {"idle", "dispatch", "submit", "posting", "lookup", "answered",
          "reconcile", "snapshot", "poll", "polled", "done"}

\* The values the variables range over.
RowsType ==
  /\ outbox \in [Members -> OutboxState]
  /\ lease \in [Members -> {"null", "running", "over"}]
  /\ earlier \subseteq Members \X Members
  /\ token \in [Members -> Tokens \cup {NoToken}]
OperationType ==
  /\ delivery \in [Selected -> DeliveryStatus]
  /\ status \in OperationStatus
  /\ completed \in BOOLEAN
  /\ audit \in Seq(OperationStatus)
WorkerType ==
  /\ pc \in [Processes -> Place]
  /\ item \in [Processes -> Members \cup {NoMember}]
  /\ held \in [Processes -> Tokens \cup {NoToken}]
  /\ answer \in [Processes -> Outcome \cup DeliveryStatus \cup {"none"}]
PollerType ==
  /\ page \in [Processes -> SUBSET Members]
  /\ copy \in [Processes -> [Selected -> DeliveryStatus]]
  /\ cursor \in [Processes -> Members \cup {NoMember}]
ProviderType ==
  /\ line \in [Members -> {"none", "pending"} \cup LineVerdicts]
  /\ refusing \subseteq Members
  /\ wire \subseteq Processes \X Members
TypeOK == RowsType /\ OperationType /\ WorkerType /\ PollerType /\ ProviderType

\* An outbox row that is still to be worked on has a pending delivery and the
\* other way round; a permanent failure has failed its delivery in the same
\* transaction (update_outbox_state, reconcile_outbox_result).
DeliveriesMatchRows ==
  \A m \in Members \ Inherited :
    /\ delivery[m] = "pending" <=>
         outbox[m] \in {"pending", "delivering", "retryable_failure", "accepted"}
    /\ outbox[m] = "permanent_failure" => delivery[m] = "failed"

\* A completed operation's status is what its deliveries add up to; without
\* inherited rows this holds for every status from the first outcome on, and
\* completed_at comes with it, in every committed state, whoever wrote last.
StatusIsAggregate ==
  /\ completed => status \in OperationFinal /\ status = Aggregate(delivery)
  /\ Inherited = {} =>
       /\ status # "ready" => status = Aggregate(delivery)
       /\ status \in OperationFinal => completed

\* The audit trail of the aggregate tells every change once, in order, and
\* ends in the current status.
AuditTellsOnce ==
  Inherited = {} =>
    \/ status = "ready" /\ audit = <<>>
    \/ status = "sending" /\ audit = <<"sending">>
    \/ status \in OperationFinal /\ audit \in {<<status>>, <<"sending", status>>}

\* What the staff member reads is true of LINE: sent was reported sent,
\* accepted is known to LINE, and a command failed at submission, by a LINE
\* that is consistent in what it denies, is not and never will be one that
\* LINE took.
OutcomesAreTrue ==
  \A m \in Members :
    /\ delivery[m] = "sent" => line[m] = "sent"
    /\ outbox[m] = "accepted" => line[m] # "none"
    /\ ConsistentLine /\ outbox[m] = "permanent_failure" =>
         line[m] = "none" /\ (m \in refusing \/ m \in Inherited)

\* The strengthening that makes the invariants above inductive.
\* What a process has in hand.
HandsOK ==
  \A p \in Processes :
    /\ pc[p] \in {"submit", "posting", "lookup", "answered", "polled"} =>
         item[p] \in Members
    /\ pc[p] \in {"submit", "posting", "lookup", "answered"} => held[p] \in Tokens
    /\ pc[p] = "answered" => answer[p] \in Outcome
    /\ pc[p] = "polled" => answer[p] \in DeliveryStatus

\* Tokens are in one hand only, and only a delivering row has a running lease.
ClaimsOK ==
  /\ \A p, q \in Processes : held[p] = held[q] /\ held[p] # NoToken => p = q
  /\ \A m \in Members : lease[m] = "running" => outbox[m] = "delivering"

\* What processes are about to record is true already.
AnswersAreTrue ==
  /\ \A p \in Processes :
       /\ pc[p] = "answered" /\ answer[p] = "accepted" => line[item[p]] # "none"
       /\ ConsistentLine /\ pc[p] = "answered" /\ answer[p] = "permanent_failure" =>
            item[p] \in refusing
       /\ pc[p] = "polled" /\ answer[p] = "sent" => line[item[p]] = "sent"
       /\ \A m \in Members : copy[p][m] = "sent" => line[m] = "sent"
  /\ ConsistentLine => \A m \in refusing : line[m] = "none"
  /\ ConsistentLine =>
       \A m \in Inherited \ refusing : outbox[m] = "permanent_failure" =>
         \A p \in Processes : /\ <<p, m>> \notin wire
                              /\ pc[p] = "submit" => item[p] # m

\* What the staff member reads is true of LINE, in the form that every step
\* preserves: whatever is in a worker's hands, on the wire or in a copy is true
\* as well.
IInv == OutcomesAreTrue /\ HandsOK /\ ClaimsOK /\ AnswersAreTrue

\* A final delivery, a closed row and a completed operation stay as they are,
\* through late answers, second reconcilers and restarts.
SettledForever ==
  [][/\ \A m \in Selected : delivery[m] # "pending" => delivery'[m] = delivery[m]
     /\ \A m \in Members : outbox[m] \in {"permanent_failure", "reconciled"} =>
                             outbox'[m] = outbox[m]
     /\ completed => UNCHANGED <<status, completed, audit>>]_vars

\* While the lease of a live worker's claim runs, no other process changes the
\* row: it is released by that worker's own outcome.
ClaimProtected ==
  [][\A m \in Members, p \in Processes :
       /\ WorksOn(p, m) /\ held[p] = token[m] /\ lease[m] = "running"
       /\ <<outbox[m], token[m]>>' # <<outbox[m], token[m]>>
       => pc[p] = "answered" /\ outbox'[m] = answer[p]]_vars

\* With workers that finish within their lease, two never submit the same
\* command at the same time.
SingleWorker ==
  Prompt => \A p, q \in Processes, m \in Members :
              WorksOn(p, m) /\ WorksOn(q, m) => p = q

\* With such workers a command is never posted once its member has a final
\* result or LINE's acceptance is recorded.
NoPostOnceAnswered ==
  [][Prompt => \A p \in Processes :
       pc[p] = "submit" /\ pc'[p] = "posting" => outbox[item[p]] = "delivering"]_vars

-----------------------------------------------------------------------------
\* The execution implements what the operation promises.
Promise == INSTANCE DeliveryPromise
             WITH Selected <- Selected, delivery <- delivery,
                  status <- status, completed <- completed
KeepsPromise == Promise!Spec
=============================================================================
