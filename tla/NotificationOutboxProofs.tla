----------------------- MODULE NotificationOutboxProofs -----------------------
(***************************************************************************)
(* Theorems about NotificationOutbox for every set of members, runners and *)
(* tokens, proved with TLAPS: the types, what a step may do to the         *)
(* operation, the agreement of rows and deliveries, the aggregate, the     *)
(* refinement of DeliveryPromise, the truth of what is recorded, and the   *)
(* protection of claims.                                                   *)
(***************************************************************************)
EXTENDS NotificationOutbox, SequenceTheorems, TLAPS

TypeAndHands == TypeOK /\ HandsOK

-----------------------------------------------------------------------------
(* Lemmas about the operators of the model *)

\* A population always adds up to a status an operation can have, and to a
\* final one exactly when nothing is pending.
LEMMA AggregateFinal ==
  ASSUME NEW d
  PROVE  /\ Aggregate(d) \in OperationStatus
         /\ Aggregate(d) \in OperationFinal <=> \A m \in Selected : d[m] # "pending"
         /\ Aggregate(d) # "ready"
BY DEF Aggregate, OperationStatus, OperationFinal

\* _aggregate keeps the operation's columns well-formed.
LEMMA WriteAggregateType ==
  ASSUME NEW d, status \in OperationStatus, completed \in BOOLEAN,
         audit \in Seq(OperationStatus), WriteAggregate(d)
  PROVE  /\ status' \in OperationStatus
         /\ completed' \in BOOLEAN
         /\ audit' \in Seq(OperationStatus)
<1>1. Aggregate(d) \in OperationStatus
  BY AggregateFinal
<1>2. Append(audit, Aggregate(d)) \in Seq(OperationStatus)
  BY <1>1
<1>3. QED
  BY <1>1, <1>2 DEF WriteAggregate

\* _fail_submission keeps deliveries well-formed and only settles pending ones.
LEMMA FailSubmissionType ==
  ASSUME NEW S, delivery \in [Selected -> DeliveryStatus]
  PROVE  /\ FailSubmission(S) \in [Selected -> DeliveryStatus]
         /\ \A m \in Selected : delivery[m] # "pending" =>
              FailSubmission(S)[m] = delivery[m]
         /\ \A m \in Selected : FailSubmission(S)[m] \in {delivery[m], "failed"}
BY DEF FailSubmission, DeliveryStatus, DeliveryFinal

\* Every final LINE status has a delivery status, and only sent becomes sent.
LEMMA ProjectionType ==
  ASSUME NEW v \in LineVerdicts
  PROVE  /\ Projection(v) \in DeliveryStatus
         /\ Projection(v) = "sent" <=> v = "sent"
BY LineAssumption DEF Projection, DeliveryStatus, DeliveryFinal

\* Removing a row from the lease order, or moving it, keeps it an order of
\* members.
LEMMA OrderType ==
  ASSUME NEW m \in Members, earlier \subseteq Members \X Members
  PROVE  /\ OrderWithout(m) \subseteq Members \X Members
         /\ OrderEndingNow(m) \subseteq Members \X Members
         /\ OrderWithout(m) \cup {<<a, m>> : a \in Leased \ {m}}
              \subseteq Members \X Members
BY DEF OrderWithout, OrderEndingNow, Leased

\* A claim takes a token that is in no hand.
LEMMA FreshTokenUnused ==
  ASSUME \E t \in Tokens : t \notin TokensInUse
  PROVE  FreshToken \in Tokens /\ FreshToken \notin TokensInUse
BY DEF FreshToken

-----------------------------------------------------------------------------
(* Types *)

\* A committed reservation, or what an earlier release left, is well-typed.
LEMMA TypeInit == Init => TypeAndHands
<1> SUFFICES ASSUME Init PROVE TypeAndHands
  OBVIOUS
<1>1. RowsType
  BY DEF Init, RowsType
<1>2. OperationType
  <2>1. Aggregate(delivery) \in OperationStatus
    BY AggregateFinal
  <2>2. status \in OperationStatus
    BY <2>1 DEF Init, OperationStatus
  <2>3. delivery \in [Selected -> DeliveryStatus] /\ completed \in BOOLEAN
    BY DEF Init
  <2>4. audit \in Seq(OperationStatus)
    BY DEF Init
  <2>5. QED
    BY <2>2, <2>3, <2>4 DEF OperationType
<1>3. WorkerType
  BY DEF Init, WorkerType, Place
<1>4. PollerType
  BY DEF Init, PollerType, DeliveryStatus
<1>5. ProviderType
  BY DEF Init, ProviderType
<1>6. HandsOK
  BY DEF Init, HandsOK
<1>7. QED
  BY <1>1, <1>2, <1>3, <1>4, <1>5, <1>6 DEF TypeAndHands, TypeOK

\* The steps of a dispatcher.
LEMMA TypeDispatch ==
  ASSUME TypeAndHands, NEW p \in Processes, Dispatch(p)
  PROVE  TypeAndHands'
<1> USE DEF TypeAndHands, TypeOK, Place, rows, operation, worker, poller, provider
<1>1. CASE BeginCycle(p)
  <2>1. WorkerType' /\ HandsOK'
    BY <1>1 DEF BeginCycle, WorkerType, HandsOK
  <2>2. QED
    BY <1>1, <2>1 DEF BeginCycle, RowsType, OperationType, PollerType, ProviderType
<1>2. ASSUME NEW m \in Members, Claim(p, m) PROVE TypeAndHands'
  <2>1. FreshToken \in Tokens
    BY <1>2, FreshTokenUnused DEF Claim
  <2>2. RowsType'
    <3>1. earlier' \subseteq Members \X Members
      BY <1>2, OrderType DEF Claim, RowsType
    <3>2. QED
      BY <1>2, <2>1, <3>1 DEF Claim, RowsType, OutboxState
  <2>3. WorkerType' /\ HandsOK'
    BY <1>2, <2>1 DEF Claim, WorkerType, HandsOK
  <2>4. QED
    BY <1>2, <2>2, <2>3 DEF Claim, OperationType, PollerType, ProviderType
<1>3. CASE ClaimNothing(p)
  <2>1. WorkerType' /\ HandsOK'
    BY <1>3 DEF ClaimNothing, LeaveDispatch, AfterDispatch, WorkerType, HandsOK
  <2>2. QED
    BY <1>3, <2>1 DEF ClaimNothing, RowsType, OperationType, PollerType, ProviderType
<1>4. CASE Submit(p)
  <2>1. WorkerType' /\ HandsOK'
    BY <1>4 DEF Submit, WorkerType, HandsOK
  <2>2. ProviderType'
    BY <1>4 DEF Submit, ProviderType, HandsOK
  <2>3. QED
    BY <1>4, <2>1, <2>2 DEF Submit, RowsType, OperationType, PollerType
<1>5. CASE SubmissionFails(p)
  <2>1. WorkerType' /\ HandsOK'
    BY <1>5 DEF SubmissionFails, WorkerType, HandsOK, Outcome
  <2>2. QED
    BY <1>5, <2>1 DEF SubmissionFails, RowsType, OperationType, PollerType, ProviderType
<1>6. CASE LookupKnown(p)
  <2>1. WorkerType' /\ HandsOK'
    BY <1>6 DEF LookupKnown, WorkerType, HandsOK, Outcome
  <2>2. QED
    BY <1>6, <2>1 DEF LookupKnown, RowsType, OperationType, PollerType, ProviderType
<1>7. CASE LookupFails(p)
  <2>1. WorkerType' /\ HandsOK'
    BY <1>7 DEF LookupFails, LeaveDispatch, AfterDispatch, WorkerType, HandsOK
  <2>2. QED
    BY <1>7, <2>1 DEF LookupFails, RowsType, OperationType, PollerType, ProviderType
<1>8. CASE RecordOutcome(p)
  <2>1. WorkerType' /\ HandsOK'
    BY <1>8 DEF RecordOutcome, LeaveDispatch, AfterDispatch, WorkerType, HandsOK
  <2>2. item[p] \in Members /\ answer[p] \in Outcome
    BY <1>8 DEF RecordOutcome, HandsOK
  <2>3. RowsType' /\ OperationType'
    <3>1. CASE ~ClaimStands(p)
      BY <1>8, <3>1 DEF RecordOutcome, RowsType, OperationType
    <3>2. CASE ClaimStands(p)
      <4> DEFINE S == IF answer[p] = "permanent_failure" THEN {item[p]} ELSE {}
      <4>1. delivery' = FailSubmission(S) /\ WriteAggregate(FailSubmission(S))
        BY <1>8, <3>2 DEF RecordOutcome
      <4>2. OperationType'
        BY <4>1, FailSubmissionType, WriteAggregateType DEF OperationType
      <4>3. earlier' \subseteq Members \X Members
        BY <1>8, <2>2, <3>2, OrderType DEF RecordOutcome, RowsType
      <4>4. RowsType'
        BY <1>8, <2>2, <3>2, <4>3 DEF RecordOutcome, RowsType, OutboxState, Outcome
      <4>5. QED
        BY <4>2, <4>4
    <3>3. QED
      BY <3>1, <3>2
  <2>4. QED
    BY <1>8, <2>1, <2>3 DEF RecordOutcome, PollerType, ProviderType
<1>9. QED
  BY <1>1, <1>2, <1>3, <1>4, <1>5, <1>6, <1>7, <1>8 DEF Dispatch
\* The steps of a reconciler.
LEMMA TypePoll ==
  ASSUME TypeAndHands, NEW p \in Processes, Poll(p)
  PROVE  TypeAndHands'
<1> USE DEF TypeAndHands, TypeOK, Place, rows, operation, worker, poller, provider
<1>1. CASE ReadOutbox(p)
  <2>1. WorkerType' /\ HandsOK'
    BY <1>1 DEF ReadOutbox, WorkerType, HandsOK
  <2>2. PageAfter(cursor[p]) \subseteq Members
    BY DEF PageAfter, Accepted
  <2>3. PollerType'
    BY <1>1, <2>2 DEF ReadOutbox, PollerType
  <2>4. QED
    BY <1>1, <2>1, <2>3 DEF ReadOutbox, RowsType, OperationType, ProviderType
<1>2. CASE ReadDeliveries(p)
  <2>1. WorkerType' /\ HandsOK'
    BY <1>2 DEF ReadDeliveries, WorkerType, HandsOK
  <2>2. PollerType'
    BY <1>2 DEF ReadDeliveries, PollerType, OperationType
  <2>3. QED
    BY <1>2, <2>1, <2>2 DEF ReadDeliveries, RowsType, OperationType, ProviderType
<1>3. ASSUME NEW m \in Members, NEW result \in DeliveryStatus,
             PollConcludes(p, m, result)
      PROVE  TypeAndHands'
  <2>1. WorkerType' /\ HandsOK'
    BY <1>3 DEF PollConcludes, WorkerType, HandsOK
  <2>2. PollerType'
    BY <1>3 DEF PollConcludes, PollerType
  <2>3. QED
    BY <1>3, <2>1, <2>2 DEF PollConcludes, RowsType, OperationType, ProviderType
<1>4. ASSUME NEW m \in Members, PollFinal(p, m) PROVE TypeAndHands'
  BY <1>3, <1>4, ProjectionType DEF PollFinal
<1>5. ASSUME NEW m \in Members, PollNotFound(p, m) \/ PollForbidden(p, m)
      PROVE  TypeAndHands'
  <2>1. copy[p][m] \in DeliveryStatus
    BY DEF PollerType, Selected
  <2>2. PICK result \in DeliveryStatus : PollConcludes(p, m, result)
    BY <1>5, <2>1 DEF PollNotFound, PollForbidden, DeliveryStatus, DeliveryFinal
  <2>3. QED
    BY <1>3, <2>2
<1>6. ASSUME NEW m \in Members, PollInconclusive(p, m) PROVE TypeAndHands'
  <2>1. PollerType'
    BY <1>6 DEF PollInconclusive, PollerType
  <2>2. HandsOK'
    BY <1>6 DEF PollInconclusive, HandsOK
  <2>3. QED
    BY <1>6, <2>1, <2>2
       DEF PollInconclusive, WorkerType, RowsType, OperationType, ProviderType
<1>7. CASE Reconcile(p)
  <2>1. WorkerType' /\ HandsOK'
    BY <1>7 DEF Reconcile, BackToPoll, WorkerType, HandsOK
  <2>2. item[p] \in Members /\ answer[p] \in DeliveryStatus
    BY <1>7 DEF Reconcile, HandsOK
  <2> DEFINE settled == IF delivery[item[p]] = "pending"
                        THEN [delivery EXCEPT ![item[p]] = answer[p]] ELSE delivery
  <2>3. settled \in [Selected -> DeliveryStatus]
    BY <2>2 DEF OperationType, Selected
  <2>4. CASE outbox[item[p]] = "accepted" /\ answer[p] # "pending"
    <3>1. delivery' = settled /\ WriteAggregate(settled)
      BY <1>7, <2>4 DEF Reconcile
    <3>2. OperationType'
      BY <2>3, <3>1, WriteAggregateType DEF OperationType
    <3>3. earlier' \subseteq Members \X Members
      BY <1>7, <2>2, <2>4, OrderType DEF Reconcile, RowsType
    <3>4. RowsType'
      BY <1>7, <2>2, <2>4, <3>3 DEF Reconcile, RowsType, OutboxState
    <3>5. QED
      BY <1>7, <2>1, <3>2, <3>4 DEF Reconcile, PollerType, ProviderType
  <2>5. CASE ~(outbox[item[p]] = "accepted" /\ answer[p] # "pending")
    BY <1>7, <2>1, <2>5
       DEF Reconcile, RowsType, OperationType, PollerType, ProviderType
  <2>6. QED
    BY <2>4, <2>5
<1>8. CASE Refresh(p)
  <2>1. WorkerType' /\ HandsOK'
    BY <1>8 DEF Refresh, EndCycle, WorkerType, HandsOK
  <2>2. OperationType'
    BY <1>8, FailSubmissionType, WriteAggregateType DEF Refresh, OperationType
  <2>3. PollerType'
    BY <1>8 DEF Refresh, EndCycle, PollerType, DeliveryStatus
  <2>4. QED
    BY <1>8, <2>1, <2>2, <2>3 DEF Refresh, RowsType, ProviderType
<1>9. QED
  BY <1>1, <1>2, <1>4, <1>5, <1>6, <1>7, <1>8 DEF Poll

\* Exceptions, crashes and restarts.
LEMMA TypeFault ==
  ASSUME TypeAndHands, NEW p \in Processes, Fault(p)
  PROVE  TypeAndHands'
<1> USE DEF TypeAndHands, TypeOK, Place, rows, operation, worker, poller, provider
<1>1. CASE DispatchRaises(p)
  <2>1. WorkerType' /\ HandsOK'
    BY <1>1 DEF DispatchRaises, LeaveDispatch, AfterDispatch, WorkerType, HandsOK
  <2>2. QED
    BY <1>1, <2>1
       DEF DispatchRaises, RowsType, OperationType, PollerType, ProviderType
<1>2. CASE ReconcileRaises(p)
  <2>1. WorkerType' /\ HandsOK'
    BY <1>2 DEF ReconcileRaises, EndCycle, WorkerType, HandsOK
  <2>2. PollerType'
    BY <1>2 DEF ReconcileRaises, EndCycle, PollerType, DeliveryStatus
  <2>3. QED
    BY <1>2, <2>1, <2>2 DEF ReconcileRaises, RowsType, OperationType, ProviderType
<1>3. CASE Crash(p)
  <2>1. WorkerType' /\ HandsOK'
    BY <1>3 DEF Crash, WorkerType, HandsOK
  <2>2. PollerType'
    BY <1>3 DEF Crash, PollerType, DeliveryStatus
  <2>3. QED
    BY <1>3, <2>1, <2>2 DEF Crash, RowsType, OperationType, ProviderType
<1>4. QED
  BY <1>1, <1>2, <1>3 DEF Fault

\* LINE, the network and the clock.
LEMMA TypeSurroundings ==
  ASSUME TypeAndHands, Surroundings
  PROVE  TypeAndHands'
<1> USE DEF TypeAndHands, TypeOK, Place, rows, operation, worker, poller, provider
<1>1. ASSUME NEW p \in Processes, NEW m \in Members, Network(p, m)
      PROVE  TypeAndHands'
  <2>1. WorkerType' /\ HandsOK'
    BY <1>1 DEF Network, LineAccepts, LineReplyLost, LineDenies, PostLost, Reply,
                WorkerType, HandsOK, Outcome
  <2>2. ProviderType'
    BY <1>1 DEF Network, LineAccepts, LineReplyLost, LineDenies, PostLost,
                ProviderType
  <2>3. QED
    BY <1>1, <2>1, <2>2
       DEF Network, LineAccepts, LineReplyLost, LineDenies, PostLost,
           RowsType, OperationType, PollerType
<1>2. ASSUME NEW m \in Members, LeaseRunsOver(m) PROVE TypeAndHands'
  <2>1. RowsType'
    BY <1>2 DEF LeaseRunsOver, RowsType
  <2>2. HandsOK'
    BY <1>2 DEF LeaseRunsOver, HandsOK
  <2>3. QED
    BY <1>2, <2>1, <2>2
       DEF LeaseRunsOver, OperationType, WorkerType, PollerType, ProviderType
<1>3. ASSUME NEW m \in Members, LineChangesItsMind(m) PROVE TypeAndHands'
  <2>1. ProviderType'
    BY <1>3 DEF LineChangesItsMind, ProviderType
  <2>2. HandsOK'
    BY <1>3 DEF LineChangesItsMind, HandsOK
  <2>3. QED
    BY <1>3, <2>1, <2>2
       DEF LineChangesItsMind, RowsType, OperationType, WorkerType, PollerType
<1>4. ASSUME NEW m \in Members, NEW verdict \in LineVerdicts,
             LineFinishes(m, verdict)
      PROVE  TypeAndHands'
  <2>1. ProviderType'
    BY <1>4 DEF LineFinishes, ProviderType
  <2>2. HandsOK'
    BY <1>4 DEF LineFinishes, HandsOK
  <2>3. QED
    BY <1>4, <2>1, <2>2
       DEF LineFinishes, RowsType, OperationType, WorkerType, PollerType
<1>5. QED
  BY <1>1, <1>2, <1>3, <1>4 DEF Surroundings

\* No step of a worker, a poller or LINE breaks a type, nor what a process
\* holds in hand.
LEMMA TypeStep == TypeAndHands /\ [Next]_vars => TypeAndHands'
<1> SUFFICES ASSUME TypeAndHands, [Next]_vars PROVE TypeAndHands'
  OBVIOUS
<1>1. CASE UNCHANGED vars
  BY <1>1 DEF vars, TypeAndHands, TypeOK, RowsType, OperationType, WorkerType,
              PollerType, ProviderType, HandsOK
<1>2. QED
  BY <1>1, TypeDispatch, TypePoll, TypeFault, TypeSurroundings DEF Next

\* Every variable keeps its type and every process knows what it works on, in
\* every reachable state (all steps of the dispatcher, reconciler and runner).
THEOREM TypeInvariant == Spec => [](TypeOK /\ HandsOK)
<1>1. Spec => []TypeAndHands
  BY TypeInit, TypeStep, PTL DEF Spec
<1>2. QED
  BY <1>1, PTL DEF TypeAndHands

-----------------------------------------------------------------------------
(* What a step may do to the operation *)

\* A step that writes the operation settles pending deliveries at most, and
\* aggregates what it wrote in the same transaction.
Settles ==
  /\ delivery' \in [Selected -> DeliveryStatus]
  /\ \A m \in Selected : delivery[m] # "pending" => delivery'[m] = delivery[m]
  /\ WriteAggregate(delivery')

\* Only the two transactions that record an outcome and the refresh write the
\* operation.
LEMMA OperationStep ==
  ASSUME TypeAndHands, [Next]_vars
  PROVE  UNCHANGED operation \/ Settles
<1> USE DEF operation
<1>1. ASSUME NEW p \in Processes, RecordOutcome(p)
      PROVE  UNCHANGED operation \/ Settles
  <2> DEFINE S == IF answer[p] = "permanent_failure" THEN {item[p]} ELSE {}
  <2>1. CASE ClaimStands(p)
    <3>1. delivery' = FailSubmission(S) /\ WriteAggregate(FailSubmission(S))
      BY <1>1, <2>1 DEF RecordOutcome
    <3>2. QED
      BY <3>1, FailSubmissionType
         DEF Settles, TypeAndHands, TypeOK, OperationType
  <2>2. CASE ~ClaimStands(p)
    BY <1>1, <2>2 DEF RecordOutcome
  <2>3. QED
    BY <2>1, <2>2
<1>2. ASSUME NEW p \in Processes, Reconcile(p)
      PROVE  UNCHANGED operation \/ Settles
  <2> DEFINE settled == IF delivery[item[p]] = "pending"
                        THEN [delivery EXCEPT ![item[p]] = answer[p]] ELSE delivery
  <2>1. CASE outbox[item[p]] = "accepted" /\ answer[p] # "pending"
    <3>1. delivery' = settled /\ WriteAggregate(settled)
      BY <1>2, <2>1 DEF Reconcile
    <3>2. item[p] \in Members /\ answer[p] \in DeliveryStatus
      BY <1>2 DEF Reconcile, TypeAndHands, HandsOK
    <3>3. QED
      BY <3>1, <3>2 DEF Settles, TypeAndHands, TypeOK, OperationType, Selected
  <2>2. CASE ~(outbox[item[p]] = "accepted" /\ answer[p] # "pending")
    BY <1>2, <2>2 DEF Reconcile
  <2>3. QED
    BY <2>1, <2>2
<1>3. ASSUME NEW p \in Processes, Refresh(p) PROVE Settles
  BY <1>3, FailSubmissionType
     DEF Refresh, Settles, TypeAndHands, TypeOK, OperationType
<1>4. ASSUME NEW p \in Processes, Dispatch(p), ~RecordOutcome(p)
      PROVE  UNCHANGED operation
  BY <1>4 DEF Dispatch, BeginCycle, Claim, ClaimNothing, Submit, SubmissionFails,
              LookupKnown, LookupFails
<1>5. ASSUME NEW p \in Processes, Poll(p), ~Reconcile(p), ~Refresh(p)
      PROVE  UNCHANGED operation
  BY <1>5 DEF Poll, ReadOutbox, ReadDeliveries, PollFinal, PollNotFound,
              PollForbidden, PollConcludes, PollInconclusive
<1>6. ASSUME NEW p \in Processes, Fault(p) PROVE UNCHANGED operation
  BY <1>6 DEF Fault, DispatchRaises, ReconcileRaises, Crash
<1>7. ASSUME Surroundings PROVE UNCHANGED operation
  BY <1>7 DEF Surroundings, Network, LineAccepts, LineReplyLost, LineDenies,
              PostLost, LeaseRunsOver, LineChangesItsMind, LineFinishes
<1>8. CASE UNCHANGED vars
  BY <1>8 DEF vars
<1>9. QED
  BY <1>1, <1>2, <1>3, <1>4, <1>5, <1>6, <1>7, <1>8 DEF Next

-----------------------------------------------------------------------------
(* The aggregate *)

\* A completed operation has nothing pending, so a step that settles pending
\* deliveries only leaves it as it is.
LEMMA CompletedStays ==
  ASSUME TypeAndHands, StatusIsAggregate, completed, Settles
  PROVE  UNCHANGED <<delivery, status, completed, audit>>
<1>1. status \in OperationFinal /\ status = Aggregate(delivery)
  BY DEF StatusIsAggregate
<1>2. \A m \in Selected : delivery[m] # "pending"
  BY <1>1, AggregateFinal
<1>3. delivery' = delivery
  BY <1>2 DEF Settles, TypeAndHands, TypeOK, OperationType
<1>4. QED
  BY <1>1, <1>3
     DEF Settles, WriteAggregate, TypeAndHands, TypeOK, OperationType

\* A step that writes the operation writes the aggregate of the deliveries it
\* leaves; no other step changes a delivery.
LEMMA AggregateStep ==
  ASSUME TypeAndHands, StatusIsAggregate, [Next]_vars
  PROVE  StatusIsAggregate'
<1>1. CASE UNCHANGED operation
  BY <1>1 DEF operation, StatusIsAggregate, Aggregate
<1>2. CASE Settles
  <2>1. CASE completed
    BY <1>2, <2>1, CompletedStays DEF StatusIsAggregate, Aggregate
  <2>2. CASE ~completed
    BY <1>2, <2>2 DEF Settles, WriteAggregate, StatusIsAggregate, Aggregate
  <2>3. QED
    BY <2>1, <2>2
<1>3. QED
  BY <1>1, <1>2, OperationStep

\* The operation's status and completed_at are what its deliveries add up to,
\* whoever wrote last (_aggregate under the operation lock).
THEOREM StatusAlwaysAggregate == Spec => []StatusIsAggregate
<1>1. Init => StatusIsAggregate
  <2> SUFFICES ASSUME Init PROVE StatusIsAggregate
    OBVIOUS
  <2>1. completed = FALSE
    BY DEF Init
  <2>2. Inherited = {} => status = "ready"
    BY DEF Init
  <2>3. QED
    BY <2>1, <2>2 DEF StatusIsAggregate, OperationFinal
<1>2. Spec => []TypeAndHands
  BY TypeInvariant, PTL DEF TypeAndHands
<1>3. TypeAndHands /\ StatusIsAggregate /\ [Next]_vars => StatusIsAggregate'
  BY AggregateStep
<1>4. QED
  BY <1>1, <1>2, <1>3, PTL DEF Spec

\* Two entries appended one after the other.
LEMMA AppendTwo ==
  ASSUME NEW S, NEW a \in S, NEW b \in S
  PROVE  Append(<<a>>, b) = <<a, b>>
<1> DEFINE s == Append(<<a>>, b)
           t == <<a, b>>
<1>1. <<a>> \in Seq(S) /\ Len(<<a>>) = 1
  OBVIOUS
<1>2. s \in Seq(S) /\ Len(s) = 2
  BY <1>1
<1>3. s[1] = a /\ s[2] = b
  BY <1>1
<1>4. t \in Seq(S) /\ Len(t) = 2 /\ t[1] = a /\ t[2] = b
  OBVIOUS
<1>5. \A i \in 1..Len(s) : s[i] = t[i]
  BY <1>2, <1>3, <1>4
<1> HIDE DEF s, t
<1>6. s = t
  BY <1>2, <1>4, <1>5, SeqEqual
<1>7. QED
  BY <1>6 DEF s, t

\* A step that writes the operation appends to the trail what it changed.
LEMMA AuditStep ==
  ASSUME TypeAndHands, StatusIsAggregate, AuditTellsOnce, [Next]_vars
  PROVE  AuditTellsOnce'
<1> SUFFICES ASSUME Inherited = {} PROVE AuditTellsOnce'
  BY DEF AuditTellsOnce
<1>1. CASE UNCHANGED operation
  BY <1>1 DEF operation, AuditTellsOnce
<1>2. CASE Settles
  <2> DEFINE new == Aggregate(delivery')
  <2>1. CASE completed
    BY <1>2, <2>1, CompletedStays DEF AuditTellsOnce
  <2>2. CASE ~completed
    <3>1. status \in {"ready", "sending"}
      BY <2>2 DEF StatusIsAggregate, TypeAndHands, TypeOK, OperationType,
                  OperationStatus
    <3>2. status' = new /\ new \in {"sending"} \cup OperationFinal
      BY <1>2 DEF Settles, WriteAggregate, Aggregate, OperationFinal
    <3>3. CASE new = "sending" /\ status = "sending"
      <4>1. audit' = audit
        BY <1>2, <2>2, <3>3
           DEF Settles, WriteAggregate, OperationFinal, TypeAndHands, TypeOK,
               OperationType
      <4>2. QED
        BY <3>2, <3>3, <4>1 DEF AuditTellsOnce
    <3>4. CASE status = "ready" \/ new \in OperationFinal
      <4>1. audit' = Append(audit, new)
        <5>1. status # new
          BY <3>1, <3>2, <3>4 DEF OperationFinal
        <5>2. QED
          BY <1>2, <5>1 DEF Settles, WriteAggregate
      <4>2. audit = <<>> \/ (status = "sending" /\ audit = <<"sending">>)
        BY <3>1 DEF AuditTellsOnce, OperationFinal
      <4>3. CASE audit = <<>>
        <5>1. audit' = <<status'>>
          BY <3>2, <4>1, <4>3
        <5>2. QED
          BY <3>2, <5>1 DEF AuditTellsOnce
      <4>4. CASE status = "sending" /\ audit = <<"sending">>
        <5>1. status' \in OperationFinal
          BY <3>2, <3>4, <4>4
        <5>2. audit' = <<"sending", status'>>
          BY <3>2, <4>1, <4>4, <5>1, AppendTwo
             DEF OperationStatus
        <5>3. QED
          BY <5>1, <5>2 DEF AuditTellsOnce
      <4>5. QED
        BY <4>2, <4>3, <4>4
    <3>5. QED
      BY <3>1, <3>2, <3>3, <3>4
  <2>3. QED
    BY <2>1, <2>2
<1>3. QED
  BY <1>1, <1>2, OperationStep

\* The audit trail of the aggregate has each change once and ends in the
\* current status, whichever worker, reconciler or refresh wrote it.
THEOREM AuditAlwaysTellsOnce == Spec => []AuditTellsOnce
<1>1. Init => AuditTellsOnce
  BY DEF Init, AuditTellsOnce
<1>2. Spec => []TypeAndHands
  BY TypeInvariant, PTL DEF TypeAndHands
<1>3. TypeAndHands /\ StatusIsAggregate /\ AuditTellsOnce /\ [Next]_vars
      => AuditTellsOnce'
  BY AuditStep
<1>4. QED
  BY <1>1, <1>2, <1>3, StatusAlwaysAggregate, PTL DEF Spec

-----------------------------------------------------------------------------
(* Rows and deliveries *)

RowsInv == DeliveriesMatchRows /\ ClaimsOK

\* A reservation writes rows and deliveries that match.
LEMMA RowsInit == Init => RowsInv
<1> SUFFICES ASSUME Init PROVE RowsInv
  OBVIOUS
<1>1. DeliveriesMatchRows
  BY DEF Init, DeliveriesMatchRows
<1>2. ClaimsOK
  BY DEF Init, ClaimsOK
<1>3. QED
  BY <1>1, <1>2 DEF RowsInv

\* A claim hands out a fresh token and only touches a row with a pending
\* delivery.
LEMMA RowsClaim ==
  ASSUME TypeAndHands, RowsInv, NEW p \in Processes, NEW m \in Members, Claim(p, m)
  PROVE  RowsInv'
<1> USE DEF TypeAndHands, TypeOK, RowsType, OperationType, WorkerType, RowsInv
<1>1. FreshToken \in Tokens /\ FreshToken \notin TokensInUse
  BY FreshTokenUnused DEF Claim
<1>2. \A q \in Processes : held[q] # FreshToken
  BY <1>1 DEF TokensInUse
<1>3. outbox[m] \in {"pending", "retryable_failure", "delivering"}
  BY DEF Claim, FirstClaimable, Claimable
<1>4. DeliveriesMatchRows'
  BY <1>3 DEF Claim, DeliveriesMatchRows, operation
<1>5. ClaimsOK'
  BY <1>1, <1>2 DEF Claim, ClaimsOK
<1>6. QED
  BY <1>4, <1>5

\* An outcome closes or reopens the row together with its delivery.
LEMMA RowsRecord ==
  ASSUME TypeAndHands, RowsInv, NEW p \in Processes, RecordOutcome(p)
  PROVE  RowsInv'
<1> USE DEF TypeAndHands, TypeOK, RowsType, OperationType, WorkerType, RowsInv
<1> DEFINE m == item[p]
           S == IF answer[p] = "permanent_failure" THEN {m} ELSE {}
<1>1. m \in Members /\ answer[p] \in Outcome
  BY DEF RecordOutcome, HandsOK
<1>2. CASE ~ClaimStands(p)
  BY <1>2 DEF RecordOutcome, LeaveDispatch, rows, operation, DeliveriesMatchRows,
              ClaimsOK
<1>3. CASE ClaimStands(p)
  <2>1. /\ outbox' = [outbox EXCEPT ![m] = answer[p]]
        /\ lease'[m] \in {"over", "null"}
        /\ \A k \in Members \ {m} : lease'[k] = lease[k]
        /\ delivery' = FailSubmission(S)
    BY <1>1, <1>3 DEF RecordOutcome
  <2>2. outbox[m] = "delivering"
    BY <1>3 DEF ClaimStands
  <2>3. DeliveriesMatchRows'
    BY <1>1, <2>1, <2>2
       DEF DeliveriesMatchRows, FailSubmission, Outcome, Selected
  <2>4. ClaimsOK'
    BY <1>1, <2>1 DEF RecordOutcome, LeaveDispatch, ClaimsOK
  <2>5. QED
    BY <2>3, <2>4
<1>4. QED
  BY <1>2, <1>3

\* A result closes the row together with its delivery.
LEMMA RowsReconcile ==
  ASSUME TypeAndHands, RowsInv, NEW p \in Processes, Reconcile(p)
  PROVE  RowsInv'
<1> USE DEF TypeAndHands, TypeOK, RowsType, OperationType, WorkerType, RowsInv
<1> DEFINE m == item[p]
<1>1. m \in Members /\ answer[p] \in DeliveryStatus
  BY DEF Reconcile, HandsOK
<1>2. CASE ~(outbox[m] = "accepted" /\ answer[p] # "pending")
  BY <1>2 DEF Reconcile, BackToPoll, rows, operation, DeliveriesMatchRows, ClaimsOK
<1>3. CASE outbox[m] = "accepted" /\ answer[p] # "pending"
  <2>1. /\ outbox' = [outbox EXCEPT ![m] = "reconciled"]
        /\ lease' = [lease EXCEPT ![m] = "null"]
        /\ delivery' = IF delivery[m] = "pending"
                       THEN [delivery EXCEPT ![m] = answer[p]] ELSE delivery
    BY <1>3 DEF Reconcile
  <2>2. DeliveriesMatchRows'
    BY <1>1, <1>3, <2>1 DEF DeliveriesMatchRows, Selected
  <2>3. ClaimsOK'
    BY <1>1, <1>3, <2>1 DEF Reconcile, ClaimsOK
  <2>4. QED
    BY <2>2, <2>3
<1>4. QED
  BY <1>2, <1>3

\* The refresh settles inherited rows only.
LEMMA RowsRefresh ==
  ASSUME TypeAndHands, RowsInv, NEW p \in Processes, Refresh(p)
  PROVE  /\ RowsInv'
         /\ \A m \in Selected \ Inherited : delivery'[m] = delivery[m]
<1> USE DEF TypeAndHands, TypeOK, RowsType, OperationType, WorkerType, RowsInv
<1>1. delivery' = FailSubmission({m \in Members : outbox[m] = "permanent_failure"})
  BY DEF Refresh
<1>2. \A m \in Selected \ Inherited : delivery'[m] = delivery[m]
  BY <1>1 DEF FailSubmission, DeliveriesMatchRows
<1>3. DeliveriesMatchRows'
  BY <1>2 DEF Refresh, rows, DeliveriesMatchRows, Selected
<1>4. ClaimsOK'
  BY DEF Refresh, rows, ClaimsOK
<1>5. QED
  BY <1>2, <1>3, <1>4

\* The other steps leave rows and deliveries alone.
LEMMA RowsStep == TypeAndHands /\ RowsInv /\ [Next]_vars => RowsInv'
<1> SUFFICES ASSUME TypeAndHands, RowsInv, [Next]_vars PROVE RowsInv'
  OBVIOUS
<1> USE DEF TypeAndHands, TypeOK, RowsType, OperationType, WorkerType, RowsInv
<1>1. ASSUME NEW p \in Processes, Dispatch(p) PROVE RowsInv'
  <2>1. CASE \E m \in Members : Claim(p, m)
    BY <2>1, RowsClaim
  <2>2. CASE RecordOutcome(p)
    BY <2>2, RowsRecord
  <2>3. ASSUME UNCHANGED <<outbox, lease, delivery>>,
               held' = held \/ held' = [held EXCEPT ![p] = NoToken]
        PROVE  RowsInv'
    BY <2>3 DEF DeliveriesMatchRows, ClaimsOK
  <2>4. QED
    BY <1>1, <2>1, <2>2, <2>3
       DEF Dispatch, BeginCycle, ClaimNothing, Submit, SubmissionFails, LookupKnown,
           LookupFails, LeaveDispatch, rows, operation
<1>2. ASSUME NEW p \in Processes, Poll(p) PROVE RowsInv'
  <2>1. CASE Reconcile(p)
    BY <2>1, RowsReconcile
  <2>2. CASE Refresh(p)
    BY <2>2, RowsRefresh
  <2>3. ASSUME UNCHANGED <<outbox, lease, delivery, held>> PROVE RowsInv'
    BY <2>3 DEF DeliveriesMatchRows, ClaimsOK
  <2>4. QED
    BY <1>2, <2>1, <2>2, <2>3
       DEF Poll, ReadOutbox, ReadDeliveries, PollFinal, PollNotFound, PollForbidden,
           PollConcludes, PollInconclusive, rows, operation, worker
<1>3. ASSUME NEW p \in Processes, Fault(p) PROVE RowsInv'
  <2>1. UNCHANGED <<outbox, lease, delivery>>
    BY <1>3 DEF Fault, DispatchRaises, ReconcileRaises, Crash, rows, operation
  <2>2. held' = held \/ held' = [held EXCEPT ![p] = NoToken]
    BY <1>3 DEF Fault, DispatchRaises, ReconcileRaises, Crash, LeaveDispatch
  <2>3. QED
    BY <2>1, <2>2 DEF DeliveriesMatchRows, ClaimsOK
<1>4. ASSUME NEW m \in Members, LeaseRunsOver(m) PROVE RowsInv'
  BY <1>4 DEF LeaseRunsOver, operation, worker, DeliveriesMatchRows, ClaimsOK
<1>5. ASSUME Surroundings, ~\E m \in Members : LeaseRunsOver(m) PROVE RowsInv'
  <2>1. UNCHANGED <<outbox, lease, delivery, held>>
    BY <1>5 DEF Surroundings, Network, LineAccepts, LineReplyLost, LineDenies,
                PostLost, LineChangesItsMind, LineFinishes, rows, operation, worker
  <2>2. QED
    BY <2>1 DEF DeliveriesMatchRows, ClaimsOK
<1>6. CASE UNCHANGED vars
  BY <1>6 DEF vars, DeliveriesMatchRows, ClaimsOK
<1>7. QED
  BY <1>1, <1>2, <1>3, <1>4, <1>5, <1>6 DEF Next

\* Outbox rows and deliveries agree in every committed state, for any number
\* of members and of concurrent runners, with crashes and late answers.
THEOREM RowsAlwaysMatch == Spec => []DeliveriesMatchRows
<1>1. Spec => []TypeAndHands
  BY TypeInvariant, PTL DEF TypeAndHands
<1>2. Spec => []RowsInv
  BY <1>1, RowsInit, RowsStep, PTL DEF Spec
<1>3. QED
  BY <1>2, PTL DEF RowsInv

-----------------------------------------------------------------------------
(* What is settled stays settled *)

\* No claim, late outcome or result reopens a closed row.
LEMMA ClosedRowsStay ==
  ASSUME TypeAndHands, RowsInv, [Next]_vars, NEW k \in Members,
         outbox[k] \in {"permanent_failure", "reconciled"}
  PROVE  outbox'[k] = outbox[k]
<1> USE DEF TypeAndHands, TypeOK, RowsType
<1>1. ASSUME NEW p \in Processes, NEW m \in Members, Claim(p, m)
      PROVE  outbox'[k] = outbox[k]
  BY <1>1 DEF Claim, FirstClaimable, Claimable
<1>2. ASSUME NEW p \in Processes, RecordOutcome(p) PROVE outbox'[k] = outbox[k]
  <2>1. CASE ClaimStands(p)
    BY <1>2, <2>1 DEF RecordOutcome, ClaimStands
  <2>2. CASE ~ClaimStands(p)
    BY <1>2, <2>2 DEF RecordOutcome, rows
  <2>3. QED
    BY <2>1, <2>2
<1>3. ASSUME NEW p \in Processes, Reconcile(p) PROVE outbox'[k] = outbox[k]
  BY <1>3 DEF Reconcile, rows
<1>4. ASSUME NEW p \in Processes, Dispatch(p),
             ~\E m \in Members : Claim(p, m), ~RecordOutcome(p)
      PROVE  outbox' = outbox
  BY <1>4 DEF Dispatch, BeginCycle, ClaimNothing, Submit, SubmissionFails,
              LookupKnown, LookupFails, rows
<1>5. ASSUME NEW p \in Processes, Poll(p), ~Reconcile(p) PROVE outbox' = outbox
  BY <1>5 DEF Poll, ReadOutbox, ReadDeliveries, PollFinal, PollNotFound,
              PollForbidden, PollConcludes, PollInconclusive, Refresh, rows
<1>6. ASSUME NEW p \in Processes, Fault(p) PROVE outbox' = outbox
  BY <1>6 DEF Fault, DispatchRaises, ReconcileRaises, Crash, rows
<1>7. ASSUME Surroundings PROVE outbox' = outbox
  BY <1>7 DEF Surroundings, Network, LineAccepts, LineReplyLost, LineDenies,
              PostLost, LeaseRunsOver, LineChangesItsMind, LineFinishes, rows
<1>8. CASE UNCHANGED vars
  BY <1>8 DEF vars
<1>9. QED
  BY <1>1, <1>2, <1>3, <1>4, <1>5, <1>6, <1>7, <1>8 DEF Next

\* A final delivery, a closed row and a completed operation never change, in
\* spite of second reconcilers, late answers and restarts.
THEOREM SettledStays == Spec => SettledForever
<1> DEFINE Frozen ==
      /\ \A m \in Selected : delivery[m] # "pending" => delivery'[m] = delivery[m]
      /\ \A m \in Members : outbox[m] \in {"permanent_failure", "reconciled"} =>
                              outbox'[m] = outbox[m]
      /\ completed => UNCHANGED <<status, completed, audit>>
<1>1. TypeAndHands /\ RowsInv /\ StatusIsAggregate /\ [Next]_vars => Frozen
  <2> SUFFICES ASSUME TypeAndHands, RowsInv, StatusIsAggregate, [Next]_vars
               PROVE  Frozen
    OBVIOUS
  <2>1. CASE UNCHANGED operation
    BY <2>1, ClosedRowsStay DEF operation
  <2>2. CASE Settles
    BY <2>2, ClosedRowsStay, CompletedStays DEF Settles
  <2>3. QED
    BY <2>1, <2>2, OperationStep
<1>2. Spec => []TypeAndHands
  BY TypeInvariant, PTL DEF TypeAndHands
<1>3. Spec => []RowsInv
  BY <1>2, RowsInit, RowsStep, PTL DEF Spec
<1>4. Spec => [][Frozen]_vars
  BY <1>1, <1>2, <1>3, StatusAlwaysAggregate, PTL DEF Spec
<1>5. QED
  BY <1>4 DEF SettledForever

-----------------------------------------------------------------------------
(* Refinement *)

\* While nothing is recorded some member is still to be sent to.
StartsPending ==
  status = "ready" => \E m \in Selected : delivery[m] = "pending"

\* Without inherited rows a step settles one member at most.
LEMMA OneSettles ==
  ASSUME TypeAndHands, RowsInv, Inherited = {}, [Next]_vars, Settles
  PROVE  \/ delivery' = delivery
         \/ \E m \in Selected, result \in DeliveryFinal :
               /\ delivery[m] = "pending"
               /\ delivery' = [delivery EXCEPT ![m] = result]
<1> DEFINE One == \/ delivery' = delivery
                  \/ \E m \in Selected, result \in DeliveryFinal :
                        /\ delivery[m] = "pending"
                        /\ delivery' = [delivery EXCEPT ![m] = result]
<1> USE DEF TypeAndHands, TypeOK, OperationType
<1>1. ASSUME NEW p \in Processes, RecordOutcome(p) PROVE One
  <2> DEFINE S == IF answer[p] = "permanent_failure" THEN {item[p]} ELSE {}
  <2>1. item[p] \in Selected
    BY <1>1 DEF RecordOutcome, HandsOK, Selected
  <2>2. CASE ClaimStands(p)
    <3>1. delivery' = FailSubmission(S)
      BY <1>1, <2>2 DEF RecordOutcome
    <3>2. CASE S = {} \/ delivery[item[p]] # "pending"
      BY <3>1, <3>2, <2>1 DEF FailSubmission
    <3>3. CASE S = {item[p]} /\ delivery[item[p]] = "pending"
      <4>1. delivery' = [delivery EXCEPT ![item[p]] = "failed"]
        BY <3>1, <3>3, <2>1 DEF FailSubmission
      <4>2. QED
        BY <4>1, <3>3, <2>1 DEF DeliveryFinal
    <3>4. QED
      BY <3>2, <3>3
  <2>3. CASE ~ClaimStands(p)
    BY <1>1, <2>3 DEF RecordOutcome, operation
  <2>4. QED
    BY <2>2, <2>3
<1>2. ASSUME NEW p \in Processes, Reconcile(p) PROVE One
  <2>1. item[p] \in Selected /\ answer[p] \in DeliveryStatus
    BY <1>2 DEF Reconcile, HandsOK, Selected
  <2>2. QED
    BY <1>2, <2>1 DEF Reconcile, operation, DeliveryStatus
<1>3. ASSUME NEW p \in Processes, Refresh(p) PROVE One
  <2>1. \A m \in Selected : delivery'[m] = delivery[m]
    BY <1>3, RowsRefresh
  <2>2. QED
    BY <2>1 DEF Settles
<1>4. ASSUME NEW p \in Processes, Dispatch(p), ~RecordOutcome(p)
      PROVE  delivery' = delivery
  BY <1>4 DEF Dispatch, BeginCycle, Claim, ClaimNothing, Submit, SubmissionFails,
              LookupKnown, LookupFails, operation
<1>5. ASSUME NEW p \in Processes, Poll(p), ~Reconcile(p), ~Refresh(p)
      PROVE  delivery' = delivery
  BY <1>5 DEF Poll, ReadOutbox, ReadDeliveries, PollFinal, PollNotFound,
              PollForbidden, PollConcludes, PollInconclusive, operation
<1>6. ASSUME NEW p \in Processes, Fault(p) PROVE delivery' = delivery
  BY <1>6 DEF Fault, DispatchRaises, ReconcileRaises, Crash, operation
<1>7. ASSUME Surroundings PROVE delivery' = delivery
  BY <1>7 DEF Surroundings, Network, LineAccepts, LineReplyLost, LineDenies,
              PostLost, LeaseRunsOver, LineChangesItsMind, LineFinishes, operation
<1>8. CASE UNCHANGED vars
  BY <1>8 DEF vars
<1>9. QED
  BY <1>1, <1>2, <1>3, <1>4, <1>5, <1>6, <1>7, <1>8 DEF Next

\* A reservation is an initial state of the promise.
LEMMA PromiseInit == Inherited = {} /\ Init => Promise!Init /\ StartsPending
<1> SUFFICES ASSUME Inherited = {}, Init PROVE Promise!Init /\ StartsPending
  OBVIOUS
<1>1. \A m \in Members : delivery[m] = "pending"
  BY DEF Init
<1>2. \A m \in Refused : delivery[m] = "skipped"
  BY DEF Init
<1>3. \E m \in Selected : delivery[m] = "pending"
  BY <1>1, MembersAssumption DEF Selected
<1>4. delivery \in [Selected -> {"pending", "skipped"}]
  <2>1. delivery \in [Selected -> DeliveryStatus]
    BY DEF Init
  <2>2. QED
    BY <1>1, <1>2, <2>1 DEF Selected
<1>5. QED
  BY <1>3, <1>4 DEF Init, Promise!Init, StartsPending

\* Every step of the pipeline is a step of the promise, or changes nothing the
\* staff sees.
LEMMA PromiseStep ==
  ASSUME Inherited = {}, TypeAndHands, RowsInv, StatusIsAggregate, StartsPending,
         [Next]_vars
  PROVE  [Promise!Next]_(Promise!vars) /\ StartsPending'
<1>1. CASE UNCHANGED operation
  BY <1>1 DEF operation, Promise!vars, StartsPending
<1>2. CASE Settles
  <2>1. /\ status' = Aggregate(delivery')
        /\ completed' = (completed \/ Aggregate(delivery') \in OperationFinal)
    BY <1>2 DEF Settles, WriteAggregate
  <2>2. StartsPending'
    BY <2>1, AggregateFinal DEF StartsPending
  <2>3. CASE completed
    BY <1>2, <2>2, <2>3, CompletedStays DEF Promise!vars
  <2>4. CASE ~completed
    <3> completed = FALSE
      BY <2>4 DEF TypeAndHands, TypeOK, OperationType
    <3>1. completed' = (status' # "sending")
      BY <2>1, <2>4, AggregateFinal DEF OperationStatus, OperationFinal
    <3>2. CASE delivery' = delivery
      <4>1. CASE status = "ready"
        <5>1. \E m \in Selected : delivery[m] = "pending"
          BY <4>1 DEF StartsPending
        <5>2. status' = "sending"
          BY <2>1, <3>2, <5>1 DEF Aggregate
        <5>3. Promise!Announce
          BY <2>4, <3>1, <3>2, <4>1, <5>1, <5>2 DEF Promise!Announce
        <5>4. QED
          BY <2>2, <5>3 DEF Promise!Next
      <4>2. CASE status # "ready"
        <5>1. status = Aggregate(delivery) /\ status \notin OperationFinal
          BY <2>4, <4>2 DEF StatusIsAggregate
        <5>2. Aggregate(delivery') = Aggregate(delivery)
          BY <3>2
        <5>3. status' = status /\ completed' = completed
          BY <2>1, <5>1, <5>2
        <5>4. QED
          BY <2>2, <3>2, <5>3 DEF Promise!vars
      <4>3. QED
        BY <4>1, <4>2
    <3>3. ASSUME NEW m \in Selected, NEW result \in DeliveryFinal,
                 delivery[m] = "pending",
                 delivery' = [delivery EXCEPT ![m] = result]
          PROVE  [Promise!Next]_(Promise!vars)
      <4>1. Promise!Settle(m, result)
        BY <2>1, <3>1, <3>3 DEF Promise!Settle, Promise!Aggregate, Aggregate
      <4>2. QED
        BY <4>1 DEF Promise!Next, Promise!Final, DeliveryFinal
    <3>4. QED
      BY <1>2, <2>2, <3>2, <3>3, OneSettles
  <2>5. QED
    BY <2>3, <2>4
<1>3. QED
  BY <1>1, <1>2, OperationStep

\* Without inherited rows, the outbox pipeline with its leases, retries, polls
\* and crashes implements DeliveryPromise.
THEOREM OutboxKeepsPromise == Inherited = {} /\ Spec => KeepsPromise
<1> SUFFICES ASSUME Inherited = {} PROVE Spec => KeepsPromise
  OBVIOUS
<1>1. Spec => []TypeAndHands
  BY TypeInvariant, PTL DEF TypeAndHands
<1>2. Spec => []RowsInv
  BY <1>1, RowsInit, RowsStep, PTL DEF Spec
<1>3. Init => Promise!Init /\ StartsPending
  BY PromiseInit
<1>4. /\ TypeAndHands /\ RowsInv /\ StatusIsAggregate /\ StartsPending
      /\ [Next]_vars
      => [Promise!Next]_(Promise!vars) /\ StartsPending'
  BY PromiseStep
<1>5. QED
  BY <1>1, <1>2, <1>3, <1>4, StatusAlwaysAggregate, PTL
     DEF Spec, KeepsPromise, Promise!Spec
-----------------------------------------------------------------------------
(* What the staff reads is true of LINE: the proof follows an answer from    *)
(* LINE's record through a worker's hands or a reconciler's copy into the    *)
(* rows.  Then what a lease is worth.                                        *)

TruthInv == OutcomesAreTrue /\ AnswersAreTrue

\* LINE never forgets a command it took nor takes back a verdict, and, when it
\* is consistent, never takes one that it refuses.
LineKeeps ==
  /\ \A m \in Members : line[m] # "none" => line'[m] # "none"
  /\ \A m \in Members : line[m] = "sent" => line'[m] = "sent"
  /\ ConsistentLine => refusing' = refusing

LEMMA LineStep ==
  ASSUME TypeAndHands, [Next]_vars
  PROVE  LineKeeps
<1> USE DEF TypeAndHands, TypeOK, ProviderType, LineKeeps
<1>1. ASSUME NEW p \in Processes, Dispatch(p) \/ Poll(p) \/ Fault(p)
      PROVE  line' = line /\ refusing' = refusing
  <2>1. CASE Dispatch(p)
    BY <2>1 DEF Dispatch, BeginCycle, Claim, ClaimNothing, Submit, SubmissionFails,
                LookupKnown, LookupFails, RecordOutcome, provider
  <2>2. CASE Poll(p)
    BY <2>2 DEF Poll, ReadOutbox, ReadDeliveries, PollFinal, PollNotFound,
                PollForbidden, PollConcludes, PollInconclusive, Reconcile, Refresh,
                provider
  <2>3. CASE Fault(p)
    BY <2>3 DEF Fault, DispatchRaises, ReconcileRaises, Crash, provider
  <2>4. QED
    BY <1>1, <2>1, <2>2, <2>3
<1>2. ASSUME NEW p \in Processes, NEW m \in Members, Network(p, m) PROVE LineKeeps
  BY <1>2 DEF Network, LineAccepts, LineReplyLost, LineDenies, PostLost
<1>3. ASSUME NEW m \in Members, LeaseRunsOver(m) \/ LineChangesItsMind(m)
      PROVE  LineKeeps
  BY <1>3 DEF LeaseRunsOver, LineChangesItsMind, provider
<1>4. ASSUME NEW m \in Members, NEW verdict \in LineVerdicts, LineFinishes(m, verdict)
      PROVE  LineKeeps
  BY <1>4, LineAssumption DEF LineFinishes
<1>5. CASE UNCHANGED vars
  BY <1>5 DEF vars
<1>6. QED
  BY <1>1, <1>2, <1>3, <1>4, <1>5 DEF Next, Surroundings

\* A reservation has told the staff nothing yet; inherited rows tell what LINE
\* told the previous release.
LEMMA TruthInit == Init => TruthInv
<1> SUFFICES ASSUME Init PROVE TruthInv
  OBVIOUS
<1>1. ASSUME NEW m \in Members PROVE delivery[m] = "sent" => line[m] = "sent"
  <2>1. CASE m \in Inherited
    BY <2>1, LineAssumption DEF Init, InheritedRow, Projection
  <2>2. CASE m \notin Inherited
    BY <2>2 DEF Init
  <2>3. QED
    BY <2>1, <2>2
<1>2. ASSUME NEW m \in Members
      PROVE  /\ outbox[m] = "accepted" => line[m] # "none"
             /\ outbox[m] = "permanent_failure" => line[m] = "none" /\ m \in Inherited
  <2>1. CASE m \in Inherited
    BY <2>1, LineAssumption DEF Init, InheritedRow
  <2>2. CASE m \notin Inherited
    BY <2>2 DEF Init
  <2>3. QED
    BY <2>1, <2>2
<1>3. OutcomesAreTrue
  BY <1>1, <1>2 DEF OutcomesAreTrue
<1>4. AnswersAreTrue
  <2>1. \A p \in Processes : pc[p] \in {"idle", "dispatch"}
    BY DEF Init
  <2>2. \A p \in Processes, m \in Members : copy[p][m] = "pending"
    BY DEF Init, Selected
  <2>3. wire = {} /\ \A m \in refusing : line[m] = "none"
    BY DEF Init
  <2>4. QED
    BY <2>1, <2>2, <2>3 DEF AnswersAreTrue
<1>5. QED
  BY <1>3, <1>4 DEF TruthInv

-----------------------------------------------------------------------------
(* The rows *)

\* An outcome is recorded from an answer that is true, a result from a poll
\* that is.
DeliveriesAreTrue ==
  \A m \in Members :
    /\ delivery[m] = "sent" => line[m] = "sent"
    /\ outbox[m] = "accepted" => line[m] # "none"

\* What the rows tell stays true as long as they keep what they tell.
LEMMA TruthKept ==
  ASSUME DeliveriesAreTrue, LineKeeps,
         \A m \in Members : delivery'[m] = "sent" => delivery[m] = "sent",
         \A m \in Members : outbox'[m] = "accepted" => outbox[m] = "accepted"
  PROVE  DeliveriesAreTrue'
BY DEF DeliveriesAreTrue, LineKeeps

LEMMA TruthRows ==
  ASSUME TypeAndHands, TruthInv, LineKeeps, [Next]_vars
  PROVE  DeliveriesAreTrue'
<1> USE DEF TypeAndHands, TypeOK, RowsType, OperationType, WorkerType
<1>1. DeliveriesAreTrue
  BY DEF TruthInv, OutcomesAreTrue, DeliveriesAreTrue
<1>2. ASSUME NEW p \in Processes, RecordOutcome(p) PROVE DeliveriesAreTrue'
  <2> DEFINE k == item[p]
             S == IF answer[p] = "permanent_failure" THEN {k} ELSE {}
  <2>1. CASE ~ClaimStands(p)
    BY <1>1, <1>2, <2>1, TruthKept DEF RecordOutcome, rows, operation
  <2>2. CASE ClaimStands(p)
    <3>1. /\ k \in Members
          /\ outbox' = [outbox EXCEPT ![k] = answer[p]]
          /\ delivery' = FailSubmission(S)
      BY <1>2, <2>2 DEF RecordOutcome, HandsOK
    <3>2. \A m \in Members : delivery'[m] = "sent" => delivery[m] = "sent"
      BY <3>1 DEF FailSubmission, Selected
    <3>3. answer[p] = "accepted" => line'[k] # "none"
      BY <1>2, <3>1 DEF RecordOutcome, TruthInv, AnswersAreTrue, LineKeeps
    <3>4. \A m \in Members : outbox'[m] = "accepted" => line'[m] # "none"
      BY <1>1, <3>1, <3>3 DEF DeliveriesAreTrue, LineKeeps
    <3>5. QED
      BY <1>1, <3>2, <3>4 DEF DeliveriesAreTrue, LineKeeps
  <2>3. QED
    BY <2>1, <2>2
<1>3. ASSUME NEW p \in Processes, Reconcile(p) PROVE DeliveriesAreTrue'
  <2> DEFINE k == item[p]
  <2>1. CASE ~(outbox[k] = "accepted" /\ answer[p] # "pending")
    BY <1>1, <1>3, <2>1, TruthKept DEF Reconcile, rows, operation
  <2>2. CASE outbox[k] = "accepted" /\ answer[p] # "pending"
    <3>1. /\ k \in Members
          /\ outbox' = [outbox EXCEPT ![k] = "reconciled"]
          /\ delivery' = IF delivery[k] = "pending"
                         THEN [delivery EXCEPT ![k] = answer[p]] ELSE delivery
      BY <1>3, <2>2 DEF Reconcile, HandsOK
    <3>2. answer[p] = "sent" => line'[k] = "sent"
      BY <1>3, <3>1 DEF Reconcile, TruthInv, AnswersAreTrue, LineKeeps
    <3>3. \A m \in Members : delivery'[m] = "sent" => line'[m] = "sent"
      BY <1>1, <3>1, <3>2 DEF DeliveriesAreTrue, LineKeeps, Selected
    <3>4. QED
      BY <1>1, <3>1, <3>3 DEF DeliveriesAreTrue, LineKeeps
  <2>3. QED
    BY <2>1, <2>2
<1>4. ASSUME NEW p \in Processes, Refresh(p) PROVE DeliveriesAreTrue'
  <2>1. outbox' = outbox /\ \A m \in Members : delivery'[m] = "sent" => delivery[m] = "sent"
    BY <1>4 DEF Refresh, rows, FailSubmission, Selected
  <2>2. QED
    BY <1>1, <2>1, TruthKept
<1>5. ASSUME NEW p \in Processes, NEW m \in Members, Claim(p, m)
      PROVE  DeliveriesAreTrue'
  BY <1>1, <1>5, TruthKept DEF Claim, operation
<1>6. ASSUME UNCHANGED <<outbox, delivery>> PROVE DeliveriesAreTrue'
  BY <1>1, <1>6, TruthKept
<1>7. ASSUME NEW p \in Processes, Dispatch(p),
             ~\E m \in Members : Claim(p, m), ~RecordOutcome(p)
      PROVE  UNCHANGED <<outbox, delivery>>
  BY <1>7 DEF Dispatch, BeginCycle, ClaimNothing, Submit, SubmissionFails,
              LookupKnown, LookupFails, rows, operation
<1>8. ASSUME NEW p \in Processes, Poll(p), ~Reconcile(p), ~Refresh(p)
      PROVE  UNCHANGED <<outbox, delivery>>
  BY <1>8 DEF Poll, ReadOutbox, ReadDeliveries, PollFinal, PollNotFound,
              PollForbidden, PollConcludes, PollInconclusive, rows, operation
<1>9. ASSUME NEW p \in Processes, Fault(p) PROVE UNCHANGED <<outbox, delivery>>
  BY <1>9 DEF Fault, DispatchRaises, ReconcileRaises, Crash, rows, operation
<1>10. ASSUME Surroundings PROVE UNCHANGED <<outbox, delivery>>
  BY <1>10 DEF Surroundings, Network, LineAccepts, LineReplyLost, LineDenies,
               PostLost, LeaseRunsOver, LineChangesItsMind, LineFinishes, rows,
               operation
<1>11. CASE UNCHANGED vars
  BY <1>6, <1>11 DEF vars
<1>12. QED
  BY <1>2, <1>3, <1>4, <1>5, <1>6, <1>7, <1>8, <1>9, <1>10, <1>11 DEF Next

-----------------------------------------------------------------------------
(* What processes have in hand *)

\* What one process is about to record, and what it remembers.
HandIsTrue(p) ==
  /\ pc[p] = "answered" /\ answer[p] = "accepted" => line[item[p]] # "none"
  /\ ConsistentLine /\ pc[p] = "answered" /\ answer[p] = "permanent_failure" =>
       item[p] \in refusing
  /\ pc[p] = "polled" /\ answer[p] = "sent" => line[item[p]] = "sent"
CopyIsTrue(p) == \A m \in Members : copy[p][m] = "sent" => line[m] = "sent"

\* A process that is not about to record anything, or that is about to record
\* what it was before, still has a true answer.
LEMMA HandKept ==
  ASSUME TypeAndHands, TruthInv, LineKeeps, NEW q \in Processes,
         \/ pc'[q] \notin {"answered", "polled"}
         \/ /\ pc'[q] = pc[q] /\ item'[q] = item[q] /\ answer'[q] = answer[q]
  PROVE  HandIsTrue(q)'
<1>1. HandIsTrue(q)
  BY DEF TruthInv, AnswersAreTrue, HandIsTrue
<1>2. pc[q] \in {"answered", "polled"} => item[q] \in Members
  BY DEF TypeAndHands, HandsOK
<1>3. CASE pc'[q] \notin {"answered", "polled"}
  BY <1>3 DEF HandIsTrue
<1>4. CASE pc'[q] = pc[q] /\ item'[q] = item[q] /\ answer'[q] = answer[q]
  BY <1>1, <1>2, <1>4 DEF HandIsTrue, LineKeeps
<1>5. QED
  BY <1>3, <1>4

LEMMA TruthHands ==
  ASSUME TypeAndHands, TruthInv, LineKeeps, [Next]_vars, NEW q \in Processes
  PROVE  HandIsTrue(q)'
<1> USE DEF TypeAndHands, TypeOK, WorkerType, HandsOK
<1>1. ASSUME NEW p \in Processes, LookupKnown(p) PROVE HandIsTrue(q)'
  <2>1. CASE q = p
    BY <1>1, <2>1 DEF LookupKnown, HandIsTrue, LineKeeps, ProviderType
  <2>2. CASE q # p
    BY <1>1, <2>2, HandKept DEF LookupKnown
  <2>3. QED
    BY <2>1, <2>2
<1>2. ASSUME NEW p \in Processes, SubmissionFails(p) PROVE HandIsTrue(q)'
  <2>1. CASE q = p
    BY <1>2, <2>1 DEF SubmissionFails, HandIsTrue
  <2>2. CASE q # p
    BY <1>2, <2>2, HandKept DEF SubmissionFails
  <2>3. QED
    BY <2>1, <2>2
<1>3. ASSUME NEW p \in Processes, NEW m \in Members, LineAccepts(p, m)
      PROVE  HandIsTrue(q)'
  <2>1. line'[m] # "none" /\ item' = item
    BY <1>3 DEF LineAccepts, ProviderType
  <2>2. CASE q = p /\ pc[p] = "posting" /\ item[p] = m
    BY <1>3, <2>1, <2>2 DEF LineAccepts, Reply, HandIsTrue
  <2>3. CASE ~(q = p /\ pc[p] = "posting" /\ item[p] = m)
    <3>1. pc'[q] = pc[q] /\ answer'[q] = answer[q]
      BY <1>3, <2>3 DEF LineAccepts, Reply
    <3>2. QED
      BY <2>1, <3>1, HandKept
  <2>4. QED
    BY <2>2, <2>3
<1>4. ASSUME NEW p \in Processes, NEW m \in Members, LineDenies(p, m)
      PROVE  HandIsTrue(q)'
  <2>1. m \in refusing /\ refusing' = refusing /\ item' = item
    BY <1>4 DEF LineDenies
  <2>2. CASE q = p /\ pc[p] = "posting" /\ item[p] = m
    BY <1>4, <2>1, <2>2 DEF LineDenies, Reply, HandIsTrue
  <2>3. CASE ~(q = p /\ pc[p] = "posting" /\ item[p] = m)
    <3>1. pc'[q] = pc[q] /\ answer'[q] = answer[q]
      BY <1>4, <2>3 DEF LineDenies, Reply
    <3>2. QED
      BY <2>1, <3>1, HandKept
  <2>4. QED
    BY <2>2, <2>3
<1>5. ASSUME NEW p \in Processes, NEW m \in Members, NEW result,
             PollConcludes(p, m, result), result = "sent" => line[m] = "sent"
      PROVE  HandIsTrue(q)'
  <2>1. CASE q = p
    BY <1>5, <2>1 DEF PollConcludes, HandIsTrue, LineKeeps
  <2>2. CASE q # p
    BY <1>5, <2>2, HandKept DEF PollConcludes
  <2>3. QED
    BY <2>1, <2>2
<1>6. ASSUME NEW p \in Processes, NEW m \in Members,
             PollFinal(p, m) \/ PollNotFound(p, m) \/ PollForbidden(p, m)
      PROVE  HandIsTrue(q)'
  <2>1. copy[p][m] = "sent" => line[m] = "sent"
    BY DEF TruthInv, AnswersAreTrue
  <2>2. CASE PollFinal(p, m)
    <3>1. Projection(line[m]) = "sent" => line[m] = "sent"
      BY <2>2, LineAssumption DEF PollFinal, Projection
    <3>2. QED
      BY <1>5, <2>2, <3>1 DEF PollFinal
  <2>3. CASE PollNotFound(p, m)
    BY <1>5, <2>1, <2>3 DEF PollNotFound
  <2>4. CASE PollForbidden(p, m)
    BY <1>5, <2>1, <2>4 DEF PollForbidden
  <2>5. QED
    BY <1>6, <2>2, <2>3, <2>4
<1>7. ASSUME NEW p \in Processes, Dispatch(p), ~LookupKnown(p), ~SubmissionFails(p)
      PROVE  HandIsTrue(q)'
  <2>1. \/ pc'[q] \notin {"answered", "polled"}
        \/ /\ pc'[q] = pc[q] /\ item'[q] = item[q] /\ answer'[q] = answer[q]
    BY <1>7 DEF Dispatch, BeginCycle, Claim, ClaimNothing, Submit, LookupFails,
                RecordOutcome, LeaveDispatch, AfterDispatch
  <2>2. QED
    BY <2>1, HandKept
<1>8. ASSUME NEW p \in Processes, ReadOutbox(p) \/ ReadDeliveries(p) \/ Reconcile(p)
                                  \/ Refresh(p) \/ Fault(p)
      PROVE  HandIsTrue(q)'
  <2>1. \/ pc'[q] \notin {"answered", "polled"}
        \/ /\ pc'[q] = pc[q] /\ item'[q] = item[q] /\ answer'[q] = answer[q]
    BY <1>8 DEF ReadOutbox, ReadDeliveries, Reconcile, Refresh, BackToPoll, EndCycle,
                Fault, DispatchRaises, ReconcileRaises, Crash, LeaveDispatch,
                AfterDispatch
  <2>2. QED
    BY <2>1, HandKept
<1>9. ASSUME UNCHANGED <<pc, item, answer>> PROVE HandIsTrue(q)'
  BY <1>9, HandKept
<1>10. ASSUME NEW p \in Processes, NEW m \in Members, PollInconclusive(p, m)
       PROVE  HandIsTrue(q)'
  BY <1>9, <1>10 DEF PollInconclusive, worker
<1>11. ASSUME Surroundings PROVE HandIsTrue(q)'
  BY <1>3, <1>4, <1>9, <1>11
     DEF Surroundings, Network, LineReplyLost, PostLost, LeaseRunsOver,
         LineChangesItsMind, LineFinishes, worker
<1>12. CASE UNCHANGED vars
  BY <1>9, <1>12 DEF vars
<1>13. QED
  BY <1>1, <1>2, <1>6, <1>7, <1>8, <1>10, <1>11, <1>12 DEF Next, Poll

\* A reconciler's copy was read from deliveries that were true.
LEMMA TruthCopies ==
  ASSUME TypeAndHands, TruthInv, LineKeeps, [Next]_vars, NEW q \in Processes
  PROVE  CopyIsTrue(q)'
<1> USE DEF TypeAndHands, TypeOK, PollerType, CopyIsTrue
<1>1. CopyIsTrue(q) /\ \A m \in Members : delivery[m] = "sent" => line[m] = "sent"
  BY DEF TruthInv, AnswersAreTrue, OutcomesAreTrue
<1>2. ASSUME \/ copy'[q] = copy[q]
             \/ copy'[q] = delivery
             \/ copy'[q] = [m \in Selected |-> "pending"]
      PROVE  CopyIsTrue(q)'
  BY <1>1, <1>2 DEF LineKeeps, Selected
<1>3. ASSUME NEW p \in Processes, Dispatch(p) PROVE copy' = copy
  BY <1>3 DEF Dispatch, BeginCycle, Claim, ClaimNothing, Submit, SubmissionFails,
              LookupKnown, LookupFails, RecordOutcome, poller
<1>4. ASSUME NEW p \in Processes, Poll(p) PROVE CopyIsTrue(q)'
  <2>1. CASE ReadDeliveries(p)
    <3>1. copy'[q] = copy[q] \/ copy'[q] = delivery
      BY <2>1 DEF ReadDeliveries
    <3>2. QED
      BY <1>2, <3>1
  <2>2. CASE Refresh(p)
    <3>1. copy'[q] = copy[q] \/ copy'[q] = [m \in Selected |-> "pending"]
      BY <2>2 DEF Refresh, EndCycle
    <3>2. QED
      BY <1>2, <3>1
  <2>3. CASE ~ReadDeliveries(p) /\ ~Refresh(p)
    <3>1. copy' = copy
      BY <1>4, <2>3 DEF Poll, ReadOutbox, PollFinal, PollNotFound, PollForbidden,
                        PollConcludes, PollInconclusive, Reconcile, poller
    <3>2. QED
      BY <1>2, <3>1
  <2>4. QED
    BY <2>1, <2>2, <2>3
<1>5. ASSUME NEW p \in Processes, Fault(p) PROVE CopyIsTrue(q)'
  <2>1. copy'[q] = copy[q] \/ copy'[q] = [m \in Selected |-> "pending"]
    BY <1>5 DEF Fault, DispatchRaises, ReconcileRaises, Crash, EndCycle, poller
  <2>2. QED
    BY <1>2, <2>1
<1>6. ASSUME Surroundings PROVE copy' = copy
  BY <1>6 DEF Surroundings, Network, LineAccepts, LineReplyLost, LineDenies,
              PostLost, LeaseRunsOver, LineChangesItsMind, LineFinishes, poller
<1>7. CASE UNCHANGED vars
  BY <1>2, <1>7 DEF vars
<1>8. QED
  BY <1>2, <1>3, <1>4, <1>5, <1>6, <1>7 DEF Next

-----------------------------------------------------------------------------
(* What a consistent LINE refuses *)

Closed(m) == outbox[m] = "permanent_failure"

\* A command that failed for good is unknown to LINE and stays so: LINE refuses
\* it, or, in a row that the previous release closed, nobody can post it.
OutOfReach(m) ==
  /\ \A p \in Processes : <<p, m>> \notin wire
  /\ \A p \in Processes : pc[p] = "submit" => item[p] # m
RefusalStands ==
  /\ \A m \in Members : Closed(m) =>
                         /\ line[m] = "none"
                         /\ m \in refusing \/ m \in Inherited
  /\ \A m \in refusing : line[m] = "none"
  /\ \A m \in Inherited \ refusing : Closed(m) => OutOfReach(m)

LEMMA TruthRefused ==
  ASSUME TypeAndHands, RefusalStands, refusing' = refusing, [Next]_vars,
         \A p \in Processes :
           pc[p] = "answered" /\ answer[p] = "permanent_failure" =>
             item[p] \in refusing
  PROVE  RefusalStands'
<1> USE DEF TypeAndHands, TypeOK, RowsType, WorkerType, ProviderType, HandsOK
<1>1. \A m \in Inherited \ refusing : m \in Members
  BY MembersAssumption
<1>2. ASSUME NEW m \in Members, line[m] = "none", m \in refusing \/ Closed(m)
      PROVE  line'[m] = "none"
  <2>1. ASSUME NEW p \in Processes, NEW k \in Members, k \notin refusing,
               <<p, k>> \in wire,
               line' = [line EXCEPT ![k] = IF @ = "none" THEN "pending" ELSE @]
        PROVE  line'[m] = "none"
    <3>1. k # m
      BY <1>2, <2>1 DEF RefusalStands, OutOfReach
    <3>2. QED
      BY <1>2, <2>1, <3>1
  <2>2. ASSUME NEW p \in Processes, NEW k \in Members, Network(p, k)
        PROVE  line'[m] = "none"
    <3>1. CASE LineAccepts(p, k) \/ LineReplyLost(p, k)
      BY <2>1, <3>1 DEF LineAccepts, LineReplyLost
    <3>2. CASE LineDenies(p, k) \/ PostLost(p, k)
      BY <1>2, <3>2 DEF LineDenies, PostLost
    <3>3. QED
      BY <2>2, <3>1, <3>2 DEF Network
  <2>3. ASSUME NEW k \in Members, NEW verdict \in LineVerdicts, LineFinishes(k, verdict)
        PROVE  line'[m] = "none"
    BY <1>2, <2>3 DEF LineFinishes
  <2>4. ASSUME NEW k \in Members, LeaseRunsOver(k) \/ LineChangesItsMind(k)
        PROVE  line' = line
    BY <2>4 DEF LeaseRunsOver, LineChangesItsMind, provider
  <2>5. ASSUME NEW p \in Processes, Dispatch(p) PROVE line' = line
    BY <2>5 DEF Dispatch, BeginCycle, Claim, ClaimNothing, Submit, SubmissionFails,
                LookupKnown, LookupFails, RecordOutcome, provider
  <2>6. ASSUME NEW p \in Processes, Poll(p) PROVE line' = line
    BY <2>6 DEF Poll, ReadOutbox, ReadDeliveries, PollFinal, PollNotFound,
                PollForbidden, PollConcludes, PollInconclusive, Reconcile, Refresh,
                provider
  <2>7. ASSUME NEW p \in Processes, Fault(p) PROVE line' = line
    BY <2>7 DEF Fault, DispatchRaises, ReconcileRaises, Crash, provider
  <2>8. CASE UNCHANGED vars
    BY <1>2, <2>8 DEF vars
  <2>9. QED
    BY <1>2, <2>2, <2>3, <2>4, <2>5, <2>6, <2>7, <2>8 DEF Next, Surroundings
<1>3. ASSUME NEW m \in Members, Closed(m)', ~Closed(m) PROVE m \in refusing
  <2>1. ASSUME NEW p \in Processes, RecordOutcome(p) PROVE m \in refusing
    <3>1. ClaimStands(p)
      BY <1>3, <2>1 DEF RecordOutcome, rows, Closed
    <3>2. outbox' = [outbox EXCEPT ![item[p]] = answer[p]]
      BY <2>1, <3>1 DEF RecordOutcome
    <3>3. item[p] = m /\ answer[p] = "permanent_failure"
      BY <1>3, <3>2 DEF Closed
    <3>4. QED
      BY <2>1, <3>3 DEF RecordOutcome
  <2>2. ASSUME NEW p \in Processes, Reconcile(p) PROVE FALSE
    BY <1>3, <2>2 DEF Reconcile, rows, Closed
  <2>3. ASSUME NEW p \in Processes, NEW k \in Members, Claim(p, k) PROVE FALSE
    BY <1>3, <2>3 DEF Claim, Closed
  <2>4. ASSUME NEW p \in Processes, Dispatch(p),
               ~\E k \in Members : Claim(p, k), ~RecordOutcome(p)
        PROVE  outbox' = outbox
    BY <2>4 DEF Dispatch, BeginCycle, ClaimNothing, Submit, SubmissionFails,
                LookupKnown, LookupFails, rows
  <2>5. ASSUME NEW p \in Processes, Poll(p), ~Reconcile(p) PROVE outbox' = outbox
    BY <2>5 DEF Poll, ReadOutbox, ReadDeliveries, PollFinal, PollNotFound,
                PollForbidden, PollConcludes, PollInconclusive, Refresh, rows
  <2>6. ASSUME NEW p \in Processes, Fault(p) PROVE outbox' = outbox
    BY <2>6 DEF Fault, DispatchRaises, ReconcileRaises, Crash, rows
  <2>7. ASSUME Surroundings PROVE outbox' = outbox
    BY <2>7 DEF Surroundings, Network, LineAccepts, LineReplyLost, LineDenies,
                PostLost, LeaseRunsOver, LineChangesItsMind, LineFinishes, rows
  <2>8. CASE UNCHANGED vars
    BY <1>3, <2>8 DEF vars, Closed
  <2>9. QED
    BY <1>3, <2>1, <2>2, <2>3, <2>4, <2>5, <2>6, <2>7, <2>8 DEF Next, Closed
<1>4. ASSUME NEW m \in Members, Closed(m), OutOfReach(m) PROVE OutOfReach(m)'
  <2>1. ASSUME wire' \subseteq wire,
               \A q \in Processes : pc'[q] = "submit" =>
                                      pc[q] = "submit" /\ item'[q] = item[q]
        PROVE  OutOfReach(m)'
    BY <1>4, <2>1 DEF OutOfReach
  <2>2. ASSUME NEW p \in Processes, NEW k \in Members, Claim(p, k)
        PROVE  OutOfReach(m)'
    <3>1. k # m
      BY <1>4, <2>2 DEF Claim, FirstClaimable, Claimable, Closed
    <3>2. QED
      BY <1>4, <2>2, <3>1 DEF Claim, OutOfReach, provider
  <2>3. ASSUME NEW p \in Processes, Submit(p) PROVE OutOfReach(m)'
    BY <1>4, <2>3 DEF Submit, OutOfReach
  <2>4. ASSUME NEW p \in Processes, Dispatch(p),
               ~\E k \in Members : Claim(p, k), ~Submit(p)
        PROVE  OutOfReach(m)'
    <3>1. /\ wire' = wire
          /\ \A q \in Processes : pc'[q] = "submit" =>
                                    pc[q] = "submit" /\ item'[q] = item[q]
      BY <2>4 DEF Dispatch, BeginCycle, ClaimNothing, SubmissionFails, LookupKnown,
                  LookupFails, RecordOutcome, LeaveDispatch, AfterDispatch, provider
    <3>2. QED
      BY <2>1, <3>1
  <2>5. ASSUME NEW p \in Processes, Poll(p) PROVE OutOfReach(m)'
    <3>1. /\ wire' = wire
          /\ \A q \in Processes : pc'[q] = "submit" =>
                                    pc[q] = "submit" /\ item'[q] = item[q]
      BY <2>5 DEF Poll, ReadOutbox, ReadDeliveries, PollFinal, PollNotFound,
                  PollForbidden, PollConcludes, PollInconclusive, Reconcile, Refresh,
                  BackToPoll, EndCycle, provider, worker
    <3>2. QED
      BY <2>1, <3>1
  <2>6. ASSUME NEW p \in Processes, Fault(p) PROVE OutOfReach(m)'
    <3>1. /\ wire' = wire
          /\ \A q \in Processes : pc'[q] = "submit" =>
                                    pc[q] = "submit" /\ item'[q] = item[q]
      BY <2>6 DEF Fault, DispatchRaises, ReconcileRaises, Crash, LeaveDispatch,
                  AfterDispatch, EndCycle, provider
    <3>2. QED
      BY <2>1, <3>1
  <2>7. ASSUME NEW p \in Processes, NEW k \in Members, Network(p, k)
        PROVE  OutOfReach(m)'
    <3>1. /\ wire' \subseteq wire /\ item' = item
          /\ \A q \in Processes : pc'[q] = "submit" => pc[q] = "submit"
      BY <2>7 DEF Network, LineAccepts, LineReplyLost, LineDenies, PostLost, Reply,
                  worker
    <3>2. QED
      BY <2>1, <3>1
  <2>8. ASSUME Surroundings, ~\E p \in Processes, k \in Members : Network(p, k)
        PROVE  OutOfReach(m)'
    <3>1. UNCHANGED <<wire, pc, item>>
      BY <2>8 DEF Surroundings, LeaseRunsOver, LineChangesItsMind, LineFinishes,
                  provider, worker
    <3>2. QED
      BY <2>1, <3>1
  <2>9. CASE UNCHANGED vars
    BY <2>1, <2>9 DEF vars
  <2>10. QED
    BY <2>2, <2>3, <2>4, <2>5, <2>6, <2>7, <2>8, <2>9 DEF Next
<1>5. \A m \in refusing : line'[m] = "none"
  BY <1>2 DEF RefusalStands
<1>6. ASSUME NEW m \in Members, Closed(m)'
      PROVE  line'[m] = "none" /\ (m \in refusing \/ m \in Inherited)
  <2>1. CASE Closed(m)
    BY <1>2, <2>1 DEF RefusalStands
  <2>2. CASE ~Closed(m)
    BY <1>3, <1>5, <1>6, <2>2
  <2>3. QED
    BY <2>1, <2>2
<1>7. ASSUME NEW m \in Inherited \ refusing, Closed(m)' PROVE OutOfReach(m)'
  <2>1. m \in Members /\ Closed(m)
    BY <1>1, <1>3, <1>7
  <2>2. QED
    BY <1>4, <2>1, <1>7 DEF RefusalStands
<1>8. QED
  BY <1>5, <1>6, <1>7 DEF RefusalStands

-----------------------------------------------------------------------------
\* TruthInv is what the three parts say of rows, hands and refusals.
LEMMA TruthParts ==
  TruthInv <=> /\ DeliveriesAreTrue
               /\ \A p \in Processes : HandIsTrue(p) /\ CopyIsTrue(p)
               /\ ConsistentLine => RefusalStands
BY MembersAssumption
   DEF TruthInv, OutcomesAreTrue, AnswersAreTrue, DeliveriesAreTrue, HandIsTrue,
       CopyIsTrue, RefusalStands, Closed, OutOfReach

LEMMA TruthStep == TypeAndHands /\ TruthInv /\ [Next]_vars => TruthInv'
<1> SUFFICES ASSUME TypeAndHands, TruthInv, [Next]_vars PROVE TruthInv'
  OBVIOUS
<1>1. LineKeeps
  BY LineStep
<1>2. DeliveriesAreTrue'
  BY <1>1, TruthRows
<1>3. \A p \in Processes : HandIsTrue(p)' /\ CopyIsTrue(p)'
  BY <1>1, TruthHands, TruthCopies
<1>4. ConsistentLine => RefusalStands'
  <2> SUFFICES ASSUME ConsistentLine PROVE RefusalStands'
    OBVIOUS
  <2>1. RefusalStands /\ refusing' = refusing
    BY <1>1, TruthParts DEF LineKeeps
  <2>2. \A p \in Processes :
          pc[p] = "answered" /\ answer[p] = "permanent_failure" => item[p] \in refusing
    BY DEF TruthInv, AnswersAreTrue
  <2>3. QED
    BY <2>1, <2>2, TruthRefused
<1>5. QED
  BY <1>2, <1>3, <1>4, MembersAssumption
     DEF TruthInv, OutcomesAreTrue, AnswersAreTrue, DeliveriesAreTrue, HandIsTrue,
         CopyIsTrue, RefusalStands, Closed, OutOfReach

\* What the staff reads is true of LINE in every reachable state: a member
\* reported as sent was sent by LINE, an accepted command is known to LINE, and
\* one that failed for good at a consistent LINE is never taken by it.
THEOREM OutcomesAlwaysTrue == Spec => []OutcomesAreTrue
<1>1. Spec => []TypeAndHands
  BY TypeInvariant, PTL DEF TypeAndHands
<1>2. Spec => []TruthInv
  BY <1>1, TruthInit, TruthStep, PTL DEF Spec
<1>3. QED
  BY <1>2, PTL DEF TruthInv

\* The strengthening that the runs check is the invariant proved here: hands,
\* claims, answers and copies are in order with the rows.
THEOREM HandsAlwaysTrue == Spec => []IInv
<1>1. Spec => []TypeAndHands
  BY TypeInvariant, PTL DEF TypeAndHands
<1>2. Spec => []RowsInv
  BY <1>1, RowsInit, RowsStep, PTL DEF Spec
<1>3. Spec => []TruthInv
  BY <1>1, TruthInit, TruthStep, PTL DEF Spec
<1>4. TypeAndHands /\ RowsInv /\ TruthInv => IInv
  BY DEF TypeAndHands, RowsInv, TruthInv, IInv
<1>5. QED
  BY <1>1, <1>2, <1>3, <1>4, PTL

-----------------------------------------------------------------------------
(* What a lease is worth *)

\* The steps that write a row are a claim, an outcome and a result.
LEMMA RowsWritten ==
  ASSUME TypeAndHands, [Next]_vars
  PROVE  \/ UNCHANGED <<outbox, token>>
         \/ \E q \in Processes : (\E k \in Members : Claim(q, k))
                                 \/ RecordOutcome(q) \/ Reconcile(q)
<1>1. ASSUME NEW q \in Processes, Dispatch(q),
             ~\E k \in Members : Claim(q, k), ~RecordOutcome(q)
      PROVE  UNCHANGED <<outbox, token>>
  BY <1>1 DEF Dispatch, BeginCycle, ClaimNothing, Submit, SubmissionFails,
              LookupKnown, LookupFails, rows
<1>2. ASSUME NEW q \in Processes, Poll(q), ~Reconcile(q)
      PROVE  UNCHANGED <<outbox, token>>
  BY <1>2 DEF Poll, ReadOutbox, ReadDeliveries, PollFinal, PollNotFound,
              PollForbidden, PollConcludes, PollInconclusive, Refresh, rows
<1>3. ASSUME NEW q \in Processes, Fault(q) PROVE UNCHANGED <<outbox, token>>
  BY <1>3 DEF Fault, DispatchRaises, ReconcileRaises, Crash, rows
<1>4. ASSUME Surroundings PROVE UNCHANGED <<outbox, token>>
  BY <1>4 DEF Surroundings, Network, LineAccepts, LineReplyLost, LineDenies,
              PostLost, LeaseRunsOver, LineChangesItsMind, LineFinishes, rows
<1>5. CASE UNCHANGED vars
  BY <1>5 DEF vars
<1>6. QED
  BY <1>1, <1>2, <1>3, <1>4, <1>5 DEF Next

\* A process works under a token that nobody else holds.
LEMMA OneHolder ==
  ASSUME TypeAndHands, RowsInv, NEW p \in Processes, NEW q \in Processes,
         NEW m \in Members, WorksOn(p, m), held[p] = held[q]
  PROVE  p = q
<1>1. held[p] \in Tokens
  BY DEF TypeAndHands, HandsOK, WorksOn
<1>2. QED
  BY <1>1, TokenAssumption DEF RowsInv, ClaimsOK

\* What ClaimProtected says of one step.
Protects(p, m) ==
  /\ WorksOn(p, m) /\ held[p] = token[m] /\ lease[m] = "running"
  /\ <<outbox[m], token[m]>>' # <<outbox[m], token[m]>>
  => pc[p] = "answered" /\ outbox'[m] = answer[p]

LEMMA ClaimStep ==
  ASSUME TypeAndHands, RowsInv, [Next]_vars, NEW p \in Processes, NEW m \in Members
  PROVE  Protects(p, m)
<1> SUFFICES ASSUME WorksOn(p, m), held[p] = token[m], lease[m] = "running",
                    <<outbox[m], token[m]>>' # <<outbox[m], token[m]>>
             PROVE  pc[p] = "answered" /\ outbox'[m] = answer[p]
  BY DEF Protects
<1> USE DEF TypeAndHands, TypeOK, RowsType
<1>1. outbox[m] = "delivering"
  BY DEF RowsInv, ClaimsOK
<1>2. ASSUME NEW q \in Processes, NEW k \in Members, Claim(q, k) PROVE FALSE
  <2>1. k # m
    BY <1>1, <1>2 DEF Claim, FirstClaimable, Claimable
  <2>2. QED
    BY <1>2, <2>1 DEF Claim
<1>3. ASSUME NEW q \in Processes, RecordOutcome(q)
      PROVE  pc[p] = "answered" /\ outbox'[m] = answer[p]
  <2>1. ClaimStands(q) /\ item[q] = m
    BY <1>3 DEF RecordOutcome, rows
  <2>2. p = q
    BY <2>1, OneHolder DEF ClaimStands
  <2>3. QED
    BY <1>3, <2>1, <2>2 DEF RecordOutcome
<1>4. ASSUME NEW q \in Processes, Reconcile(q) PROVE FALSE
  BY <1>1, <1>4 DEF Reconcile, rows
<1>5. QED
  BY <1>2, <1>3, <1>4, RowsWritten

\* While the lease of a claim runs, nobody but the worker that made it writes
\* the row, and it writes its own outcome (update_outbox_state checks the token,
\* claim_outbox_records the lease).
THEOREM ClaimAlwaysProtected == Spec => ClaimProtected
<1> DEFINE Protected == \A m \in Members, p \in Processes :
       /\ WorksOn(p, m) /\ held[p] = token[m] /\ lease[m] = "running"
       /\ <<outbox[m], token[m]>>' # <<outbox[m], token[m]>>
       => pc[p] = "answered" /\ outbox'[m] = answer[p]
<1>1. TypeAndHands /\ RowsInv /\ [Next]_vars => Protected
  BY ClaimStep DEF Protects
<1>2. Spec => []TypeAndHands
  BY TypeInvariant, PTL DEF TypeAndHands
<1>3. Spec => []RowsInv
  BY <1>2, RowsInit, RowsStep, PTL DEF Spec
<1>4. Spec => [][Protected]_vars
  BY <1>1, <1>2, <1>3, PTL DEF Spec
<1>5. QED
  BY <1>4 DEF ClaimProtected

-----------------------------------------------------------------------------
(* Workers that finish within their lease *)

\* A worker's claim is good for as long as it works.
ClaimGood(p, m) ==
  held[p] = token[m] /\ outbox[m] = "delivering" /\ lease[m] = "running"
WorkersInTime ==
  \A p \in Processes, m \in Members : WorksOn(p, m) => ClaimGood(p, m)

\* A worker that goes on with a row that stays as it is has a good claim.
LEMMA ClaimGoodKept ==
  ASSUME WorkersInTime, NEW p \in Processes, NEW m \in Members, WorksOn(p, m),
         held'[p] = held[p], token'[m] = token[m], outbox'[m] = outbox[m],
         lease'[m] = lease[m]
  PROVE  ClaimGood(p, m)'
BY DEF WorkersInTime, ClaimGood

LEMMA WorkersStep ==
  ASSUME Prompt, TypeAndHands, RowsInv, WorkersInTime, [Next]_vars
  PROVE  WorkersInTime'
<1> SUFFICES ASSUME NEW p \in Processes, NEW m \in Members, WorksOn(p, m)'
             PROVE  ClaimGood(p, m)'
  BY DEF WorkersInTime
<1> USE DEF TypeAndHands, TypeOK, RowsType, WorkerType
<1>1. ASSUME NEW q \in Processes, NEW k \in Members, Claim(q, k)
      PROVE  ClaimGood(p, m)'
  <2>1. CASE p = q
    <3>1. m = k
      BY <1>1, <2>1 DEF Claim, WorksOn
    <3>2. QED
      BY <1>1, <2>1, <3>1 DEF Claim, ClaimGood
  <2>2. CASE p # q
    <3>1. WorksOn(p, m)
      BY <1>1, <2>2 DEF Claim, WorksOn
    <3>2. m # k
      BY <1>1, <3>1 DEF WorkersInTime, ClaimGood, Claim, FirstClaimable, Claimable
    <3>3. QED
      BY <1>1, <2>2, <3>1, <3>2, ClaimGoodKept DEF Claim
  <2>3. QED
    BY <2>1, <2>2
<1>2. ASSUME NEW q \in Processes, RecordOutcome(q) PROVE ClaimGood(p, m)'
  <2>1. p # q /\ WorksOn(p, m)
    BY <1>2 DEF RecordOutcome, LeaveDispatch, AfterDispatch, WorksOn
  <2>2. ClaimStands(q) => item[q] # m
    BY <2>1, OneHolder DEF ClaimStands, WorkersInTime, ClaimGood
  <2>3. held'[p] = held[p]
    BY <1>2, <2>1 DEF RecordOutcome, LeaveDispatch
  <2>4. token'[m] = token[m] /\ outbox'[m] = outbox[m] /\ lease'[m] = lease[m]
    BY <1>2, <2>2 DEF RecordOutcome, rows
  <2>5. QED
    BY <2>1, <2>3, <2>4, ClaimGoodKept
<1>3. ASSUME NEW q \in Processes, Reconcile(q) PROVE ClaimGood(p, m)'
  <2>1. WorksOn(p, m)
    BY <1>3 DEF Reconcile, BackToPoll, WorksOn
  <2>2. outbox[m] = "delivering"
    BY <2>1 DEF WorkersInTime, ClaimGood
  <2>3. token'[m] = token[m] /\ outbox'[m] = outbox[m] /\ lease'[m] = lease[m]
    BY <1>3, <2>2 DEF Reconcile, rows
  <2>4. QED
    BY <1>3, <2>1, <2>3, ClaimGoodKept DEF Reconcile
<1>4. ASSUME UNCHANGED rows, WorksOn(p, m), held'[p] = held[p]
      PROVE  ClaimGood(p, m)'
  BY <1>4, ClaimGoodKept DEF rows
<1>5. ASSUME NEW q \in Processes, Dispatch(q),
             ~\E k \in Members : Claim(q, k), ~RecordOutcome(q)
      PROVE  UNCHANGED rows /\ WorksOn(p, m) /\ held'[p] = held[p]
  <2>1. UNCHANGED rows
    BY <1>5 DEF Dispatch, BeginCycle, ClaimNothing, Submit, SubmissionFails,
                LookupKnown, LookupFails
  <2>2. WorksOn(p, m) /\ held'[p] = held[p]
    BY <1>5 DEF Dispatch, BeginCycle, ClaimNothing, Submit, SubmissionFails,
                LookupKnown, LookupFails, LeaveDispatch, AfterDispatch, WorksOn
  <2>3. QED
    BY <2>1, <2>2
<1>6. ASSUME NEW q \in Processes, Poll(q), ~Reconcile(q)
      PROVE  UNCHANGED rows /\ WorksOn(p, m) /\ held'[p] = held[p]
  <2>1. UNCHANGED rows /\ held' = held
    BY <1>6 DEF Poll, ReadOutbox, ReadDeliveries, PollFinal, PollNotFound,
                PollForbidden, PollConcludes, PollInconclusive, Refresh, worker
  <2>2. WorksOn(p, m)
    BY <1>6 DEF Poll, ReadOutbox, ReadDeliveries, PollFinal, PollNotFound,
                PollForbidden, PollConcludes, PollInconclusive, Refresh, EndCycle,
                worker, WorksOn
  <2>3. QED
    BY <2>1, <2>2
<1>7. ASSUME NEW q \in Processes, Fault(q)
      PROVE  UNCHANGED rows /\ WorksOn(p, m) /\ held'[p] = held[p]
  BY <1>7 DEF Fault, DispatchRaises, ReconcileRaises, Crash, LeaveDispatch,
              AfterDispatch, EndCycle, WorksOn
<1>8. ASSUME NEW q \in Processes, NEW k \in Members, Network(q, k)
      PROVE  UNCHANGED rows /\ WorksOn(p, m) /\ held'[p] = held[p]
  BY <1>8 DEF Network, LineAccepts, LineReplyLost, LineDenies, PostLost, Reply,
              worker, WorksOn
<1>9. ASSUME NEW k \in Members, LeaseRunsOver(k) PROVE ClaimGood(p, m)'
  <2>1. WorksOn(p, m)
    BY <1>9 DEF LeaseRunsOver, worker, WorksOn
  <2>2. k # m
    BY <1>9, <2>1 DEF LeaseRunsOver, WorkersInTime, ClaimGood
  <2>3. QED
    BY <1>9, <2>1, <2>2, ClaimGoodKept DEF LeaseRunsOver, worker
<1>10. ASSUME NEW k \in Members,
              LineChangesItsMind(k)
                \/ \E verdict \in LineVerdicts : LineFinishes(k, verdict)
       PROVE  UNCHANGED rows /\ WorksOn(p, m) /\ held'[p] = held[p]
  BY <1>10 DEF LineChangesItsMind, LineFinishes, worker, WorksOn
<1>11. CASE UNCHANGED vars
  BY <1>4, <1>11 DEF vars, rows, WorksOn
<1>12. QED
  BY <1>1, <1>2, <1>3, <1>4, <1>5, <1>6, <1>7, <1>8, <1>9, <1>10, <1>11
     DEF Next, Surroundings

\* Nobody works at the start, and then always in time.
LEMMA WorkersAlwaysInTime == Prompt /\ Spec => []WorkersInTime
<1> SUFFICES ASSUME Prompt PROVE Spec => []WorkersInTime
  OBVIOUS
<1>1. Init => WorkersInTime
  BY DEF Init, WorkersInTime, WorksOn
<1>2. Spec => []TypeAndHands
  BY TypeInvariant, PTL DEF TypeAndHands
<1>3. Spec => []RowsInv
  BY <1>2, RowsInit, RowsStep, PTL DEF Spec
<1>4. TypeAndHands /\ RowsInv /\ WorkersInTime /\ [Next]_vars => WorkersInTime'
  BY WorkersStep
<1>5. QED
  BY <1>1, <1>2, <1>3, <1>4, PTL DEF Spec

\* With workers that finish within their lease, a command has one worker.
THEOREM WorkerAlwaysSingle == Spec => []SingleWorker
<1>1. CASE Prompt
  <2>1. Spec => []TypeAndHands
    BY TypeInvariant, PTL DEF TypeAndHands
  <2>2. Spec => []RowsInv
    BY <2>1, RowsInit, RowsStep, PTL DEF Spec
  <2>3. TypeAndHands /\ RowsInv /\ WorkersInTime => SingleWorker
    BY OneHolder DEF WorkersInTime, ClaimGood, SingleWorker
  <2>4. Spec => []WorkersInTime
    BY <1>1, WorkersAlwaysInTime
  <2>5. QED
    BY <2>1, <2>2, <2>3, <2>4, PTL
<1>2. CASE ~Prompt
  <2>1. SingleWorker
    BY <1>2 DEF SingleWorker
  <2>2. QED
    BY <2>1, PTL
<1>3. QED
  BY <1>1, <1>2

\* With such workers no command is posted once its outcome is recorded.
THEOREM NeverPostOnceAnswered == Spec => NoPostOnceAnswered
<1> DEFINE Posts == Prompt => \A p \in Processes :
       pc[p] = "submit" /\ pc'[p] = "posting" => outbox[item[p]] = "delivering"
<1>1. CASE Prompt
  <2>1. Spec => []TypeAndHands
    BY TypeInvariant, PTL DEF TypeAndHands
  <2>2. TypeAndHands /\ WorkersInTime => Posts
    BY DEF TypeAndHands, HandsOK, WorkersInTime, WorksOn, ClaimGood
  <2>3. Spec => []WorkersInTime
    BY <1>1, WorkersAlwaysInTime
  <2>4. Spec => [][Posts]_vars
    BY <2>1, <2>2, <2>3, PTL
  <2>5. QED
    BY <2>4 DEF NoPostOnceAnswered
<1>2. CASE ~Prompt
  <2>1. Posts
    BY <1>2
  <2>2. Spec => [][Posts]_vars
    BY <2>1, PTL
  <2>3. QED
    BY <2>2 DEF NoPostOnceAnswered
<1>3. QED
  BY <1>1, <1>2
==============================================================================
