----------------------------- MODULE RecoveryRunner -----------------------------
(***************************************************************************)
(* AdminNotificationRunner of one instance: in every cycle it takes, for   *)
(* each service in turn, one page of the operations that still have work,  *)
(* and dispatches and reconciles each of them.  What the two calls do to   *)
(* an operation is NotificationOutbox; here they may raise, and they may   *)
(* close the operation, as may another instance or a staff request.        *)
(*                                                                         *)
(* Every call of the repository, the dispatcher or the reconciler is       *)
(* awaited: operations are reserved and closed between any two of them.    *)
(***************************************************************************)
EXTENDS Integers, FiniteSets, Sequences, SequencesExt

CONSTANTS
  Operations,   \* operations, numbered by operation_id
  Services,     \* the runner's service_ids, in order
  ServiceOf,    \* ServiceOf[o]: the service of an operation
  Limit,        \* operations per page (50 in the code)
  Undispatchable, \* operations whose dispatch may raise, each time
  MaxRestarts   \* bound on the restarts of the instance in a behaviour

OperationAssumption ==
  Operations \subseteq Nat \ {0} /\ IsFiniteSet(Operations)
ServiceAssumption ==
  /\ IsInjective(Services)
  /\ ServiceOf \in [Operations -> ToSet(Services)]
LimitAssumption == Limit \in Nat \ {0}
FaultAssumption ==
  Undispatchable \subseteq Operations /\ MaxRestarts \in Nat

FromTheStart == 0

VARIABLES
  state,     \* "draft", "open" (list_recovery_operations finds it) or "closed"
  pc,        \* "waiting", "list", "dispatch", "reconcile" or "down"
  turn,      \* the services left in this cycle, the current one first
  page,      \* the operations left in the page, the current one first
  cursor,    \* cursor[s]: the last operation of the last page, in memory
  restarts,  \* how often the instance was restarted
  passed     \* ghost: passed[o]: what was listed while o was open, not listed

vars == <<state, pc, turn, page, cursor, restarts, passed>>

ServiceSet == ToSet(Services)
NoneYet == [s \in ServiceSet |-> FromTheStart]
NonePassed == [o \in Operations |-> {}]

Init ==
  /\ state \in [Operations -> {"draft", "open"}]
  /\ pc = "waiting"
  /\ turn = <<>>
  /\ page = <<>>
  /\ cursor = NoneYet
  /\ restarts = 0
  /\ passed = NonePassed

-----------------------------------------------------------------------------
(* The surroundings *)

\* A staff member reserves a send.
Reserve(o) ==
  /\ state[o] = "draft"
  /\ state' = [state EXCEPT ![o] = "open"]
  /\ UNCHANGED <<pc, turn, page, cursor, restarts, passed>>

\* The inline dispatch or the runner of another instance finishes it.
FinishElsewhere(o) ==
  /\ state[o] = "open"
  /\ state' = [state EXCEPT ![o] = "closed"]
  /\ passed' = [passed EXCEPT ![o] = {}]
  /\ UNCHANGED <<pc, turn, page, cursor, restarts>>

\* The instance crashes, or is shut down; the cursors are lost.
GoDown ==
  /\ pc # "down"
  /\ restarts < MaxRestarts
  /\ restarts' = restarts + 1
  /\ pc' = "down"
  /\ turn' = <<>>
  /\ page' = <<>>
  /\ cursor' = NoneYet
  /\ passed' = NonePassed
  /\ UNCHANGED state

\* start, called by the application's lifespan.
Start ==
  /\ pc = "down"
  /\ pc' = "waiting"
  /\ UNCHANGED <<state, turn, page, cursor, restarts, passed>>

-----------------------------------------------------------------------------
(* The cycle.  A definition called a variant is a deliberate bug; no           *)
(* specification uses it.                                                      *)

BeginCycle ==
  /\ pc = "waiting"
  /\ pc' = "list"
  /\ turn' = Services
  /\ UNCHANGED <<state, page, cursor, restarts, passed>>

\* What follows a page of the service: the next service, or the next cycle.
NextService ==
  /\ turn' = Tail(turn)
  /\ pc' = IF Len(turn) = 1 THEN "waiting" ELSE "list"

\* Any failure of the query skips the service and keeps its cursor.
ListFails ==
  /\ pc = "list"
  /\ NextService
  /\ UNCHANGED <<state, page, cursor, restarts, passed>>

Recoverable(s) == {o \in Operations : ServiceOf[o] = s /\ state[o] = "open"}

\* list_recovery_operations: ORDER BY operation_id LIMIT, after the cursor; its
\* other conditions are "open".
PageOf(s) ==
  LET after == {o \in Recoverable(s) : o > cursor[s]}
  IN  SelectSeq(SetToSortSeq(after, LAMBDA a, b : a < b),
                LAMBDA o : Cardinality({p \in after : p < o}) < Limit)

CursorAfter(s, listed) ==
  IF listed = <<>> THEN FromTheStart ELSE Last(listed)

\* passed for the operations of the service that are open and not listed.
PassedBy(s, listed) ==
  [o \in Operations |->
     IF o \notin Recoverable(s) THEN passed[o]
     ELSE IF o \in ToSet(listed) THEN {}
     ELSE passed[o] \cup ToSet(listed)]

ListPage(s) ==
  /\ pc = "list"
  /\ s = Head(turn)
  /\ page' = PageOf(s)
  /\ cursor' = [cursor EXCEPT ![s] = CursorAfter(s, PageOf(s))]
  /\ passed' = PassedBy(s, PageOf(s))
  /\ IF PageOf(s) = <<>> THEN NextService
     ELSE pc' = "dispatch" /\ UNCHANGED turn
  /\ UNCHANGED <<state, restarts>>

\* The rest of the visit, or the next operation of the page.
NextOperation ==
  /\ page' = Tail(page)
  /\ IF Len(page) = 1 THEN NextService
     ELSE pc' = "dispatch" /\ UNCHANGED turn

Dispatch ==
  /\ pc = "dispatch"
  /\ pc' = "reconcile"
  /\ UNCHANGED <<state, turn, page, cursor, restarts, passed>>

\* Variant: a failed dispatch ends the visit.
DispatchRaisesOut ==
  /\ pc = "dispatch"
  /\ Head(page) \in Undispatchable
  /\ NextOperation
  /\ UNCHANGED <<state, cursor, restarts, passed>>

\* dispatch_operation raises: the operation is reconciled all the same.
DispatchRaises ==
  /\ pc = "dispatch"
  /\ Head(page) \in Undispatchable
  /\ pc' = "reconcile"
  /\ UNCHANGED <<state, turn, page, cursor, restarts, passed>>

\* The last result arrives and the operation is done; or not yet, or the
\* reconciliation raises.
Reconcile ==
  /\ pc = "reconcile"
  /\ \E closes \in BOOLEAN :
       IF closes
       THEN /\ state' = [state EXCEPT ![Head(page)] = "closed"]
            /\ passed' = [passed EXCEPT ![Head(page)] = {}]
       ELSE UNCHANGED <<state, passed>>
  /\ NextOperation
  /\ UNCHANGED <<cursor, restarts>>

Next ==
  \/ \E o \in Operations : Reserve(o) \/ FinishElsewhere(o)
  \/ GoDown
  \/ Start
  \/ BeginCycle
  \/ ListFails
  \/ \E s \in ServiceSet : ListPage(s)
  \/ Dispatch
  \/ DispatchRaises
  \/ Reconcile

Spec == Init /\ [][Next]_vars

\* The loop goes on after every failure (_run), a process that is down is
\* started again, and the query of each service succeeds again and again.
\* Nothing obliges a dispatch to succeed, an operation to close or the
\* instance to stay up.
Fairness ==
  /\ WF_vars(Start)
  /\ WF_vars(BeginCycle)
  /\ WF_vars(ListFails \/ \E s \in ServiceSet : ListPage(s))
  /\ \A s \in ServiceSet : SF_vars(ListPage(s))
  /\ WF_vars(Dispatch \/ DispatchRaises)
  /\ WF_vars(Reconcile)

-----------------------------------------------------------------------------
(* Properties *)

\* Types; a page belongs to the service whose turn it is and is in order, and
\* holds nothing beyond the cursor.
TypeOK ==
  /\ state \in [Operations -> {"draft", "open", "closed"}]
  /\ pc \in {"waiting", "list", "dispatch", "reconcile", "down"}
  /\ IsSuffix(turn, Services)
  /\ (turn = <<>>) <=> pc \in {"waiting", "down"}
  /\ (page = <<>>) <=> pc \notin {"dispatch", "reconcile"}
  /\ Len(page) <= Limit
  /\ \A i \in DOMAIN page : /\ page[i] \in Operations
                            /\ ServiceOf[page[i]] = Head(turn)
                            /\ page[i] <= cursor[Head(turn)]
                            /\ i > 1 => page[i - 1] < page[i]
  /\ cursor \in [ServiceSet -> Operations \cup {FromTheStart}]
  /\ restarts \in 0..MaxRestarts
  /\ passed \in [Operations -> SUBSET Operations]

\* While an operation waits to be listed, no other one is listed twice: the
\* pages are fair although operations join and leave between them.
PassesOnce ==
  \A o \in Operations, s \in ServiceSet :
    ListPage(s) /\ o \in Recoverable(s) /\ o \notin ToSet(page')
      => passed[o] \cap ToSet(page') = {}

\* The operation is polled for results.
Reconciling(o) == pc = "reconcile" /\ Head(page) = o
=============================================================================
