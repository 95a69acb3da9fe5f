---------------------- MODULE NotificationOutboxLiveness ----------------------
(***************************************************************************)
(* What the recovery loop brings about in the end.  Instances crash and    *)
(* raise for as long as they like, but not for ever: calm is set at some   *)
(* time, and from then on no process steps out of line.  calm belongs to   *)
(* the surroundings; the code does not see it.                             *)
(***************************************************************************)
EXTENDS NotificationOutbox

VARIABLE calm  \* instances have stopped crashing and raising

liveVars == <<vars, calm>>

LiveInit == Init /\ calm = FALSE

\* The last fault lies behind.
FaultsCease ==
  /\ ~calm
  /\ calm' = TRUE
  /\ UNCHANGED vars

LiveNext ==
  \/ \E p \in Processes : (Dispatch(p) \/ Poll(p)) /\ UNCHANGED calm
  \/ \E p \in Processes : ~calm /\ Fault(p) /\ UNCHANGED calm
  \/ Surroundings /\ UNCHANGED calm
  \/ FaultsCease

\* A running instance goes on with its cycle: _run is a loop that survives
\* every exception.
RunnersRun == \A p \in Runners : WF_vars(Dispatch(p) \/ Poll(p))

\* The clock advances.
ClockRuns == \A m \in Members : WF_vars(LeaseRunsOver(m))

\* LINE works off its commands and, when asked again and again about a member,
\* is conclusive at last.
LineAnswersAbout(m) ==
  /\ SF_vars(\E p \in Runners : /\ pc[p] = "posting" /\ item[p] = m
                                /\ LineAccepts(p, m) \/ LineDenies(p, m))
  /\ SF_vars(\E p \in Runners : item[p] = m /\ LookupKnown(p))
  /\ SF_vars(\E p \in Runners : PollFinal(p, m))
  /\ WF_vars(\E verdict \in LineVerdicts : LineFinishes(m, verdict))
LineAnswers == \A m \in Members \ Unanswered : LineAnswersAbout(m)

LiveSpec ==
  /\ LiveInit /\ [][LiveNext]_liveVars
  /\ WF_liveVars(FaultsCease) /\ RunnersRun /\ ClockRuns /\ LineAnswers

-----------------------------------------------------------------------------
\* An inherited row that was never posted and has no linkage_version: the code
\* keeps asking LINE about it and never posts it.
Unpostable(m) == m \in NoLinkage /\ line[m] = "none"

\* Of an inherited row the result alone counts: an earlier release may have left
\* it accepted in an operation whose deliveries are all final, and of such a one
\* the reconciler forgets its cursor and polls the first page only.
Closed(m) ==
  /\ delivery[m] # "pending"
  /\ outbox[m] \in {"permanent_failure", "reconciled"} \/ m \in Inherited

\* A member that LINE answers about gets its final result, even when LINE never
\* answers about another member of the same operation: neither the claim order
\* nor the page of polled rows lets one row hold up the rest.
NobodyStarves ==
  \A m \in Members \ Unanswered : <>(Closed(m) \/ Unpostable(m))

\* If LINE answers about the others too, the operation completes and leaves the
\* recovery list, without any user.
OperationCompletes ==
  (\A m \in Unanswered : LineAnswersAbout(m))
    => <>[](~Listed \/ \E m \in Members : Unpostable(m))
=============================================================================
