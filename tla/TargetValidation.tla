---------------------------- MODULE TargetValidation ----------------------------
(***************************************************************************)
(* What one validation finds of the selected members: validate_operation    *)
(* asks LINE and the business system for facts, one call after the other,   *)
(* while those facts change, and concludes from what it was told.           *)
(*                                                                         *)
(* The wiring is that of build_production_admin_application over the        *)
(* current database: the message guard, one linkage snapshot read in        *)
(* chunks, the job, its candidates, and validate_notification_targets,      *)
(* itself two SELECTs.  NotificationOperation takes what is concluded here  *)
(* as a free verdict; the status of the operation is modelled there.        *)
(***************************************************************************)
EXTENDS Integers, Sequences, FiniteSets

CONSTANTS
  Selected,    \* the selected members, in the order of the targets
  Others,      \* members whose target is not selected
  Excluded,    \* the dispositions of the members excluded earlier (automatic)
  Automatic,   \* the operation was created with automatic_selection
  CustomJob,   \* notification_type is CUSTOM_JOB: candidates are not enforced
  ChunkSize,   \* members in one LINE request (500 in the code)
  Messages,    \* what the message may be like: "valid", "empty", "unfilled"
  MaxChanges   \* bound on the changes of LINE and the business system

Chosen == {Selected[i] : i \in DOMAIN Selected}

SelectedAssumption ==
  /\ Selected \in Seq(Chosen) /\ Len(Selected) = Cardinality(Chosen)
  /\ Len(Selected) > 0 /\ Chosen \cap Others = {} /\ IsFiniteSet(Others)
SwitchAssumption ==
  /\ Automatic \in BOOLEAN /\ CustomJob \in BOOLEAN
  /\ Messages \subseteq {"valid", "empty", "unfilled"}
ExclusionAssumption ==
  /\ DOMAIN Excluded \subseteq Chosen
  /\ Excluded \in [DOMAIN Excluded -> {"skip", "block"}]
  /\ ~Automatic => DOMAIN Excluded = {}
BoundAssumption == ChunkSize \in Nat \ {0} /\ MaxChanges \in Nat

\* "unversioned": linked and enabled, reported without a linkage version.
\* "declined": opted out, or never asked.
LineStates == {"enabled", "unversioned", "declined", "unknown", "not_linked"}
\* Of a member at the business system; a member that is no longer in the
\* members table is treated as one that is not recommended.
Standings == {"recommended", "not_recommended"}
\* A job has the version of the operation, or was edited since; "paused"
\* stands for every status but published and closed.
Absent == [status |-> "absent", version |-> "none"]
JobStates ==
  [status : {"published", "closed", "paused"}, version : {"expected", "edited"}]
    \cup {Absent}
Ready == [status |-> "published", version |-> "expected"]

VARIABLES
  line, standing, job,            \* the facts
  changes,                        \* how often they have changed
  sawLine, sawStanding, sawJob,   \* ghost: every value since the start
  message,                        \* the message of the operation
  pc,                             \* the next call
  linkages,                       \* what LINE has said, by member
  detail, candidates, validation, \* what the business system has said
  verdict                         \* what the validation concluded

facts == <<line, standing, job, changes, sawLine, sawStanding, sawJob, message>>
answers == <<linkages, detail, candidates, validation>>
vars == <<facts, pc, answers, verdict>>

None == [m \in {} |-> "skip"]
NoVerdict == [items |-> None, proceed |-> FALSE, reconfirm |-> FALSE]

Init ==
  /\ line \in [Chosen -> LineStates]
  /\ standing \in [Chosen -> Standings]
  /\ job \in JobStates
  /\ changes = 0
  /\ sawLine = [m \in Chosen |-> {line[m]}]
  /\ sawStanding = [m \in Chosen |-> {standing[m]}]
  /\ sawJob = {job}
  /\ message \in Messages
  /\ pc = "message"
  /\ linkages = None
  /\ detail = Absent
  /\ candidates = {}
  /\ validation = [job |-> Absent, members |-> None]
  /\ verdict = NoVerdict

-----------------------------------------------------------------------------
(* The facts change.  A change after the last call that asks for the fact     *)
(* is left out: it could only make the properties weaker.                     *)

Change(asking) ==
  /\ changes < MaxChanges
  /\ changes' = changes + 1
  /\ pc \in asking
  /\ UNCHANGED <<message, pc, answers, verdict>>

AskingLine == {"message", "linkages"}
AskingBusiness ==
  AskingLine \cup {"job", "candidates", "validate job", "validate members"}

LineChanges(m, s) ==
  /\ Change(AskingLine)
  /\ line' = [line EXCEPT ![m] = s]
  /\ sawLine' = [sawLine EXCEPT ![m] = @ \cup {s}]
  /\ UNCHANGED <<standing, job, sawStanding, sawJob>>

StandingChanges(m, s) ==
  /\ Change(AskingBusiness)
  /\ standing' = [standing EXCEPT ![m] = s]
  /\ sawStanding' = [sawStanding EXCEPT ![m] = @ \cup {s}]
  /\ UNCHANGED <<line, job, sawLine, sawJob>>

JobChanges(s) ==
  /\ Change(AskingBusiness)
  /\ job' = s
  /\ sawJob' = sawJob \cup {s}
  /\ UNCHANGED <<line, standing, sawLine, sawStanding>>

-----------------------------------------------------------------------------
(* The calls.  A definition called a variant is a deliberate bug; no          *)
(* specification uses it.                                                     *)

\* The guard composes the final text with LINE's prefix and link.
CheckMessage ==
  /\ pc = "message"
  /\ pc' = "linkages"
  /\ UNCHANGED <<facts, answers, verdict>>

\* One chunk of _lookup_linkage_items: the next members that have no answer.
Chunk ==
  LET answered == Cardinality(DOMAIN linkages)
      last == IF answered + ChunkSize < Len(Selected)
              THEN answered + ChunkSize ELSE Len(Selected)
  IN  {Selected[i] : i \in (answered + 1)..last}

ReadLinkages ==
  /\ pc = "linkages"
  /\ linkages' = [m \in DOMAIN linkages \cup Chunk |->
                    IF m \in Chunk THEN line[m] ELSE linkages[m]]
  /\ pc' = IF DOMAIN linkages' = Chosen THEN "job" ELSE "linkages"
  /\ UNCHANGED <<facts, detail, candidates, validation, verdict>>

\* Dispositions that say nothing of any member, or the same of all of them.
AllBlocked ==
  IF Automatic THEN [m \in Chosen |-> "block"] ELSE None

\* The job is gone: JobNotFound, and the operation is ready but cannot proceed.
ReadJob ==
  /\ pc = "job"
  /\ IF job = Absent
     THEN /\ verdict' = [NoVerdict EXCEPT !.items = AllBlocked]
          /\ pc' = "done"
          /\ UNCHANGED detail
     ELSE /\ detail' = job
          /\ pc' = "candidates"
          /\ UNCHANGED verdict
  /\ UNCHANGED <<facts, linkages, candidates, validation>>

\* Variant: only a first page of the candidates is read.
ReadCandidatesFirstPage ==
  /\ pc = "candidates"
  /\ candidates' = {m \in {Selected[i] : i \in 1..ChunkSize} :
                      standing[m] = "recommended"}
  /\ pc' = "validate job"
  /\ UNCHANGED <<facts, linkages, detail, validation, verdict>>

\* list_candidate_members joins the job: an absent one has no candidates.
ReadCandidates ==
  /\ pc = "candidates"
  /\ candidates' = IF job = Absent THEN {}
                   ELSE {m \in Chosen : standing[m] = "recommended"}
  /\ pc' = "validate job"
  /\ UNCHANGED <<facts, linkages, detail, validation, verdict>>

\* The first SELECT of validate_notification_targets.
ValidateJob ==
  /\ pc = "validate job"
  /\ validation' = [validation EXCEPT !.job = job]
  /\ pc' = IF job = Absent THEN "conclude" ELSE "validate members"
  /\ UNCHANGED <<facts, linkages, detail, candidates, verdict>>

\* The second one.  No member is eligible for a job that is not as expected.
ValidateMembers ==
  /\ pc = "validate members"
  /\ validation' =
       [validation EXCEPT !.members = [m \in Chosen |->
          IF standing[m] = "recommended" /\ validation.job = Ready
          THEN "eligible" ELSE "ineligible"]]
  /\ pc' = "conclude"
  /\ UNCHANGED <<facts, linkages, detail, candidates, verdict>>

\* Any of the calls fails, or gives an answer whose identities do not match;
\* the operation is blocked, or has its status restored.
CallFails ==
  /\ pc \notin {"conclude", "done"}
  /\ verdict' \in {NoVerdict, [NoVerdict EXCEPT !.items = AllBlocked]}
  /\ pc' = "done"
  /\ UNCHANGED <<facts, answers>>

-----------------------------------------------------------------------------
(* The conclusion. *)

IsExcluded(m) == m \in DOMAIN Excluded

\* The candidate list says so, whatever the validation said of the member.
NoLongerCandidate(m) == ~CustomJob /\ m \notin candidates

\* Differs from what was selected: the staff member must look again.
Differs(m) ==
  /\ ~IsExcluded(m)
  /\ linkages[m] # "not_linked"
  /\ \/ m \notin DOMAIN validation.members
     \/ validation.members[m] = "ineligible"
     \/ NoLongerCandidate(m)

\* What the business side says of a selected member.
BusinessDisposition(m) ==
  IF IsExcluded(m) THEN Excluded[m]
  ELSE IF linkages[m] = "not_linked" THEN "skip"
  ELSE IF m \notin DOMAIN validation.members THEN "block"
  ELSE IF Differs(m) THEN "skip"
  ELSE "send"

\* Preferences only narrow the permission.  A command must carry a version.
DispositionOf(m) ==
  IF linkages[m] = "unknown" THEN "block"
  ELSE IF BusinessDisposition(m) # "send" THEN BusinessDisposition(m)
  ELSE IF linkages[m] = "declined" THEN "skip"
  ELSE IF linkages[m] = "unversioned" THEN "block"
  ELSE "send"

\* job_eligible: published and of the expected version.
JobValid == detail.status = "published" /\ validation.job = Ready

\* The version a validation read matches the operation's.
VersionMatches == validation.job.version = "expected"

\* In an automatic operation a flaw of the job or an empty message blocks all.
BlocksAll == Automatic /\ (~JobValid \/ ~VersionMatches \/ message = "empty")

\* The counts of _summary: members that are not selected are not counted.
Count(items, disposition) ==
  Cardinality({m \in DOMAIN items \cap Chosen : items[m] = disposition})

CanProceed(items) ==
  /\ JobValid /\ VersionMatches /\ message = "valid"
  /\ Count(items, "send") > 0
  /\ Count(items, "block") = 0

\* A closed job needs no confirmation: it is told apart first.
Reconfirm ==
  \/ /\ detail.status = "published"
     /\ validation.job.status # "closed"
     /\ ~VersionMatches
  \/ \E m \in Chosen : Differs(m)

Conclude ==
  /\ pc = "conclude"
  /\ LET items == [m \in Chosen \cup Others |->
                     IF m \in Others THEN "skip"
                     ELSE IF BlocksAll THEN "block" ELSE DispositionOf(m)]
     IN  verdict' = [items |-> items, proceed |-> CanProceed(items),
                     reconfirm |-> Reconfirm]
  /\ pc' = "done"
  /\ UNCHANGED <<facts, answers>>

Next ==
  \/ \E m \in Chosen :
       \/ \E s \in LineStates : LineChanges(m, s)
       \/ \E s \in Standings : StandingChanges(m, s)
  \/ \E s \in JobStates : JobChanges(s)
  \/ CheckMessage
  \/ ReadLinkages
  \/ ReadJob
  \/ ReadCandidates
  \/ ValidateJob
  \/ ValidateMembers
  \/ CallFails
  \/ Conclude

Spec == Init /\ [][Next]_vars

-----------------------------------------------------------------------------
(* Properties *)

TypeOK ==
  /\ line \in [Chosen -> LineStates] /\ standing \in [Chosen -> Standings]
  /\ job \in JobStates /\ changes \in 0..MaxChanges /\ message \in Messages
  /\ DOMAIN linkages \subseteq Chosen /\ candidates \subseteq Chosen
  /\ detail \in JobStates /\ validation.job \in JobStates
  /\ DOMAIN validation.members \in {{}, Chosen}
  /\ DOMAIN verdict.items \in {{}, Chosen, Chosen \cup Others}
  /\ \A m \in DOMAIN verdict.items : verdict.items[m] \in {"send", "skip", "block"}

Verdict(m) ==
  IF m \in DOMAIN verdict.items THEN verdict.items[m] ELSE "none"

\* Whoever is to be sent to had everything it takes, each at some moment of the
\* validation, whatever changed between the calls; and was not excluded.
SendIsJustified ==
  \A m \in Chosen :
    Verdict(m) = "send" =>
      /\ "enabled" \in sawLine[m] /\ "recommended" \in sawStanding[m]
      /\ Ready \in sawJob
      /\ ~IsExcluded(m)

\* Whoever is left out by an operation that can proceed lacked something at
\* some moment, or was excluded before: nobody is dropped by the race alone.
DropIsJustified ==
  \A m \in Chosen \ DOMAIN Excluded :
    verdict.proceed /\ Verdict(m) = "skip" =>
      \/ sawLine[m] # {"enabled"}
      \/ sawStanding[m] # {"recommended"}
      \/ sawJob # {Ready}

\* A linked member who was no candidate at any moment is not dropped silently:
\* the staff member must confirm again.
LossAsksAgain ==
  \A m \in Chosen \ DOMAIN Excluded :
    /\ verdict.proceed
    /\ "not_linked" \notin sawLine[m]
    /\ "recommended" \notin sawStanding[m]
    => verdict.reconfirm

\* The counts the staff member is shown add up to the members selected, and
\* nothing proceeds while one of them is undecided.
CountsAddUp ==
  verdict.items # None =>
    /\ Count(verdict.items, "send") + Count(verdict.items, "skip")
         + Count(verdict.items, "block") = Cardinality(Chosen)
    /\ verdict.proceed => \E m \in Chosen : Verdict(m) = "send"
=============================================================================
