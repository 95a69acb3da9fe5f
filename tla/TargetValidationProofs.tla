------------------------- MODULE TargetValidationProofs -------------------------
(***************************************************************************)
(* Proofs about TargetValidation: however many members are selected, in     *)
(* chunks of whatever size their linkages are read, and however often the   *)
(* facts change between the calls, what a validation concludes was so at    *)
(* some moment of it, and its counts add up.                                *)
(***************************************************************************)
EXTENDS TargetValidation, FiniteSetTheorems, TLAPS

ValidationConstants ==
  SelectedAssumption /\ SwitchAssumption /\ ExclusionAssumption /\ BoundAssumption

Dispositions == {"send", "skip", "block"}

-----------------------------------------------------------------------------
(* The inductive invariant *)

Places == {"message", "linkages", "job", "candidates", "validate job",
           "validate members", "conclude", "done"}

\* What was seen of a fact is a value it can have, the present one included.
SightsTyped ==
  /\ pc \in Places
  /\ sawLine \in [Chosen -> SUBSET LineStates]
  /\ sawStanding \in [Chosen -> SUBSET Standings]
  /\ sawJob \subseteq JobStates
  /\ \A m \in Chosen : line[m] \in sawLine[m] /\ standing[m] \in sawStanding[m]
  /\ job \in sawJob
  /\ validation = [job |-> validation.job, members |-> validation.members]

AfterJob == {"candidates", "validate job", "validate members", "conclude"}
AfterCandidates == {"validate job", "validate members", "conclude"}

\* An answer was true when it was given, and the calls that are over have one.
LinkagesWereSo ==
  /\ \A m \in DOMAIN linkages : linkages[m] \in sawLine[m]
  /\ pc \in AfterJob \cup {"job"} => DOMAIN linkages = Chosen
DetailWasSo == pc \in AfterJob => detail \in sawJob
CandidatesWereSo ==
  pc \in AfterCandidates =>
    \A m \in Chosen :
      /\ m \in candidates => "recommended" \in sawStanding[m]
      /\ m \notin candidates => Absent \in sawJob \/ "not_recommended" \in sawStanding[m]
JobWasSo ==
  /\ pc \in {"validate members", "conclude"} => validation.job \in sawJob
  /\ pc # "conclude" /\ pc # "done" => validation.members = None
MembersWereSo ==
  pc = "conclude" =>
    /\ validation.job # Absent => DOMAIN validation.members = Chosen
    /\ \A m \in DOMAIN validation.members :
         /\ validation.members[m] \in {"eligible", "ineligible"}
         /\ validation.members[m] = "eligible" =>
              "recommended" \in sawStanding[m] /\ validation.job = Ready
         /\ validation.members[m] = "ineligible" =>
              "not_recommended" \in sawStanding[m] \/ validation.job # Ready

VerdictIsJust == SendIsJustified /\ DropIsJustified /\ LossAsksAgain /\ CountsAddUp

VInv ==
  /\ TypeOK /\ SightsTyped
  /\ LinkagesWereSo /\ DetailWasSo /\ CandidatesWereSo /\ JobWasSo /\ MembersWereSo
  /\ pc # "done" => verdict = NoVerdict
  /\ VerdictIsJust

-----------------------------------------------------------------------------
(* Members and counts *)

LEMMA ChosenIsFinite ==
  ASSUME SelectedAssumption
  PROVE  /\ IsFiniteSet(Chosen) /\ Cardinality(Chosen) \in Nat /\ Chosen # {}
         /\ Selected \in [1..Len(Selected) -> Chosen] /\ Len(Selected) \in Nat
<1>1. Selected \in [1..Len(Selected) -> Chosen] /\ Len(Selected) \in Nat /\ Len(Selected) > 0
  BY DEF SelectedAssumption
<1>2. Selected \in Surjection(1..Len(Selected), Chosen)
  BY <1>1 DEF Surjection, Chosen
<1>3. IsFiniteSet(Chosen)
  BY <1>1, <1>2, FS_Interval, FS_Surjection
<1>4. Selected[1] \in Chosen
  BY <1>1
<1> QED
  BY <1>1, <1>3, <1>4, FS_CardinalityType

\* Who is sent to, left out or blocked: everybody selected, and nobody twice.
LEMMA CountsOfAll ==
  ASSUME SelectedAssumption, NEW items, Chosen \subseteq DOMAIN items,
         \A m \in Chosen : items[m] \in Dispositions
  PROVE  /\ Count(items, "send") + Count(items, "skip") + Count(items, "block")
              = Cardinality(Chosen)
         /\ Count(items, "send") > 0 => \E m \in Chosen : items[m] = "send"
         /\ Count(items, "block") = 0 => \A m \in Chosen : items[m] # "block"
<1> DEFINE C(d) == {m \in DOMAIN items \cap Chosen : items[m] = d}
<1> DEFINE S == C("send")
           K == C("skip")
           B == C("block")
<1>1. IsFiniteSet(Chosen)
  BY ChosenIsFinite
<1>2. /\ IsFiniteSet(S) /\ Cardinality(S) \in Nat
      /\ IsFiniteSet(K) /\ Cardinality(K) \in Nat
      /\ IsFiniteSet(B) /\ Cardinality(B) \in Nat
  <2>1. S \in SUBSET Chosen /\ K \in SUBSET Chosen /\ B \in SUBSET Chosen
    OBVIOUS
  <2> HIDE DEF S, K, B
  <2> QED BY <1>1, <2>1, FS_Subset, FS_CardinalityType
<1>3. S \cap K = {} /\ (S \cup K) \cap B = {} /\ (S \cup K) \cup B = Chosen
  BY DEF Dispositions
<1>4. /\ Count(items, "send") = Cardinality(S) /\ Count(items, "skip") = Cardinality(K)
      /\ Count(items, "block") = Cardinality(B)
  BY DEF Count
<1>5. Cardinality(S) + Cardinality(K) + Cardinality(B) = Cardinality(Chosen)
  <2> HIDE DEF S, K, B
  <2>1. IsFiniteSet(S \cup K) /\ Cardinality(S \cup K) = Cardinality(S) + Cardinality(K)
    BY <1>2, <1>3, FS_Union, FS_EmptySet
  <2>2. Cardinality((S \cup K) \cup B)
          = Cardinality(S \cup K) + Cardinality(B) - Cardinality((S \cup K) \cap B)
    BY <1>2, <2>1, FS_Union
  <2>3. Cardinality((S \cup K) \cap B) = 0 /\ Cardinality((S \cup K) \cup B) = Cardinality(Chosen)
    BY <1>3, FS_EmptySet
  <2> QED BY <1>2, <2>1, <2>2, <2>3
<1>6. Cardinality(S) > 0 => S # {}
  BY FS_EmptySet
<1>7. Cardinality(B) = 0 => B = {}
  <2> HIDE DEF B
  <2> QED BY <1>2, FS_EmptySet
<1> QED
  BY <1>4, <1>5, <1>6, <1>7

\* A chunk is of selected members.
LEMMA ChunkIsChosen ==
  ASSUME SelectedAssumption, BoundAssumption, DOMAIN linkages \subseteq Chosen
  PROVE  Chunk \subseteq Chosen
<1>1. Cardinality(DOMAIN linkages) \in Nat
  BY ChosenIsFinite, FS_Subset, FS_CardinalityType
<1> QED
  BY <1>1, ChosenIsFinite DEF Chunk, BoundAssumption

-----------------------------------------------------------------------------
(* The invariant holds at the start and in every step. *)

\* A verdict of which nothing is known but that it does not proceed.
LEMMA EmptyVerdict ==
  ASSUME ValidationConstants
  PROVE  /\ NoVerdict.items = None /\ ~NoVerdict.proceed
         /\ DOMAIN None = {}
         /\ \A m : Absent.status = "absent" /\ Absent # Ready /\ Absent \in JobStates
         /\ LET v == [NoVerdict EXCEPT !.items = AllBlocked] IN
            /\ ~v.proceed /\ DOMAIN v.items \in {{}, Chosen}
            /\ \A m \in DOMAIN v.items : v.items[m] = "block"
            /\ v.items = None \/ DOMAIN v.items = Chosen
  BY DEF NoVerdict, None, Absent, Ready, JobStates, AllBlocked

\* Such a verdict claims nothing.
LEMMA ClaimsNothing ==
  ASSUME ValidationConstants,
         verdict \in {NoVerdict, [NoVerdict EXCEPT !.items = AllBlocked]}
  PROVE  /\ VerdictIsJust
         /\ DOMAIN verdict.items \in {{}, Chosen}
         /\ \A m \in DOMAIN verdict.items : verdict.items[m] = "block"
<1>1. /\ ~verdict.proceed /\ DOMAIN verdict.items \in {{}, Chosen}
      /\ \A m \in DOMAIN verdict.items : verdict.items[m] = "block"
      /\ verdict.items = None \/ DOMAIN verdict.items = Chosen
  BY EmptyVerdict
<1>2. CountsAddUp
  <2> SUFFICES ASSUME verdict.items # None
               PROVE  Count(verdict.items, "send") + Count(verdict.items, "skip")
                        + Count(verdict.items, "block") = Cardinality(Chosen)
    BY <1>1 DEF CountsAddUp
  <2> QED
    BY <1>1, CountsOfAll DEF ValidationConstants, Dispositions
<1> QED
  BY <1>1, <1>2 DEF VerdictIsJust, SendIsJustified, DropIsJustified, LossAsksAgain, Verdict

LEMMA VInvInit ==
  ASSUME ValidationConstants, Init
  PROVE  VInv
<1>1. VerdictIsJust
  BY ClaimsNothing DEF Init
<1>2. TypeOK
  BY EmptyVerdict DEF Init, TypeOK, ValidationConstants, BoundAssumption
<1>3. SightsTyped
  BY DEF Init, SightsTyped, Places
<1> QED
  BY <1>1, <1>2, <1>3, EmptyVerdict DEF Init, VInv, LinkagesWereSo, DetailWasSo, CandidatesWereSo,
    JobWasSo, MembersWereSo, AfterJob, AfterCandidates

\* While nothing is concluded yet, VerdictIsJust says nothing.
LEMMA NothingConcluded ==
  ASSUME verdict = NoVerdict
  PROVE  VerdictIsJust
  BY DEF NoVerdict, None, VerdictIsJust, SendIsJustified, DropIsJustified, LossAsksAgain,
    CountsAddUp, Verdict

LEMMA FactsChange ==
  ASSUME ValidationConstants, VInv,
         \/ \E m \in Chosen :
              \/ \E s \in LineStates : LineChanges(m, s)
              \/ \E s \in Standings : StandingChanges(m, s)
         \/ \E s \in JobStates : JobChanges(s)
  PROVE  VInv'
<1>1. /\ pc \in Places \ {"conclude", "done"} /\ pc' = pc
      /\ changes < MaxChanges /\ changes' = changes + 1
      /\ message' = message /\ linkages' = linkages /\ detail' = detail
      /\ candidates' = candidates /\ validation' = validation /\ verdict' = verdict
  BY DEF VInv, SightsTyped, LineChanges, StandingChanges, JobChanges, Change, AskingLine,
    AskingBusiness, answers, Places
<1>2. /\ line' \in [Chosen -> LineStates] /\ standing' \in [Chosen -> Standings]
      /\ job' \in JobStates
      /\ sawLine' \in [Chosen -> SUBSET LineStates]
      /\ sawStanding' \in [Chosen -> SUBSET Standings] /\ sawJob' \subseteq JobStates
      /\ \A m \in Chosen : line'[m] \in sawLine'[m] /\ standing'[m] \in sawStanding'[m]
      /\ job' \in sawJob'
      /\ \A m \in Chosen : sawLine[m] \subseteq sawLine'[m] /\ sawStanding[m] \subseteq sawStanding'[m]
      /\ sawJob \subseteq sawJob'
  BY DEF VInv, TypeOK, SightsTyped, LineChanges, StandingChanges, JobChanges
<1>3. TypeOK'
  <2>1. changes' \in 0..MaxChanges
    BY <1>1 DEF VInv, TypeOK, ValidationConstants, BoundAssumption
  <2> QED BY <1>1, <1>2, <2>1 DEF VInv, TypeOK
<1>6. SightsTyped'
  BY <1>1, <1>2 DEF VInv, SightsTyped
<1>4. /\ LinkagesWereSo' /\ DetailWasSo' /\ CandidatesWereSo' /\ JobWasSo' /\ MembersWereSo'
  BY <1>1, <1>2 DEF VInv, TypeOK, LinkagesWereSo, DetailWasSo, CandidatesWereSo, JobWasSo,
    MembersWereSo, AfterJob, AfterCandidates, Places
<1>5. verdict' = NoVerdict /\ VerdictIsJust'
  <2>1. verdict' = NoVerdict
    BY <1>1 DEF VInv
  <2> QED
    BY <2>1 DEF NoVerdict, None, VerdictIsJust, SendIsJustified, DropIsJustified, LossAsksAgain,
      CountsAddUp, Verdict
<1> QED
  BY <1>3, <1>4, <1>5, <1>6 DEF VInv

\* The calls before the last: what they add to the answers was so.
LEMMA CallsAnswer ==
  ASSUME ValidationConstants, VInv,
         \/ CheckMessage \/ ReadLinkages \/ ReadCandidates \/ ValidateJob \/ ValidateMembers
         \/ ReadJob /\ job # Absent
  PROVE  VInv'
<1>1. UNCHANGED facts /\ pc \in Places \ {"conclude", "done"} /\ verdict' = verdict /\ pc' # "done"
  BY DEF CheckMessage, ReadLinkages, ReadJob, ReadCandidates, ValidateJob, ValidateMembers,
    answers, Places
<1> USE <1>1 DEF facts
<1>2. verdict' = NoVerdict /\ VerdictIsJust'
  <2>1. verdict' = NoVerdict
    BY DEF VInv, Places
  <2> QED
    BY <2>1 DEF NoVerdict, None, VerdictIsJust, SendIsJustified, DropIsJustified, LossAsksAgain,
      CountsAddUp, Verdict
<1>3. SightsTyped'
  <2>1. pc' \in Places
    BY DEF Places, CheckMessage, ReadLinkages, ReadJob, ReadCandidates, ValidateJob, ValidateMembers
  <2>2. validation' = [job |-> validation'.job, members |-> validation'.members]
    <3>1. CASE ValidateJob
      <4>1. validation' = [job |-> job, members |-> validation.members]
        BY <3>1 DEF ValidateJob, VInv, SightsTyped
      <4> QED BY <4>1
    <3>2. CASE ValidateMembers
      <4>1. validation' = [job |-> validation.job, members |-> validation'.members]
        BY <3>2 DEF ValidateMembers, VInv, SightsTyped
      <4> QED BY <4>1
    <3>3. CASE validation' = validation
      BY <3>3 DEF VInv, SightsTyped
    <3> QED
      BY <3>1, <3>2, <3>3 DEF CheckMessage, ReadLinkages, ReadJob, ReadCandidates, answers
  <2> QED
    BY <2>1, <2>2 DEF VInv, SightsTyped
<1> USE DEF VInv, TypeOK, SightsTyped, LinkagesWereSo, DetailWasSo, CandidatesWereSo, JobWasSo,
  MembersWereSo, AfterJob, AfterCandidates, Places
<1> DEFINE Goal == /\ TypeOK' /\ LinkagesWereSo' /\ DetailWasSo' /\ CandidatesWereSo'
                   /\ JobWasSo' /\ MembersWereSo'
<1>4. CASE CheckMessage
  BY <1>2, <1>3, <1>4 DEF CheckMessage, answers
<1>5. CASE ReadLinkages
  <2>1. Chunk \subseteq Chosen
    BY ChunkIsChosen DEF ValidationConstants
  <2>2. /\ DOMAIN linkages' = DOMAIN linkages \cup Chunk
        /\ \A m \in DOMAIN linkages' : linkages'[m] \in sawLine[m]
    BY <1>5, <2>1 DEF ReadLinkages
  <2> HIDE DEF Chosen, Chunk
  <2> QED
    BY <1>2, <1>3, <1>5, <2>1, <2>2 DEF ReadLinkages
<1>6. CASE ReadJob /\ job # Absent
  BY <1>2, <1>3, <1>6 DEF ReadJob
<1>7. CASE ReadCandidates
  BY <1>2, <1>3, <1>7 DEF ReadCandidates, Standings
<1>8. CASE ValidateJob
  <2>1. /\ pc = "validate job" /\ validation'.job = job /\ validation'.members = None
        /\ pc' = IF job = Absent THEN "conclude" ELSE "validate members"
        /\ linkages' = linkages /\ detail' = detail /\ candidates' = candidates
    BY <1>8 DEF ValidateJob
  <2> QED BY <1>2, <1>3, <2>1 DEF None
<1>9. CASE ValidateMembers
  <2>1. /\ pc = "validate members" /\ pc' = "conclude"
        /\ linkages' = linkages /\ detail' = detail /\ candidates' = candidates
        /\ validation'.job = validation.job
        /\ validation'.members =
             [m \in Chosen |-> IF standing[m] = "recommended" /\ validation.job = Ready
                              THEN "eligible" ELSE "ineligible"]
    BY <1>9 DEF ValidateMembers
  <2>2. /\ DOMAIN validation'.members = Chosen
        /\ \A m \in Chosen : validation'.members[m] \in {"eligible", "ineligible"}
        /\ \A m \in Chosen : validation'.members[m] = "eligible" =>
              standing[m] = "recommended" /\ validation.job = Ready
        /\ \A m \in Chosen : validation'.members[m] = "ineligible" =>
              standing[m] = "not_recommended" \/ validation.job # Ready
    BY <2>1 DEF Standings
  <2>3. MembersWereSo'
    <3> HIDE DEF VInv, TypeOK, SightsTyped, LinkagesWereSo, CandidatesWereSo, JobWasSo, DetailWasSo
    <3>1. \A m \in Chosen : standing[m] \in sawStanding'[m]
      BY DEF VInv, SightsTyped
    <3>2. ASSUME NEW m \in Chosen
          PROVE  /\ validation'.members[m] \in {"eligible", "ineligible"}
                 /\ validation'.members[m] = "eligible" =>
                      "recommended" \in sawStanding'[m] /\ validation'.job = Ready
                 /\ validation'.members[m] = "ineligible" =>
                      "not_recommended" \in sawStanding'[m] \/ validation'.job # Ready
      BY <2>1, <2>2, <3>1
    <3> QED BY <2>2, <3>2
  <2>4. TypeOK'
    BY <2>1, <2>2, <1>2
  <2> QED BY <1>2, <1>3, <2>1, <2>3, <2>4
<1> QED
  BY <1>2, <1>3, <1>4, <1>5, <1>6, <1>7, <1>8, <1>9

\* A call that ends the validation, with an absent job or with a failure.
LEMMA CallsEnd ==
  ASSUME ValidationConstants, VInv, CallFails \/ (ReadJob /\ job = Absent)
  PROVE  VInv'
<1>1. /\ UNCHANGED <<facts, linkages, detail, candidates, validation>> /\ pc' = "done"
      /\ verdict' \in {NoVerdict, [NoVerdict EXCEPT !.items = AllBlocked]}
  BY DEF CallFails, ReadJob, answers
<1>2. /\ VerdictIsJust' /\ DOMAIN verdict'.items \in {{}, Chosen}
      /\ \A m \in DOMAIN verdict'.items : verdict'.items[m] = "block"
  <2>1. ~verdict'.proceed
    BY <1>1, EmptyVerdict
  <2>2. /\ DOMAIN verdict'.items \in {{}, Chosen}
        /\ \A m \in DOMAIN verdict'.items : verdict'.items[m] = "block"
        /\ verdict'.items = None \/ DOMAIN verdict'.items = Chosen
    BY <1>1, EmptyVerdict
  <2>3. verdict'.items # None =>
          Count(verdict'.items, "send") + Count(verdict'.items, "skip")
            + Count(verdict'.items, "block") = Cardinality(Chosen)
    BY <2>2, CountsOfAll DEF ValidationConstants, Dispositions
  <2> QED
    BY <2>1, <2>2, <2>3 DEF VerdictIsJust, SendIsJustified, DropIsJustified, LossAsksAgain,
      CountsAddUp, Verdict, Count
<1> QED
  BY <1>1, <1>2 DEF facts, VInv, TypeOK, SightsTyped, LinkagesWereSo, DetailWasSo,
    CandidatesWereSo, JobWasSo, MembersWereSo, AfterJob, AfterCandidates, Places

\* What Conclude finds of one selected member.
LEMMA DispositionIsJust ==
  ASSUME ValidationConstants, VInv, pc = "conclude", NEW m \in Chosen
  PROVE  /\ DispositionOf(m) \in Dispositions
         /\ DispositionOf(m) = "send" =>
              /\ "enabled" \in sawLine[m] /\ "recommended" \in sawStanding[m]
              /\ Ready \in sawJob /\ ~IsExcluded(m)
         /\ DispositionOf(m) = "skip" /\ JobValid /\ ~IsExcluded(m) =>
              \/ sawLine[m] # {"enabled"} \/ sawStanding[m] # {"recommended"} \/ sawJob # {Ready}
<1>1. /\ linkages[m] \in sawLine[m] /\ linkages[m] \in LineStates
      /\ validation.job \in sawJob
  BY DEF VInv, SightsTyped, LinkagesWereSo, JobWasSo, AfterJob
<1>2. /\ m \in candidates => "recommended" \in sawStanding[m]
      /\ m \notin candidates => Absent \in sawJob \/ "not_recommended" \in sawStanding[m]
  BY DEF VInv, CandidatesWereSo, AfterCandidates
<1>3. m \in DOMAIN validation.members =>
        /\ validation.members[m] \in {"eligible", "ineligible"}
        /\ validation.members[m] = "eligible" =>
             "recommended" \in sawStanding[m] /\ validation.job = Ready
        /\ validation.members[m] = "ineligible" =>
             "not_recommended" \in sawStanding[m] \/ validation.job # Ready
  BY DEF VInv, MembersWereSo
<1>4. IsExcluded(m) => Excluded[m] \in {"skip", "block"}
  BY DEF IsExcluded, ValidationConstants, ExclusionAssumption
<1>5. BusinessDisposition(m) \in Dispositions
  BY <1>4 DEF BusinessDisposition, Dispositions, Differs
<1>6. DispositionOf(m) \in Dispositions
  BY <1>5 DEF DispositionOf, Dispositions
<1>7. ASSUME DispositionOf(m) = "send"
      PROVE  /\ "enabled" \in sawLine[m] /\ "recommended" \in sawStanding[m]
             /\ Ready \in sawJob /\ ~IsExcluded(m)
  <2>1. BusinessDisposition(m) = "send" /\ linkages[m] \notin {"unknown", "declined", "unversioned"}
    BY <1>7 DEF DispositionOf
  <2>2. ~IsExcluded(m) /\ m \in DOMAIN validation.members /\ ~Differs(m) /\ linkages[m] # "not_linked"
    BY <1>4, <2>1 DEF BusinessDisposition
  <2>4. linkages[m] = "enabled"
    BY <1>1, <2>1, <2>2 DEF LineStates
  <2>3. validation.members[m] = "eligible"
    BY <1>3, <2>2 DEF Differs
  <2> QED BY <1>1, <1>3, <2>2, <2>3, <2>4
<1>8. ASSUME DispositionOf(m) = "skip", JobValid, ~IsExcluded(m)
      PROVE  sawLine[m] # {"enabled"} \/ sawStanding[m] # {"recommended"} \/ sawJob # {Ready}
  <2>1. validation.job = Ready /\ Absent # Ready
    BY <1>8 DEF JobValid, Absent, Ready
  <2>2. CASE linkages[m] # "enabled"
    BY <1>1, <2>2
  <2>3. CASE linkages[m] = "enabled"
    <3>1. BusinessDisposition(m) = "skip"
      BY <1>8, <2>3 DEF DispositionOf
    <3>2. Differs(m) /\ m \in DOMAIN validation.members
      BY <1>8, <2>3, <3>1 DEF BusinessDisposition
    <3>3. validation.members[m] = "ineligible" \/ m \notin candidates
      BY <3>2 DEF Differs, NoLongerCandidate
    <3> QED BY <1>2, <1>3, <2>1, <3>2, <3>3
  <2> QED BY <2>2, <2>3
<1> QED BY <1>6, <1>7, <1>8

\* A linked member whom no fact recommended differs from what was selected.
LEMMA LossDiffers ==
  ASSUME ValidationConstants, VInv, pc = "conclude", NEW m \in Chosen, JobValid, ~IsExcluded(m),
         "not_linked" \notin sawLine[m], "recommended" \notin sawStanding[m]
  PROVE  Differs(m)
<1>1. linkages[m] # "not_linked"
  BY DEF VInv, LinkagesWereSo, AfterJob
<1>2. m \in DOMAIN validation.members => validation.members[m] = "ineligible"
  BY DEF VInv, MembersWereSo
<1> QED
  BY <1>1, <1>2 DEF Differs

LEMMA ConcludeStep ==
  ASSUME ValidationConstants, VInv, Conclude
  PROVE  VInv'
<1> DEFINE items == [m \in Chosen \cup Others |->
                      IF m \in Others THEN "skip"
                      ELSE IF BlocksAll THEN "block" ELSE DispositionOf(m)]
<1>1. /\ pc = "conclude" /\ pc' = "done" /\ UNCHANGED <<facts, answers>>
      /\ verdict' = [items |-> items, proceed |-> CanProceed(items), reconfirm |-> Reconfirm]
  BY DEF Conclude
<1>2. /\ DOMAIN items = Chosen \cup Others
      /\ \A m \in Chosen : items[m] = IF BlocksAll THEN "block" ELSE DispositionOf(m)
      /\ \A m \in DOMAIN items : items[m] \in Dispositions
  BY <1>1, DispositionIsJust DEF ValidationConstants, SelectedAssumption, Dispositions
<1>3. /\ verdict'.items = items /\ verdict'.proceed = CanProceed(items)
      /\ verdict'.reconfirm = Reconfirm
  BY <1>1
<1> HIDE DEF items
<1>4. \A m \in Chosen : Verdict(m)' = items[m]
  BY <1>2, <1>3 DEF Verdict
<1>5. CanProceed(items) => JobValid /\ ~BlocksAll /\ \E m \in Chosen : items[m] = "send"
  <2> SUFFICES ASSUME CanProceed(items)
               PROVE  JobValid /\ ~BlocksAll /\ \E m \in Chosen : items[m] = "send"
    OBVIOUS
  <2>1. JobValid /\ Count(items, "send") > 0
    BY DEF CanProceed
  <2>2. \E m \in Chosen : items[m] = "send"
    BY <1>2, <2>1, CountsOfAll DEF ValidationConstants
  <2> QED BY <1>2, <2>1, <2>2
<1>6. SendIsJustified'
  <2> SUFFICES ASSUME NEW m \in Chosen, items[m] = "send"
               PROVE  /\ "enabled" \in sawLine[m] /\ "recommended" \in sawStanding[m]
                      /\ Ready \in sawJob /\ ~IsExcluded(m)
    BY <1>1, <1>4 DEF SendIsJustified, facts, IsExcluded
  <2> QED BY <1>1, <1>2, DispositionIsJust
<1>7. DropIsJustified'
  <2> SUFFICES ASSUME NEW m \in Chosen \ DOMAIN Excluded, CanProceed(items), items[m] = "skip"
               PROVE  sawLine[m] # {"enabled"} \/ sawStanding[m] # {"recommended"} \/ sawJob # {Ready}
    BY <1>1, <1>3, <1>4 DEF DropIsJustified, facts
  <2> QED BY <1>1, <1>2, <1>5, DispositionIsJust DEF IsExcluded
<1>8. LossAsksAgain'
  <2> SUFFICES ASSUME NEW m \in Chosen \ DOMAIN Excluded, CanProceed(items),
                      "not_linked" \notin sawLine[m], "recommended" \notin sawStanding[m]
               PROVE  Reconfirm
    BY <1>1, <1>3 DEF LossAsksAgain, facts
  <2>1. Differs(m)
    BY <1>1, <1>5, LossDiffers DEF IsExcluded
  <2> QED BY <2>1 DEF Reconfirm
<1>9. CountsAddUp'
  <2>1. Count(items, "send") + Count(items, "skip") + Count(items, "block") = Cardinality(Chosen)
    BY <1>2, CountsOfAll DEF ValidationConstants
  <2>2. verdict'.proceed => \E m \in Chosen : Verdict(m)' = "send"
    BY <1>3, <1>4, <1>5
  <2> QED
    BY <1>3, <2>1, <2>2 DEF CountsAddUp, Count
<1>10. TypeOK'
  BY <1>1, <1>2, <1>3 DEF VInv, TypeOK, facts, answers, Dispositions
<1>11. SightsTyped'
  BY <1>1 DEF VInv, SightsTyped, facts, answers, Places
<1> QED
  BY <1>1, <1>6, <1>7, <1>8, <1>9, <1>10, <1>11 DEF VInv, VerdictIsJust, facts, answers,
    LinkagesWereSo, DetailWasSo, CandidatesWereSo, JobWasSo, MembersWereSo, AfterJob, AfterCandidates

LEMMA VInvStep ==
  ASSUME ValidationConstants, VInv, [Next]_vars
  PROVE  VInv'
<1>1. CASE Next
  BY <1>1, FactsChange, CallsAnswer, CallsEnd, ConcludeStep DEF Next
<1>2. CASE UNCHANGED vars
  <2> USE <1>2 DEF vars, facts, answers
  <2>1. VerdictIsJust' = VerdictIsJust
    BY DEF VerdictIsJust, SendIsJustified, DropIsJustified, LossAsksAgain, CountsAddUp, Verdict,
      Count, IsExcluded
  <2> QED
    BY <2>1 DEF VInv, TypeOK, SightsTyped, LinkagesWereSo, DetailWasSo,
      CandidatesWereSo, JobWasSo, MembersWereSo
<1> QED BY <1>1, <1>2

\* However the facts change between the calls of a validation (validate_operation): whoever is
\* cleared or left out was so by facts that held during it, a loss asks for a new
\* confirmation, and the counts add up to the selected members.
THEOREM VerdictAlwaysJust ==
  ASSUME ValidationConstants
  PROVE  Spec => [](TypeOK /\ VerdictIsJust)
<1>1. Init => VInv
  BY VInvInit
<1>2. VInv /\ [Next]_vars => VInv'
  BY VInvStep
<1>3. VInv => TypeOK /\ VerdictIsJust
  BY DEF VInv
<1> QED
  BY <1>1, <1>2, <1>3, PTL DEF Spec
=============================================================================
