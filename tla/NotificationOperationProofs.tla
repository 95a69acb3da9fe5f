---------------------- MODULE NotificationOperationProofs ----------------------
(***************************************************************************)
(* Theorems about NotificationOperation for every set of members and staff *)
(* members, every bound and both kinds of operation, proved with TLAPS.    *)
(* First the types, who may write and what stays frozen; then what is      *)
(* reserved, who is never sent to and what a staff member has been shown.  *)
(* The last theorem is that NotificationOperation implements SendPromise.  *)
(***************************************************************************)
EXTENDS NotificationOperation, FiniteSetTheorems, TLAPS

\* TypeOK in the three parts the actions change separately.
StoredType ==
  /\ op \in Operation
  /\ targets \subseteq Members
  /\ deliveries \in Deliveries
  /\ outbox \in Commands
  /\ confirmed \in Token
HandType ==
  /\ pc \in [Staff -> Place]
  /\ copy \in [Staff -> Operation]
  /\ seen \in [Staff -> SUBSET Members]
  /\ origin \in [Staff -> Editable]
  /\ summary \in [Staff -> Summary]
  /\ errand \in [Staff -> {"validate", "again", "send"}]
TokenType == token \in [Staff -> Token]

OInv == TypeOK /\ InHand /\ SoleValidator /\ PopulationAgrees

-----------------------------------------------------------------------------
(* Lemmas about the operators of the model *)

\* Functions(S, R) holds exactly the functions from a part of S to R.
LEMMA InFunctions ==
  ASSUME NEW S, NEW R, NEW D \in SUBSET S, NEW f \in [D -> R]
  PROVE  f \in Functions(S, R)
BY DEF Functions

\* The same, read the other way: what is known of such a function.
LEMMA OfFunctions ==
  ASSUME NEW S, NEW R, NEW f \in Functions(S, R)
  PROVE  /\ DOMAIN f \in SUBSET S
         /\ f \in [DOMAIN f -> R]
         /\ \A m \in DOMAIN f : f[m] \in R
BY DEF Functions

\* The empty values are well-formed.
LEMMA EmptyTypes ==
  /\ DOMAIN Empty = {}
  /\ Empty \in Results /\ Empty \in Exclusions
  /\ Empty \in Deliveries /\ Empty \in Commands
  /\ Created \in Operation
  /\ NoSummary \in Summary
  /\ NoToken \in Token
<1>1. Empty \in [{} -> {}] /\ DOMAIN Empty = {}
  BY DEF Empty
<1>2. \A S, R : Empty \in Functions(S, R)
  <2> TAKE S, R
  <2>1. Empty \in [{} -> R]
    BY <1>1
  <2>2. {} \in SUBSET S
    OBVIOUS
  <2>3. QED
    BY <2>1, <2>2, InFunctions
<1>3. /\ Empty \in Results /\ Empty \in Exclusions
      /\ Empty \in Deliveries /\ Empty \in Commands
  BY <1>2 DEF Results, Exclusions, Deliveries, Commands
<1>4. Created \in Operation
  BY <1>3, BoundAssumption DEF Created, Operation, Status, Editable, NoStamp
<1>5. NoSummary \in Summary
  BY <1>3, LookupAssumption DEF NoSummary, Summary, NoStamp
<1>6. NoToken \in Token
  BY <1>3, <1>4 DEF NoToken, Token
<1>7. QED
  BY <1>1, <1>3, <1>4, <1>5, <1>6

\* Discarding a validation keeps an operation well-formed, and so does a new
\* stamp.
LEMMA WriteTypes ==
  ASSUME op \in Operation, NEW o \in Operation
  PROVE  /\ Unvalidated(o) \in Operation
         /\ Unvalidated(o).results = Empty
         /\ Unvalidated(o).message = o.message
         /\ Unvalidated(o).excluded = o.excluded
         /\ Unvalidated(o).reserved = o.reserved
         /\ Stamped(o) \in Operation
         /\ Stamped(o).stamp = op.stamp + 1
<1>1. op.stamp \in Nat /\ op.stamp + 1 \in Nat
  BY DEF Operation
<1>2. Empty \in Results
  BY EmptyTypes
<1>3. Unvalidated(o) \in Operation
  BY <1>2 DEF Operation, Unvalidated, NoStamp
<1>4. Stamped(o) \in Operation
  BY <1>1 DEF Operation, Stamped
<1>5. /\ Unvalidated(o).results = Empty
      /\ Unvalidated(o).message = o.message
      /\ Unvalidated(o).excluded = o.excluded
      /\ Unvalidated(o).reserved = o.reserved
  BY DEF Operation, Unvalidated
<1>6. Stamped(o).stamp = op.stamp + 1
  BY DEF Operation, Stamped
<1>7. QED
  BY <1>3, <1>4, <1>5, <1>6

\* A lookup puts each selected member into one disposition.
LEMMA ResultsType ==
  ASSUME NEW S \in SUBSET Members, NEW verdict \in [Members -> Linkages \cup Refusals],
         NEW flaw, NEW excluded \in Exclusions
  PROVE  /\ ResultsOf(S, verdict, flaw, excluded) \in Results
         /\ DOMAIN ResultsOf(S, verdict, flaw, excluded) = S
<1>1. \A m \in S : DispositionOf(m, verdict, excluded) \in Disposition
  <2>1. \A m \in DOMAIN excluded : excluded[m] \in {"skip", "block"}
    BY OfFunctions DEF Exclusions
  <2>2. QED
    BY <2>1 DEF DispositionOf, Disposition
<1>2. ResultsOf(S, verdict, flaw, excluded) \in [S -> Disposition]
  BY <1>1 DEF ResultsOf, Disposition
<1>3. QED
  BY <1>2, InFunctions DEF Results

\* What a validation latches is never a member to send to.
LEMMA LatchedNotSent ==
  ASSUME NEW S \in SUBSET Members, NEW verdict \in [Members -> Linkages \cup Refusals],
         NEW flaw, NEW excluded \in Exclusions, Automatic = TRUE,
         NEW m \in Latched(S, verdict, flaw)
  PROVE  m \in S /\ ResultsOf(S, verdict, flaw, excluded)[m] \in {"skip", "block"}
<1>1. m \in S
  BY DEF Latched
<1>2. CASE flaw \in {"job", "version", "empty"}
  BY <1>1, <1>2 DEF ResultsOf
<1>3. CASE flaw \notin {"job", "version", "empty"}
  <2>1. verdict[m] \in {"not_linked", "ineligible", "missing"}
    BY <1>3 DEF Latched
  <2>2. verdict[m] \notin Linkages
    BY <2>1, LookupAssumption
  <2>3. m \in DOMAIN excluded => excluded[m] \in {"skip", "block"}
    BY OfFunctions DEF Exclusions
  <2>4. DispositionOf(m, verdict, excluded) \in {"skip", "block"}
    BY <2>2, <2>3 DEF DispositionOf
  <2>5. QED
    BY <1>1, <1>3, <2>4 DEF ResultsOf
<1>4. QED
  BY <1>1, <1>2, <1>3

\* setdefault keeps the exclusions well-formed.
LEMMA ExcludeType ==
  ASSUME NEW excluded \in Exclusions, NEW S \in SUBSET Members, NEW results,
         \A m \in S : results[m] \in {"skip", "block"}
  PROVE  Exclude(excluded, S, results) \in Exclusions
<1>1. /\ DOMAIN excluded \in SUBSET Members
      /\ \A m \in DOMAIN excluded : excluded[m] \in {"skip", "block"}
  BY OfFunctions DEF Exclusions
<1>2. Exclude(excluded, S, results) \in [DOMAIN excluded \cup S -> {"skip", "block"}]
  BY <1>1 DEF Exclude
<1>3. QED
  BY <1>1, <1>2, InFunctions DEF Exclusions

-----------------------------------------------------------------------------
(* Types *)

\* The initial state is well-typed.
LEMMA TypeInit == Init => TypeOK
BY EmptyTypes DEF Init, TypeOK, Place, Editable

\* The three parts make up TypeOK.
LEMMA TypeParts == TypeOK <=> StoredType /\ HandType /\ TokenType
BY DEF TypeOK, StoredType, HandType, TokenType

\* A request that goes on to another place keeps what it holds well-typed.
LEMMA GoToType ==
  ASSUME HandType, NEW p \in Staff, NEW place \in Place, GoTo(p, place)
  PROVE  pc' \in [Staff -> Place]
BY DEF HandType, GoTo

\* An answered request holds nothing.
LEMMA EndType ==
  ASSUME HandType, NEW p \in Staff, End(p)
  PROVE  HandType'
<1>1. "idle" \in Place /\ "draft" \in Editable
  BY DEF Place, Editable
<1>2. pc' \in [Staff -> Place]
  BY <1>1 DEF HandType, End, GoTo
<1>3. copy' \in [Staff -> Operation] /\ summary' \in [Staff -> Summary]
  BY EmptyTypes DEF HandType, End, Forget
<1>4. /\ seen' \in [Staff -> SUBSET Members] /\ origin' \in [Staff -> Editable]
      /\ errand' \in [Staff -> {"validate", "again", "send"}]
  BY <1>1 DEF HandType, End, Forget
<1>5. QED
  BY <1>2, <1>3, <1>4 DEF HandType

\* A read that puts the stored operation into the request's hands.
LEMMA ReadType ==
  ASSUME HandType, op \in Operation, NEW p \in Staff, NEW next \in Place,
         GoTo(p, next), copy' = [copy EXCEPT ![p] = op],
         UNCHANGED <<seen, origin, summary, errand>>
  PROVE  HandType'
BY GoToType DEF HandType

\* The result of a validation is well-typed if its parts are.
LEMMA FinishType ==
  ASSUME TypeOK, NEW p \in Staff, NEW status \in Status, NEW s \in Summary,
         NEW excluded, Automatic = TRUE => excluded \in Exclusions,
         NEW S \in SUBSET Members, Finish(p, status, s, excluded, S)
  PROVE  StoredType' /\ HandType'
<1>1. CASE MayWrite(p)
  <2> DEFINE kept == IF Automatic THEN excluded ELSE Empty
  <2>1. kept \in Exclusions
    BY EmptyTypes, SwitchAssumption
  <2>2. CanProceed(s) \in BOOLEAN
    BY DEF CanProceed
  <2>3. [copy[p] EXCEPT
           !.status = status, !.validated = s.validated, !.results = s.results,
           !.proceed = CanProceed(s), !.reconfirm = s.reconfirm,
           !.excluded = kept] \in Operation
    <3>1. copy[p] \in Operation
      BY DEF TypeOK
    <3>2. s.validated \in Nat /\ s.results \in Results /\ s.reconfirm \in BOOLEAN
      BY DEF Summary
    <3> HIDE DEF kept
    <3>3. QED
      BY <2>1, <2>2, <3>1, <3>2 DEF Operation
  <2>4. op' \in Operation
    <3>1. op \in Operation
      BY DEF TypeOK
    <3>2. QED
      BY <1>1, <2>3, <3>1, WriteTypes DEF Finish
  <2>5. StoredType'
    BY <1>1, <2>4 DEF Finish, TypeOK, StoredType
  <2>6. (IF errand[p] = "send" THEN "reread" ELSE "validated") \in Place
    BY DEF Place
  <2>7. pc' \in [Staff -> Place]
    BY <1>1, <2>6 DEF Finish, GoTo, TypeOK
  <2>8. HandType'
    BY <1>1, <2>7 DEF Finish, TypeOK, HandType
  <2>9. QED
    BY <2>5, <2>8
<1>2. CASE ~MayWrite(p)
  <2>1. End(p) /\ UNCHANGED stored
    BY <1>2 DEF Finish, stored
  <2>2. HandType'
    BY <2>1, TypeParts, EndType
  <2>3. QED
    BY <2>1, <2>2 DEF TypeOK, StoredType, stored
<1>3. QED
  BY <1>1, <1>2

\* Edits and replacements of the targets.
LEMMA TypeEdit ==
  ASSUME TypeOK, NEW p \in Staff, Edit(p)
  PROVE  TypeOK'
<1> USE DEF stored
<1>1. op \in Operation /\ copy[p] \in Operation
  BY DEF TypeOK
<1>2. ASSUME NEW place, NEW next \in Place, ReadToWrite(p, place, next)
      PROVE  TypeOK'
  <2>1. HandType'
    BY <1>1, <1>2, TypeParts, ReadType, EndType DEF ReadToWrite
  <2>2. StoredType' /\ TokenType'
    BY <1>2, TypeParts DEF ReadToWrite, StoredType, TokenType
  <2>3. QED
    BY <2>1, <2>2 DEF TypeOK, StoredType, HandType, TokenType
<1>3. CASE ReadDraft(p)
  BY <1>2, <1>3 DEF ReadDraft, Place
<1>4. CASE ReadForTargets(p)
  BY <1>2, <1>4 DEF ReadForTargets, Place
<1>5. ASSUME NEW change \in {0, 1}, UpdateDraft(p, change)
      PROVE  TypeOK'
  <2>1. HandType'
    BY <1>5, TypeParts, EndType DEF UpdateDraft
  <2>2. op' \in Operation
    <3>1. CASE MayWrite(p)
      <4>1. Unvalidated(copy[p]) \in Operation /\ Unvalidated(copy[p]).message = copy[p].message
        BY <1>1, WriteTypes
      <4>2. copy[p].message + change \in 1..MaxMessage
        BY <1>1, <1>5, BoundAssumption DEF UpdateDraft, Operation
      <4>3. [Unvalidated(copy[p]) EXCEPT !.status = "draft", !.message = @ + change] \in Operation
        BY <4>1, <4>2 DEF Operation, Status, Editable
      <4>4. QED
        BY <1>1, <1>5, <3>1, <4>3, WriteTypes DEF UpdateDraft
    <3>2. QED
      BY <1>1, <1>5, <3>1 DEF UpdateDraft
  <2>3. StoredType' /\ TokenType'
    BY <1>5, <2>2 DEF UpdateDraft, TypeOK, StoredType, TokenType
  <2>4. QED
    BY <2>1, <2>3 DEF TypeOK, StoredType, HandType, TokenType
<1>6. ASSUME NEW S \in SUBSET Members, NEW R \in SUBSET Members, ReplaceTargets(p, S, R)
      PROVE  TypeOK'
  <2>1. HandType'
    BY <1>6, TypeParts, EndType DEF ReplaceTargets
  <2>2. op' \in Operation
    <3>1. CASE MayWrite(p)
      <4> DEFINE u == Unvalidated(copy[p])
                 kept == [m \in (DOMAIN u.excluded \cap S) \ R |-> u.excluded[m]]
                 newest == IF Automatic THEN op.stamp + 1 ELSE u.revision
      <4>1. u \in Operation
        BY <1>1, WriteTypes
      <4>2. kept \in Exclusions
        <5>1. u.excluded \in Exclusions
          BY <4>1 DEF Operation
        <5>2. /\ DOMAIN u.excluded \in SUBSET Members
              /\ \A m \in DOMAIN u.excluded : u.excluded[m] \in {"skip", "block"}
          BY <5>1, OfFunctions DEF Exclusions
        <5>3. /\ (DOMAIN u.excluded \cap S) \ R \in SUBSET Members
              /\ kept \in [(DOMAIN u.excluded \cap S) \ R -> {"skip", "block"}]
          BY <5>2
        <5>4. QED
          BY <5>3, InFunctions DEF Exclusions
      <4>3. newest \in Nat
        BY <1>1, <4>1 DEF Operation
      <4>4. [u EXCEPT !.status = "draft", !.revision = newest, !.excluded = kept] \in Operation
        <5> HIDE DEF u, kept, newest
        <5>1. QED
          BY <4>1, <4>2, <4>3 DEF Operation, Status, Editable
      <4>5. op' = Stamped([u EXCEPT !.status = "draft", !.revision = newest, !.excluded = kept])
        BY <1>6, <3>1 DEF ReplaceTargets
      <4>6. QED
        <5> HIDE DEF u, kept, newest
        <5>1. QED
          BY <1>1, <4>4, <4>5, WriteTypes
    <3>2. QED
      BY <1>1, <1>6, <3>1 DEF ReplaceTargets
  <2>3. StoredType' /\ TokenType'
    BY <1>6, <2>2 DEF ReplaceTargets, TypeOK, StoredType, TokenType
  <2>4. QED
    BY <2>1, <2>3 DEF TypeOK, StoredType, HandType, TokenType
<1>7. QED
  BY <1>3, <1>4, <1>5, <1>6 DEF Edit, UpdateDraft

\* A step that finishes a validation: the token is nobody's business.
LEMMA FinishedType ==
  ASSUME StoredType', HandType', TypeOK, UNCHANGED token
  PROVE  TypeOK'
BY DEF TypeOK, StoredType, HandType

\* Validations.
LEMMA TypeValidate ==
  ASSUME TypeOK, InHand, NEW p \in Staff, Validate(p)
  PROVE  TypeOK'
<1>1. /\ op \in Operation /\ copy[p] \in Operation /\ seen[p] \in SUBSET Members
      /\ targets \in SUBSET Members /\ copy[p].excluded \in Exclusions
  BY DEF TypeOK, Operation
<1>2. CASE ReadToValidate(p)
  <2>1. HandType'
    BY <1>1, <1>2, TypeParts, ReadType, EndType DEF ReadToValidate, ReadToWrite, Place
  <2>2. UNCHANGED <<stored, token>>
    BY <1>2 DEF ReadToValidate, ReadToWrite
  <2>3. QED
    BY <2>1, <2>2 DEF TypeOK, HandType, stored
<1>3. CASE ReadTargets(p)
  <2>1. HandType'
    <3>1. CASE DOMAIN deliveries = {}
      <4>1. "validate_start" \in Place
        BY DEF Place
      <4>2. QED
        BY <1>1, <1>3, <3>1, <4>1, TypeParts, GoToType DEF ReadTargets, HandType
    <3>2. CASE DOMAIN deliveries # {}
      BY <1>3, <3>2, TypeParts, EndType DEF ReadTargets
    <3>3. QED
      BY <3>1, <3>2
  <2>2. UNCHANGED <<stored, token>>
    BY <1>3 DEF ReadTargets
  <2>3. QED
    BY <2>1, <2>2 DEF TypeOK, HandType, stored
<1>4. CASE StartValidation(p)
  <2>1. CASE MayWrite(p)
    <3>1. Unvalidated(copy[p]) \in Operation
      BY <1>1, WriteTypes
    <3>2. [Unvalidated(copy[p]) EXCEPT !.status = "validating"] \in Operation
      BY <3>1 DEF Operation, Status
    <3>3. op' \in Operation
      BY <1>1, <1>4, <2>1, <3>2, WriteTypes DEF StartValidation
    <3>4. copy[p].status \in Editable
      BY <1>4 DEF StartValidation, InHand, IsEditable
    <3>5. pc' \in [Staff -> Place]
      BY <1>4, <2>1, TypeParts, GoToType DEF StartValidation, Place
    <3>6. copy' \in [Staff -> Operation] /\ origin' \in [Staff -> Editable]
      BY <1>4, <2>1, <3>3, <3>4 DEF StartValidation, TypeOK
    <3>7. QED
      BY <1>4, <2>1, <3>3, <3>5, <3>6 DEF StartValidation, TypeOK
  <2>2. CASE ~MayWrite(p)
    <3>1. HandType'
      BY <1>4, <2>2, TypeParts, EndType DEF StartValidation
    <3>2. UNCHANGED <<stored, token>>
      BY <1>4, <2>2 DEF StartValidation, stored
    <3>3. QED
      BY <3>1, <3>2 DEF TypeOK, HandType, stored
  <2>3. QED
    BY <2>1, <2>2
<1>5. ASSUME NEW status, NEW s, NEW excluded, NEW S, Finish(p, status, s, excluded, S)
      PROVE  UNCHANGED token
  BY <1>5 DEF Finish
<1>6. CASE NoSelectedTargets(p)
  <2> DEFINE s == [NoSummary EXCEPT !.flaw = "job", !.validated = copy[p].stamp]
  <2>1. s \in Summary
    BY <1>1, EmptyTypes DEF Summary, Operation
  <2>2. Finish(p, "draft", s, copy[p].excluded, seen[p])
    BY <1>6 DEF NoSelectedTargets
  <2> HIDE DEF s
  <2>3. StoredType' /\ HandType'
    BY <1>1, <2>1, <2>2, FinishType DEF Status, Editable
  <2>4. QED
    BY <1>5, <2>2, <2>3, FinishedType
<1>7. ASSUME NEW verdict \in [Members -> Linkages \cup Refusals], NEW flaw \in Flaws,
             Conclude(p, verdict, flaw)
      PROVE  TypeOK'
  <2> DEFINE r == ResultsOf(seen[p], verdict, flaw, copy[p].excluded)
             L == Latched(seen[p], verdict, flaw)
             again == flaw = "version" \/ Differs(seen[p], verdict, copy[p].excluded)
             s == [results |-> r, flaw |-> flaw, reconfirm |-> again,
                   validated |-> copy[p].stamp]
             e == Exclude(copy[p].excluded, L, r)
  <2>1. r \in Results
    BY <1>1, ResultsType
  <2>2. again \in BOOLEAN
    BY DEF Differs
  <2>3. s \in Summary
    <3> HIDE DEF r, again
    <3>1. QED
      BY <1>1, <2>1, <2>2 DEF Summary, Operation
  <2>4. Automatic = TRUE => e \in Exclusions
    <3>1. SUFFICES ASSUME Automatic = TRUE PROVE e \in Exclusions
      OBVIOUS
    <3>2. ASSUME NEW m \in L PROVE m \in Members /\ r[m] \in {"skip", "block"}
      <4>1. m \in seen[p] /\ r[m] \in {"skip", "block"}
        BY <1>1, <3>1, LatchedNotSent
      <4>2. QED
        BY <1>1, <4>1
    <3> HIDE DEF L, r
    <3>3. QED
      BY <1>1, <3>2, ExcludeType DEF e
  <2>5. Finish(p, "ready", s, e, seen[p])
    BY <1>7 DEF Conclude
  <2> HIDE DEF s, e
  <2>6. StoredType' /\ HandType'
    BY <1>1, <2>3, <2>4, <2>5, FinishType DEF Status, Editable
  <2>7. QED
    BY <1>5, <2>5, <2>6, FinishedType
<1>8. AllBlocked(p) \in Summary
  <2>1. [m \in seen[p] |-> "block"] \in Results
    BY <1>1, InFunctions DEF Results, Disposition
  <2>2. (IF Automatic THEN [m \in seen[p] |-> "block"] ELSE Empty) \in Results
    BY <2>1, EmptyTypes
  <2>3. QED
    BY <1>1, <2>2, EmptyTypes DEF AllBlocked, Summary, Operation
<1>9. CASE JobNotFound(p)
  <2> DEFINE e == Exclude(copy[p].excluded, seen[p], [m \in seen[p] |-> "block"])
  <2>1. e \in Exclusions
    BY <1>1, ExcludeType
  <2>2. Finish(p, "ready", AllBlocked(p), e, seen[p])
    BY <1>9 DEF JobNotFound
  <2> HIDE DEF e
  <2>3. StoredType' /\ HandType'
    BY <1>1, <1>8, <2>1, <2>2, FinishType DEF Status, Editable
  <2>4. QED
    BY <1>5, <2>2, <2>3, FinishedType
<1>10. CASE ExternalSystemUnavailable(p)
  <2>1. Finish(p, "blocked", AllBlocked(p), copy[p].excluded, targets)
    BY <1>10 DEF ExternalSystemUnavailable
  <2>2. StoredType' /\ HandType'
    BY <1>1, <1>8, <2>1, FinishType DEF Status, Editable
  <2>3. QED
    BY <1>5, <2>1, <2>2, FinishedType
<1>11. CASE RestoreStatus(p)
  <2>1. [copy[p] EXCEPT !.status = origin[p]] \in Operation
    BY <1>1 DEF TypeOK, Operation, Status
  <2>2. op' \in Operation
    BY <1>1, <1>11, <2>1, WriteTypes DEF RestoreStatus
  <2>3. HandType'
    BY <1>11, TypeParts, EndType DEF RestoreStatus
  <2>4. QED
    BY <1>11, <2>2, <2>3 DEF RestoreStatus, TypeOK, HandType
<1>12. CASE AfterValidation(p)
  <2>1. HandType'
    <3>1. CASE End(p)
      BY <3>1, TypeParts, EndType
    <3>2. CASE /\ GoTo(p, "validate") /\ errand' = [errand EXCEPT ![p] = "again"]
               /\ UNCHANGED <<copy, seen, origin, summary>>
      BY <3>2, TypeParts, GoToType DEF HandType, Place
    <3>3. CASE GoTo(p, "respond") /\ UNCHANGED <<copy, seen, origin, summary, errand>>
      BY <3>3, TypeParts, GoToType DEF HandType, Place
    <3>4. QED
      BY <1>12, <3>1, <3>2, <3>3 DEF AfterValidation
  <2>2. UNCHANGED <<stored, token>>
    BY <1>12 DEF AfterValidation
  <2>3. QED
    BY <2>1, <2>2 DEF TypeOK, HandType, stored
<1>13. QED
  BY <1>2, <1>3, <1>4, <1>6, <1>7, <1>9, <1>10, <1>11, <1>12 DEF Validate

\* Answers that give a staff member a token.
LEMMA TypeConfirm ==
  ASSUME TypeOK, NEW p \in Staff, Confirm(p)
  PROVE  TypeOK'
<1>1. /\ op \in Operation /\ copy[p] \in Operation /\ targets \in SUBSET Members
      /\ summary[p].results \in Results /\ op.results \in Results
  BY DEF TypeOK, Operation, Summary
<1>2. UNCHANGED stored
  BY DEF Confirm, ReadToRespond, ReadToView, ReadOperation, Respond, ReadTargetsToView,
         View, stored
<1>3. HandType'
  <2>1. ASSUME NEW place, NEW next \in Place, ReadOperation(p, place, next)
        PROVE  HandType'
    BY <1>1, <2>1, TypeParts, ReadType DEF ReadOperation
  <2>2. CASE ReadToRespond(p)
    BY <2>1, <2>2 DEF ReadToRespond, Place
  <2>3. CASE Respond(p)
    BY <2>3, TypeParts, EndType DEF Respond
  <2>4. CASE ReadToView(p)
    BY <2>1, <2>4 DEF ReadToView, Place
  <2>5. CASE ReadTargetsToView(p)
    BY <1>1, <2>5, TypeParts, GoToType DEF ReadTargetsToView, HandType, Place
  <2>6. CASE View(p)
    BY <2>6, TypeParts, EndType DEF View
  <2>7. QED
    BY <2>2, <2>3, <2>4, <2>5, <2>6 DEF Confirm
<1>4. TokenType'
  <2>1. ASSUME NEW o \in Operation, NEW r \in Results
        PROVE  [op |-> o, targets |-> targets, shown |-> r] \in Token
    BY <1>1, <2>1 DEF Token
  <2>2. CASE UNCHANGED token
    BY <2>2 DEF TypeOK, TokenType
  <2>3. CASE Respond(p)
    BY <1>1, <2>1, <2>3, EmptyTypes DEF Respond, TypeOK, TokenType
  <2>4. CASE View(p)
    BY <1>1, <2>1, <2>4, EmptyTypes DEF View, TypeOK, TokenType
  <2>5. QED
    BY <2>2, <2>3, <2>4 DEF Confirm, ReadToRespond, ReadToView, ReadOperation,
                            ReadTargetsToView
<1>5. QED
  BY <1>2, <1>3, <1>4 DEF TypeOK, HandType, TokenType, stored

\* Sending, up to the reservation.
LEMMA TypeSend ==
  ASSUME TypeOK, NEW p \in Staff, Send(p)
  PROVE  TypeOK'
<1>1. /\ op \in Operation /\ copy[p] \in Operation /\ summary[p].results \in Results
      /\ token[p] \in Token
  BY DEF TypeOK, Summary
<1>2. HandType'
  <2>1. "send_check" \in Place /\ "validate" \in Place /\ "reserve" \in Place
    BY DEF Place
  <2>2. CASE ReadToSend(p)
    BY <1>1, <2>1, <2>2, TypeParts, ReadType, EndType DEF ReadToSend
  <2>3. CASE CheckConfirmation(p)
    <3>1. CASE End(p)
      BY <3>1, TypeParts, EndType
    <3>2. CASE GoTo(p, "validate") /\ UNCHANGED <<copy, seen, origin, summary, errand>>
      BY <2>1, <3>2, TypeParts, GoToType DEF HandType
    <3>3. QED
      BY <2>3, <3>1, <3>2 DEF CheckConfirmation
  <2>4. CASE CompareConfirmation(p)
    <3>1. CASE End(p)
      BY <3>1, TypeParts, EndType
    <3>2. CASE /\ GoTo(p, "reserve") /\ copy' = [copy EXCEPT ![p] = op]
               /\ UNCHANGED <<seen, origin, summary, errand>>
      BY <1>1, <2>1, <3>2, TypeParts, ReadType
    <3>3. QED
      BY <2>4, <3>1, <3>2 DEF CompareConfirmation
  <2>5. CASE Reserve(p)
    BY <2>5, TypeParts, EndType DEF Reserve
  <2>6. QED
    BY <2>2, <2>3, <2>4, <2>5 DEF Send
<1>3. UNCHANGED token
  BY DEF Send, ReadToSend, CheckConfirmation, CompareConfirmation, Reserve
<1>4. StoredType'
  <2>1. CASE UNCHANGED stored
    BY <2>1 DEF TypeOK, StoredType, stored
  <2>2. CASE Reserve(p) /\ MayReserve(p)
    <3> DEFINE r == summary[p].results
    <3>1. /\ DOMAIN r \in SUBSET Members
          /\ \A m \in Sends(r) : m \in DOMAIN r /\ r[m] \in Linkages
      BY <1>1, OfFunctions DEF Results, Sends
    <3>2. deliveries' \in Deliveries
      <4>1. /\ DOMAIN r \ Blocks(r) \in SUBSET Members
            /\ DeliveriesOf(r) \in [DOMAIN r \ Blocks(r) -> {"pending", "skipped"}]
        BY <3>1 DEF DeliveriesOf
      <4>2. DeliveriesOf(r) \in Deliveries
        BY <4>1, InFunctions DEF Deliveries
      <4>3. QED
        BY <2>2, <4>2 DEF Reserve
    <3>3. outbox' \in Commands
      <4> DEFINE c == [m \in Sends(r) |-> [message |-> copy[p].message, linkage |-> r[m]]]
      <4>1. Sends(r) \in SUBSET Members /\ c \in [Sends(r) -> Command]
        BY <1>1, <3>1 DEF Command, Operation
      <4>2. c \in Commands
        BY <4>1, InFunctions DEF Commands
      <4>3. QED
        BY <2>2, <4>2 DEF Reserve
    <3>4. op' \in Operation
      <4>1. [copy[p] EXCEPT !.reserved = TRUE] \in Operation
        BY <1>1 DEF Operation
      <4>2. QED
        BY <1>1, <2>2, <4>1, WriteTypes DEF Reserve
    <3>5. QED
      BY <1>1, <2>2, <3>2, <3>3, <3>4 DEF Reserve, TypeOK, StoredType
  <2>3. QED
    BY <2>1, <2>2 DEF Send, ReadToSend, CheckConfirmation, CompareConfirmation, Reserve,
                      stored
<1>5. QED
  BY <1>2, <1>3, <1>4 DEF TypeOK, StoredType, HandType

\* No step breaks a type, as long as requests hold what InHand says.
LEMMA TypeStep ==
  ASSUME TypeOK, InHand, [Next]_vars
  PROVE  TypeOK'
<1>1. CASE UNCHANGED vars
  BY <1>1 DEF TypeOK, vars
<1>2. ASSUME NEW p \in Staff, BeginRequest(p)
      PROVE  TypeOK'
  <2>1. PICK place \in Place, purpose \in {"validate", "again", "send"} :
          Begin(p, place, purpose)
    BY <1>2 DEF BeginRequest, Place
  <2>2. QED
    BY <2>1, TypeParts, GoToType DEF Begin, TypeOK, stored
<1>3. ASSUME NEW p \in Staff, Serve(p)
      PROVE  TypeOK'
  BY <1>3, TypeEdit, TypeValidate, TypeConfirm, TypeSend DEF Serve
<1>4. ASSUME NEW p \in Staff, Refuse(p) \/ Crash(p)
      PROVE  TypeOK'
  <2>1. End(p) /\ UNCHANGED <<stored, token>>
    BY <1>4 DEF Refuse, Crash
  <2>2. HandType'
    BY <2>1, TypeParts, EndType
  <2>3. QED
    BY <2>1, <2>2 DEF TypeOK, HandType, stored
<1>5. CASE Execute
  <2>1. /\ op \in Operation
        /\ [op EXCEPT !.status = "sending"] \in Operation
        /\ [op EXCEPT !.status = "completed"] \in Operation
    BY DEF TypeOK, Operation, Status, Rejected
  <2>2. op' \in Operation
    BY <1>5, <2>1, WriteTypes DEF Execute
  <2>3. QED
    BY <1>5, <2>2 DEF Execute, TypeOK, request
<1>6. QED
  BY <1>1, <1>2, <1>3, <1>4, <1>5 DEF Next

-----------------------------------------------------------------------------
(* What a step writes *)

Quiet(p) == UNCHANGED <<op, targets, deliveries, outbox>> /\ pc'[p] # "lookup"

\* A write a request makes on the operation as it has read it.
Writes(p) == op = copy[p] /\ ~op.reserved /\ op'.stamp = op.stamp + 1

Edits(p) ==
  /\ Writes(p) /\ op.status \in Editable
  /\ op'.results = Empty /\ ~op'.reserved
  /\ pc'[p] = "idle"
  /\ UNCHANGED <<deliveries, outbox>>
Starts(p) ==
  /\ Writes(p) /\ op.status \in Editable
  /\ op'.results = Empty /\ ~op'.reserved /\ op'.status = "validating"
  /\ copy'[p] = op' /\ targets = seen[p] /\ seen'[p] = seen[p]
  /\ UNCHANGED <<targets, deliveries, outbox>>
Finishes(p) ==
  /\ Writes(p) /\ pc[p] = "lookup"
  /\ op'.results # Empty => DOMAIN op'.results = targets'
  /\ ~op'.reserved
  /\ pc'[p] # "lookup"
  /\ UNCHANGED <<deliveries, outbox>>
Reserves(p) ==
  /\ Writes(p) /\ op.status = "ready"
  /\ op'.results = op.results /\ op'.reserved
  /\ Sends(op.results) # {} /\ Blocks(op.results) = {}
  /\ deliveries' = DeliveriesOf(op.results)
  /\ DOMAIN outbox' = Sends(op.results)
  /\ pc'[p] = "idle"
  /\ UNCHANGED targets

Shape(p) == Quiet(p) \/ Edits(p) \/ Starts(p) \/ Finishes(p) \/ Reserves(p)

\* An answered request is idle.
LEMMA EndIdle ==
  ASSUME TypeOK, NEW p \in Staff, End(p)
  PROVE  pc'[p] = "idle" /\ copy'[p] = Created
BY DEF TypeOK, End, GoTo, Forget

\* A step of one request leaves the hands of the others alone.
LEMMA OthersKeep ==
  ASSUME TypeOK, NEW p \in Staff, BeginRequest(p) \/ Serve(p) \/ Refuse(p) \/ Crash(p),
         NEW q \in Staff \ {p}
  PROVE  /\ pc'[q] = pc[q] /\ copy'[q] = copy[q]
         /\ seen'[q] = seen[q] /\ summary'[q] = summary[q]
<1> DEFINE Kept == /\ pc'[q] = pc[q] /\ copy'[q] = copy[q]
                   /\ seen'[q] = seen[q] /\ summary'[q] = summary[q]
<1> USE DEF TypeOK, GoTo
<1>1. ASSUME End(p) PROVE Kept
  BY <1>1 DEF End, Forget
<1>2. CASE BeginRequest(p)
  BY <1>2 DEF BeginRequest, Begin
<1>3. CASE Edit(p)
  BY <1>1, <1>3 DEF Edit, ReadDraft, ReadForTargets, ReadToWrite, UpdateDraft, ReplaceTargets
<1>4. CASE Validate(p)
  <2>1. ASSUME NEW status, NEW s, NEW excluded, NEW S, Finish(p, status, s, excluded, S)
        PROVE  Kept
    BY <1>1, <2>1 DEF Finish
  <2>2. CASE \/ ReadToValidate(p) \/ ReadTargets(p) \/ StartValidation(p) \/ RestoreStatus(p)
             \/ AfterValidation(p)
    BY <1>1, <2>2 DEF ReadToValidate, ReadToWrite, ReadTargets, StartValidation,
                      RestoreStatus, AfterValidation
  <2>3. CASE NoSelectedTargets(p) \/ JobNotFound(p) \/ ExternalSystemUnavailable(p)
    BY <2>1, <2>3 DEF NoSelectedTargets, JobNotFound, ExternalSystemUnavailable
  <2>4. ASSUME NEW verdict, NEW flaw, Conclude(p, verdict, flaw)
        PROVE  Kept
    BY <2>1, <2>4 DEF Conclude
  <2>5. QED
    BY <1>4, <2>2, <2>3, <2>4 DEF Validate
<1>5. CASE Confirm(p)
  BY <1>1, <1>5 DEF Confirm, ReadToRespond, ReadToView, ReadOperation, Respond,
                    ReadTargetsToView, View
<1>6. CASE Send(p)
  BY <1>1, <1>6 DEF Send, ReadToSend, CheckConfirmation, CompareConfirmation, Reserve
<1>7. CASE Refuse(p) \/ Crash(p)
  BY <1>1, <1>7 DEF Refuse, Crash
<1>8. QED
  BY <1>2, <1>3, <1>4, <1>5, <1>6, <1>7 DEF Serve

\* A validation that is over writes results of exactly the targets it stores.
LEMMA FinishShape ==
  ASSUME OInv, NEW p \in Staff, NEW status, NEW s \in Summary, NEW excluded, NEW S,
         s.results # Empty => DOMAIN s.results = S,
         Finish(p, status, s, excluded, S)
  PROVE  Shape(p)
<1>0. TypeOK /\ copy[p] \in Operation /\ op \in Operation
  BY DEF OInv, TypeOK
<1>1. CASE MayWrite(p)
  <2> DEFINE kept == IF Automatic THEN excluded ELSE Empty
             w == [copy[p] EXCEPT
                     !.status = status, !.validated = s.validated, !.results = s.results,
                     !.proceed = CanProceed(s), !.reconfirm = s.reconfirm,
                     !.excluded = kept]
  <2>1. op' = Stamped(w) /\ targets' = S /\ UNCHANGED <<deliveries, outbox>>
    BY <1>1 DEF Finish
  <2>2. w.results = s.results /\ w.reserved = copy[p].reserved
    BY <1>0 DEF Operation
  <2>3. Stamped(w) = [w EXCEPT !.stamp = op.stamp + 1]
    BY DEF Stamped
  <2>4. op'.results = s.results /\ op'.reserved = copy[p].reserved /\ op'.stamp = op.stamp + 1
    BY <1>0, <2>1, <2>2, <2>3 DEF Operation
  <2>5. pc'[p] # "lookup"
    BY <1>0, <1>1 DEF Finish, GoTo, TypeOK
  <2>6. Finishes(p)
    BY <1>1, <2>1, <2>4, <2>5 DEF Finishes, Writes, MayWrite, Finish
  <2>7. QED
    BY <2>6 DEF Shape
<1>2. CASE ~MayWrite(p)
  BY <1>0, <1>2, EndIdle DEF Finish, Shape, Quiet
<1>3. QED
  BY <1>1, <1>2

\* Every step of an edit is one of the five.
LEMMA ShapeEdit ==
  ASSUME OInv, NEW p \in Staff, Edit(p)
  PROVE  Shape(p)
<1>0. TypeOK /\ copy[p] \in Operation /\ op \in Operation
  BY DEF OInv, TypeOK
<1>1. CASE ReadDraft(p) \/ ReadForTargets(p)
  <2>1. pc'[p] # "lookup"
    BY <1>0, <1>1, EndIdle DEF ReadDraft, ReadForTargets, ReadToWrite, GoTo, TypeOK
  <2>2. QED
    BY <1>1, <2>1 DEF ReadDraft, ReadForTargets, ReadToWrite, stored, Shape, Quiet
<1>2. ASSUME NEW change \in {0, 1}, UpdateDraft(p, change)
      PROVE  Shape(p)
  <2>1. CASE MayWrite(p)
    <3> DEFINE u == Unvalidated(copy[p])
               w == [u EXCEPT !.status = "draft", !.message = @ + change]
    <3>1. u \in Operation /\ u.results = Empty /\ u.reserved = copy[p].reserved
      BY <1>0, WriteTypes
    <3>2. op' = Stamped(w)
      BY <1>2, <2>1 DEF UpdateDraft
    <3> HIDE DEF u
    <3>3. op'.results = Empty /\ op'.reserved = copy[p].reserved /\ op'.stamp = op.stamp + 1
      BY <3>1, <3>2 DEF Stamped, Operation
    <3>4. pc'[p] = "idle"
      BY <1>0, <1>2, EndIdle DEF UpdateDraft
    <3>5. IsEditable(copy[p])
      BY <1>2 DEF UpdateDraft, OInv, InHand
    <3>6. QED
      BY <1>2, <2>1, <3>3, <3>4, <3>5
         DEF UpdateDraft, MayWrite, IsEditable, Shape, Edits, Writes
  <2>2. CASE ~MayWrite(p)
    BY <1>0, <1>2, <2>2, EndIdle DEF UpdateDraft, Shape, Quiet
  <2>3. QED
    BY <2>1, <2>2
<1>3. ASSUME NEW S, NEW R, ReplaceTargets(p, S, R)
      PROVE  Shape(p)
  <2>1. CASE MayWrite(p)
    <3> DEFINE u == Unvalidated(copy[p])
               kept == [m \in (DOMAIN u.excluded \cap S) \ R |-> u.excluded[m]]
               newest == IF Automatic THEN op.stamp + 1 ELSE u.revision
               w == [u EXCEPT !.status = "draft", !.revision = newest, !.excluded = kept]
    <3>1. u \in Operation /\ u.results = Empty /\ u.reserved = copy[p].reserved
      BY <1>0, WriteTypes
    <3>2. op' = Stamped(w)
      BY <1>3, <2>1 DEF ReplaceTargets
    <3>3. op'.results = Empty /\ op'.reserved = copy[p].reserved /\ op'.stamp = op.stamp + 1
      <4> HIDE DEF u, kept, newest
      <4>1. QED
        BY <3>1, <3>2 DEF Stamped, Operation
    <3>4. pc'[p] = "idle"
      BY <1>0, <1>3, EndIdle DEF ReplaceTargets
    <3>5. IsEditable(copy[p])
      BY <1>3 DEF ReplaceTargets, OInv, InHand
    <3>6. QED
      BY <1>3, <2>1, <3>3, <3>4, <3>5
         DEF ReplaceTargets, MayWrite, IsEditable, Shape, Edits, Writes
  <2>2. CASE ~MayWrite(p)
    BY <1>0, <1>3, <2>2, EndIdle DEF ReplaceTargets, Shape, Quiet
  <2>3. QED
    BY <2>1, <2>2
<1>4. QED
  BY <1>1, <1>2, <1>3 DEF Edit, UpdateDraft

\* The same of the steps of a validation.
LEMMA ShapeValidate ==
  ASSUME OInv, NEW p \in Staff, Validate(p)
  PROVE  Shape(p)
<1>0. /\ TypeOK /\ copy[p] \in Operation /\ op \in Operation
      /\ copy[p].excluded \in Exclusions /\ seen[p] \in SUBSET Members
  BY DEF OInv, TypeOK, Operation
<1>1. CASE ReadToValidate(p) \/ ReadTargets(p) \/ AfterValidation(p)
  <2>1. pc'[p] # "lookup"
    BY <1>0, <1>1, EndIdle DEF ReadToValidate, ReadToWrite, ReadTargets, AfterValidation,
                                GoTo, TypeOK
  <2>2. QED
    BY <1>1, <2>1 DEF ReadToValidate, ReadToWrite, ReadTargets, AfterValidation, stored,
                      Shape, Quiet
<1>2. CASE StartValidation(p)
  <2>1. CASE MayWrite(p)
    <3> DEFINE u == Unvalidated(copy[p])
               w == [u EXCEPT !.status = "validating"]
    <3>1. u \in Operation /\ u.results = Empty /\ u.reserved = copy[p].reserved
      BY <1>0, WriteTypes
    <3>2. op' = Stamped(w)
      BY <1>2, <2>1 DEF StartValidation
    <3> HIDE DEF u
    <3>3. /\ op'.results = Empty /\ op'.reserved = copy[p].reserved
          /\ op'.stamp = op.stamp + 1 /\ op'.status = "validating"
      BY <3>1, <3>2 DEF Stamped, Operation
    <3>4. copy'[p] = op' /\ seen'[p] = seen[p]
      BY <1>0, <1>2, <2>1 DEF StartValidation, TypeOK
    <3>5. IsEditable(copy[p]) /\ targets = seen[p]
      BY <1>2, <2>1 DEF StartValidation, MayWrite, OInv, InHand
    <3>6. QED
      BY <1>2, <2>1, <3>3, <3>4, <3>5
         DEF StartValidation, MayWrite, IsEditable, Shape, Starts, Writes
  <2>2. CASE ~MayWrite(p)
    BY <1>0, <1>2, <2>2, EndIdle DEF StartValidation, Shape, Quiet
  <2>3. QED
    BY <2>1, <2>2
<1>3. CASE NoSelectedTargets(p)
  <2> DEFINE s == [NoSummary EXCEPT !.flaw = "job", !.validated = copy[p].stamp]
  <2>1. s \in Summary /\ s.results = Empty
    BY <1>0, EmptyTypes DEF Summary, Operation, NoSummary
  <2>2. Finish(p, "draft", s, copy[p].excluded, seen[p])
    BY <1>3 DEF NoSelectedTargets
  <2> HIDE DEF s
  <2>3. QED
    BY <2>1, <2>2, FinishShape
<1>4. ASSUME NEW verdict \in [Members -> Linkages \cup Refusals], NEW flaw \in Flaws,
             Conclude(p, verdict, flaw)
      PROVE  Shape(p)
  <2> DEFINE r == ResultsOf(seen[p], verdict, flaw, copy[p].excluded)
             again == flaw = "version" \/ Differs(seen[p], verdict, copy[p].excluded)
             s == [results |-> r, flaw |-> flaw, reconfirm |-> again,
                   validated |-> copy[p].stamp]
             e == Exclude(copy[p].excluded, Latched(seen[p], verdict, flaw), r)
  <2>1. r \in Results /\ DOMAIN r = seen[p]
    BY <1>0, ResultsType
  <2>2. again \in BOOLEAN
    BY DEF Differs
  <2>3. s \in Summary /\ s.results = r
    <3> HIDE DEF r, again
    <3>1. QED
      BY <1>0, <2>1, <2>2 DEF Summary, Operation
  <2>4. Finish(p, "ready", s, e, seen[p])
    BY <1>4 DEF Conclude
  <2> HIDE DEF s, e
  <2>5. QED
    BY <2>1, <2>3, <2>4, FinishShape
<1>5. CASE JobNotFound(p) \/ ExternalSystemUnavailable(p)
  <2>1. /\ AllBlocked(p) \in Summary
        /\ AllBlocked(p).results # Empty => DOMAIN AllBlocked(p).results = seen[p]
    <3> DEFINE r == IF Automatic THEN [m \in seen[p] |-> "block"] ELSE Empty
    <3>1. [m \in seen[p] |-> "block"] \in Results
      BY <1>0, InFunctions DEF Results, Disposition
    <3>2. r \in Results /\ (r # Empty => DOMAIN r = seen[p])
      BY <3>1, EmptyTypes
    <3>3. AllBlocked(p) = [NoSummary EXCEPT !.results = r, !.flaw = "job",
                                            !.validated = copy[p].stamp]
      BY DEF AllBlocked
    <3> HIDE DEF r
    <3>4. QED
      BY <1>0, <3>2, <3>3, EmptyTypes DEF Summary, Operation
  <2>2. ASSUME ExternalSystemUnavailable(p)
        PROVE  targets = seen[p]
    BY <2>2 DEF ExternalSystemUnavailable, Finish, OInv, SoleValidator
  <2>3. QED
    BY <1>5, <2>1, <2>2, FinishShape DEF JobNotFound, ExternalSystemUnavailable
<1>6. CASE RestoreStatus(p)
  <2>1. pc'[p] # "lookup"
    BY <1>0, <1>6, EndIdle DEF RestoreStatus
  <2>2. CASE MayWrite(p)
    <3> DEFINE w == [copy[p] EXCEPT !.status = origin[p]]
    <3>1. op' = Stamped(w)
      BY <1>6, <2>2 DEF RestoreStatus
    <3>2. /\ op'.results = copy[p].results /\ op'.reserved = copy[p].reserved
          /\ op'.stamp = op.stamp + 1
      BY <1>0, <3>1 DEF Stamped, Operation
    <3>3. op.results # Empty => DOMAIN op.results = targets
      BY DEF OInv, PopulationAgrees
    <3>4. QED
      BY <1>6, <2>1, <2>2, <3>2, <3>3
         DEF RestoreStatus, MayWrite, Shape, Finishes, Writes
  <2>3. CASE ~MayWrite(p)
    BY <1>6, <2>1, <2>3 DEF RestoreStatus, Shape, Quiet
  <2>4. QED
    BY <2>2, <2>3
<1>7. QED
  BY <1>1, <1>2, <1>3, <1>4, <1>5, <1>6 DEF Validate

\* Confirmations are quiet.
LEMMA ShapeConfirm ==
  ASSUME OInv, NEW p \in Staff, Confirm(p)
  PROVE  Shape(p)
<1>0. TypeOK
  BY DEF OInv
<1>1. pc'[p] # "lookup"
  BY <1>0, EndIdle DEF Confirm, ReadToRespond, ReadToView, ReadOperation, Respond,
                       ReadTargetsToView, View, GoTo, TypeOK
<1>2. UNCHANGED stored
  BY DEF Confirm, ReadToRespond, ReadToView, ReadOperation, Respond, ReadTargetsToView,
         View, stored
<1>3. QED
  BY <1>1, <1>2 DEF stored, Shape, Quiet

\* Of the steps of a send only the reservation writes.
LEMMA ShapeSend ==
  ASSUME OInv, NEW p \in Staff, Send(p)
  PROVE  Shape(p)
<1>0. TypeOK /\ copy[p] \in Operation /\ op \in Operation
  BY DEF OInv, TypeOK
<1>1. CASE ReadToSend(p) \/ CheckConfirmation(p) \/ CompareConfirmation(p)
  <2>1. pc'[p] # "lookup"
    BY <1>0, <1>1, EndIdle DEF ReadToSend, CheckConfirmation, CompareConfirmation, GoTo, TypeOK
  <2>2. QED
    BY <1>1, <2>1 DEF ReadToSend, CheckConfirmation, CompareConfirmation, stored, Shape, Quiet
<1>2. CASE Reserve(p)
  <2>1. pc'[p] = "idle"
    BY <1>0, <1>2, EndIdle DEF Reserve
  <2>2. CASE MayReserve(p)
    <3> DEFINE w == [copy[p] EXCEPT !.reserved = TRUE]
    <3>1. op' = Stamped(w)
      BY <1>2, <2>2 DEF Reserve
    <3>2. op'.results = copy[p].results /\ op'.reserved /\ op'.stamp = op.stamp + 1
      BY <1>0, <3>1 DEF Stamped, Operation
    <3>3. /\ copy[p].status = "ready" /\ copy[p].results = summary[p].results
          /\ Sends(copy[p].results) # {} /\ Blocks(copy[p].results) = {}
      BY <1>2 DEF Reserve, OInv, InHand
    <3>4. /\ deliveries' = DeliveriesOf(op.results) /\ DOMAIN outbox' = Sends(op.results)
          /\ UNCHANGED targets
      BY <1>2, <2>2, <3>3 DEF Reserve, MayReserve
    <3>5. QED
      BY <2>1, <2>2, <3>2, <3>3, <3>4 DEF MayReserve, Shape, Reserves, Writes
  <2>3. CASE ~MayReserve(p)
    BY <1>2, <2>1, <2>3 DEF Reserve, Shape, Quiet
  <2>4. QED
    BY <2>2, <2>3
<1>3. QED
  BY <1>1, <1>2 DEF Send

\* Every step of a request is one of the five.
LEMMA ShapeStep ==
  ASSUME OInv, NEW p \in Staff, BeginRequest(p) \/ Serve(p) \/ Refuse(p) \/ Crash(p)
  PROVE  Shape(p)
<1>0. TypeOK
  BY DEF OInv
<1>1. CASE BeginRequest(p)
  <2>1. pc'[p] # "lookup" /\ UNCHANGED stored
    BY <1>0, <1>1 DEF BeginRequest, Begin, GoTo, TypeOK
  <2>2. QED
    BY <2>1 DEF stored, Shape, Quiet
<1>2. CASE Refuse(p) \/ Crash(p)
  BY <1>0, <1>2, EndIdle DEF Refuse, Crash, stored, Shape, Quiet
<1>3. QED
  BY <1>1, <1>2, ShapeEdit, ShapeValidate, ShapeConfirm, ShapeSend DEF Serve

-----------------------------------------------------------------------------
(* What a request takes into its hands *)

InHandOf(p) ==
  /\ copy[p].stamp \in 1..op.stamp
  /\ pc[p] \in {"edit_write", "replace_write", "validate_targets", "validate_start"}
       => IsEditable(copy[p])
  /\ pc[p] = "validate_start" /\ op = copy[p] => targets = seen[p]
  /\ pc[p] = "reserve" =>
       /\ copy[p].status = "ready"
       /\ copy[p].results = summary[p].results
       /\ Sends(copy[p].results) # {} /\ Blocks(copy[p].results) = {}

\* No step takes a stamp back.
LEMMA StampGrows ==
  ASSUME OInv, NEW p \in Staff, Shape(p)
  PROVE  /\ op'.stamp \in Nat /\ op'.stamp >= op.stamp /\ op'.stamp >= 1
         /\ (op' = op /\ targets' = targets) \/ op'.stamp = op.stamp + 1
<1>1. op.stamp \in Nat /\ op.stamp >= 1
  BY DEF OInv, TypeOK, InHand, Operation
<1>2. QED
  BY <1>1 DEF Shape, Quiet, Edits, Starts, Finishes, Reserves, Writes

\* A request that has stepped holds what InHand says.
LEMMA HandsOfStepper ==
  ASSUME OInv, NEW p \in Staff, BeginRequest(p) \/ Serve(p) \/ Refuse(p) \/ Crash(p)
  PROVE  InHandOf(p)'
<1>0. /\ TypeOK /\ copy[p] \in Operation /\ op \in Operation /\ InHandOf(p)
      /\ copy[p].stamp \in Nat /\ op.stamp \in Nat
  BY DEF OInv, TypeOK, InHand, InHandOf, Operation
<1>1. /\ op'.stamp \in Nat /\ op'.stamp >= op.stamp /\ op'.stamp >= 1
      /\ op.stamp \in 1..op'.stamp
  <2>1. Shape(p)
    BY ShapeStep
  <2>2. QED
    BY <1>0, <2>1, StampGrows DEF InHandOf
<1>2. ASSUME End(p) PROVE InHandOf(p)'
  <2>1. pc'[p] = "idle" /\ copy'[p].stamp = 1
    BY <1>0, <1>2, EndIdle DEF Created
  <2>2. QED
    BY <1>1, <2>1 DEF InHandOf
<1>3. ASSUME pc'[p] \notin {"edit_write", "replace_write", "validate_targets",
                            "validate_start", "reserve"},
             copy'[p] \in {copy[p], op, op'}
      PROVE  InHandOf(p)'
  <2>1. copy'[p].stamp \in 1..op'.stamp
    BY <1>0, <1>1, <1>3 DEF InHandOf
  <2>2. QED
    BY <1>3, <2>1 DEF InHandOf
<1>4. ASSUME NEW place, NEW next \in {"edit_write", "replace_write", "validate_targets"},
             ReadToWrite(p, place, next)
      PROVE  InHandOf(p)'
  <2>1. CASE IsEditable(op)
    <3>1. copy'[p] = op /\ pc'[p] = next
      BY <1>0, <1>4, <2>1 DEF ReadToWrite, GoTo, TypeOK
    <3>2. IsEditable(copy'[p])
      BY <2>1, <3>1
    <3>3. IsEditable(copy[p])'
      BY <3>2 DEF IsEditable
    <3>4. QED
      BY <1>1, <3>1, <3>3 DEF InHandOf
  <2>2. CASE ~IsEditable(op)
    BY <1>2, <1>4, <2>2 DEF ReadToWrite
  <2>3. QED
    BY <2>1, <2>2
<1>5. CASE BeginRequest(p)
  <2>1. pc'[p] \in {"edit", "replace", "validate", "send", "view"} /\ copy'[p] = copy[p]
    BY <1>0, <1>5 DEF BeginRequest, Begin, GoTo, TypeOK
  <2>2. QED
    BY <1>3, <2>1
<1>6. CASE Edit(p)
  BY <1>2, <1>4, <1>6 DEF Edit, ReadDraft, ReadForTargets, UpdateDraft, ReplaceTargets
<1>7. CASE Validate(p)
  <2>1. CASE ReadToValidate(p)
    BY <1>4, <2>1 DEF ReadToValidate
  <2>2. CASE ReadTargets(p)
    <3>1. CASE DOMAIN deliveries = {}
      <4>1. /\ pc[p] = "validate_targets" /\ pc'[p] = "validate_start"
            /\ copy'[p] = copy[p] /\ seen'[p] = targets'
        BY <1>0, <2>2, <3>1 DEF ReadTargets, GoTo, TypeOK, stored
      <4>2. IsEditable(copy[p])'
        BY <1>0, <4>1 DEF InHandOf, IsEditable
      <4>3. copy'[p].stamp \in 1..op'.stamp
        BY <1>0, <1>1, <4>1 DEF InHandOf
      <4>4. QED
        BY <4>1, <4>2, <4>3 DEF InHandOf
    <3>2. CASE DOMAIN deliveries # {}
      BY <1>2, <2>2, <3>2 DEF ReadTargets
    <3>3. QED
      BY <3>1, <3>2
  <2>3. CASE StartValidation(p)
    <3>1. ASSUME ~End(p)
          PROVE  pc'[p] = "lookup" /\ copy'[p] = op'
      BY <1>0, <2>3, <3>1 DEF StartValidation, GoTo, TypeOK
    <3>2. QED
      BY <1>2, <1>3, <3>1
  <2>4. ASSUME NEW status, NEW s, NEW excluded, NEW S, Finish(p, status, s, excluded, S)
        PROVE  InHandOf(p)'
    <3>1. ASSUME ~End(p)
          PROVE  pc'[p] \in {"reread", "validated"} /\ copy'[p] = copy[p]
      BY <1>0, <2>4, <3>1 DEF Finish, GoTo, TypeOK
    <3>2. QED
      BY <1>2, <1>3, <3>1
  <2>5. CASE NoSelectedTargets(p) \/ JobNotFound(p) \/ ExternalSystemUnavailable(p)
    BY <2>4, <2>5 DEF NoSelectedTargets, JobNotFound, ExternalSystemUnavailable
  <2>6. ASSUME NEW verdict, NEW flaw, Conclude(p, verdict, flaw)
        PROVE  InHandOf(p)'
    BY <2>4, <2>6 DEF Conclude
  <2>7. CASE RestoreStatus(p)
    BY <1>2, <2>7 DEF RestoreStatus
  <2>8. CASE AfterValidation(p)
    <3>1. ASSUME ~End(p)
          PROVE  pc'[p] \in {"validate", "respond"} /\ copy'[p] = copy[p]
      BY <1>0, <2>8, <3>1 DEF AfterValidation, GoTo, TypeOK
    <3>2. QED
      BY <1>2, <1>3, <3>1
  <2>9. QED
    BY <1>7, <2>1, <2>2, <2>3, <2>5, <2>6, <2>7, <2>8 DEF Validate
<1>8. CASE Confirm(p)
  <2>1. ASSUME ~End(p)
        PROVE  /\ pc'[p] \in {"respond_targets", "view_targets", "view_answer"}
               /\ copy'[p] \in {copy[p], op}
    BY <1>0, <1>8, <2>1 DEF Confirm, ReadToRespond, ReadToView, ReadOperation, Respond,
                            ReadTargetsToView, View, GoTo, TypeOK
  <2>2. QED
    BY <1>2, <1>3, <2>1
<1>9. CASE Send(p)
  <2>1. CASE ReadToSend(p) \/ CheckConfirmation(p) \/ Reserve(p)
    <3>1. ASSUME ~End(p)
          PROVE  pc'[p] \in {"send_check", "validate"} /\ copy'[p] \in {copy[p], op}
      BY <1>0, <2>1, <3>1 DEF ReadToSend, CheckConfirmation, Reserve, GoTo, TypeOK
    <3>2. QED
      BY <1>2, <1>3, <3>1
  <2>2. CASE CompareConfirmation(p)
    <3>1. ASSUME ~End(p)
          PROVE  /\ pc'[p] = "reserve" /\ copy'[p] = op /\ summary'[p] = summary[p]
                 /\ op.status = "ready" /\ op.results = summary[p].results
                 /\ Sends(op.results) # {} /\ Blocks(op.results) = {}
      BY <1>0, <2>2, <3>1 DEF CompareConfirmation, StillValidated, CanProceed, GoTo, TypeOK
    <3>2. CASE ~End(p)
      <4>1. Sends(copy[p].results)' # {} /\ Blocks(copy[p].results)' = {}
        BY <3>1, <3>2 DEF Sends, Blocks
      <4>2. QED
        BY <1>1, <3>1, <3>2, <4>1 DEF InHandOf
    <3>3. QED
      BY <1>2, <3>2
  <2>3. QED
    BY <1>9, <2>1, <2>2 DEF Send
<1>10. CASE Refuse(p) \/ Crash(p)
  BY <1>2, <1>10 DEF Refuse, Crash
<1>11. QED
  BY <1>5, <1>6, <1>7, <1>8, <1>9, <1>10 DEF Serve

-----------------------------------------------------------------------------
(* The invariant *)

\* The initial state satisfies the invariant.
LEMMA OInvInit == Init => OInv
<1> SUFFICES ASSUME Init PROVE OInv
  OBVIOUS
<1>1. TypeOK
  BY TypeInit
<1>2. InHand
  BY DEF Init, InHand, Created
<1>3. SoleValidator
  BY DEF Init, SoleValidator
<1>4. PopulationAgrees
  BY EmptyTypes DEF Init, PopulationAgrees, Created
<1>5. QED
  BY <1>1, <1>2, <1>3, <1>4 DEF OInv

\* What a step of one request does to the four parts.
LEMMA RequestStep ==
  ASSUME OInv, NEW p \in Staff, BeginRequest(p) \/ Serve(p) \/ Refuse(p) \/ Crash(p)
  PROVE  InHand' /\ SoleValidator' /\ PopulationAgrees'
<1>0. TypeOK /\ op.stamp \in Nat /\ \A q \in Staff : copy[q].stamp \in Nat
  BY DEF OInv, TypeOK, Operation
<1>1. Shape(p)
  BY ShapeStep
<1>2. /\ op'.stamp \in Nat /\ op'.stamp >= op.stamp
      /\ (op' = op /\ targets' = targets) \/ op'.stamp = op.stamp + 1
  BY <1>1, StampGrows
<1>3. \A q \in Staff \ {p} : /\ pc'[q] = pc[q] /\ copy'[q] = copy[q]
                             /\ seen'[q] = seen[q] /\ summary'[q] = summary[q]
  BY <1>0, OthersKeep
<1>4. InHand'
  <2>1. ASSUME NEW q \in Staff \ {p}
        PROVE  InHandOf(q)'
    <3>1. InHandOf(q)
      BY DEF OInv, InHand, InHandOf
    <3>2. copy'[q].stamp \in 1..op'.stamp
      BY <1>0, <1>2, <1>3, <3>1 DEF InHandOf
    <3>3. ASSUME pc'[q] = "validate_start", op' = copy'[q]
          PROVE  targets' = seen'[q]
      BY <1>0, <1>2, <1>3, <3>1, <3>3 DEF InHandOf
    <3>4. ASSUME pc'[q] \in {"edit_write", "replace_write", "validate_targets",
                             "validate_start"}
          PROVE  IsEditable(copy[q])'
      BY <1>3, <3>1, <3>4 DEF InHandOf, IsEditable
    <3>5. ASSUME pc'[q] = "reserve"
          PROVE  /\ copy'[q].status = "ready" /\ copy'[q].results = summary'[q].results
                 /\ Sends(copy[q].results)' # {} /\ Blocks(copy[q].results)' = {}
      BY <1>3, <3>1, <3>5 DEF InHandOf, Sends, Blocks
    <3>6. QED
      BY <3>2, <3>3, <3>4, <3>5 DEF InHandOf
  <2>2. InHandOf(p)'
    BY HandsOfStepper
  <2>3. QED
    BY <2>1, <2>2 DEF InHand, InHandOf
<1>5. SoleValidator'
  <2>1. ASSUME NEW q \in Staff \ {p}, pc'[q] = "lookup"
        PROVE  /\ op' = copy'[q] /\ op'.status = "validating" /\ targets' = seen'[q]
               /\ pc'[p] # "lookup"
    <3>1. /\ op = copy[q] /\ op.status = "validating" /\ targets = seen[q]
          /\ pc[p] # "lookup"
      BY <1>3, <2>1 DEF OInv, SoleValidator
    <3>2. Quiet(p)
      BY <1>1, <3>1 DEF Shape, Edits, Starts, Finishes, Reserves, Editable
    <3>3. QED
      BY <1>3, <3>1, <3>2 DEF Quiet
  <2>2. ASSUME pc'[p] = "lookup"
        PROVE  op' = copy'[p] /\ op'.status = "validating" /\ targets' = seen'[p]
    BY <1>1, <2>2 DEF Shape, Quiet, Edits, Starts, Finishes, Reserves
  <2>3. \A q, r \in Staff \ {p} : q # r => ~(pc'[q] = "lookup" /\ pc'[r] = "lookup")
    BY <1>3 DEF OInv, SoleValidator
  <2>4. QED
    BY <2>1, <2>2, <2>3 DEF SoleValidator
<1>6. PopulationAgrees'
  <2>0. PopulationAgrees
    BY DEF OInv
  <2>1. CASE Quiet(p)
    BY <2>0, <2>1 DEF Quiet, PopulationAgrees, Sends
  <2>2. CASE Edits(p) \/ Starts(p) \/ Finishes(p)
    BY <2>0, <2>2 DEF Edits, Starts, Finishes, Writes, PopulationAgrees, Sends
  <2>3. CASE Reserves(p)
    <3>1. op.results # Empty
      BY <2>3, EmptyTypes DEF Reserves, Sends
    <3>2. DOMAIN op.results = targets
      BY <2>0, <3>1 DEF PopulationAgrees
    <3>3. /\ DOMAIN deliveries' = targets
          /\ \A m \in targets : deliveries'[m] = "pending" <=> m \in Sends(op.results)
      BY <2>3, <3>2 DEF Reserves, DeliveriesOf
    <3>4. Sends(op.results) \subseteq targets /\ targets # {}
      BY <2>3, <3>2 DEF Sends, Reserves
    <3>5. DOMAIN outbox' = {m \in targets : deliveries'[m] = "pending"}
      BY <2>3, <3>3, <3>4 DEF Reserves
    <3>6. Sends(op'.results) = Sends(op.results)
      BY <2>3 DEF Reserves, Sends
    <3>7. QED
      BY <2>3, <3>2, <3>3, <3>4, <3>5, <3>6 DEF Reserves, PopulationAgrees, Sends
  <2>4. QED
    BY <1>1, <2>1, <2>2, <2>3 DEF Shape
<1>7. QED
  BY <1>4, <1>5, <1>6

\* The execution touches only the status of a reserved operation.
LEMMA ExecuteStep ==
  ASSUME OInv, Execute
  PROVE  InHand' /\ SoleValidator' /\ PopulationAgrees'
<1>0. TypeOK /\ op \in Operation /\ op.stamp \in Nat /\ \A q \in Staff : copy[q].stamp \in Nat
  BY DEF OInv, TypeOK, Operation
<1>1. /\ op'.stamp = op.stamp + 1 /\ op'.results = op.results /\ op'.reserved = op.reserved
      /\ op.status \in {"ready", "sending"}
  BY <1>0 DEF Execute, Stamped, Operation
<1>2. UNCHANGED <<targets, deliveries, outbox, pc, copy, seen, summary>>
  BY DEF Execute, request
<1>3. InHand'
  BY <1>0, <1>1, <1>2 DEF OInv, InHand, IsEditable, Sends, Blocks
<1>4. SoleValidator'
  BY <1>1, <1>2 DEF OInv, SoleValidator
<1>5. PopulationAgrees'
  BY <1>1, <1>2 DEF OInv, PopulationAgrees, Sends
<1>6. QED
  BY <1>3, <1>4, <1>5

\* The invariant is inductive.
LEMMA OInvStep == OInv /\ [Next]_vars => OInv'
<1> SUFFICES ASSUME OInv, [Next]_vars PROVE OInv'
  OBVIOUS
<1>1. TypeOK'
  BY TypeStep DEF OInv
<1>2. CASE UNCHANGED vars
  BY <1>1, <1>2 DEF vars, OInv, InHand, SoleValidator, PopulationAgrees, IsEditable,
                    Sends, Blocks
<1>3. ASSUME NEW p \in Staff, BeginRequest(p) \/ Serve(p) \/ Refuse(p) \/ Crash(p)
      PROVE  OInv'
  BY <1>1, <1>3, RequestStep DEF OInv
<1>4. CASE Execute
  BY <1>1, <1>4, ExecuteStep DEF OInv
<1>5. QED
  BY <1>2, <1>3, <1>4 DEF Next

-----------------------------------------------------------------------------
(* Theorems *)

\* The invariant holds in every reachable state.
LEMMA OInvAlways == Spec => []OInv
<1>1. Init => OInv
  BY OInvInit
<1>2. OInv /\ [Next]_vars => OInv'
  BY OInvStep
<1>3. QED
  BY <1>1, <1>2, PTL DEF Spec

\* Every variable keeps its type: what validations latch, store and show.
THEOREM TypeInvariant == Spec => []TypeOK
<1>1. OInv => TypeOK
  BY DEF OInv
<1>2. QED
  BY <1>1, OInvAlways, PTL

\* What a request of the services holds between two of its repository calls is
\* a state the operation was in and its next call may start from.
THEOREM HandsAlwaysGood == Spec => []InHand
<1>1. OInv => InHand
  BY DEF OInv
<1>2. QED
  BY <1>1, OInvAlways, PTL

\* The status "validating" and the comparison under the row lock make a
\* validation the only writer of its operation and targets until it is over,
\* whatever the other staff members do.
THEOREM ValidatorAlwaysSole == Spec => []SoleValidator
<1>1. OInv => SoleValidator
  BY DEF OInv
<1>2. QED
  BY <1>1, OInvAlways, PTL

\* The stored results are always of the stored targets, and a reservation's
\* deliveries and commands are exactly those the results call for.
THEOREM PopulationAlwaysAgrees == Spec => []PopulationAgrees
<1>1. OInv => PopulationAgrees
  BY DEF OInv
<1>2. QED
  BY <1>1, OInvAlways, PTL

Frozen ==
  op.reserved =>
    /\ UNCHANGED <<targets, deliveries, outbox, confirmed>>
    /\ op' = [op EXCEPT !.status = op'.status, !.stamp = op'.stamp]
    /\ op'.status \in {op.status, "sending", "completed"}

\* No step of any request changes a reserved operation; the execution changes
\* its status.
LEMMA FrozenStep == OInv /\ [Next]_vars => Frozen
<1> SUFFICES ASSUME OInv, [Next]_vars, op.reserved PROVE Frozen
  BY DEF Frozen
<1>0. op \in Operation /\ op = [op EXCEPT !.status = op.status, !.stamp = op.stamp]
  BY DEF OInv, TypeOK, Operation
<1>1. CASE UNCHANGED vars
  BY <1>0, <1>1 DEF Frozen, vars
<1>2. ASSUME NEW p \in Staff, BeginRequest(p) \/ Serve(p) \/ Refuse(p) \/ Crash(p)
      PROVE  Frozen
  <2>1. UNCHANGED <<op, targets, deliveries, outbox>>
    BY <1>2, ShapeStep DEF Shape, Quiet, Edits, Starts, Finishes, Reserves, Writes
  <2>2. UNCHANGED confirmed
    <3>1. CASE BeginRequest(p) \/ Refuse(p) \/ Crash(p)
      BY <3>1 DEF BeginRequest, Begin, Refuse, Crash, stored
    <3>2. CASE Edit(p)
      BY <3>2 DEF Edit, ReadDraft, ReadForTargets, ReadToWrite, UpdateDraft,
                  ReplaceTargets, stored
    <3>3. CASE Validate(p)
      BY <3>3 DEF Validate, ReadToValidate, ReadToWrite, ReadTargets, StartValidation,
                  NoSelectedTargets, Conclude, JobNotFound, ExternalSystemUnavailable,
                  Finish, RestoreStatus, AfterValidation, stored
    <3>4. CASE Confirm(p)
      BY <3>4 DEF Confirm, ReadToRespond, ReadToView, ReadOperation, Respond,
                  ReadTargetsToView, View, stored
    <3>5. CASE Send(p)
      BY <3>5 DEF Send, ReadToSend, CheckConfirmation, CompareConfirmation, Reserve,
                  MayReserve, stored
    <3>6. QED
      BY <1>2, <3>1, <3>2, <3>3, <3>4, <3>5 DEF Serve
  <2>3. QED
    BY <1>0, <2>1, <2>2 DEF Frozen
<1>3. CASE Execute
  <2>1. PICK st \in {"sending", "completed"} : op' = Stamped([op EXCEPT !.status = st])
    BY <1>3 DEF Execute
  <2>2. op' = [op EXCEPT !.status = st, !.stamp = op.stamp + 1]
    BY <2>1 DEF Stamped
  <2>3. op'.status = st /\ op'.stamp = op.stamp + 1
    BY <1>0, <2>2 DEF Operation
  <2>4. QED
    BY <1>3, <2>2, <2>3 DEF Frozen, Execute
<1>4. QED
  BY <1>1, <1>2, <1>3 DEF Next

\* Nothing of a reservation is ever changed by an editor, a validation or a
\* sender that still holds what it read before: each of them fails.
THEOREM ReservationFrozen == Spec => FrozenOnceReserved
<1>1. OInv /\ [Next]_vars => [Frozen]_vars
  BY FrozenStep
<1>2. QED
  BY <1>1, OInvAlways, PTL DEF Spec, FrozenOnceReserved, Frozen

-----------------------------------------------------------------------------
(* What is reserved and what has been shown *)


\* The time of a validation names it: what a request has found, what it has
\* read and what is stored have the same results if they are of the same time,
\* and the next validation gets a time nobody holds yet.
ValidationIsNamed ==
  /\ op.validated < op.stamp
  /\ op.validated = NoStamp => op.results = Empty
  /\ \A p \in Staff :
       /\ copy[p].validated < op.stamp /\ summary[p].validated < op.stamp
       /\ copy[p].message <= op.message
       /\ summary[p].validated = NoStamp => summary[p].results = Empty
       /\ op.validated = summary[p].validated => op.results = summary[p].results
       /\ copy[p].validated = summary[p].validated
            => copy[p].results = summary[p].results

\* A token shows the results of the operation it stands for, and a request that
\* is about to reserve has compared what it has read with its token.
TokenIsCompared ==
  \A p \in Staff :
    /\ token[p].shown = token[p].op.results
    /\ DOMAIN token[p].shown = token[p].targets
    /\ token[p] # NoToken => Sends(token[p].shown) # {}
    /\ pc[p] = "reserve" =>
         /\ SendsOf(copy[p].results) = SendsOf(token[p].shown)
         /\ DOMAIN copy[p].results = token[p].targets
         /\ copy[p].message = token[p].op.message
         /\ Cardinality(DOMAIN copy[p].results) <= RecipientLimit

\* Only automatic operations record exclusions; each replacement of the targets
\* gets a new revision; before the reservation there are no commands.
ExclusionsKept ==
  /\ ~Automatic => DOMAIN op.excluded = {}
  /\ op.revision <= op.stamp
  /\ ~op.reserved => outbox = Empty
  /\ ExcludedNotSent

SInv == OInv /\ ValidationIsNamed /\ TokenIsCompared /\ ExclusionsKept
          /\ ReservedIsConfirmed /\ WithinLimit
-----------------------------------------------------------------------------
(* What a step does to what is stored and to what its request holds *)

Answered(p) == copy'[p] = Created /\ summary'[p] = NoSummary
Holds(p) == summary'[p] = summary[p] /\ copy'[p] \in {copy[p], op}

\* The three kinds of writes, by what they do to the stored validation.
Discards(p) ==
  /\ op'.validated = NoStamp /\ op'.results = Empty
  /\ Answered(p) \/ (copy'[p] = op' /\ summary'[p] = summary[p])
Restores(p) ==
  /\ op'.validated = op.validated /\ op'.results = op.results
  /\ Answered(p)
Validates(p) ==
  /\ op'.validated = op.stamp
  /\ summary'[p].validated = op.stamp /\ op'.results = summary'[p].results
  /\ copy'[p] = copy[p]

Moves(p) ==
  \/ op' = op /\ (Answered(p) \/ Holds(p))
  \/ /\ op'.stamp = op.stamp + 1
     /\ \/ op'.message = op.message
        \/ op'.message = op.message + 1 /\ UNCHANGED targets
     /\ Discards(p) \/ Restores(p) \/ Validates(p)

\* An answered request holds nothing any more.
LEMMA EndAnswers ==
  ASSUME TypeOK, NEW p \in Staff, End(p)
  PROVE  Answered(p)
BY DEF TypeOK, End, Forget, Answered

\* Edits discard the validation.
LEMMA MovesEdit ==
  ASSUME OInv, NEW p \in Staff, Edit(p)
  PROVE  Moves(p)
<1>0. TypeOK /\ copy[p] \in Operation /\ op \in Operation
  BY DEF OInv, TypeOK
<1>1. CASE ReadDraft(p) \/ ReadForTargets(p)
  BY <1>0, <1>1, EndAnswers
     DEF ReadDraft, ReadForTargets, ReadToWrite, stored, Moves, Holds, TypeOK
<1>2. ASSUME NEW change \in {0, 1}, UpdateDraft(p, change)
      PROVE  Moves(p)
  <2>1. Answered(p)
    BY <1>0, <1>2, EndAnswers DEF UpdateDraft
  <2>2. CASE MayWrite(p)
    <3> DEFINE u == Unvalidated(copy[p])
               w == [u EXCEPT !.status = "draft", !.message = @ + change]
    <3>1. /\ u \in Operation /\ u.results = Empty /\ u.validated = NoStamp
          /\ u.message = copy[p].message
      BY <1>0, WriteTypes DEF Unvalidated, Operation
    <3>2. op' = Stamped(w) /\ op = copy[p]
      BY <1>2, <2>2 DEF UpdateDraft, MayWrite
    <3> HIDE DEF u
    <3>3. /\ op'.results = Empty /\ op'.validated = NoStamp /\ op'.stamp = op.stamp + 1
          /\ op'.message = op.message + change
      BY <3>1, <3>2 DEF Stamped, Operation
    <3>4. \/ op'.message = op.message
          \/ op'.message = op.message + 1 /\ UNCHANGED targets
      BY <1>0, <1>2, <3>3 DEF UpdateDraft, Operation
    <3>5. QED
      BY <2>1, <3>3, <3>4 DEF Moves, Discards
  <2>3. CASE ~MayWrite(p)
    BY <1>2, <2>1, <2>3 DEF UpdateDraft, Moves
  <2>4. QED
    BY <2>2, <2>3
<1>3. ASSUME NEW S, NEW R, ReplaceTargets(p, S, R)
      PROVE  Moves(p)
  <2>1. Answered(p)
    BY <1>0, <1>3, EndAnswers DEF ReplaceTargets
  <2>2. CASE MayWrite(p)
    <3> DEFINE u == Unvalidated(copy[p])
               kept == [m \in (DOMAIN u.excluded \cap S) \ R |-> u.excluded[m]]
               newest == IF Automatic THEN op.stamp + 1 ELSE u.revision
               w == [u EXCEPT !.status = "draft", !.revision = newest, !.excluded = kept]
    <3>1. /\ u \in Operation /\ u.results = Empty /\ u.validated = NoStamp
          /\ u.message = copy[p].message
      BY <1>0, WriteTypes DEF Unvalidated, Operation
    <3>2. op' = Stamped(w) /\ op = copy[p]
      BY <1>3, <2>2 DEF ReplaceTargets, MayWrite
    <3> HIDE DEF u, kept, newest
    <3>3. /\ op'.results = Empty /\ op'.validated = NoStamp /\ op'.stamp = op.stamp + 1
          /\ op'.message = op.message
      BY <3>1, <3>2 DEF Stamped, Operation
    <3>4. QED
      BY <2>1, <3>3 DEF Moves, Discards
  <2>3. CASE ~MayWrite(p)
    BY <1>3, <2>1, <2>3 DEF ReplaceTargets, Moves
  <2>4. QED
    BY <2>2, <2>3
<1>4. QED
  BY <1>1, <1>2, <1>3 DEF Edit

\* A validation that comes to a result is of the time it was started.
LEMMA MovesFinish ==
  ASSUME OInv, NEW p \in Staff, NEW status, NEW s, NEW excluded, NEW S,
         s.validated = copy[p].stamp, Finish(p, status, s, excluded, S)
  PROVE  Moves(p)
<1>0. TypeOK /\ copy[p] \in Operation /\ op \in Operation
  BY DEF OInv, TypeOK
<1>1. CASE MayWrite(p)
  <2> DEFINE kept == IF Automatic THEN excluded ELSE Empty
             can == CanProceed(s)
             w == [copy[p] EXCEPT
                     !.status = status, !.validated = s.validated, !.results = s.results,
                     !.proceed = can, !.reconfirm = s.reconfirm,
                     !.excluded = kept]
  <2>1. op' = Stamped(w) /\ op = copy[p]
    BY <1>1 DEF Finish, MayWrite
  <2>2. summary'[p] = s /\ copy'[p] = copy[p]
    BY <1>0, <1>1 DEF Finish, TypeOK
  <2> HIDE DEF kept, can
  <2>3. /\ op'.results = s.results /\ op'.validated = s.validated
        /\ op'.stamp = op.stamp + 1 /\ op'.message = op.message
    BY <1>0, <2>1 DEF Stamped, Operation
  <2>4. QED
    BY <2>1, <2>2, <2>3 DEF Moves, Validates
<1>2. CASE ~MayWrite(p)
  BY <1>0, <1>2, EndAnswers DEF Finish, Moves
<1>3. QED
  BY <1>1, <1>2

\* Starting a validation discards the one before; giving up keeps that.
LEMMA MovesValidate ==
  ASSUME OInv, NEW p \in Staff, Validate(p)
  PROVE  Moves(p)
<1>0. TypeOK /\ copy[p] \in Operation /\ op \in Operation
  BY DEF OInv, TypeOK
<1>1. CASE ReadToValidate(p) \/ ReadTargets(p) \/ AfterValidation(p)
  BY <1>0, <1>1, EndAnswers
     DEF ReadToValidate, ReadToWrite, ReadTargets, AfterValidation, stored, Moves, Holds, TypeOK
<1>2. CASE StartValidation(p)
  <2>1. CASE MayWrite(p)
    <3> DEFINE u == Unvalidated(copy[p])
               w == [u EXCEPT !.status = "validating"]
    <3>1. /\ u \in Operation /\ u.results = Empty /\ u.validated = NoStamp
          /\ u.message = copy[p].message
      BY <1>0, WriteTypes DEF Unvalidated, Operation
    <3>2. op' = Stamped(w) /\ op = copy[p]
      BY <1>2, <2>1 DEF StartValidation, MayWrite
    <3>3. copy'[p] = op' /\ summary'[p] = summary[p]
      BY <1>0, <1>2, <2>1 DEF StartValidation, TypeOK
    <3> HIDE DEF u
    <3>4. /\ op'.results = Empty /\ op'.validated = NoStamp /\ op'.stamp = op.stamp + 1
          /\ op'.message = op.message
      BY <3>1, <3>2 DEF Stamped, Operation
    <3>5. QED
      BY <3>3, <3>4 DEF Moves, Discards
  <2>2. CASE ~MayWrite(p)
    BY <1>0, <1>2, <2>2, EndAnswers DEF StartValidation, Moves
  <2>3. QED
    BY <2>1, <2>2
<1>3. CASE NoSelectedTargets(p)
  BY <1>3, MovesFinish DEF NoSelectedTargets, NoSummary
<1>4. ASSUME NEW verdict, NEW flaw, Conclude(p, verdict, flaw)
      PROVE  Moves(p)
  BY <1>4, MovesFinish DEF Conclude
<1>5. AllBlocked(p).validated = copy[p].stamp
  BY DEF AllBlocked, NoSummary
<1>6. CASE JobNotFound(p)
  BY <1>5, <1>6, MovesFinish DEF JobNotFound
<1>7. CASE ExternalSystemUnavailable(p)
  BY <1>5, <1>7, MovesFinish DEF ExternalSystemUnavailable
<1>8. CASE RestoreStatus(p)
  <2>1. Answered(p)
    BY <1>0, <1>8, EndAnswers DEF RestoreStatus
  <2>2. CASE MayWrite(p)
    <3>1. op' = Stamped([copy[p] EXCEPT !.status = origin[p]]) /\ op = copy[p]
      BY <1>8, <2>2 DEF RestoreStatus, MayWrite
    <3>2. /\ op'.results = op.results /\ op'.validated = op.validated
          /\ op'.stamp = op.stamp + 1 /\ op'.message = op.message
      BY <1>0, <3>1 DEF Stamped, Operation
    <3>3. QED
      BY <2>1, <3>2 DEF Moves, Restores
  <2>3. CASE ~MayWrite(p)
    BY <1>8, <2>1, <2>3 DEF RestoreStatus, Moves
  <2>4. QED
    BY <2>2, <2>3
<1>9. QED
  BY <1>1, <1>2, <1>3, <1>4, <1>6, <1>7, <1>8 DEF Validate

\* Answers and sends leave the stored validation alone.
LEMMA MovesConfirmSend ==
  ASSUME OInv, NEW p \in Staff, Confirm(p) \/ Send(p)
  PROVE  Moves(p)
<1>0. TypeOK /\ copy[p] \in Operation /\ op \in Operation
  BY DEF OInv, TypeOK
<1>1. CASE Confirm(p)
  BY <1>0, <1>1, EndAnswers
     DEF Confirm, ReadToRespond, ReadToView, ReadOperation, Respond, ReadTargetsToView,
         View, stored, Moves, Holds, TypeOK
<1>2. CASE ReadToSend(p) \/ CheckConfirmation(p) \/ CompareConfirmation(p)
  BY <1>0, <1>2, EndAnswers
     DEF ReadToSend, CheckConfirmation, CompareConfirmation, stored, Moves, Holds, TypeOK
<1>3. CASE Reserve(p)
  <2>1. Answered(p)
    BY <1>0, <1>3, EndAnswers DEF Reserve
  <2>2. CASE MayReserve(p)
    <3>1. op' = Stamped([copy[p] EXCEPT !.reserved = TRUE]) /\ op = copy[p]
      BY <1>3, <2>2 DEF Reserve, MayReserve
    <3>2. /\ op'.results = op.results /\ op'.validated = op.validated
          /\ op'.stamp = op.stamp + 1 /\ op'.message = op.message
      BY <1>0, <3>1 DEF Stamped, Operation
    <3>3. QED
      BY <2>1, <3>2 DEF Moves, Restores
  <2>3. CASE ~MayReserve(p)
    BY <1>3, <2>1, <2>3 DEF Reserve, Moves
  <2>4. QED
    BY <2>2, <2>3
<1>4. QED
  BY <1>1, <1>2, <1>3 DEF Send

\* Every step of a request moves in one of these ways.
LEMMA MovesStep ==
  ASSUME OInv, NEW p \in Staff, BeginRequest(p) \/ Serve(p) \/ Refuse(p) \/ Crash(p)
  PROVE  Moves(p)
<1>0. TypeOK
  BY DEF OInv
<1>1. CASE BeginRequest(p)
  BY <1>1 DEF BeginRequest, Begin, stored, Moves, Holds
<1>2. CASE Refuse(p) \/ Crash(p)
  BY <1>0, <1>2, EndAnswers DEF Refuse, Crash, stored, Moves
<1>3. QED
  BY <1>1, <1>2, MovesEdit, MovesValidate, MovesConfirmSend DEF Serve

-----------------------------------------------------------------------------
(* A validation is named by its time *)

\* The step of one request keeps ValidationIsNamed.
LEMMA NamedStep ==
  ASSUME OInv, ValidationIsNamed, NEW p \in Staff,
         BeginRequest(p) \/ Serve(p) \/ Refuse(p) \/ Crash(p)
  PROVE  ValidationIsNamed'
<1>0. /\ TypeOK /\ op.stamp \in Nat /\ op.stamp >= 1 /\ op.validated \in Nat
      /\ op.message \in Nat /\ op.message >= 1
      /\ \A q \in Staff : /\ copy[q].validated \in Nat /\ copy[q].message \in Nat
                           /\ summary[q].validated \in Nat
  BY BoundAssumption DEF OInv, TypeOK, InHand, Operation, Summary
<1>1. Moves(p)
  BY MovesStep
<1>2. \A q \in Staff \ {p} : copy'[q] = copy[q] /\ summary'[q] = summary[q]
  BY <1>0, OthersKeep
<1>3. /\ Created.validated = NoStamp /\ Created.message = 1 /\ Created.results = Empty
      /\ NoSummary.validated = NoStamp /\ NoSummary.results = Empty
  BY DEF Created, NoSummary
<1>4. NoStamp = 0
  BY DEF NoStamp
<1>5. CASE op' = op /\ (Answered(p) \/ Holds(p))
  BY <1>0, <1>2, <1>3, <1>4, <1>5 DEF ValidationIsNamed, Answered, Holds
<1>6. CASE /\ op'.stamp = op.stamp + 1
           /\ op'.message \in {op.message, op.message + 1}
           /\ Discards(p)
  BY <1>0, <1>2, <1>3, <1>4, <1>6 DEF ValidationIsNamed, Discards, Answered
<1>7. CASE /\ op'.stamp = op.stamp + 1
           /\ op'.message \in {op.message, op.message + 1}
           /\ Restores(p)
  BY <1>0, <1>2, <1>3, <1>4, <1>7 DEF ValidationIsNamed, Restores, Answered
<1>8. CASE /\ op'.stamp = op.stamp + 1
           /\ op'.message \in {op.message, op.message + 1}
           /\ Validates(p)
  BY <1>0, <1>2, <1>3, <1>4, <1>8 DEF ValidationIsNamed, Validates
<1>9. QED
  BY <1>1, <1>5, <1>6, <1>7, <1>8 DEF Moves
-----------------------------------------------------------------------------
(* What a step shows, and what it compares before a reservation *)

\* A token is given: it is for an operation that was read, of the targets that
\* are selected.
Shows(p) ==
  /\ \E o \in Operation :
       /\ o.message <= op.message
       /\ DOMAIN o.results = targets /\ Sends(o.results) # {}
       /\ token' = [token EXCEPT ![p] =
            [op |-> o, targets |-> targets, shown |-> o.results]]
  /\ pc'[p] = "idle"
  /\ UNCHANGED stored
Withdraws(p) ==
  /\ token' = [token EXCEPT ![p] = NoToken]
  /\ pc'[p] = "idle"
  /\ UNCHANGED stored

\* An answer without a confirmation withdraws the token, one with it shows what
\* the operation's own validation has found.
LEMMA ShowsConfirm ==
  ASSUME OInv, ValidationIsNamed, NEW p \in Staff, Confirm(p)
  PROVE  Shows(p) \/ Withdraws(p) \/ UNCHANGED token
<1>0. TypeOK /\ copy[p] \in Operation /\ op \in Operation /\ op.message \in Nat
  BY BoundAssumption DEF OInv, TypeOK, Operation
<1>1. CASE ReadToRespond(p) \/ ReadToView(p) \/ ReadTargetsToView(p)
  BY <1>1 DEF ReadToRespond, ReadToView, ReadOperation, ReadTargetsToView
<1>2. CASE Respond(p)
  <2>1. pc'[p] = "idle" /\ UNCHANGED stored
    BY <1>0, <1>2, EndIdle DEF Respond
  <2>2. CASE /\ CanProceed(summary[p]) /\ ~summary[p].reconfirm
             /\ copy[p].status = "ready" /\ copy[p].validated = summary[p].validated
             /\ DOMAIN summary[p].results = targets
    <3>1. copy[p].results = summary[p].results /\ copy[p].message <= op.message
      BY <2>2 DEF ValidationIsNamed
    <3>2. Sends(copy[p].results) # {}
      BY <2>2, <3>1 DEF CanProceed
    <3>3. token' = [token EXCEPT ![p] =
                      [op |-> copy[p], targets |-> targets, shown |-> copy[p].results]]
      BY <1>2, <2>2, <3>1 DEF Respond
    <3>4. QED
      BY <1>0, <2>1, <2>2, <3>1, <3>2, <3>3 DEF Shows
  <2>3. CASE ~ /\ CanProceed(summary[p]) /\ ~summary[p].reconfirm
               /\ copy[p].status = "ready" /\ copy[p].validated = summary[p].validated
               /\ DOMAIN summary[p].results = targets
    BY <1>2, <2>1, <2>3 DEF Respond, Withdraws
  <2>4. QED
    BY <2>2, <2>3
<1>3. CASE View(p)
  <2>1. pc'[p] = "idle" /\ UNCHANGED stored
    BY <1>0, <1>3, EndIdle DEF View
  <2>2. CASE op # copy[p] \/ targets # seen[p]
    BY <1>3, <2>2 DEF View
  <2> DEFINE Showable == /\ op.status = "ready" /\ op.validated # NoStamp /\ ~op.reserved
                         /\ op.proceed /\ ~op.reconfirm
                         /\ DOMAIN op.results = targets /\ Sends(op.results) # {}
  <2>3. CASE ~(op # copy[p] \/ targets # seen[p]) /\ Showable
    <3>1. token' = [token EXCEPT ![p] =
                      [op |-> op, targets |-> targets, shown |-> op.results]]
      BY <1>3, <2>3 DEF View
    <3>2. op.message <= op.message
      BY <1>0
    <3>3. QED
      BY <1>0, <2>1, <2>3, <3>1, <3>2 DEF Shows
  <2>4. CASE ~(op # copy[p] \/ targets # seen[p]) /\ ~Showable
    BY <1>3, <2>1, <2>4 DEF View, Withdraws
  <2>5. QED
    BY <2>2, <2>3, <2>4
<1>4. QED
  BY <1>1, <1>2, <1>3 DEF Confirm

\* Only answers change a token, and only that of the staff member answered.
LEMMA TokenStep ==
  ASSUME OInv, ValidationIsNamed, NEW p \in Staff,
         BeginRequest(p) \/ Serve(p) \/ Refuse(p) \/ Crash(p)
  PROVE  Shows(p) \/ Withdraws(p) \/ UNCHANGED token
<1>1. CASE BeginRequest(p) \/ Refuse(p) \/ Crash(p)
  BY <1>1 DEF BeginRequest, Begin, Refuse, Crash
<1>2. CASE Edit(p)
  BY <1>2 DEF Edit, ReadDraft, ReadForTargets, ReadToWrite, UpdateDraft, ReplaceTargets
<1>3. CASE Validate(p)
  BY <1>3 DEF Validate, ReadToValidate, ReadToWrite, ReadTargets, StartValidation,
              NoSelectedTargets, Conclude, JobNotFound, ExternalSystemUnavailable,
              Finish, RestoreStatus, AfterValidation
<1>4. CASE Send(p)
  BY <1>4 DEF Send, ReadToSend, CheckConfirmation, CompareConfirmation, Reserve
<1>5. QED
  BY <1>1, <1>2, <1>3, <1>4, ShowsConfirm DEF Serve

\* What a request about to reserve has compared: what it has read with what its
\* staff member was shown, and the number of its targets with the limit.
Compared(p) ==
  /\ SendsOf(copy[p].results) = SendsOf(token[p].op.results)
  /\ DOMAIN copy[p].results = token[p].targets
  /\ copy[p].message = token[p].op.message
  /\ Cardinality(DOMAIN copy[p].results) <= RecipientLimit

\* A request gets to the reservation only past the comparison.
LEMMA ComparedStep ==
  ASSUME OInv, NEW p \in Staff,
         BeginRequest(p) \/ Serve(p) \/ Refuse(p) \/ Crash(p), pc'[p] = "reserve"
  PROVE  Compared(p)' /\ UNCHANGED token
<1>0. TypeOK
  BY DEF OInv
<1>1. ~End(p)
  BY <1>0, EndIdle
<1>2. ASSUME NEW place, GoTo(p, place) PROVE place = "reserve"
  BY <1>0, <1>2 DEF GoTo, TypeOK
<1>3. ~BeginRequest(p)
  BY <1>2 DEF BeginRequest, Begin
<1>4. ~Edit(p)
  BY <1>1, <1>2 DEF Edit, ReadDraft, ReadForTargets, ReadToWrite, UpdateDraft, ReplaceTargets
<1>5. ~Validate(p)
  <2>1. \A status, s, excluded, S : ~Finish(p, status, s, excluded, S)
    BY <1>1, <1>2 DEF Finish
  <2>2. QED
    BY <1>1, <1>2, <2>1
       DEF Validate, ReadToValidate, ReadToWrite, ReadTargets, StartValidation,
           NoSelectedTargets, Conclude, JobNotFound, ExternalSystemUnavailable,
           RestoreStatus, AfterValidation
<1>6. ~Confirm(p)
  BY <1>1, <1>2 DEF Confirm, ReadToRespond, ReadToView, ReadOperation, Respond,
                    ReadTargetsToView, View
<1>7. ~Refuse(p) /\ ~Crash(p)
  BY <1>1 DEF Refuse, Crash
<1>8. CompareConfirmation(p)
  BY <1>1, <1>2, <1>3, <1>4, <1>5, <1>6, <1>7
     DEF Serve, Send, ReadToSend, CheckConfirmation, Reserve
<1>9. /\ copy'[p] = op /\ UNCHANGED token
      /\ op.results = summary[p].results
      /\ SendsOf(summary[p].results) = SendsOf(token[p].op.results)
      /\ DOMAIN summary[p].results = token[p].targets
      /\ op.message = token[p].op.message
      /\ Cardinality(DOMAIN summary[p].results) <= RecipientLimit
  BY <1>0, <1>1, <1>8 DEF CompareConfirmation, StillValidated, StillConfirmed, TypeOK
<1>10. SendsOf(copy[p].results)' = SendsOf(op.results)
  BY <1>9 DEF SendsOf, Sends
<1>11. SendsOf(token[p].op.results)' = SendsOf(token[p].op.results)
  BY <1>9 DEF SendsOf, Sends
<1>12. QED
  BY <1>9, <1>10, <1>11 DEF Compared

\* The step of one request keeps TokenIsCompared.
LEMMA TokenIsComparedStep ==
  ASSUME OInv, ValidationIsNamed, TokenIsCompared, NEW p \in Staff,
         BeginRequest(p) \/ Serve(p) \/ Refuse(p) \/ Crash(p)
  PROVE  TokenIsCompared'
<1>0. TypeOK
  BY DEF OInv
<1>1. Shows(p) \/ Withdraws(p) \/ UNCHANGED token
  BY TokenStep
<1>2. \A q \in Staff \ {p} : /\ token'[q] = token[q]
                             /\ copy'[q] = copy[q] /\ pc'[q] = pc[q]
  BY <1>0, <1>1, OthersKeep DEF Shows, Withdraws, TypeOK
<1>3. ASSUME NEW t, t.shown = t.op.results, DOMAIN t.shown = t.targets,
             t # NoToken => Sends(t.shown) # {}, NEW q \in Staff, token'[q] = t
      PROVE  /\ token'[q].shown = token'[q].op.results
             /\ DOMAIN token'[q].shown = token'[q].targets
             /\ token'[q] # NoToken => Sends(token[q].shown)' # {}
  BY <1>3 DEF Sends
<1>4. ASSUME NEW q \in Staff
      PROVE  /\ token'[q].shown = token'[q].op.results
             /\ DOMAIN token'[q].shown = token'[q].targets
             /\ token'[q] # NoToken => Sends(token[q].shown)' # {}
  <2>1. CASE token'[q] = token[q]
    BY <1>3, <2>1 DEF TokenIsCompared
  <2>2. CASE q = p /\ Shows(p)
    <3>1. PICK o \in Operation :
            /\ DOMAIN o.results = targets /\ Sends(o.results) # {}
            /\ token'[q] = [op |-> o, targets |-> targets, shown |-> o.results]
      BY <1>0, <2>2 DEF Shows, TypeOK
    <3>2. QED
      BY <1>3, <3>1
  <2>3. CASE q = p /\ Withdraws(p)
    <3>1. token'[q] = NoToken
      BY <1>0, <2>3 DEF Withdraws, TypeOK
    <3>2. QED
      BY <1>3, <3>1, EmptyTypes DEF NoToken, Created
  <2>4. QED
    BY <1>1, <1>2, <2>1, <2>2, <2>3
<1>5. ASSUME NEW q \in Staff, pc'[q] = "reserve"
      PROVE  /\ SendsOf(copy[q].results)' = SendsOf(token[q].shown)'
             /\ DOMAIN copy'[q].results = token'[q].targets
             /\ copy'[q].message = token'[q].op.message
             /\ Cardinality(DOMAIN copy'[q].results) <= RecipientLimit
  <2>1. CASE q = p
    <3>1. Compared(p)'
      BY <1>5, <2>1, ComparedStep
    <3>2. SendsOf(token[q].shown)' = SendsOf(token[q].op.results)'
      BY <1>4 DEF SendsOf, Sends
    <3>3. QED
      BY <2>1, <3>1, <3>2 DEF Compared
  <2>2. CASE q # p
    <3>1. /\ SendsOf(copy[q].results) = SendsOf(token[q].shown)
          /\ DOMAIN copy[q].results = token[q].targets
          /\ copy[q].message = token[q].op.message
          /\ Cardinality(DOMAIN copy[q].results) <= RecipientLimit
      BY <1>2, <1>5, <2>2 DEF TokenIsCompared
    <3>2. /\ SendsOf(copy[q].results)' = SendsOf(copy[q].results)
          /\ SendsOf(token[q].shown)' = SendsOf(token[q].shown)
      BY <1>2, <2>2 DEF SendsOf, Sends
    <3>3. QED
      BY <1>2, <2>2, <3>1, <3>2
  <2>3. QED
    BY <2>1, <2>2
<1>6. QED
  BY <1>4, <1>5 DEF TokenIsCompared
-----------------------------------------------------------------------------
(* What a step does to the exclusions *)

LeavesExclusions(p) ==
  /\ op'.excluded = op.excluded /\ op'.revision = op.revision
  /\ op'.results \in {op.results, Empty}
LiftsExclusions(p) ==
  /\ op'.revision = IF Automatic THEN op.stamp + 1 ELSE op.revision
  /\ op'.stamp = op.stamp + 1
  /\ DOMAIN op'.excluded \subseteq DOMAIN op.excluded
  /\ op'.results = Empty
AddsExclusions(p) ==
  /\ op'.revision = op.revision
  /\ ~Automatic => DOMAIN op'.excluded = {}
  /\ Automatic =>
       /\ \A m \in DOMAIN op.excluded :
            m \in DOMAIN op'.excluded /\ op'.excluded[m] = op.excluded[m]
       /\ Sends(op'.results) \cap DOMAIN op'.excluded = {}
TouchesExclusions(p) ==
  LeavesExclusions(p) \/ LiftsExclusions(p) \/ AddsExclusions(p)

\* "skip" and "block" are not linkage versions.
LEMMA NoLinkages == "skip" \notin Linkages /\ "block" \notin Linkages
BY LookupAssumption

\* A lookup never finds a recorded exclusion to send to.
LEMMA ExcludedNotFound ==
  ASSUME NEW S \in SUBSET Members, NEW verdict \in [Members -> Linkages \cup Refusals],
         NEW flaw, NEW excluded \in Exclusions
  PROVE  Sends(ResultsOf(S, verdict, flaw, excluded)) \cap DOMAIN excluded = {}
<1>1. \A m \in DOMAIN excluded : excluded[m] \in {"skip", "block"}
  BY OfFunctions DEF Exclusions
<1>2. ASSUME NEW m \in S, m \in DOMAIN excluded
      PROVE  ResultsOf(S, verdict, flaw, excluded)[m] \in {"skip", "block"}
  BY <1>1, <1>2 DEF ResultsOf, DispositionOf
<1>3. DOMAIN ResultsOf(S, verdict, flaw, excluded) = S
  BY DEF ResultsOf
<1>4. QED
  BY <1>2, <1>3, NoLinkages DEF Sends

\* A validation that comes to a result adds exclusions and sends to none.
LEMMA ExclusionsFinish ==
  ASSUME OInv, NEW p \in Staff, NEW status, NEW s, NEW excluded, NEW S,
         Automatic =>
           /\ \A m \in DOMAIN copy[p].excluded :
                m \in DOMAIN excluded /\ excluded[m] = copy[p].excluded[m]
           /\ Sends(s.results) \cap DOMAIN excluded = {},
         Finish(p, status, s, excluded, S)
  PROVE  TouchesExclusions(p)
<1>0. TypeOK /\ copy[p] \in Operation /\ op \in Operation
  BY DEF OInv, TypeOK
<1>1. CASE MayWrite(p)
  <2> DEFINE kept == IF Automatic THEN excluded ELSE Empty
             can == CanProceed(s)
             w == [copy[p] EXCEPT
                     !.status = status, !.validated = s.validated, !.results = s.results,
                     !.proceed = can, !.reconfirm = s.reconfirm,
                     !.excluded = kept]
  <2>1. op' = Stamped(w) /\ op = copy[p]
    BY <1>1 DEF Finish, MayWrite
  <2>2. /\ Automatic => kept = excluded
        /\ ~Automatic => DOMAIN kept = {}
    BY EmptyTypes
  <2> HIDE DEF kept, can
  <2>3. op'.results = s.results /\ op'.excluded = kept /\ op'.revision = op.revision
    BY <1>0, <2>1 DEF Stamped, Operation
  <2>4. Sends(op'.results) = Sends(s.results)
    BY <2>3 DEF Sends
  <2>5. QED
    BY <2>1, <2>2, <2>3, <2>4 DEF TouchesExclusions, AddsExclusions
<1>2. CASE ~MayWrite(p)
  BY <1>2 DEF Finish, TouchesExclusions, LeavesExclusions
<1>3. QED
  BY <1>1, <1>2

\* Nobody blocked is sent to.
LEMMA BlockedNotSent ==
  ASSUME NEW p \in Staff
  PROVE  Sends([m \in seen[p] |-> "block"]) = {} /\ Sends(AllBlocked(p).results) = {}
<1>1. Sends([m \in seen[p] |-> "block"]) = {}
  BY NoLinkages DEF Sends
<1>2. Sends(Empty) = {}
  BY EmptyTypes DEF Sends
<1>3. QED
  BY <1>1, <1>2 DEF AllBlocked, NoSummary

\* Every kind of validation result, and the steps around it.
LEMMA ExclusionsValidate ==
  ASSUME OInv, NEW p \in Staff, Validate(p)
  PROVE  TouchesExclusions(p)
<1>0. /\ TypeOK /\ copy[p] \in Operation /\ op \in Operation
      /\ copy[p].excluded \in Exclusions /\ seen[p] \in SUBSET Members
  BY DEF OInv, TypeOK, Operation
<1>1. CASE ReadToValidate(p) \/ ReadTargets(p) \/ AfterValidation(p)
  BY <1>1 DEF ReadToValidate, ReadToWrite, ReadTargets, AfterValidation, stored,
              TouchesExclusions, LeavesExclusions
<1>2. CASE StartValidation(p)
  <2>1. CASE MayWrite(p)
    <3> DEFINE u == Unvalidated(copy[p])
               w == [u EXCEPT !.status = "validating"]
    <3>1. /\ u \in Operation /\ u.results = Empty
          /\ u.excluded = copy[p].excluded /\ u.revision = copy[p].revision
      BY <1>0, WriteTypes DEF Unvalidated, Operation
    <3>2. op' = Stamped(w) /\ op = copy[p]
      BY <1>2, <2>1 DEF StartValidation, MayWrite
    <3> HIDE DEF u
    <3>3. /\ op'.results = Empty
          /\ op'.excluded = op.excluded /\ op'.revision = op.revision
      BY <3>1, <3>2 DEF Stamped, Operation
    <3>4. QED
      BY <3>3 DEF TouchesExclusions, LeavesExclusions
  <2>2. CASE ~MayWrite(p)
    BY <1>2, <2>2 DEF StartValidation, TouchesExclusions, LeavesExclusions
  <2>3. QED
    BY <2>1, <2>2
<1>3. CASE NoSelectedTargets(p)
  <2>1. Sends([NoSummary EXCEPT !.flaw = "job", !.validated = copy[p].stamp].results) = {}
    BY EmptyTypes DEF NoSummary, Sends
  <2>2. QED
    BY <1>3, <2>1, ExclusionsFinish DEF NoSelectedTargets
<1>4. ASSUME NEW verdict \in [Members -> Linkages \cup Refusals], NEW flaw \in Flaws,
             Conclude(p, verdict, flaw)
      PROVE  TouchesExclusions(p)
  <2> DEFINE r == ResultsOf(seen[p], verdict, flaw, copy[p].excluded)
             L == Latched(seen[p], verdict, flaw)
             again == flaw = "version" \/ Differs(seen[p], verdict, copy[p].excluded)
             s == [results |-> r, flaw |-> flaw, reconfirm |-> again,
                   validated |-> copy[p].stamp]
             e == Exclude(copy[p].excluded, L, r)
  <2>1. /\ DOMAIN e = DOMAIN copy[p].excluded \cup L
        /\ \A m \in DOMAIN copy[p].excluded : e[m] = copy[p].excluded[m]
    <3> HIDE DEF r, L
    <3>1. QED
      BY DEF Exclude
  <2>2. Sends(r) \cap DOMAIN copy[p].excluded = {}
    BY <1>0, ExcludedNotFound
  <2>3. ASSUME Automatic PROVE Sends(r) \cap L = {}
    <3>1. ASSUME NEW m \in L PROVE r[m] \in {"skip", "block"}
      BY <1>0, <2>3, SwitchAssumption, LatchedNotSent
    <3> HIDE DEF r, L
    <3>2. QED
      BY <3>1, NoLinkages DEF Sends
  <2>4. Finish(p, "ready", s, e, seen[p])
    BY <1>4 DEF Conclude
  <2>5. s.results = r
    OBVIOUS
  <2> HIDE DEF s, e, r, L
  <2>6. Automatic =>
           /\ \A m \in DOMAIN copy[p].excluded :
                m \in DOMAIN e /\ e[m] = copy[p].excluded[m]
           /\ Sends(s.results) \cap DOMAIN e = {}
    BY <2>1, <2>2, <2>3, <2>5
  <2>7. QED
    BY <2>4, <2>6, ExclusionsFinish
<1>5. CASE JobNotFound(p)
  <2> DEFINE e == Exclude(copy[p].excluded, seen[p], [m \in seen[p] |-> "block"])
  <2>1. /\ DOMAIN e = DOMAIN copy[p].excluded \cup seen[p]
        /\ \A m \in DOMAIN copy[p].excluded : e[m] = copy[p].excluded[m]
    BY DEF Exclude
  <2>2. Finish(p, "ready", AllBlocked(p), e, seen[p])
    BY <1>5 DEF JobNotFound
  <2> HIDE DEF e
  <2>3. QED
    BY <2>1, <2>2, BlockedNotSent, ExclusionsFinish
<1>6. CASE ExternalSystemUnavailable(p)
  BY <1>6, BlockedNotSent, ExclusionsFinish DEF ExternalSystemUnavailable
<1>7. CASE RestoreStatus(p)
  <2>1. CASE MayWrite(p)
    <3>1. op' = Stamped([copy[p] EXCEPT !.status = origin[p]]) /\ op = copy[p]
      BY <1>7, <2>1 DEF RestoreStatus, MayWrite
    <3>2. /\ op'.results = op.results /\ op'.excluded = op.excluded
          /\ op'.revision = op.revision
      BY <1>0, <3>1 DEF Stamped, Operation
    <3>3. QED
      BY <3>2 DEF TouchesExclusions, LeavesExclusions
  <2>2. CASE ~MayWrite(p)
    BY <1>7, <2>2 DEF RestoreStatus, TouchesExclusions, LeavesExclusions
  <2>3. QED
    BY <2>1, <2>2
<1>8. QED
  BY <1>1, <1>2, <1>3, <1>4, <1>5, <1>6, <1>7 DEF Validate

\* Of the edits only the replacement of the targets lifts exclusions.
LEMMA ExclusionsEdit ==
  ASSUME OInv, NEW p \in Staff, Edit(p)
  PROVE  TouchesExclusions(p)
<1>0. TypeOK /\ copy[p] \in Operation /\ op \in Operation
  BY DEF OInv, TypeOK
<1>1. CASE ReadDraft(p) \/ ReadForTargets(p)
  BY <1>1 DEF ReadDraft, ReadForTargets, ReadToWrite, stored,
              TouchesExclusions, LeavesExclusions
<1>2. ASSUME NEW change \in {0, 1}, UpdateDraft(p, change)
      PROVE  TouchesExclusions(p)
  <2>1. CASE MayWrite(p)
    <3> DEFINE u == Unvalidated(copy[p])
               w == [u EXCEPT !.status = "draft", !.message = @ + change]
    <3>1. /\ u \in Operation /\ u.results = Empty
          /\ u.excluded = copy[p].excluded /\ u.revision = copy[p].revision
      BY <1>0, WriteTypes DEF Unvalidated, Operation
    <3>2. op' = Stamped(w) /\ op = copy[p]
      BY <1>2, <2>1 DEF UpdateDraft, MayWrite
    <3> HIDE DEF u
    <3>3. /\ op'.results = Empty
          /\ op'.excluded = op.excluded /\ op'.revision = op.revision
      BY <3>1, <3>2 DEF Stamped, Operation
    <3>4. QED
      BY <3>3 DEF TouchesExclusions, LeavesExclusions
  <2>2. CASE ~MayWrite(p)
    BY <1>2, <2>2 DEF UpdateDraft, TouchesExclusions, LeavesExclusions
  <2>3. QED
    BY <2>1, <2>2
<1>3. ASSUME NEW S, NEW R, ReplaceTargets(p, S, R)
      PROVE  TouchesExclusions(p)
  <2>1. CASE MayWrite(p)
    <3> DEFINE u == Unvalidated(copy[p])
               kept == [m \in (DOMAIN u.excluded \cap S) \ R |-> u.excluded[m]]
               newest == IF Automatic THEN op.stamp + 1 ELSE u.revision
               w == [u EXCEPT !.status = "draft", !.revision = newest, !.excluded = kept]
    <3>1. /\ u \in Operation /\ u.results = Empty
          /\ u.excluded = copy[p].excluded /\ u.revision = copy[p].revision
      BY <1>0, WriteTypes DEF Unvalidated, Operation
    <3>2. op' = Stamped(w) /\ op = copy[p]
      BY <1>3, <2>1 DEF ReplaceTargets, MayWrite
    <3>3. DOMAIN kept \subseteq DOMAIN u.excluded
      OBVIOUS
    <3> HIDE DEF u, kept
    <3>4. newest = IF Automatic THEN op.stamp + 1 ELSE op.revision
      BY <3>1, <3>2
    <3> HIDE DEF newest
    <3>5. /\ op'.results = Empty /\ op'.stamp = op.stamp + 1
          /\ op'.excluded = kept /\ op'.revision = newest
      BY <3>1, <3>2 DEF Stamped, Operation
    <3>6. QED
      BY <3>1, <3>2, <3>3, <3>4, <3>5 DEF TouchesExclusions, LiftsExclusions
  <2>2. CASE ~MayWrite(p)
    BY <1>3, <2>2 DEF ReplaceTargets, TouchesExclusions, LeavesExclusions
  <2>3. QED
    BY <2>1, <2>2
<1>4. QED
  BY <1>1, <1>2, <1>3 DEF Edit

\* Every step of a request touches the exclusions in one of these ways.
LEMMA ExclusionsStep ==
  ASSUME OInv, NEW p \in Staff, BeginRequest(p) \/ Serve(p) \/ Refuse(p) \/ Crash(p)
  PROVE  TouchesExclusions(p)
<1>0. TypeOK /\ copy[p] \in Operation /\ op \in Operation
  BY DEF OInv, TypeOK
<1>1. CASE BeginRequest(p) \/ Refuse(p) \/ Crash(p)
  BY <1>1 DEF BeginRequest, Begin, Refuse, Crash, stored, TouchesExclusions,
              LeavesExclusions
<1>2. CASE Confirm(p)
  BY <1>2 DEF Confirm, ReadToRespond, ReadToView, ReadOperation, Respond,
              ReadTargetsToView, View, stored, TouchesExclusions, LeavesExclusions
<1>3. CASE Send(p)
  <2>1. CASE Reserve(p) /\ MayReserve(p)
    <3>1. op' = Stamped([copy[p] EXCEPT !.reserved = TRUE]) /\ op = copy[p]
      BY <2>1 DEF Reserve, MayReserve
    <3>2. /\ op'.results = op.results /\ op'.excluded = op.excluded
          /\ op'.revision = op.revision
      BY <1>0, <3>1 DEF Stamped, Operation
    <3>3. QED
      BY <3>2 DEF TouchesExclusions, LeavesExclusions
  <2>2. CASE ~(Reserve(p) /\ MayReserve(p))
    BY <1>3, <2>2 DEF Send, ReadToSend, CheckConfirmation, CompareConfirmation, Reserve,
                      stored, TouchesExclusions, LeavesExclusions
  <2>3. QED
    BY <2>1, <2>2
<1>4. QED
  BY <1>1, <1>2, <1>3, ExclusionsEdit, ExclusionsValidate DEF Serve

\* The step of one request keeps ExclusionsKept.
LEMMA ExclusionsKeptStep ==
  ASSUME OInv, OInv', ExclusionsKept, NEW p \in Staff,
         BeginRequest(p) \/ Serve(p) \/ Refuse(p) \/ Crash(p)
  PROVE  ExclusionsKept'
<1>0. /\ TypeOK /\ op.stamp \in Nat /\ op.revision \in Nat
  BY DEF OInv, TypeOK, Operation
<1>1. Shape(p) /\ TouchesExclusions(p)
  BY ShapeStep, ExclusionsStep
<1>2. op'.stamp \in Nat /\ op'.stamp >= op.stamp
  BY <1>1, StampGrows
<1>3. DOMAIN Empty = {} /\ Sends(Empty) = {}
  BY EmptyTypes DEF Sends
<1>4. ~Automatic => DOMAIN op'.excluded = {}
  BY <1>1 DEF ExclusionsKept, TouchesExclusions, LeavesExclusions, LiftsExclusions,
              AddsExclusions
<1>5. op'.revision <= op'.stamp
  BY <1>0, <1>1, <1>2 DEF ExclusionsKept, TouchesExclusions, LeavesExclusions,
                          LiftsExclusions, AddsExclusions
<1>6. ~op'.reserved => outbox' = Empty
  BY <1>1 DEF ExclusionsKept, Shape, Quiet, Edits, Starts, Finishes, Reserves, Writes
<1>7. Sends(op.results)' \cap DOMAIN op'.excluded = {}
  <2>1. Sends(op.results) \cap DOMAIN op.excluded = {}
    BY DEF ExclusionsKept, ExcludedNotSent
  <2>2. Sends(op.results)' = Sends(op'.results)
    BY DEF Sends
  <2>3. CASE LeavesExclusions(p)
    BY <1>3, <2>1, <2>2, <2>3 DEF LeavesExclusions
  <2>4. CASE LiftsExclusions(p)
    BY <1>3, <2>2, <2>4 DEF LiftsExclusions
  <2>5. CASE AddsExclusions(p)
    BY <1>4, <2>2, <2>5 DEF AddsExclusions
  <2>6. QED
    BY <1>1, <2>3, <2>4, <2>5 DEF TouchesExclusions
<1>8. DOMAIN outbox' \subseteq Sends(op.results)'
  BY <1>3, <1>6 DEF OInv, PopulationAgrees
<1>9. ExcludedNotSent'
  BY <1>7, <1>8 DEF ExcludedNotSent
<1>10. QED
  BY <1>4, <1>5, <1>6, <1>9 DEF ExclusionsKept

\* An exclusion is there after the step, unless the targets were replaced.
LEMMA ExclusionPersists ==
  ASSUME OInv, ExclusionsKept, [Next]_vars, NEW m \in DOMAIN op.excluded
  PROVE  \/ m \in DOMAIN op'.excluded /\ op'.excluded[m] = op.excluded[m]
         \/ op'.revision # op.revision
<1>0. /\ op \in Operation /\ op.stamp \in Nat /\ op.revision \in Nat
      /\ op.revision <= op.stamp /\ Automatic
  BY DEF OInv, TypeOK, Operation, ExclusionsKept
<1>1. CASE UNCHANGED vars
  BY <1>1 DEF vars
<1>2. ASSUME NEW p \in Staff, BeginRequest(p) \/ Serve(p) \/ Refuse(p) \/ Crash(p)
      PROVE  \/ m \in DOMAIN op'.excluded /\ op'.excluded[m] = op.excluded[m]
             \/ op'.revision # op.revision
  <2>1. TouchesExclusions(p)
    BY <1>2, ExclusionsStep
  <2>2. QED
    BY <1>0, <2>1 DEF TouchesExclusions, LeavesExclusions, LiftsExclusions, AddsExclusions
<1>3. CASE Execute
  <2>1. op'.excluded = op.excluded
    BY <1>0, <1>3 DEF Execute, Stamped, Operation
  <2>2. QED
    BY <2>1
<1>4. QED
  BY <1>1, <1>2, <1>3 DEF Next
-----------------------------------------------------------------------------
(* The reservation *)

\* A reservation that succeeds finds the operation as it was compared with the
\* token, and reserves what the token shows.
LEMMA ReservationMade ==
  ASSUME OInv, TokenIsCompared, NEW p \in Staff, Reserve(p), MayReserve(p)
  PROVE  /\ ~op.reserved /\ op'.reserved /\ op'.message = op.message
         /\ UNCHANGED <<targets, token>> /\ confirmed' = token[p]
         /\ DOMAIN deliveries' = targets
         /\ token[p].targets = targets /\ DOMAIN token[p].shown = targets
         /\ token[p].op.message = op.message
         /\ DOMAIN outbox' = Sends(token[p].shown) /\ DOMAIN outbox' # {}
         /\ \A m \in DOMAIN outbox' : outbox'[m].message = op.message
         /\ SendsOf(token[p].shown) = [m \in DOMAIN outbox' |-> outbox'[m].linkage]
         /\ Cardinality(targets) <= RecipientLimit
<1>0. TypeOK /\ op \in Operation
  BY DEF OInv, TypeOK
<1>1. /\ ~op.reserved /\ op = copy[p] /\ pc[p] = "reserve"
      /\ op' = Stamped([op EXCEPT !.reserved = TRUE])
      /\ UNCHANGED <<targets, token>> /\ confirmed' = token[p]
  BY DEF Reserve, MayReserve
<1>2. op'.reserved /\ op'.message = op.message
  BY <1>0, <1>1 DEF Stamped, Operation
<1>3. /\ op.results = summary[p].results
      /\ Sends(op.results) # {} /\ Blocks(op.results) = {}
  BY <1>1 DEF OInv, InHand
<1>4. DOMAIN op.results = targets
  BY <1>3, EmptyTypes DEF OInv, PopulationAgrees, Sends
<1>5. /\ SendsOf(op.results) = SendsOf(token[p].shown)
      /\ DOMAIN op.results = token[p].targets
      /\ op.message = token[p].op.message
      /\ Cardinality(DOMAIN op.results) <= RecipientLimit
      /\ DOMAIN token[p].shown = token[p].targets
  BY <1>1 DEF TokenIsCompared
<1>6. DOMAIN deliveries' = targets
  BY <1>3, <1>4 DEF Reserve, DeliveriesOf
<1>7. outbox' = [m \in Sends(op.results) |->
                   [message |-> op.message, linkage |-> op.results[m]]]
  BY <1>1, <1>3 DEF Reserve
<1>8. DOMAIN outbox' = Sends(op.results)
  BY <1>7
<1>9. Sends(op.results) = Sends(token[p].shown)
  BY <1>5 DEF SendsOf
<1>10. \A m \in DOMAIN outbox' : /\ outbox'[m].message = op.message
                                /\ outbox'[m].linkage = op.results[m]
  BY <1>7
<1>11. SendsOf(op.results) = [m \in DOMAIN outbox' |-> outbox'[m].linkage]
  BY <1>8, <1>10 DEF SendsOf
<1>12. QED
  BY <1>1, <1>2, <1>3, <1>4, <1>5, <1>6, <1>8, <1>9, <1>10, <1>11

\* Only Reserve makes an operation reserved.
LEMMA OnlyReserve ==
  ASSUME OInv, NEW p \in Staff, BeginRequest(p) \/ Serve(p) \/ Refuse(p) \/ Crash(p),
         ~op.reserved, op'.reserved
  PROVE  Reserve(p) /\ MayReserve(p)
<1>1. op' # op /\ Reserves(p)
  BY ShapeStep DEF Shape, Quiet, Edits, Starts, Finishes
<1>2. pc'[p] = "idle" /\ UNCHANGED targets /\ DOMAIN deliveries' # {}
  <2>1. DOMAIN op.results = targets
    BY <1>1, EmptyTypes DEF Reserves, OInv, PopulationAgrees, Sends
  <2>2. Sends(op.results) \subseteq DOMAIN op.results
    BY DEF Sends
  <2>3. QED
    BY <1>1, <2>2 DEF Reserves, DeliveriesOf
<1>3. DOMAIN deliveries = {}
  BY DEF OInv, PopulationAgrees
<1>4. deliveries' # deliveries
  BY <1>2, <1>3
<1>5. ~BeginRequest(p) /\ ~Refuse(p) /\ ~Crash(p)
  BY <1>4 DEF BeginRequest, Begin, Refuse, Crash, stored
<1>6. ~Edit(p)
  BY <1>4 DEF Edit, ReadDraft, ReadForTargets, ReadToWrite, UpdateDraft, ReplaceTargets,
              stored
<1>7. ~Validate(p)
  BY <1>4 DEF Validate, ReadToValidate, ReadToWrite, ReadTargets, StartValidation,
              NoSelectedTargets, Conclude, JobNotFound, ExternalSystemUnavailable,
              Finish, RestoreStatus, AfterValidation, stored
<1>8. ~Confirm(p)
  BY <1>4 DEF Confirm, ReadToRespond, ReadToView, ReadOperation, Respond,
              ReadTargetsToView, View, stored
<1>9. QED
  BY <1>4, <1>5, <1>6, <1>7, <1>8
     DEF Serve, Send, ReadToSend, CheckConfirmation, CompareConfirmation, Reserve, stored

\* What is reserved stays as it was confirmed, within the limit.
LEMMA ReservationStep ==
  ASSUME OInv, TokenIsCompared, ReservedIsConfirmed, WithinLimit, [Next]_vars
  PROVE  ReservedIsConfirmed' /\ WithinLimit'
<1>1. CASE ~op'.reserved
  BY <1>1 DEF ReservedIsConfirmed, WithinLimit
<1>2. CASE op.reserved
  <2>1. /\ UNCHANGED <<targets, deliveries, outbox, confirmed>>
        /\ op' = [op EXCEPT !.status = op'.status, !.stamp = op'.stamp]
    BY <1>2, FrozenStep DEF Frozen
  <2>2. op'.message = op.message
    BY <2>1 DEF OInv, TypeOK, Operation
  <2>3. SendsOf(confirmed.shown)' = SendsOf(confirmed.shown)
    BY <2>1 DEF SendsOf, Sends
  <2>4. QED
    BY <1>2, <2>1, <2>2, <2>3 DEF ReservedIsConfirmed, WithinLimit
<1>3. ASSUME ~op.reserved, op'.reserved,
             NEW p \in Staff, BeginRequest(p) \/ Serve(p) \/ Refuse(p) \/ Crash(p)
      PROVE  ReservedIsConfirmed' /\ WithinLimit'
  <2>1. Reserve(p) /\ MayReserve(p)
    BY <1>3, OnlyReserve
  <2>2. /\ op'.message = op.message
        /\ UNCHANGED <<targets, token>> /\ confirmed' = token[p]
        /\ token[p].targets = targets /\ DOMAIN token[p].shown = targets
        /\ token[p].op.message = op.message
        /\ \A m \in DOMAIN outbox' : outbox'[m].message = op.message
        /\ SendsOf(token[p].shown) = [m \in DOMAIN outbox' |-> outbox'[m].linkage]
        /\ Cardinality(targets) <= RecipientLimit
    BY <2>1, ReservationMade
  <2>3. SendsOf(confirmed.shown)' = SendsOf(token[p].shown)
    BY <2>2 DEF SendsOf, Sends
  <2>4. QED
    BY <2>2, <2>3 DEF ReservedIsConfirmed, WithinLimit
<1>4. UNCHANGED vars \/ Execute => op'.reserved = op.reserved
  BY DEF vars, Execute, OInv, TypeOK, Operation, Stamped
<1>5. QED
  BY <1>1, <1>2, <1>3, <1>4 DEF Next

-----------------------------------------------------------------------------
(* The invariant *)

\* The initial state satisfies the invariant.
LEMMA SInvInit == Init => SInv
<1> SUFFICES ASSUME Init PROVE SInv
  OBVIOUS
<1>1. OInv
  BY OInvInit
<1>2. ValidationIsNamed
  BY DEF Init, ValidationIsNamed, Created, NoSummary, NoStamp
<1>3. TokenIsCompared
  BY EmptyTypes DEF Init, TokenIsCompared, NoToken, Created
<1>4. ExclusionsKept
  BY EmptyTypes DEF Init, ExclusionsKept, ExcludedNotSent, Created
<1>5. ReservedIsConfirmed /\ WithinLimit
  BY DEF Init, ReservedIsConfirmed, WithinLimit, Created
<1>6. QED
  BY <1>1, <1>2, <1>3, <1>4, <1>5 DEF SInv

\* The execution of the reservation writes the status only.
LEMMA ExecuteKeeps ==
  ASSUME SInv, Execute
  PROVE  ValidationIsNamed' /\ TokenIsCompared' /\ ExclusionsKept'
<1>0. /\ TypeOK /\ op \in Operation /\ op.stamp \in Nat /\ op.validated \in Nat
      /\ op.revision \in Nat
      /\ \A q \in Staff : copy[q].validated \in Nat /\ summary[q].validated \in Nat
  BY DEF SInv, OInv, TypeOK, Operation, Summary
<1>1. /\ op'.stamp = op.stamp + 1 /\ op'.results = op.results
      /\ op'.validated = op.validated /\ op'.message = op.message
      /\ op'.excluded = op.excluded /\ op'.revision = op.revision
      /\ op'.reserved = op.reserved
  BY <1>0 DEF Execute, Stamped, Operation
<1>2. UNCHANGED <<outbox, pc, copy, summary, token>>
  BY DEF Execute, request
<1>3. ValidationIsNamed'
  BY <1>0, <1>1, <1>2 DEF SInv, ValidationIsNamed
<1>4. TokenIsCompared'
  BY <1>2 DEF SInv, TokenIsCompared, SendsOf, Sends
<1>5. ExclusionsKept'
  BY <1>0, <1>1, <1>2 DEF SInv, ExclusionsKept, ExcludedNotSent, Sends
<1>6. QED
  BY <1>3, <1>4, <1>5

\* The invariant is inductive.
LEMMA SInvStep == SInv /\ [Next]_vars => SInv'
<1> SUFFICES ASSUME SInv, [Next]_vars PROVE SInv'
  OBVIOUS
<1>1. OInv'
  BY OInvStep DEF SInv
<1>2. ReservedIsConfirmed' /\ WithinLimit'
  BY ReservationStep DEF SInv
<1>3. ASSUME NEW p \in Staff, BeginRequest(p) \/ Serve(p) \/ Refuse(p) \/ Crash(p)
      PROVE  ValidationIsNamed' /\ TokenIsCompared' /\ ExclusionsKept'
  BY <1>1, <1>3, NamedStep, TokenIsComparedStep, ExclusionsKeptStep DEF SInv
<1>4. CASE UNCHANGED vars
  BY <1>1, <1>2, <1>4 DEF vars, SInv, ValidationIsNamed, TokenIsCompared, SendsOf, Sends,
                          ExclusionsKept, ExcludedNotSent
<1>5. QED
  BY <1>1, <1>2, <1>3, <1>4, ExecuteKeeps DEF Next, SInv

\* The invariant holds in every reachable state.
LEMMA SInvAlways == Spec => []SInv
<1>1. QED
  BY SInvInit, SInvStep, PTL DEF Spec

-----------------------------------------------------------------------------
(* Theorems *)

\* However requests interleave, a reservation is for the targets, recipients,
\* linkage versions and message the staff member who sent it was shown.
THEOREM ReservationConfirmed == Spec => []ReservedIsConfirmed
<1>1. SInv => ReservedIsConfirmed
  BY DEF SInv
<1>2. QED
  BY <1>1, SInvAlways, PTL

\* The limit is tested before the reservation, in another transaction; what the
\* reservation finds selected is within it all the same.
THEOREM ReservationWithinLimit == Spec => []WithinLimit
<1>1. SInv => WithinLimit
  BY DEF SInv
<1>2. QED
  BY <1>1, SInvAlways, PTL

\* Whom a validation has excluded is neither found as a recipient nor reserved
\* for, and stays excluded until the targets are replaced.
THEOREM ExclusionsAlwaysRespected == Spec => ExclusionsRespected
<1>1. SInv => ExcludedNotSent
  BY DEF SInv, ExclusionsKept
<1>2. SInv /\ [Next]_vars =>
        [\A m \in DOMAIN op.excluded :
           \/ m \in DOMAIN op'.excluded /\ op'.excluded[m] = op.excluded[m]
           \/ op'.revision # op.revision]_vars
  BY ExclusionPersists DEF SInv
<1>3. QED
  BY <1>1, <1>2, SInvAlways, PTL DEF Spec, ExclusionsRespected, ExclusionsPersist
-----------------------------------------------------------------------------
(* Sending keeps the promise *)

\* Nothing shown is what the promise calls nothing.
LEMMA NothingIsNothing ==
  NothingShown = Promise!Nothing /\ Promise!Nothing.recipients = [m \in {} |-> 0]
<1>1. DOMAIN Empty = {}
  BY EmptyTypes
<1>2. Empty = [m \in {} |-> 0]
  BY DEF Empty
<1>3. QED
  BY <1>2 DEF NothingShown, Promise!Nothing

\* What a token shows: at least one of the targets, each under its linkage.
LEMMA ShownByToken ==
  ASSUME NEW o \in Operation, NEW S \in SUBSET Members,
         DOMAIN o.results = S, Sends(o.results) # {}
  PROVE  LET t == [op |-> o, targets |-> S, shown |-> o.results]
             r == SendsOf(o.results)
         IN  /\ ShownBy(t) = [targets |-> S, message |-> o.message, recipients |-> r]
             /\ r \in Promise!Recipients /\ r # Promise!Nothing.recipients
             /\ DOMAIN r \subseteq S
<1> DEFINE t == [op |-> o, targets |-> S, shown |-> o.results]
           r == SendsOf(o.results)
<1>1. o.results # Empty
  BY EmptyTypes DEF Sends
<1>2. t.shown # NoToken.shown
  BY <1>1 DEF NoToken
<1>3. t # NoToken
  BY <1>2
<1>4. ShownBy(t) = [targets |-> S, message |-> o.message, recipients |-> r]
  BY <1>3 DEF ShownBy
<1>5. /\ DOMAIN r = Sends(o.results) /\ Sends(o.results) \subseteq S
      /\ \A m \in DOMAIN r : r[m] \in Linkages
  BY DEF SendsOf, Sends
<1>6. r \in [Sends(o.results) -> Linkages]
  BY <1>5 DEF SendsOf
<1>7. r \in Promise!Recipients
  BY <1>5, <1>6 DEF Promise!Recipients
<1>8. DOMAIN Promise!Nothing.recipients = {}
  BY NothingIsNothing
<1>9. r # Promise!Nothing.recipients
  BY <1>5, <1>8
<1>10. QED
  BY <1>4, <1>5, <1>7, <1>9

\* The operation is created as the promise begins.
LEMMA PromiseInit == Init => Promise!Init
<1> SUFFICES ASSUME Init PROVE Promise!Init
  OBVIOUS
<1>1. op.message = 1 /\ ~op.reserved /\ targets \in SUBSET Members
  BY DEF Init, Created
<1>2. Reserved = Promise!Nothing
  BY <1>1, NothingIsNothing DEF Reserved
<1>3. \A p \in Staff : ShownBy(token[p]) = Promise!Nothing
  BY NothingIsNothing DEF Init, ShownBy
<1>4. QED
  BY <1>1, <1>2, <1>3 DEF Promise!Init

\* An answer that gives a token shows.
LEMMA ShowsPromised ==
  ASSUME SInv, NEW p \in Staff, Shows(p)
  PROVE  Promise!Show(p)
<1> DEFINE shown == [q \in Staff |-> ShownBy(token[q])]
           shownNext == [q \in Staff |-> ShownBy(token'[q])]
<1>0. TypeOK /\ targets \in SUBSET Members /\ op.message \in Nat
  BY BoundAssumption DEF SInv, OInv, TypeOK, Operation
<1>1. PICK o \in Operation :
        /\ o.message <= op.message
        /\ DOMAIN o.results = targets /\ Sends(o.results) # {}
        /\ token' = [token EXCEPT ![p] =
             [op |-> o, targets |-> targets, shown |-> o.results]]
  BY DEF Shows
<1> DEFINE r == SendsOf(o.results)
           seenNow == [targets |-> targets, message |-> o.message, recipients |-> r]
<1>2. /\ ShownBy([op |-> o, targets |-> targets, shown |-> o.results]) = seenNow
      /\ r \in Promise!Recipients /\ r # Promise!Nothing.recipients
      /\ DOMAIN r \subseteq targets
  BY <1>0, <1>1, ShownByToken
<1>3. o.message \in 1..op.message
  BY <1>0, <1>1, BoundAssumption DEF Operation
<1>4. token'[p] = [op |-> o, targets |-> targets, shown |-> o.results]
      /\ \A q \in Staff \ {p} : token'[q] = token[q]
  BY <1>0, <1>1 DEF TypeOK
<1>5. shownNext = [shown EXCEPT ![p] = seenNow]
  <2> HIDE DEF seenNow
  <2>1. QED
    BY <1>2, <1>4
<1>6. Reserved' = Reserved /\ UNCHANGED <<op, targets>>
  BY DEF Shows, stored, Reserved
<1>7. QED
  <2> HIDE DEF r
  <2>1. QED
    BY <1>2, <1>3, <1>5, <1>6 DEF Promise!Show, ShownBy

\* An answer without one withdraws what was shown.
LEMMA WithdrawsPromised ==
  ASSUME SInv, NEW p \in Staff, Withdraws(p)
  PROVE  Promise!Withdraw(p)
<1>0. TypeOK
  BY DEF SInv, OInv
<1>1. /\ token'[p] = NoToken /\ \A q \in Staff \ {p} : token'[q] = token[q]
  BY <1>0 DEF Withdraws, TypeOK
<1>2. ShownBy(NoToken) = Promise!Nothing
  BY NothingIsNothing DEF ShownBy
<1>3. [q \in Staff |-> ShownBy(token'[q])] =
        [[q \in Staff |-> ShownBy(token[q])] EXCEPT ![p] = Promise!Nothing]
  BY <1>1, <1>2
<1>4. Reserved' = Reserved /\ UNCHANGED <<op, targets>>
  BY DEF Withdraws, stored, Reserved
<1>5. QED
  BY <1>3, <1>4 DEF Promise!Withdraw, ShownBy

\* The reservation is the one step that sends.
LEMMA ReservePromised ==
  ASSUME SInv, NEW p \in Staff, Reserve(p), MayReserve(p)
  PROVE  Promise!Send(p)
<1> DEFINE t == token[p]
<1>1. /\ ~op.reserved /\ op'.reserved /\ op'.message = op.message
      /\ UNCHANGED <<targets, token>>
      /\ DOMAIN deliveries' = targets
      /\ t.targets = targets
      /\ t.op.message = op.message
      /\ DOMAIN outbox' = Sends(t.shown) /\ DOMAIN outbox' # {}
      /\ \A m \in DOMAIN outbox' : outbox'[m].message = op.message
      /\ SendsOf(t.shown) = [m \in DOMAIN outbox' |-> outbox'[m].linkage]
  BY ReservationMade DEF SInv
<1>2. t # NoToken
  BY <1>1, EmptyTypes DEF NoToken, Sends
<1>3. ShownBy(t) = [targets |-> targets, message |-> op.message,
                    recipients |-> SendsOf(t.shown)]
  BY <1>1, <1>2 DEF ShownBy
<1>4. {outbox'[m].message : m \in DOMAIN outbox'} = {op.message}
  BY <1>1
<1>5. Reserved' = [targets |-> targets, message |-> op.message,
                   recipients |-> SendsOf(t.shown)]
  BY <1>1, <1>4 DEF Reserved
<1>6. Reserved = Promise!Nothing
  BY <1>1, NothingIsNothing DEF Reserved
<1>7. targets # {} 
  BY <1>1 DEF SInv, TokenIsCompared, Sends
<1>8. ShownBy(t) # Promise!Nothing
  BY <1>3, <1>7 DEF Promise!Nothing
<1>9. [q \in Staff |-> ShownBy(token[q])]' = [q \in Staff |-> ShownBy(token[q])]
  BY <1>1 DEF ShownBy
<1>10. QED
  BY <1>1, <1>3, <1>5, <1>6, <1>8, <1>9 DEF Promise!Send, Promise!Unsent

\* Every step of the requests is a step of the promise or none.
LEMMA PromiseStep == SInv /\ SInv' /\ [Next]_vars => [Promise!Next]_(Promise!vars)
<1> SUFFICES ASSUME SInv, SInv', [Next]_vars
             PROVE  [Promise!Next]_(Promise!vars)
  OBVIOUS
<1>0. OInv /\ op \in Operation /\ targets' \in SUBSET Members
  BY DEF SInv, OInv, TypeOK
<1>1. ASSUME op'.message = op.message, UNCHANGED <<targets, token>>, Reserved' = Reserved
      PROVE  UNCHANGED Promise!vars
  BY <1>1 DEF Promise!vars, ShownBy
<1>2. CASE op.reserved
  <2>1. /\ UNCHANGED <<targets, deliveries, outbox>>
        /\ op' = [op EXCEPT !.status = op'.status, !.stamp = op'.stamp]
    BY <1>0, <1>2, FrozenStep DEF Frozen
  <2>2. op'.message = op.message /\ op'.reserved = op.reserved
    BY <1>0, <2>1 DEF Operation
  <2>3. Reserved' = Reserved
    BY <2>1, <2>2 DEF Reserved
  <2>4. CASE UNCHANGED token
    BY <1>1, <2>1, <2>2, <2>3, <2>4
  <2>5. CASE token' # token
    <3>1. PICK p \in Staff : BeginRequest(p) \/ Serve(p) \/ Refuse(p) \/ Crash(p)
      BY <2>5 DEF Next, vars, Execute
    <3>2. Shows(p) \/ Withdraws(p)
      BY <2>5, <3>1, TokenStep DEF SInv
    <3>3. QED
      BY <3>2, ShowsPromised, WithdrawsPromised DEF Promise!Next
  <2>6. QED
    BY <2>4, <2>5
<1>3. CASE ~op.reserved
  <2>1. CASE UNCHANGED vars
    <3>1. Reserved' = Reserved
      BY <2>1 DEF vars, Reserved
    <3>2. QED
      BY <1>1, <2>1, <3>1 DEF vars
  <2>2. ~Execute
    BY <1>3 DEF Execute
  <2>3. ASSUME NEW p \in Staff, BeginRequest(p) \/ Serve(p) \/ Refuse(p) \/ Crash(p)
        PROVE  [Promise!Next]_(Promise!vars)
    <3>1. CASE Shows(p) \/ Withdraws(p)
      BY <3>1, ShowsPromised, WithdrawsPromised DEF Promise!Next
    <3>2. CASE op'.reserved
      <4>1. Reserve(p) /\ MayReserve(p)
        BY <1>0, <1>3, <2>3, <3>2, OnlyReserve
      <4>2. QED
        BY <4>1, ReservePromised DEF Promise!Next
    <3>3. CASE ~op'.reserved /\ UNCHANGED token
      <4>1. Reserved = Promise!Nothing /\ Reserved' = Promise!Nothing
        BY <1>3, <3>3, NothingIsNothing DEF Reserved
      <4>2. [q \in Staff |-> ShownBy(token[q])]' = [q \in Staff |-> ShownBy(token[q])]
        BY <3>3 DEF ShownBy
      <4>3. \/ op'.message = op.message
            \/ op'.message = op.message + 1 /\ UNCHANGED targets
        BY <1>0, <2>3, MovesStep DEF Moves
      <4>4. CASE op'.message = op.message
        <5>1. Promise!ChooseTargets
          BY <1>0, <4>1, <4>2, <4>4 DEF Promise!ChooseTargets, Promise!Unsent
        <5>2. QED
          BY <5>1 DEF Promise!Next
      <4>5. CASE op'.message = op.message + 1 /\ UNCHANGED targets
        <5>1. Promise!EditMessage
          BY <4>1, <4>2, <4>5 DEF Promise!EditMessage, Promise!Unsent
        <5>2. QED
          BY <5>1 DEF Promise!Next
      <4>6. QED
        BY <4>3, <4>4, <4>5
    <3>4. QED
      BY <1>0, <2>3, <3>1, <3>2, <3>3, TokenStep DEF SInv
  <2>4. QED
    BY <2>1, <2>2, <2>3 DEF Next
<1>4. QED
  BY <1>2, <1>3

\* The requests of any number of staff members, with everything they read,
\* validate, compare and give up in between, implement a notification that has
\* one message and one set of targets and is sent in a single step.
THEOREM SendingKeepsPromise == Spec => SendsAsPromised
<1>1. Init => Promise!Init
  BY PromiseInit
<1>2. SInv /\ SInv' /\ [Next]_vars => [Promise!Next]_(Promise!vars)
  BY PromiseStep
<1>3. QED
  BY <1>1, <1>2, SInvAlways, PTL DEF Spec, SendsAsPromised, Promise!Spec
=============================================================================
