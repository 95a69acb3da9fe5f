----------------------------- MODULE LookupsProofs -----------------------------
(***************************************************************************)
(* Proofs about the components of MCLookups, for every value of the        *)
(* constants: the token cache, whatever its times and its callers; the     *)
(* exchange with LINE, whatever fails on the way; the answers of the       *)
(* business gateway, however they are damaged; the job lists, which        *)
(* JobListingProofs proves right one way of counting at a time; the        *)
(* automatic selection, whatever the candidates and their numbers; and the *)
(* types of all of them.                                                   *)
(***************************************************************************)
EXTENDS MCLookups, SequencesExt, FiniteSetTheorems, SequenceTheorems,
  WellFoundedInduction, TLAPS

-----------------------------------------------------------------------------
(* The token cache *)

\* A fetch that is under way found no fresh token, and none becomes fresh.
FetchesAreNeeded == \A c \in Callers : tokenPc[c] = "fetch" => issued = Token!NoToken
  \/ until <= now

\* The cache counts from the answer, which is at most FetchTime after the issue.
TimesAreBounded ==
  /\ issued # Token!NoToken => until <= issued + FetchTime + TTL
  /\ \A c \in Callers : thread[c] # Token!NoToken => now - thread[c] <= FetchTime

TokenInv == Token!TypeOK /\ FetchesAreNeeded /\ TimesAreBounded

LEMMA TokenInit == Token!Init => TokenInv
  BY TokenAssumption DEF Token!Init, TokenInv, Token!TypeOK, FetchesAreNeeded, TimesAreBounded,
    Token!TimeAssumption, Token!NobodyAssumption, Token!Nobody, Token!NoToken, Token!Ended

LEMMA TokenStep ==
  ASSUME TokenInv, [Token!Next]_tokenVars
  PROVE  /\ TokenInv'
         /\ Token!Replaces
         /\ Token!HandsOut
<1> USE DEF TokenInv, Token!TypeOK, FetchesAreNeeded, TimesAreBounded, Token!Replaces,
  Token!HandsOut, Token!NoToken, Token!Ended
<1>1. /\ TTL \in Nat \ {0} /\ Life \in Nat \ {0} /\ FetchTime \in Nat /\ MaxTime \in Nat
      /\ TTL + FetchTime <= Life /\ Token!Nobody \notin Callers
  BY TokenAssumption DEF Token!TimeAssumption, Token!NobodyAssumption
<1> DEFINE Goal == TokenInv' /\ Token!Replaces /\ Token!HandsOut
<1>2. ASSUME NEW c \in Callers, Token!LookUp(c) PROVE Goal
  BY <1>1, <1>2 DEF Token!LookUp, Token!HandOut, Token!Fresh
<1>3. ASSUME NEW c \in Callers, Token!Acquire(c) PROVE Goal
  BY <1>1, <1>3 DEF Token!Acquire
<1>4. ASSUME NEW c \in Callers, Token!CheckAgain(c) PROVE Goal
  BY <1>1, <1>4 DEF Token!CheckAgain, Token!HandOut, Token!Fresh
<1>5. ASSUME NEW c \in Callers, Token!Issue(c) PROVE Goal
  BY <1>1, <1>5 DEF Token!Issue
<1>6. ASSUME NEW c \in Callers, Token!Store(c) PROVE Goal
  BY <1>1, <1>6 DEF Token!Store, Token!HandOut
<1>7. ASSUME NEW c \in Callers, Token!FetchFails(c) PROVE Goal
  BY <1>1, <1>7 DEF Token!FetchFails
<1>8. ASSUME NEW c \in Callers, Token!Cancel(c) PROVE Goal
  BY <1>1, <1>8 DEF Token!Cancel
<1>9. ASSUME Token!Tick PROVE Goal
  BY <1>1, <1>9 DEF Token!Tick
<1>10. CASE UNCHANGED tokenVars
  BY <1>10 DEF tokenVars
<1> QED
  BY <1>2, <1>3, <1>4, <1>5, <1>6, <1>7, <1>8, <1>9, <1>10 DEF Token!Next

LEMMA TokenInFocus ==
  ASSUME [Next]_vars, focus = "token"
  PROVE  [Token!Next]_tokenVars
  BY DEF Next, vars, tokenVars

\* However many requests miss the cache together (_IdTokenCache.get), a token is
\* replaced only when its time is over, and none is handed out that the issuer
\* does not honour any more, whatever the times are.
THEOREM TokenAlwaysSound == Spec => TokenIsSound
<1> DEFINE I == focus = "token" => TokenInv
<1>1. Init => I
  BY TokenInit DEF Init
<1>2. I /\ [Next]_vars => I'
  BY TokenInFocus, TokenStep DEF Next, vars
<1>3. I /\ [Next]_vars => [focus = "token" => Token!Replaces /\ Token!HandsOut]_vars
  BY TokenInFocus, TokenStep
<1> QED
  BY <1>1, <1>2, <1>3, PTL DEF Spec, TokenIsSound

-----------------------------------------------------------------------------
(* The exchange with LINE *)

\* What an answer on its way is worth: LINE's own about this command says what
\* LINE held, a 404 is LINE's, and a command that was taken is never refused.
AnswerIsBacked ==
  answer # Line!NoAnswer =>
    /\ request \in {"submit", "result"}
    /\ answer.status = Line!Expected /\ answer.body = "own" =>
         answer.verdict = knew /\ knew \in {record, "pending"} /\ record # "none"
    /\ answer.status = Line!Expected => answer.body # "scope_forbidden"
    /\ answer.status = "404" => knew = "none"
    /\ took => answer.status \in {Line!Expected} \cup Line!ServerErrors \cup Transport

\* An exchange that is under way has concluded nothing yet, and LINE takes
\* the command when it answers.
ExchangeIsOpen ==
  request # "none" => outcome = "none" /\ (answer = Line!NoAnswer => ~took)

LineInv ==
  /\ Line!TypeOK /\ AnswerIsBacked /\ ExchangeIsOpen
  /\ Line!AcceptedIsHeld /\ Line!GivenUpIsNotTaken

LEMMA NoAnswerIsNone ==
  /\ Line!NoAnswer.status = "none"
  /\ Line!NoAnswer \in [status : Line!Statuses \cup {"none"}, body : Line!Bodies,
                        verdict : Line!LineRecord]
  BY DEF Line!NoAnswer, Line!NoVerdict, Line!Bodies, Line!LineRecord

LEMMA LineInit == Line!Init => LineInv
  BY NoAnswerIsNone DEF Line!Init, LineInv, Line!TypeOK, AnswerIsBacked, ExchangeIsOpen,
    Line!AcceptedIsHeld, Line!GivenUpIsNotTaken, Line!LineRecord, Line!Outcomes

\* What LINE answers is its own word on what it holds.
LEMMA LineAnswers ==
  ASSUME NEW r \in Line!LineRecord, request \in {"submit", "result"}
  PROVE  LET a == Line!LineAnswer(r) IN
         /\ a \in [status : Line!Statuses, body : Line!Bodies, verdict : Line!LineRecord]
         /\ a.status = Line!Expected => a.body = "own" /\ a.verdict = r
         /\ a.status = Line!Expected =>
              authorised /\ (request = "submit" => acceptable) /\ (request = "result" =>
                r # "none")
         /\ a.status = "404" => r = "none"
         /\ authorised /\ acceptable /\ request = "submit" => a.status = Line!Expected
  BY DEF Line!LineAnswer, Line!Answer, Line!Expected, Line!Statuses, Line!Success,
    Line!ClientErrors, Line!ServerErrors, Line!Redirects, Line!Bodies, Line!LineRecord,
    Line!NoVerdict

LEMMA LineTypes ==
  /\ Verdicts \subseteq {"sent", "failed", "unknown", "rejected", "recipient_not_linked"}
  /\ GatewayStatuses \subseteq {"302", "403", "409", "422", "429", "500", "503"}
  /\ Transport \subseteq {"timeout", "network", "protocol"}
  BY LineAssumption DEF Line!VerdictAssumption, Line!GatewayAssumption, Line!TransportAssumption,
    Line!ClientErrors, Line!ServerErrors, Line!Redirects

\* The classes of an answer in the order of the client's tests: an earlier one excludes the
\* later ones.
LEMMA ClassesAreApart ==
  ASSUME NEW a, request \in {"submit", "result"}
  PROVE  /\ Line!Unclassified(a) => ~Line!Unavailable(a) /\ ~Line!Unreadable(a)
         /\ Line!ResultNotFound(a) =>
              ~Line!Unavailable(a) /\ ~Line!Unreadable(a) /\ ~Line!Unclassified(a)
         /\ Line!ScopeForbidden(a) =>
              /\ ~Line!Unavailable(a) /\ ~Line!Unreadable(a) /\ ~Line!Unclassified(a)
              /\ ~Line!ResultNotFound(a)
         /\ Line!Rejected(a) =>
              /\ ~Line!Unavailable(a) /\ ~Line!Unreadable(a) /\ ~Line!Unclassified(a)
              /\ ~Line!ResultNotFound(a) /\ ~Line!ScopeForbidden(a)
  BY DEF Line!Unavailable, Line!Unreadable, Line!Unclassified, Line!ResultNotFound,
    Line!ScopeForbidden, Line!Rejected, Line!Expected, Line!ServerErrors

LEMMA ClassifiedAs ==
  ASSUME NEW a, request \in {"submit", "result"}
  PROVE  /\ Line!Unavailable(a) \/ Line!Unreadable(a) => Line!Classified(a) = "retryable"
         /\ Line!Unclassified(a) => Line!Classified(a) = "raised"
         /\ Line!ResultNotFound(a) => Line!Classified(a) = "not_found"
         /\ Line!ScopeForbidden(a) => Line!Classified(a) = "forbidden"
         /\ Line!Rejected(a) => Line!Classified(a) = "permanent"
  BY ClassesAreApart DEF Line!Classified

LEMMA LineStep ==
  ASSUME LineInv, Line!Next
  PROVE  LineInv' /\ Line!ConcludesFinally
<1> USE DEF LineInv, Line!TypeOK, AnswerIsBacked, ExchangeIsOpen, Line!AcceptedIsHeld,
  Line!GivenUpIsNotTaken, Line!ConcludesFinally, Line!LineRecord
<1> DEFINE Goal == LineInv' /\ Line!ConcludesFinally
<1>1. ASSUME NEW kind \in {"submit", "result"}, Line!Ask(kind) PROVE Goal
  BY <1>1 DEF Line!Ask, Line!NoAnswer, Line!NoVerdict, Line!Bodies, Line!Outcomes
<1>2. ASSUME Line!LineHandles PROVE Goal
  <2>1. /\ request \in {"submit", "result"} /\ outcome = "none" /\ request' = request
        /\ record' = IF Line!Takes THEN "pending" ELSE record
        /\ took' = Line!Takes /\ knew' = record' /\ answer' = Line!LineAnswer(record')
        /\ authorised' = authorised /\ acceptable' = acceptable /\ outcome' = outcome
    BY <1>2 DEF Line!LineHandles
  <2>2. record' \in Line!LineRecord /\ Line!Expected' = Line!Expected
    BY <2>1 DEF Line!Expected
  <2>3. LET a == answer' IN
        /\ a \in [status : Line!Statuses, body : Line!Bodies, verdict : Line!LineRecord]
        /\ a.status = Line!Expected => a.body = "own" /\ a.verdict = record'
        /\ a.status = Line!Expected =>
             authorised /\ (request = "submit" => acceptable) /\ (request = "result" =>
               record' # "none")
        /\ a.status = "404" => record' = "none"
        /\ authorised /\ acceptable /\ request = "submit" => a.status = Line!Expected
    <3> HIDE DEF Line!LineRecord
    <3> QED BY <2>1, <2>2, LineAnswers
  <2>4. Line!Takes => authorised /\ acceptable /\ request = "submit"
    BY DEF Line!Takes
  <2>5. authorised /\ acceptable /\ request = "submit" => record' # "none"
    BY <2>1 DEF Line!Takes
  <2>6. AnswerIsBacked'
    BY <2>1, <2>2, <2>3, <2>4, <2>5
  <2>7. answer'.status # "none" /\ took' \in BOOLEAN /\ (took' => record' # "none")
    BY <2>1, <2>3, <2>4, <2>5, LineTypes DEF Line!Takes, Line!Statuses, Line!Success,
      Line!ClientErrors, Line!ServerErrors, Line!Redirects
  <2>8. Line!TypeOK' /\ ExchangeIsOpen'
    BY <2>1, <2>2, <2>3, <2>7, NoAnswerIsNone
  <2> QED BY <2>1, <2>6, <2>8
<1>3. ASSUME NEW s, NEW b, Line!LineHandlesInVain(s, b) PROVE Goal
  BY <1>3, LineTypes DEF Line!LineHandlesInVain, Line!Takes, Line!Expected, Line!NoAnswer,
    Line!Answer, Line!ServerErrors, Line!Bodies, Line!Statuses, Line!Success
<1>4. ASSUME NEW s, NEW b, NEW v \in {"pending"} \cup Verdicts, Line!NeverReachesLine(s, b, v)
      PROVE  Goal
  BY <1>4, LineTypes, ZenonT(40) DEF Line!NeverReachesLine, Line!Expected, Line!NoAnswer,
    Line!Answer, Line!ServerErrors, Line!Bodies, Line!Statuses, Line!Success, Line!ClientErrors,
      Line!Redirects
<1>5. ASSUME Line!Conclude PROVE Goal
  <2>1. /\ answer # Line!NoAnswer /\ outcome' = Line!Classified(answer)
        /\ request' = "none" /\ answer' = Line!NoAnswer
        /\ record' = record /\ authorised' = authorised /\ acceptable' = acceptable
        /\ took' = took /\ knew' = knew
    BY <1>5 DEF Line!Conclude
  <2> USE LineTypes
  <2>2. /\ Line!AcceptedIsHeld' /\ Line!GivenUpIsNotTaken' /\ Line!ConcludesFinally
        /\ outcome' \in Line!Outcomes
    <3> USE DEF Line!Outcomes
    <3>0. outcome = "none"
      BY <2>1
    <3>1. CASE Line!Unavailable(answer) \/ Line!Unreadable(answer)
      <4>1. outcome' = "retryable"
        BY <2>1, <3>1, ClassifiedAs
      <4> QED BY <2>1, <4>1
    <3>2. CASE Line!Unclassified(answer)
      <4>1. outcome' = "raised"
        BY <2>1, <3>2, ClassifiedAs
      <4> QED BY <2>1, <4>1
    <3>3. CASE Line!ResultNotFound(answer)
      <4>1. outcome' = "not_found"
        BY <2>1, <3>3, ClassifiedAs
      <4>2. knew = "none"
        BY <2>1, <3>3 DEF Line!ResultNotFound
      <4> QED BY <2>1, <4>1, <4>2
    <3>4. CASE Line!ScopeForbidden(answer)
      <4>1. outcome' = "forbidden"
        BY <2>1, <3>4, ClassifiedAs
      <4>2. answer.body = "scope_forbidden" /\ ~took
        BY <2>1, <3>4 DEF Line!ScopeForbidden, Line!Expected, Line!ServerErrors
      <4> QED BY <2>1, <4>1, <4>2
    <3>5. CASE Line!Rejected(answer)
      <4>1. outcome' = "permanent"
        BY <2>1, <3>5, ClassifiedAs
      <4>2. ~took
        BY <2>1, <3>5 DEF Line!Rejected, Line!Unavailable
      <4> QED BY <2>1, <4>1, <4>2
    <3>6. CASE /\ ~Line!Unavailable(answer) /\ ~Line!Unreadable(answer)
               /\ ~Line!Unclassified(answer) /\ ~Line!ResultNotFound(answer)
               /\ ~Line!ScopeForbidden(answer) /\ ~Line!Rejected(answer)
      <4>1. answer.status = Line!Expected
        BY <3>6 DEF Line!Rejected, Line!Unavailable, Line!Unclassified
      <4>2. answer.body = "own"
        BY <2>1, <3>6, <4>1 DEF Line!Unreadable, Line!Bodies
      <4>3. answer.verdict = knew /\ knew \in {record, "pending"} /\ record # "none"
        BY <2>1, <4>1, <4>2
      <4>4. outcome' = IF request = "submit" THEN "accepted" ELSE answer.verdict
        BY <2>1, <3>6 DEF Line!Classified
      <4> QED BY <2>1, <4>3, <4>4
    <3> QED BY <3>1, <3>2, <3>3, <3>4, <3>5, <3>6
  <2> QED BY <2>1, <2>2, NoAnswerIsNone
<1>6. ASSUME NEW v \in Verdicts, Line!Settle(v) PROVE Goal
  <2>1. v # "none" /\ v # "pending" /\ Line!Expected' = Line!Expected
    BY <1>6, LineTypes DEF Line!Settle, Line!Expected
  <2> QED BY <1>6, <2>1 DEF Line!Settle
<1>7. ASSUME Line!Reconfigure PROVE Goal
  <2>1. Line!Expected' = Line!Expected
    BY <1>7 DEF Line!Reconfigure, Line!Expected
  <2> QED BY <1>7, <2>1 DEF Line!Reconfigure
<1> QED
  BY <1>1, <1>2, <1>3, <1>4, <1>5, <1>6, <1>7 DEF Line!Next

LEMMA LineInFocus ==
  ASSUME [Next]_vars, focus = "line"
  PROVE  Line!Next \/ UNCHANGED lineVars
  BY DEF Next, vars

LEMMA LineRests ==
  ASSUME LineInv, UNCHANGED lineVars
  PROVE  LineInv'
  BY DEF lineVars, LineInv, Line!TypeOK, AnswerIsBacked, ExchangeIsOpen,
    Line!AcceptedIsHeld, Line!GivenUpIsNotTaken, Line!Expected

\* Whatever LINE, a gateway before it or another server answers and whatever is lost
\* (LineIntegrationClient): a command is taken for accepted only when LINE holds it, for
\* given up only when LINE did not take it, and a poll ends only with what LINE said.
THEOREM LineAlwaysUnderstood == Spec => LineIsUnderstood
<1> DEFINE I == focus = "line" => LineInv
<1>1. Init => I
  BY LineInit DEF Init
<1>2. ASSUME I, [Next]_vars
      PROVE  I' /\ [focus = "line" => Line!ConcludesFinally]_vars
  <2>1. UNCHANGED focus
    BY <1>2 DEF Next, vars
  <2>2. CASE focus # "line"
    BY <2>1, <2>2
  <2>3. CASE focus = "line" /\ Line!Next
    BY <1>2, <2>1, <2>3, LineStep
  <2>4. CASE focus = "line" /\ UNCHANGED lineVars
    <3>1. LineInv'
      BY <1>2, <2>4, LineRests
    <3>2. Line!ConcludesFinally
      BY <2>4 DEF lineVars, Line!ConcludesFinally
    <3> QED BY <2>1, <2>4, <3>1, <3>2
  <2> QED BY <1>2, <2>2, <2>3, <2>4, LineInFocus
<1>3. I => (focus = "line" => Line!AcceptedIsHeld /\ Line!GivenUpIsNotTaken)
  BY DEF LineInv
<1> QED
  BY <1>1, <1>2, <1>3, PTL DEF Spec, LineIsUnderstood

-----------------------------------------------------------------------------
(* Validations: the invariant is TargetValidationProofs'. *)

LEMMA ManualInFocus ==
  ASSUME [Next]_vars, focus = "manual"
  PROVE  [Manual!Next]_(Manual!vars)
  BY DEF Next, vars, validationVars, Manual!vars, Manual!facts, Manual!answers

LEMMA AutomaticInFocus ==
  ASSUME [Next]_vars, focus = "automatic"
  PROVE  [Automatic!Next]_(Automatic!vars)
  BY DEF Next, vars, validationVars, Automatic!vars, Automatic!facts, Automatic!answers

\* What a validation of a manual or of an automatic operation concludes
\* (validate_operation) was so at some time of it, whatever changed between its calls.
THEOREM VerdictAlwaysJustified == Spec => []VerdictIsJustified
<1> DEFINE I == /\ focus = "manual" => Manual!VInv
                /\ focus = "automatic" => Automatic!VInv
<1>1. Init => I
  BY ValidationAssumption, Manual!VInvInit, Automatic!VInvInit DEF Init
<1>2. I /\ [Next]_vars => I'
  <2> SUFFICES ASSUME I, [Next]_vars PROVE I'
    OBVIOUS
  <2>1. UNCHANGED focus
    BY DEF Next, vars
  <2>2. focus = "manual" => Manual!VInv'
    BY ManualInFocus, ValidationAssumption, Manual!VInvStep
  <2>3. focus = "automatic" => Automatic!VInv'
    BY AutomaticInFocus, ValidationAssumption, Automatic!VInvStep
  <2> QED BY <2>1, <2>2, <2>3
<1>3. I => VerdictIsJustified
  BY DEF VerdictIsJustified, Manual!VInv, Manual!VerdictIsJust, Automatic!VInv,
    Automatic!VerdictIsJust
<1> QED
  BY <1>1, <1>2, <1>3, PTL DEF Spec

-----------------------------------------------------------------------------
(* Answers of the business system *)

GatewayConstants == Gateway!MembersAssumption /\ Gateway!BoundAssumption

\* The instance's sets and sequences are the usual ones.
LEMMA SameNotions ==
  /\ \A S : Gateway!Cardinality(S) = Cardinality(S)
  /\ \A S : Gateway!IsFiniteSet(S) = IsFiniteSet(S)
  /\ \A S : Gateway!SetToSeq(S) = SetToSeq(S)
  /\ \A s, i : Gateway!RemoveAt(s, i) = RemoveAt(s, i)
<1>1. \A S : Gateway!Cardinality(S) = Cardinality(S)
  BY DEF Cardinality, Gateway!Cardinality
<1>2. \A S : Gateway!IsFiniteSet(S) = IsFiniteSet(S)
  BY DEF IsFiniteSet, Gateway!IsFiniteSet
<1>3. \A f : Gateway!IsInjective(f) = IsInjective(f)
  BY DEF IsInjective, Gateway!IsInjective
<1>4. \A S : Gateway!SetToSeq(S) = SetToSeq(S)
  BY <1>1, <1>3 DEF SetToSeq, Gateway!SetToSeq
<1>5. \A s, i : Gateway!RemoveAt(s, i) = RemoveAt(s, i)
  BY DEF RemoveAt, Gateway!RemoveAt
<1> QED BY <1>1, <1>2, <1>4, <1>5

-----------------------------------------------------------------------------
(* The inductive invariant *)

Names == Members \cup {"missing", "odd", "empty", "other"}
SomeRows ==
  [id : Names, flag : {"yes", "no", "missing", "odd"},
   reason : {"none", "reason", "missing", "odd"},
   version : {"version", "missing", "odd", "empty"}, level : {"level", "missing", "odd"},
   state : {"published", "closed", "missing", "odd"}]

\* What an honest answer says of a member.
Right(m) == Gateway!YesNo(Gateway!IsFit(m))

\* The head says what is true, or shows that it was damaged.
HeadIsHonestOrBad ==
  LET honest == Gateway!HonestHead IN
  /\ head.id \in {"asked", "other", "empty"} \cup Gateway!Bad
  /\ head.flag \in {honest.flag} \cup Gateway!Bad
  /\ head.version \in {honest.version, "empty"} \cup Gateway!Bad
  /\ \/ head.reason \in {honest.reason} \cup Gateway!Bad
     \/ head.reason = "reason" /\ honest.flag = "yes"
  /\ head.state \in {honest.state} \cup Gateway!Bad
  /\ head.more \in {honest.more} \cup Gateway!Bad
  /\ head.total \in {"known", "boolean"} \cup Gateway!Bad
  /\ head = [id |-> head.id, flag |-> head.flag, reason |-> head.reason,
             version |-> head.version, stamp |-> head.stamp, state |-> head.state,
             more |-> head.more, total |-> head.total]

Nameless == \E i \in DOMAIN rows : rows[i].id \notin Members
Decided(i) == rows[i].id \in Members /\ Gateway!DecisionFlag(rows[i].flag)
StateKnown(i) == rows[i].id \in Members /\ rows[i].state \in {"published", "closed"}

\* A row that names a member says what is true of it, unless another row of the
\* same member contradicts it or has lost its name; a no has a reason, if one that
\* is not readable; and before a row is missed, another has lost its name.
RowsAreHonestOrBad ==
  /\ rows \in Seq(SomeRows)
  /\ \A i \in DOMAIN rows : rows[i].id \in Members => rows[i].id \in Gateway!Listed
  /\ call # "validate" => \A i \in DOMAIN rows : rows[i].id # "other"
  /\ \A i \in DOMAIN rows :
       Decided(i) /\ rows[i].flag # Right(rows[i].id) =>
         \/ Nameless
         \/ \E k \in DOMAIN rows : rows[k].id = rows[i].id /\ rows[k].flag # rows[i].flag
  /\ \A i \in DOMAIN rows : rows[i].flag = "no" => rows[i].reason # "none"
  /\ call # "validate" =>
       \A i \in DOMAIN rows :
         StateKnown(i) /\ rows[i].state # Gateway!JobState(rows[i].id) =>
           Nameless \/ \E k \in DOMAIN rows : k # i /\ rows[k].id = rows[i].id
  /\ call # "validate" =>
       Nameless \/ \A m \in Gateway!Listed : \E i \in DOMAIN rows : rows[i].id = m

Places == {"scope", "sent", "answered", "concluded", "replied"}

ExchangeIsHonest ==
  /\ call \in Gateway!Calls /\ truth \in Gateway!Truths
  /\ gatewayPc \in Places /\ damages \in Nat
  /\ gatewayPc \in {"scope", "sent"} => head = Gateway!HonestHead /\ damages = 0
  /\ gatewayPc \in {"scope", "sent", "answered"} => conclusion = Gateway!Nothing /\ reply = 0
  /\ gatewayPc = "answered" =>
       /\ status \in {"ok", "not_found", "organization_not_found", "failed"}
       /\ status = "not_found" => ~Gateway!Exists
       /\ status = "ok" =>
            /\ Gateway!Exists
            /\ HeadIsHonestOrBad /\ RowsAreHonestOrBad
            /\ damages = 0 => head = Gateway!HonestHead /\ rows = Gateway!HonestRows
  /\ gatewayPc = "concluded" =>
       conclusion.kind \in {"answer", "not_found", "unavailable"} /\ reply = 0

GInv ==
  /\ ExchangeIsHonest
  /\ Gateway!ConclusionIsTrue /\ Gateway!HonestIsUnderstood /\ Gateway!ReplyTellsOutage

-----------------------------------------------------------------------------
(* Rows *)

\* The provider lists everybody it has to, once.
LEMMA HonestRowsList ==
  ASSUME GatewayConstants, call \in Gateway!Calls, truth \in Gateway!Truths
  PROVE  LET H == Gateway!HonestRows IN
         /\ H \in Seq(SomeRows)
         /\ \A i \in DOMAIN H : H[i].id \in Gateway!Listed /\ H[i] = Gateway!HonestRow(H[i].id)
         /\ \A m \in Gateway!Listed : \E i \in DOMAIN H : H[i].id = m
         /\ \A i, k \in DOMAIN H : H[i].id = H[k].id => i = k
         /\ Len(H) <= Cardinality(Members)
<1> DEFINE S == {Gateway!HonestRow(m) : m \in Gateway!Listed}
           F == [m \in Gateway!Listed |-> Gateway!HonestRow(m)]
           n == Cardinality(S)
<1>1. Gateway!Listed \subseteq Members /\ IsFiniteSet(Gateway!Listed)
  <2>1. Gateway!Listed \subseteq Members
    BY DEF Gateway!Listed, Gateway!Truths
  <2>2. IsFiniteSet(Members)
    BY SameNotions DEF GatewayConstants, Gateway!MembersAssumption
  <2> QED BY <2>1, <2>2, FS_Subset
<1>2. F \in Surjection(Gateway!Listed, S)
  BY DEF Surjection
<1>3. IsFiniteSet(S) /\ n \in Nat /\ ExistsBijection(1..n, S)
  <2> HIDE DEF S, F
  <2>1. IsFiniteSet(S)
    BY <1>1, <1>2, FS_Surjection
  <2> QED BY <2>1, FS_CardinalityType
<1>4. PICK b \in [1..n -> S] : IsInjective(b)
  <2> HIDE DEF S, n
  <2> QED BY <1>3 DEF ExistsBijection, Bijection, Injection
<1> DEFINE H == Gateway!HonestRows
<1>5. H = SetToSeq(S)
  <2>1. H = Gateway!SetToSeq(S)
    BY DEF Gateway!HonestRows
  <2> HIDE DEF H, S
  <2> QED BY <2>1, SameNotions
<1>6. H \in [1..n -> S] /\ \A i, k \in 1..n : H[i] = H[k] => i = k
  <2> HIDE DEF S, H
  <2>1. SetToSeq(S) = CHOOSE f \in [1..n -> S] : IsInjective(f)
    BY DEF SetToSeq
  <2>3. SetToSeq(S) \in [1..n -> S] /\ IsInjective(SetToSeq(S))
    BY <1>4, <2>1
  <2> QED BY <1>5, <2>3 DEF IsInjective
<1>7. H \in Injection(1..n, S)
  <2> HIDE DEF S, H, n
  <2> QED BY <1>6 DEF Injection, IsInjective
<1>8. H \in Surjection(1..n, S)
  <2> HIDE DEF S, H
  <2>1. Cardinality(1..n) = n
    BY <1>3, FS_Interval
  <2> QED BY <1>3, <1>7, <2>1, FS_Injection
<1>9. \A m \in Gateway!Listed : Gateway!HonestRow(m) \in SomeRows /\ Gateway!HonestRow(m).id = m
  BY <1>1 DEF Gateway!HonestRow, SomeRows, Names, Gateway!YesNo, Gateway!RowReason,
    Gateway!JobState
<1>10. S \subseteq SomeRows
  BY <1>9
<1>11. H \in Seq(SomeRows) /\ DOMAIN H = 1..n
  <2> HIDE DEF S, H, n
  <2> QED BY <1>3, <1>6, <1>10
<1>12. \A i \in 1..n : H[i].id \in Gateway!Listed /\ H[i] = Gateway!HonestRow(H[i].id)
  <2> SUFFICES ASSUME NEW i \in 1..n
               PROVE  H[i].id \in Gateway!Listed /\ H[i] = Gateway!HonestRow(H[i].id)
    OBVIOUS
  <2>1. H[i] \in S
    BY <1>6
  <2>2. PICK m \in Gateway!Listed : H[i] = Gateway!HonestRow(m)
    BY <2>1
  <2> QED BY <1>9, <2>2
<1>13. \A m \in Gateway!Listed : \E i \in 1..n : H[i].id = m
  <2> SUFFICES ASSUME NEW m \in Gateway!Listed PROVE \E i \in 1..n : H[i].id = m
    OBVIOUS
  <2>1. Gateway!HonestRow(m) \in S
    OBVIOUS
  <2>2. PICK i \in 1..n : H[i] = Gateway!HonestRow(m)
    BY <1>8, <2>1 DEF Surjection
  <2> QED BY <1>9, <2>2
<1>14. Len(H) = n /\ n <= Cardinality(Members)
  <2> HIDE DEF S, H, F
  <2>1. Cardinality(S) <= Cardinality(Gateway!Listed)
    BY <1>1, <1>2, FS_Surjection
  <2>2. IsFiniteSet(Members)
    BY SameNotions DEF GatewayConstants, Gateway!MembersAssumption
  <2>3. Cardinality(Gateway!Listed) <= Cardinality(Members) /\ Cardinality(Gateway!Listed) \in Nat
    BY <1>1, <2>2, FS_Subset, FS_CardinalityType
  <2>4. Cardinality(Members) \in Nat
    BY <2>2, FS_CardinalityType
  <2>5. n <= Cardinality(Members)
    BY <1>3, <2>1, <2>3, <2>4
  <2>6. Len(H) = n
    BY <1>3, <1>11
  <2> QED BY <2>5, <2>6
<1> HIDE DEF H, n
<1> QED
  BY <1>6, <1>11, <1>12, <1>13, <1>14 DEF H

\* What is left when a row is lost.
LEMMA RowLost ==
  ASSUME NEW S, NEW s \in Seq(S), NEW i \in DOMAIN s
  PROVE  LET t == RemoveAt(s, i) IN
         /\ t \in Seq(S) /\ Len(t) = Len(s) - 1
         /\ \A k \in DOMAIN t : \E j \in DOMAIN s : j # i /\ t[k] = s[j]
         /\ \A j \in DOMAIN s : j # i => \E k \in DOMAIN t : t[k] = s[j]
<1> DEFINE a == SubSeq(s, 1, i - 1)
           z == SubSeq(s, i + 1, Len(s))
           t == a \o z
<1>1. i \in 1..Len(s) /\ Len(s) \in Nat /\ i \in Nat
  OBVIOUS
<1>2. a \in Seq(S) /\ Len(a) = i - 1 /\ \A k \in 1..(i - 1) : a[k] = s[k]
  BY <1>1, SubSeqProperties
<1>3. z \in Seq(S) /\ Len(z) = Len(s) - i /\ \A k \in 1..(Len(s) - i) : z[k] = s[i + k]
  BY <1>1, SubSeqProperties
<1> HIDE DEF a, z
<1>4. /\ t \in Seq(S) /\ Len(t) = Len(s) - 1
      /\ \A k \in 1..Len(t) : t[k] = IF k <= Len(a) THEN a[k] ELSE z[k - Len(a)]
  <2>1. /\ a \o z \in Seq(S) /\ Len(a \o z) = Len(a) + Len(z)
        /\ \A k \in 1..Len(a) + Len(z) : (a \o z)[k] = IF k <= Len(a) THEN a[k] ELSE z[k - Len(a)]
    BY <1>2, <1>3, ConcatProperties
  <2>2. Len(a) + Len(z) = Len(s) - 1
    BY <1>1, <1>2, <1>3
  <2> QED BY <2>1, <2>2
<1> HIDE DEF t
<1>5. \A k \in 1..Len(t) : t[k] = IF k < i THEN s[k] ELSE s[k + 1]
  <2> SUFFICES ASSUME NEW k \in 1..Len(t) PROVE t[k] = IF k < i THEN s[k] ELSE s[k + 1]
    OBVIOUS
  <2>1. CASE k < i
    <3>1. k \in 1..(i - 1) /\ k <= Len(a)
      BY <1>1, <1>2, <1>4, <2>1
    <3> QED BY <1>2, <1>4, <2>1, <3>1
  <2>2. CASE ~(k < i)
    <3>1. /\ ~(k <= Len(a)) /\ k - Len(a) \in 1..(Len(s) - i)
          /\ i + (k - Len(a)) = k + 1
      BY <1>1, <1>2, <1>4, <2>2
    <3> QED BY <1>3, <1>4, <2>2, <3>1
  <2> QED BY <2>1, <2>2
<1>6. DOMAIN t = 1..Len(t) /\ DOMAIN s = 1..Len(s)
  BY <1>4
<1>7. \A k \in DOMAIN t : \E j \in DOMAIN s : j # i /\ t[k] = s[j]
  <2> SUFFICES ASSUME NEW k \in 1..Len(t) PROVE \E j \in 1..Len(s) : j # i /\ t[k] = s[j]
    BY <1>6
  <2>1. CASE k < i
    BY <1>1, <1>4, <1>5, <2>1
  <2>2. CASE ~(k < i)
    <3>1. k + 1 \in 1..Len(s) /\ k + 1 # i
      BY <1>1, <1>4, <2>2
    <3> QED BY <1>5, <2>2, <3>1
  <2> QED BY <2>1, <2>2
<1>8. \A j \in DOMAIN s : j # i => \E k \in DOMAIN t : t[k] = s[j]
  <2> SUFFICES ASSUME NEW j \in 1..Len(s), j # i PROVE \E k \in 1..Len(t) : t[k] = s[j]
    BY <1>6
  <2>1. CASE j < i
    <3>1. j \in 1..Len(t)
      BY <1>1, <1>4, <2>1
    <3> QED BY <1>5, <2>1, <3>1
  <2>2. CASE j > i
    <3>1. j - 1 \in 1..Len(t) /\ ~(j - 1 < i) /\ (j - 1) + 1 = j
      BY <1>1, <1>4, <2>2
    <3> QED BY <1>5, <3>1
  <2> QED BY <1>1, <2>1, <2>2
<1> QED
  BY <1>4, <1>7, <1>8 DEF RemoveAt, t, a, z

\* Distinct names: as many as there are rows.
LEMMA UniqueIsApart ==
  ASSUME rows \in Seq(SomeRows)
  PROVE  Gateway!Unique <=> \A i, k \in DOMAIN rows : rows[i].id = rows[k].id => i = k
<1> DEFINE D == DOMAIN rows
           T == {rows[i].id : i \in D}
           f == [i \in D |-> rows[i].id]
<1>1. D = 1..Len(rows) /\ Len(rows) \in Nat
  OBVIOUS
<1>2. IsFiniteSet(D) /\ Cardinality(D) = Len(rows)
  BY <1>1, FS_Interval
<1>3. f \in Surjection(D, T)
  BY DEF Surjection
<1>4. f \in Injection(D, T) <=> \A i, k \in D : rows[i].id = rows[k].id => i = k
  BY DEF Injection, IsInjective
<1>5. Cardinality(T) = Cardinality(D) <=> f \in Injection(D, T)
  <2> HIDE DEF f, T, D
  <2> QED BY <1>2, <1>3, FS_Surjection
<1>6. Gateway!Unique <=> Cardinality(T) = Len(rows)
  <2>1. Gateway!Unique <=> Gateway!Cardinality(T) = Len(rows)
    BY DEF Gateway!Unique
  <2> HIDE DEF T
  <2> QED BY <2>1, SameNotions
<1> QED
  BY <1>2, <1>4, <1>5, <1>6

HeadNames == {"id", "flag", "reason", "version", "stamp", "state", "more", "total"}
RowNames == {"id", "flag", "reason", "version", "level", "state"}

LEMMA FieldsAreNamed ==
  Gateway!HeadFields \subseteq HeadNames /\ Gateway!RowFields \subseteq RowNames
BY DEF Gateway!HeadFields, Gateway!RowFields, HeadNames, RowNames

\* Of the head, too, a field is lost or replaced.
LEMMA HeadDamaged ==
  ASSUME HeadIsHonestOrBad, NEW field \in HeadNames,
         NEW v \in Gateway!Spoilt(field), head' = [head EXCEPT ![field] = v],
         UNCHANGED Gateway!question
  PROVE  HeadIsHonestOrBad'
<1> USE DEF HeadIsHonestOrBad, Gateway!Spoilt, Gateway!Bad, Gateway!question
<1>0. Gateway!HonestHead' = Gateway!HonestHead
  BY DEF Gateway!HonestHead, Gateway!AskedState
<1>1. CASE field = "id"
  BY <1>0, <1>1
<1>2. CASE field = "flag"
  BY <1>0, <1>2
<1>3. CASE field = "reason"
  BY <1>0, <1>3
<1>4. CASE field = "version"
  BY <1>0, <1>4
<1>5. CASE field = "stamp"
  BY <1>0, <1>5
<1>6. CASE field = "state"
  BY <1>0, <1>6
<1>7. CASE field = "more"
  BY <1>0, <1>7
<1>8. CASE field = "total"
  BY <1>0, <1>8
<1> QED BY <1>1, <1>2, <1>3, <1>4, <1>5, <1>6, <1>7, <1>8 DEF HeadNames

-----------------------------------------------------------------------------
(* Damage keeps what the rows and the head can say. *)

\* One row changes.  Whoever it has not contradicted it does not contradict afterwards.
LEMMA RowChanges ==
  ASSUME GatewayConstants, RowsAreHonestOrBad, UNCHANGED Gateway!question,
         NEW i \in DOMAIN rows, NEW r \in SomeRows, rows' = [rows EXCEPT ![i] = r],
         \/ /\ r.id = rows[i].id /\ (r.flag = rows[i].flag \/ ~Gateway!DecisionFlag(r.flag))
            /\ r.state = rows[i].state \/ r.state \in Gateway!Bad
         \/ r.id \notin Members /\ r.flag = rows[i].flag /\ (r.id = "other" => call = "validate"),
         r.flag = "no" => r.reason # "none"
  PROVE  RowsAreHonestOrBad'
<1> USE DEF RowsAreHonestOrBad, Gateway!question
<1>1. /\ rows' \in Seq(SomeRows) /\ DOMAIN rows' = DOMAIN rows /\ rows'[i] = r
      /\ \A k \in DOMAIN rows : k # i => rows'[k] = rows[k]
  BY ExceptSeq
<1>2. /\ Gateway!Listed' = Gateway!Listed
      /\ \A m : Right(m)' = Right(m)
      /\ \A m : Gateway!JobState(m)' = Gateway!JobState(m)
  BY DEF Gateway!Listed, Right, Gateway!IsFit, Gateway!JobState
<1>3. \A k \in DOMAIN rows' : rows'[k].id \in Members => rows'[k].id \in Gateway!Listed'
  BY <1>1, <1>2
<1>4. call' # "validate" => \A k \in DOMAIN rows' : rows'[k].id # "other"
  BY <1>1
<1>5. Nameless => Nameless'
  BY <1>1 DEF Nameless
<1>6. ASSUME NEW k \in DOMAIN rows', Decided(k)', rows'[k].flag # Right(rows'[k].id), ~Nameless'
      PROVE  \E j \in DOMAIN rows' : rows'[j].id = rows'[k].id /\ rows'[j].flag # rows'[k].flag
  <2>1. r.id = rows[i].id /\ (r.flag = rows[i].flag \/ ~Gateway!DecisionFlag(r.flag))
    BY <1>1, <1>6 DEF Nameless
  <2>2. rows'[k].flag = rows[k].flag /\ rows'[k].id = rows[k].id
        /\ Gateway!DecisionFlag(rows[k].flag)
    BY <1>1, <1>6, <2>1 DEF Decided
  <2>3. Decided(k) /\ rows[k].flag # Right(rows[k].id) /\ ~Nameless
    BY <1>2, <1>5, <1>6, <2>2 DEF Decided
  <2>4. PICK j \in DOMAIN rows : rows[j].id = rows[k].id /\ rows[j].flag # rows[k].flag
    BY <1>1, <2>3
  <2>5. rows'[j].id = rows[j].id /\ rows'[j].flag # rows[k].flag
    BY <1>1, <2>1, <2>2, <2>4
  <2> QED BY <1>1, <2>2, <2>4, <2>5
<1>7. call' # "validate" =>
        Nameless' \/ \A m \in Gateway!Listed' : \E k \in DOMAIN rows' : rows'[k].id = m
  <2> SUFFICES ASSUME call # "validate", ~Nameless', NEW m \in Gateway!Listed
               PROVE  \E k \in DOMAIN rows' : rows'[k].id = m
    BY <1>2
  <2>1. r.id = rows[i].id
    BY <1>1 DEF Nameless
  <2>2. PICK k \in DOMAIN rows : rows[k].id = m
    BY <1>5
  <2> QED BY <1>1, <2>1, <2>2
<1>8. \A k \in DOMAIN rows' : rows'[k].flag = "no" => rows'[k].reason # "none"
  BY <1>1
<1>9. ASSUME call # "validate", ~Nameless', NEW k \in DOMAIN rows', StateKnown(k)',
             rows'[k].state # Gateway!JobState(rows'[k].id)
      PROVE  \E j \in DOMAIN rows' : j # k /\ rows'[j].id = rows'[k].id
  <2>1. r.id = rows[i].id /\ (r.state = rows[i].state \/ r.state \in Gateway!Bad)
    BY <1>1, <1>9 DEF Nameless
  <2>2. /\ rows'[k].state = rows[k].state /\ rows'[k].id = rows[k].id
        /\ \A j \in DOMAIN rows : rows'[j].id = rows[j].id
    BY <1>1, <1>9, <2>1 DEF StateKnown, Gateway!Bad
  <2>4. StateKnown(k) /\ rows[k].state # Gateway!JobState(rows[k].id) /\ ~Nameless
    BY <1>5, <1>9, <2>2 DEF StateKnown
  <2>5. PICK j \in DOMAIN rows : j # k /\ rows[j].id = rows[k].id
    BY <1>1, <1>9, <2>4
  <2> QED BY <1>1, <2>2, <2>5
<1> QED
  BY <1>1, <1>2, <1>3, <1>4, <1>6, <1>7, <1>8, <1>9

LEMMA RowDamageStep ==
  ASSUME GatewayConstants, RowsAreHonestOrBad,
         NEW i \in Gateway!Positions, NEW field \in RowNames,
         Gateway!DamageRow(i, field) \/ Gateway!ContradictRow(i)
  PROVE  RowsAreHonestOrBad'
<1>1. UNCHANGED Gateway!question /\ i \in DOMAIN rows /\ rows[i] \in SomeRows
  BY DEF Gateway!DamageRow, Gateway!ContradictRow, Gateway!Damage, RowsAreHonestOrBad
<1>2. CASE Gateway!DamageRow(i, field)
  <2>1. PICK v \in Gateway!Spoilt(field) : /\ v = "other" => call = "validate" \/ field # "id"
                                           /\ rows' = [rows EXCEPT ![i][field] = v]
    BY <1>2 DEF Gateway!DamageRow
  <2> DEFINE r == [rows[i] EXCEPT ![field] = v]
  <2>2. rows' = [rows EXCEPT ![i] = r]
    BY <2>1
  <2>3. /\ r \in SomeRows
        /\ r.id = IF field = "id" THEN v ELSE rows[i].id
        /\ r.flag = IF field = "flag" THEN v ELSE rows[i].flag
        /\ r.reason = IF field = "reason" THEN v ELSE rows[i].reason
        /\ r.state = IF field = "state" THEN v ELSE rows[i].state
        /\ field = "id" => v \notin Members
        /\ field = "flag" => ~Gateway!DecisionFlag(v)
        /\ field \in {"flag", "reason", "state"} => v \in Gateway!Bad
    <3> HIDE DEF r
    <3>1. r = [rows[i] EXCEPT ![field] = v]
      BY DEF r
    <3>2. /\ r \in SomeRows
          /\ r.id = IF field = "id" THEN v ELSE rows[i].id
          /\ r.flag = IF field = "flag" THEN v ELSE rows[i].flag
          /\ r.reason = IF field = "reason" THEN v ELSE rows[i].reason
          /\ r.state = IF field = "state" THEN v ELSE rows[i].state
          /\ field = "id" => v \in {"missing", "odd", "other", "empty"}
          /\ field = "flag" => ~Gateway!DecisionFlag(v)
          /\ field \in {"flag", "reason", "state"} => v \in Gateway!Bad
      <4> USE DEF RowNames, Gateway!Spoilt, Gateway!Bad, SomeRows, Names, Gateway!DecisionFlag
      <4>1. CASE field = "id"
        BY <1>1, <3>1, <4>1
      <4>2. CASE field = "flag"
        BY <1>1, <3>1, <4>2
      <4>3. CASE field = "reason"
        BY <1>1, <3>1, <4>3
      <4>4. CASE field = "version"
        BY <1>1, <3>1, <4>4
      <4>5. CASE field = "level"
        BY <1>1, <3>1, <4>5
      <4>6. CASE field = "state"
        BY <1>1, <3>1, <4>6
      <4> QED BY <4>1, <4>2, <4>3, <4>4, <4>5, <4>6
    <3> QED BY <3>2 DEF GatewayConstants, Gateway!MembersAssumption
  <2> HIDE DEF r
  <2>6. r.flag = "no" => r.reason # "none"
    BY <1>1, <2>3 DEF RowsAreHonestOrBad, Gateway!Bad
  <2>4. CASE field = "id"
    <3>1. r.id = v /\ v \notin Members /\ r.flag = rows[i].flag
      BY <2>3, <2>4
    <3>2. v = "other" => call = "validate"
      BY <2>1, <2>4
    <3> QED BY <1>1, <2>2, <2>3, <2>6, <3>1, <3>2, RowChanges
  <2>5. CASE field # "id"
    BY <1>1, <2>1, <2>2, <2>3, <2>5, <2>6, RowChanges
  <2> QED BY <2>4, <2>5
<1>3. CASE Gateway!ContradictRow(i)
  <2> DEFINE r == [rows[i] EXCEPT !.reason = "reason"]
  <2>1. rows' = [rows EXCEPT ![i] = r] /\ r \in SomeRows /\ r.id = rows[i].id
        /\ r.flag = rows[i].flag /\ r.state = rows[i].state /\ r.reason = "reason"
    BY <1>1, <1>3 DEF Gateway!ContradictRow, SomeRows
  <2> HIDE DEF r
  <2> QED BY <1>1, <2>1, RowChanges
<1> QED BY <1>2, <1>3

LEMMA RowRepeatStep ==
  ASSUME GatewayConstants, RowsAreHonestOrBad, NEW i \in Gateway!Positions, Gateway!RepeatRow(i)
  PROVE  RowsAreHonestOrBad'
<1> USE DEF RowsAreHonestOrBad, Gateway!question
<1>1. UNCHANGED Gateway!question /\ i \in DOMAIN rows /\ rows[i] \in SomeRows
  BY DEF Gateway!RepeatRow, Gateway!Damage
<1>2. PICK r \in SomeRows : /\ rows' = Append(rows, r) /\ r.id = rows[i].id
                            /\ r = rows[i] \/ r.flag # rows[i].flag
                            /\ r.flag = "no" => r.reason # "none"
  <2>1. PICK r \in {rows[i], [rows[i] EXCEPT !.flag = Gateway!YesNo(@ = "no"),
                        !.reason = IF rows[i].flag = "no" THEN "none" ELSE "reason",
                        !.state = IF @ = "published" THEN "closed" ELSE "published"]} :
             rows' = Append(rows, r)
    BY DEF Gateway!RepeatRow
  <2>2. r = rows[i] \/ r = [rows[i] EXCEPT !.flag = Gateway!YesNo(@ = "no"),
                        !.reason = IF rows[i].flag = "no" THEN "none" ELSE "reason",
                        !.state = IF @ = "published" THEN "closed" ELSE "published"]
    BY <2>1
  <2>3. r \in SomeRows /\ r.id = rows[i].id /\ (r = rows[i] \/ r.flag # rows[i].flag)
    BY <1>1, <2>2, ZenonT(40) DEF SomeRows, Gateway!YesNo
  <2>4. r.flag = "no" => r.reason # "none"
    BY <1>1, <2>2 DEF SomeRows, Gateway!YesNo
  <2> QED BY <2>1, <2>3, <2>4
<1> DEFINE n == Len(rows) + 1
<1>3. /\ rows' \in Seq(SomeRows) /\ DOMAIN rows' = DOMAIN rows \cup {n} /\ rows'[n] = r
      /\ \A k \in DOMAIN rows : rows'[k] = rows[k]
  <2>1. /\ rows' \in Seq(SomeRows) /\ Len(rows') = Len(rows) + 1 /\ rows'[n] = r
        /\ \A k \in 1..Len(rows) : rows'[k] = rows[k]
    BY <1>2, AppendProperties
  <2>2. DOMAIN rows = 1..Len(rows) /\ DOMAIN rows' = 1..Len(rows') /\ Len(rows) \in Nat
    BY <2>1
  <2>3. 1..(Len(rows) + 1) = 1..Len(rows) \cup {Len(rows) + 1}
    BY <2>2
  <2> QED BY <2>1, <2>2, <2>3
<1> HIDE DEF n
<1>4. /\ Gateway!Listed' = Gateway!Listed
      /\ \A m : Right(m)' = Right(m)
      /\ \A m : Gateway!JobState(m)' = Gateway!JobState(m)
  BY <1>1 DEF Gateway!Listed, Right, Gateway!IsFit, Gateway!JobState
<1>5. /\ \A k \in DOMAIN rows' : rows'[k].id \in Members => rows'[k].id \in Gateway!Listed'
      /\ call' # "validate" => \A k \in DOMAIN rows' : rows'[k].id # "other"
  BY <1>1, <1>2, <1>3, <1>4
<1>6. Nameless => Nameless'
  BY <1>3 DEF Nameless
<1>7. ASSUME NEW k \in DOMAIN rows', Decided(k)', rows'[k].flag # Right(rows'[k].id), ~Nameless'
      PROVE  \E j \in DOMAIN rows' : rows'[j].id = rows'[k].id /\ rows'[j].flag # rows'[k].flag
  <2>1. ASSUME NEW j \in DOMAIN rows, rows'[k] = rows[j]
        PROVE  \E h \in DOMAIN rows' : rows'[h].id = rows'[k].id /\ rows'[h].flag # rows'[k].flag
    <3>1. Decided(j) /\ rows[j].flag # Right(rows[j].id) /\ ~Nameless
      BY <1>4, <1>6, <1>7, <2>1 DEF Decided
    <3>2. PICK h \in DOMAIN rows : rows[h].id = rows[j].id /\ rows[h].flag # rows[j].flag
      BY <3>1
    <3> QED BY <1>3, <2>1, <3>2
  <2>2. CASE k = n /\ r.flag # rows[i].flag
    BY <1>1, <1>2, <1>3, <2>2
  <2>3. CASE k = n /\ r = rows[i]
    BY <1>1, <1>3, <2>1, <2>3
  <2>4. CASE k # n
    BY <1>3, <2>1, <2>4
  <2> QED BY <1>2, <2>2, <2>3, <2>4
<1>8. call' # "validate" =>
        Nameless' \/ \A m \in Gateway!Listed' : \E k \in DOMAIN rows' : rows'[k].id = m
  BY <1>1, <1>3, <1>4, <1>6
<1>9. \A k \in DOMAIN rows' : rows'[k].flag = "no" => rows'[k].reason # "none"
  BY <1>2, <1>3
<1>10. ASSUME call # "validate", ~Nameless', NEW k \in DOMAIN rows', StateKnown(k)',
              rows'[k].state # Gateway!JobState(rows'[k].id)
       PROVE  \E j \in DOMAIN rows' : j # k /\ rows'[j].id = rows'[k].id
  <2>1. CASE k = n
    <3>1. i # n
      BY <1>1 DEF n
    <3> QED BY <1>1, <1>2, <1>3, <2>1, <3>1
  <2>2. CASE k # n
    <3>1. k \in DOMAIN rows /\ rows'[k] = rows[k]
      BY <1>3, <2>2
    <3>3. StateKnown(k) /\ rows[k].state # Gateway!JobState(rows[k].id) /\ ~Nameless
      BY <1>6, <1>10, <3>1 DEF StateKnown
    <3>4. PICK j \in DOMAIN rows : j # k /\ rows[j].id = rows[k].id
      BY <1>10, <3>1, <3>3
    <3> QED BY <1>3, <3>1, <3>4
  <2> QED BY <2>1, <2>2
<1> QED
  BY <1>1, <1>3, <1>4, <1>5, <1>7, <1>8, <1>9, <1>10

LEMMA RowLossStep ==
  ASSUME GatewayConstants, RowsAreHonestOrBad, NEW i \in Gateway!Positions, Gateway!LoseRow(i)
  PROVE  RowsAreHonestOrBad'
<1> USE DEF RowsAreHonestOrBad, Gateway!question
<1>1. /\ UNCHANGED Gateway!question /\ i \in DOMAIN rows /\ call = "validate"
          /\ rows[i].id \in Members
      /\ \A k \in DOMAIN rows : rows[k].id = rows[i].id => rows[k] = rows[i]
      /\ rows' = RemoveAt(rows, i)
  <2>1. rows' = Gateway!RemoveAt(rows, i)
    BY DEF Gateway!LoseRow
  <2>2. rows' = RemoveAt(rows, i)
    BY <2>1, SameNotions
  <2> QED BY <2>2 DEF Gateway!LoseRow, Gateway!Damage
<1>2. /\ rows' \in Seq(SomeRows)
      /\ \A k \in DOMAIN rows' : \E j \in DOMAIN rows : j # i /\ rows'[k] = rows[j]
      /\ \A j \in DOMAIN rows : j # i => \E k \in DOMAIN rows' : rows'[k] = rows[j]
  BY <1>1, RowLost
<1>3. /\ Gateway!Listed' = Gateway!Listed
      /\ \A m : Right(m)' = Right(m)
      /\ \A m : Gateway!JobState(m)' = Gateway!JobState(m)
  BY <1>1 DEF Gateway!Listed, Right, Gateway!IsFit, Gateway!JobState
<1>4. \A k \in DOMAIN rows' : rows'[k].id \in Members => rows'[k].id \in Gateway!Listed'
  BY <1>2, <1>3
<1>5. Nameless => Nameless'
  BY <1>1, <1>2 DEF Nameless
<1>6. ASSUME NEW k \in DOMAIN rows', Decided(k)', rows'[k].flag # Right(rows'[k].id), ~Nameless'
      PROVE  \E h \in DOMAIN rows' : rows'[h].id = rows'[k].id /\ rows'[h].flag # rows'[k].flag
  <2>1. PICK j \in DOMAIN rows : j # i /\ rows'[k] = rows[j]
    BY <1>2
  <2>2. Decided(j) /\ rows[j].flag # Right(rows[j].id) /\ ~Nameless
    BY <1>3, <1>5, <1>6, <2>1 DEF Decided
  <2>3. PICK h \in DOMAIN rows : rows[h].id = rows[j].id /\ rows[h].flag # rows[j].flag
    BY <2>2
  <2>4. h # i
    BY <1>1, <2>3
  <2>5. PICK g \in DOMAIN rows' : rows'[g] = rows[h]
    BY <1>2, <2>4
  <2> QED BY <2>1, <2>3, <2>5
<1>7. \A k \in DOMAIN rows' : rows'[k].flag = "no" => rows'[k].reason # "none"
  BY <1>2
<1> QED
  BY <1>1, <1>2, <1>3, <1>4, <1>6, <1>7

-----------------------------------------------------------------------------
(* The conclusions *)

\* Rows that pass the checks on their names and flags say what is true.
LEMMA ReadableRowsAreTrue ==
  ASSUME RowsAreHonestOrBad, Gateway!Unique,
         \A i \in DOMAIN rows : rows[i].id \in Members /\ Gateway!DecisionFlag(rows[i].flag)
  PROVE  /\ \A i \in DOMAIN rows : rows[i].flag = Right(rows[i].id)
         /\ \A i, k \in DOMAIN rows : rows[i].id = rows[k].id => i = k
         /\ \A i \in DOMAIN rows : rows[i].id \in Gateway!Listed
         /\ call # "validate" => \A m \in Gateway!Listed : \E i \in DOMAIN rows : rows[i].id = m
<1>1. \A i, k \in DOMAIN rows : rows[i].id = rows[k].id => i = k
  BY UniqueIsApart DEF RowsAreHonestOrBad
<1>2. ~Nameless
  BY DEF Nameless
<1>3. \A i \in DOMAIN rows : Decided(i)
  BY DEF Decided
<1> QED
  BY <1>1, <1>2, <1>3 DEF RowsAreHonestOrBad

LEMMA FitIsRight ==
  ASSUME RowsAreHonestOrBad, Gateway!Unique,
         \A i \in DOMAIN rows : rows[i].id \in Members /\ Gateway!DecisionFlag(rows[i].flag),
         \A m \in Members : \E i \in DOMAIN rows : rows[i].id = m
  PROVE  Gateway!Fit = {m \in Members : Right(m) = "yes"}
<1>1. /\ \A i \in DOMAIN rows : rows[i].flag = Right(rows[i].id)
      /\ \A i, k \in DOMAIN rows : rows[i].id = rows[k].id => i = k
  BY ReadableRowsAreTrue
<1>2. DOMAIN rows \subseteq Int
  BY DEF RowsAreHonestOrBad
<1>3. ASSUME NEW m \in Members, Right(m) = "yes" PROVE m \in Gateway!Fit
  <2>1. PICK i \in DOMAIN rows : rows[i].id = m
    OBVIOUS
  <2>2. rows[i].flag = "yes" /\ \A k \in DOMAIN rows : k > i => rows[k].id # m
    BY <1>1, <1>2, <1>3, <2>1
  <2> QED BY <2>1, <2>2 DEF Gateway!Fit
<1> QED
  BY <1>1, <1>3 DEF Gateway!Fit

LEMMA MembersAreNamed ==
  ASSUME GatewayConstants, NEW r \in SomeRows, Gateway!RequiredText(r.id), r.id # "other"
  PROVE  r.id \in Members
  BY DEF SomeRows, Names, Gateway!RequiredText, Gateway!Bad

LEMMA YesMeansFit ==
  ASSUME truth \in Gateway!Truths
  PROVE  /\ {m \in Members : Right(m) = "yes"} = {m \in Members : Gateway!IsFit(m)}
         /\ call # "validate" => {m \in Members : Gateway!IsFit(m)} = truth.fit
  BY DEF Right, Gateway!YesNo, Gateway!Truths, Gateway!IsFit

Readable ==
  /\ call \in Gateway!Calls /\ truth \in Gateway!Truths /\ Gateway!Exists
  /\ HeadIsHonestOrBad /\ RowsAreHonestOrBad

ReadsTruth(c) ==
  c.kind \in {"answer", "unavailable"} /\ (c.kind = "answer" => Gateway!OnlyLoses(c))

\* Details that are true, or lost.
AreDetails(read, facts) ==
  \A d \in read : \E t \in facts : d[1] = t[1] /\ d[2] \in {t[2]} \cup Gateway!Lost

\* What may differ from the truth when an answer is read.
LEMMA LossIsAllowed ==
  ASSUME NEW yes, NEW version, NEW fit, NEW reason, NEW details, NEW more, NEW count,
         NEW c, NEW d,
         Gateway!TruthOf =
           [kind |-> "answer", yes |-> yes, reason |-> reason, version |-> version, fit |-> fit,
            details |-> details, more |-> more, total |-> count],
         c = [kind |-> "answer", yes |-> yes, reason |-> c.reason, version |-> version,
              fit |-> fit, details |-> d, more |-> c.more, total |-> c.total],
         c.reason \in {reason} \cup Gateway!Lost, AreDetails(d, details),
         c.more \in {more, "no"}, c.total \in {count, "none", "boolean"}
  PROVE  ReadsTruth(c)
<1>1. /\ c.kind = "answer" /\ c.yes = yes /\ c.version = version /\ c.fit = fit
      /\ c.details = d
  OBVIOUS
<1>2. /\ Gateway!TruthOf.kind = "answer" /\ Gateway!TruthOf.yes = yes
      /\ Gateway!TruthOf.version = version /\ Gateway!TruthOf.fit = fit
      /\ Gateway!TruthOf.reason = reason /\ Gateway!TruthOf.details = details
      /\ Gateway!TruthOf.more = more /\ Gateway!TruthOf.total = count
  OBVIOUS
<1> QED
  BY ONLY <1>1, <1>2, c.reason \in {reason} \cup Gateway!Lost, AreDetails(d, details),
    c.more \in {more, "no"}, c.total \in {count, "none", "boolean"}
  DEF ReadsTruth, Gateway!OnlyLoses, AreDetails

LEMMA UnavailableReads == ReadsTruth(Gateway!Unavailable)
BY DEF ReadsTruth, Gateway!Unavailable, Gateway!Concludes

\* What a readable row says besides is true, or lost.
LEMMA DetailsAreTrue ==
  ASSUME GatewayConstants, Readable, Gateway!Unique,
         call \in {"recommended", "search", "candidates", "validate"},
         \A i \in DOMAIN rows : rows[i].id \in Members,
         call = "candidates" => \A i \in DOMAIN rows : Gateway!CandidateRow(rows[i]),
         call = "validate" => \A i \in DOMAIN rows : Gateway!ValidationRow(rows[i])
  PROVE  AreDetails(Gateway!DetailsRead, Gateway!DetailsOf)
<1>1. ASSUME NEW i \in DOMAIN rows
      PROVE  /\ rows[i].id \in Gateway!Listed
             /\ Gateway!DetailRead(rows[i]) \in {Gateway!DetailOf(rows[i].id)} \cup Gateway!Lost
  <2>1. /\ rows[i] \in SomeRows /\ rows[i].id \in Gateway!Listed /\ ~Nameless
        /\ \A k \in DOMAIN rows : rows[k].id = rows[i].id => k = i
    BY UniqueIsApart DEF Readable, RowsAreHonestOrBad, Nameless
  <2>2. CASE call \in {"recommended", "search"}
    <3>1. StateKnown(i) => rows[i].state = Gateway!JobState(rows[i].id)
      BY <2>1, <2>2 DEF Readable, RowsAreHonestOrBad
    <3>2. rows[i].state \in {Gateway!JobState(rows[i].id)} \cup Gateway!Bad
      BY <2>1, <3>1 DEF StateKnown, SomeRows, Gateway!Bad
    <3> QED
      BY <2>1, <2>2, <3>2 DEF Gateway!DetailRead, Gateway!DetailOf, Gateway!JobStatus, Gateway!Lost
  <2>3. CASE call = "candidates"
    <3>1. rows[i].level \in {"level", "missing"}
      BY <2>1, <2>3 DEF SomeRows, Gateway!CandidateRow
    <3> QED
      BY <2>1, <2>3, <3>1 DEF Gateway!DetailRead, Gateway!DetailOf, Gateway!Level, Gateway!Lost
  <2>4. CASE call = "validate"
    <3>1. \A k \in DOMAIN rows : rows[k].id \in Members /\ Gateway!DecisionFlag(rows[k].flag)
      BY <2>4 DEF Gateway!ValidationRow
    <3>2. rows[i].flag = Right(rows[i].id)
      BY <3>1, ReadableRowsAreTrue DEF Readable
    <3>3. /\ rows[i].reason \in {"none", "reason", "missing", "odd"}
          /\ rows[i].flag = "yes" => rows[i].reason \in {"none", "missing"}
          /\ rows[i].flag = "no" => rows[i].reason # "none"
      BY <2>1, <2>4 DEF SomeRows, Gateway!ValidationRow, Gateway!HasReason,
        Gateway!EligibilityReason, Readable, RowsAreHonestOrBad
    <3>4. Gateway!DetailRead(rows[i]) = Gateway!EligibilityReason(rows[i].reason)
          /\ Gateway!DetailOf(rows[i].id) = Gateway!RowReason(rows[i].id)
      BY <2>4 DEF Gateway!DetailRead, Gateway!DetailOf
    <3>5. CASE Gateway!IsFit(rows[i].id)
      <4>1. rows[i].flag = "yes" /\ Gateway!RowReason(rows[i].id) = "none"
        BY <3>2, <3>5 DEF Right, Gateway!YesNo, Gateway!RowReason
      <4> QED BY <2>1, <3>3, <3>4, <4>1 DEF Gateway!EligibilityReason
    <3>6. CASE ~Gateway!IsFit(rows[i].id)
      <4>1. rows[i].flag = "no" /\ Gateway!RowReason(rows[i].id) = "reason"
        BY <3>2, <3>6 DEF Right, Gateway!YesNo, Gateway!RowReason
      <4> QED BY <2>1, <3>3, <3>4, <4>1 DEF Gateway!EligibilityReason, Gateway!Lost
    <3> QED BY <3>5, <3>6
  <2> QED BY <2>2, <2>3, <2>4
<1> SUFFICES ASSUME NEW d \in Gateway!DetailsRead
             PROVE  \E t \in Gateway!DetailsOf : d[1] = t[1] /\ d[2] \in {t[2]} \cup Gateway!Lost
  BY DEF AreDetails
<1>2. PICK i \in DOMAIN rows : d = <<rows[i].id, Gateway!DetailRead(rows[i])>>
  BY DEF Gateway!DetailsRead
<1> DEFINE t == <<rows[i].id, Gateway!DetailOf(rows[i].id)>>
<1>3. t \in Gateway!DetailsOf
  BY <1>1 DEF Gateway!DetailsOf
<1>4. d[1] = t[1] /\ d[2] \in {t[2]} \cup Gateway!Lost
  BY <1>1, <1>2
<1> QED BY <1>3, <1>4

LEMMA VerificationIsTrue ==
  ASSUME Readable, call = "verify"
  PROVE  ReadsTruth(Gateway!ReadVerification)
  BY DEF Readable, ReadsTruth, Gateway!ReadVerification, Gateway!TruthOf, Gateway!Concludes,
    Gateway!Unavailable, HeadIsHonestOrBad, Gateway!OnlyLoses,
    Gateway!HonestHead, Gateway!DecisionFlag, Gateway!YesNo, Gateway!Truths, Gateway!Bad

LEMMA SummaryAndDetailAreTrue ==
  ASSUME Readable
  PROVE  /\ call = "summary" => ReadsTruth(Gateway!ReadSummary)
         /\ call = "detail" => ReadsTruth(Gateway!ReadDetail)
<1>1. CASE call = "summary"
  BY <1>1 DEF Readable, ReadsTruth, Gateway!ReadSummary, Gateway!TruthOf, Gateway!Concludes,
    Gateway!Unavailable, Gateway!OnlyLoses
<1>2. CASE call = "detail"
  <2>1. Gateway!RequiredText(head.version) => head.version = truth.job
    BY <1>2 DEF Readable, Gateway!Exists, HeadIsHonestOrBad, Gateway!HonestHead, Gateway!Version,
      Gateway!RequiredText, Gateway!Bad
  <2>2. Gateway!JobStatus(head.state) \in {Gateway!AskedState} \cup Gateway!Lost
    BY DEF Readable, HeadIsHonestOrBad, Gateway!HonestHead, Gateway!JobStatus, Gateway!Bad,
      Gateway!Lost
  <2> DEFINE d == {<<"asked", Gateway!JobStatus(head.state)>>}
             t == {<<"asked", Gateway!AskedState>>}
  <2>3. AreDetails(d, t)
    BY <2>2 DEF AreDetails
  <2>4. Gateway!TruthOf =
          [kind |-> "answer", yes |-> "no", reason |-> "none", version |-> truth.job, fit |-> {},
           details |-> t, more |-> "no", total |-> "none"]
    BY <1>2 DEF Readable, Gateway!TruthOf, Gateway!Concludes
  <2>5. CASE ~(Gateway!SameObject /\ Gateway!RequiredText(head.version))
    BY <1>2, <2>5, UnavailableReads DEF Gateway!ReadDetail
  <2>6. CASE Gateway!SameObject /\ Gateway!RequiredText(head.version)
    <3> DEFINE fit == {}
               version == truth.job
               c == [kind |-> "answer", yes |-> "no", reason |-> "none", version |-> version,
                     fit |-> fit, details |-> d, more |-> "no", total |-> "none"]
    <3>1. Gateway!ReadDetail = c
      BY <2>1, <2>6 DEF Gateway!ReadDetail, Gateway!Concludes
    <3>2. /\ c = [kind |-> "answer", yes |-> "no", reason |-> c.reason, version |-> version,
                  fit |-> fit, details |-> d, more |-> c.more, total |-> c.total]
          /\ c.reason = "none" /\ c.more = "no" /\ c.total = "none"
      OBVIOUS
    <3>3. Gateway!TruthOf =
            [kind |-> "answer", yes |-> "no", reason |-> "none", version |-> version,
             fit |-> fit, details |-> t, more |-> "no", total |-> "none"]
      BY <2>4
    <3> HIDE DEF c, d, t, fit, version
    <3> QED BY <1>2, <2>3, <3>1, <3>2, <3>3, LossIsAllowed
  <2> QED BY <2>5, <2>6
<1> QED BY <1>1, <1>2

\* Rows of jobs name the jobs there are.
LEMMA JobsAreTrue ==
  ASSUME GatewayConstants, Readable, call \in {"recommended", "search"}, Gateway!UniqueJobs
  PROVE  /\ {rows[i].id : i \in DOMAIN rows} = Gateway!Listed
         /\ AreDetails(Gateway!DetailsRead, Gateway!DetailsOf)
<1>1. \A i \in DOMAIN rows : rows[i].id \in Members
  BY MembersAreNamed DEF Gateway!UniqueJobs, Gateway!JobRow, Readable, RowsAreHonestOrBad
<1>2. ~Nameless
  BY <1>1 DEF Nameless
<1>3. {rows[i].id : i \in DOMAIN rows} = Gateway!Listed
  BY <1>1, <1>2 DEF Readable, RowsAreHonestOrBad
<1> QED
  BY <1>1, <1>3, DetailsAreTrue DEF Gateway!UniqueJobs

LEMMA RecommendedIsTrue ==
  ASSUME GatewayConstants, Readable, call = "recommended"
  PROVE  ReadsTruth(Gateway!ReadRecommended)
<1>1. CASE ~Gateway!UniqueJobs
  BY <1>1, UnavailableReads DEF Gateway!ReadRecommended
<1>2. CASE Gateway!UniqueJobs
  <2> DEFINE ids == {rows[i].id : i \in DOMAIN rows}
             d == Gateway!DetailsRead
             t == Gateway!DetailsOf
             c == [kind |-> "answer", yes |-> "no", reason |-> "none", version |-> "empty",
                   fit |-> ids, details |-> d, more |-> "no", total |-> "none"]
  <2>1. ids = truth.fit /\ AreDetails(d, t)
    BY <1>2, JobsAreTrue DEF Gateway!Listed
  <2>2. Gateway!TruthOf =
          [kind |-> "answer", yes |-> "no", reason |-> "none", version |-> "empty",
           fit |-> truth.fit, details |-> t, more |-> "no", total |-> "none"]
    BY DEF Readable, Gateway!TruthOf, Gateway!Concludes
  <2>3. Gateway!ReadRecommended = c
    BY <1>2 DEF Gateway!ReadRecommended, Gateway!JobsRead, Gateway!Concludes
  <2>4. /\ c = [kind |-> "answer", yes |-> "no", reason |-> c.reason, version |-> "empty",
                fit |-> ids, details |-> d, more |-> c.more, total |-> c.total]
        /\ c.reason = "none" /\ c.more = "no" /\ c.total = "none"
    OBVIOUS
  <2> HIDE DEF c, d, t, ids
  <2> QED BY <2>1, <2>2, <2>3, <2>4, LossIsAllowed
<1> QED BY <1>1, <1>2

LEMMA SearchIsTrue ==
  ASSUME GatewayConstants, Readable, call = "search"
  PROVE  ReadsTruth(Gateway!ReadSearch)
<1>1. CASE ~Gateway!UniqueJobs
  BY <1>1, UnavailableReads DEF Gateway!ReadSearch
<1>2. CASE Gateway!UniqueJobs
  <2> DEFINE ids == {rows[i].id : i \in DOMAIN rows}
             d == Gateway!DetailsRead
             t == Gateway!DetailsOf
             more == Gateway!YesNo(head.more = "yes")
             count == IF head.total \in Gateway!Bad THEN "none" ELSE head.total
             c == [kind |-> "answer", yes |-> "no", reason |-> "none", version |-> "empty",
                   fit |-> ids, details |-> d, more |-> more, total |-> count]
  <2>1. ids = Members /\ AreDetails(d, t)
    BY <1>2, JobsAreTrue DEF Gateway!Listed
  <2>2. Gateway!TruthOf =
          [kind |-> "answer", yes |-> "no", reason |-> "none", version |-> "empty",
           fit |-> Members, details |-> t, more |-> Gateway!YesNo(truth.more), total |-> "known"]
    BY DEF Readable, Gateway!TruthOf, Gateway!Concludes
  <2>3. Gateway!ReadSearch = c
    BY <1>2 DEF Gateway!ReadSearch, Gateway!JobsRead, Gateway!Concludes
  <2>4. more \in {Gateway!YesNo(truth.more), "no"} /\ count \in {"known", "none", "boolean"}
    BY DEF Readable, HeadIsHonestOrBad, Gateway!HonestHead, Gateway!YesNo, Gateway!Bad
  <2>5. /\ c = [kind |-> "answer", yes |-> "no", reason |-> c.reason, version |-> "empty",
                fit |-> ids, details |-> d, more |-> c.more, total |-> c.total]
        /\ c.reason = "none" /\ c.more = more /\ c.total = count
    OBVIOUS
  <2> HIDE DEF c, d, t, ids, more, count
  <2> QED BY <2>1, <2>2, <2>3, <2>4, <2>5, LossIsAllowed
<1> QED BY <1>1, <1>2

LEMMA CandidatesAreTrue ==
  ASSUME GatewayConstants, Readable, call = "candidates"
  PROVE  ReadsTruth(Gateway!ReadCandidates)
<1> DEFINE Passes == Gateway!Unique /\ \A i \in DOMAIN rows : Gateway!CandidateRow(rows[i])
<1>1. CASE ~Passes
  BY <1>1, UnavailableReads DEF Gateway!ReadCandidates
<1>2. CASE Passes
  <2>1. \A i \in DOMAIN rows : rows[i].id \in Members /\ Gateway!DecisionFlag(rows[i].flag)
    BY <1>2, MembersAreNamed DEF Gateway!CandidateRow, Readable, RowsAreHonestOrBad
  <2>2. Gateway!Listed = Members
    BY DEF Gateway!Listed
  <2>3. \A m \in Members : \E i \in DOMAIN rows : rows[i].id = m
    BY <1>2, <2>1, <2>2, ReadableRowsAreTrue DEF Readable
  <2>4. Gateway!Fit = {m \in Members : Right(m) = "yes"}
    BY <1>2, <2>1, <2>3, FitIsRight DEF Readable
  <2>5. Gateway!Fit = truth.fit
    BY <2>4, YesMeansFit DEF Readable
  <2> DEFINE fit == Gateway!Fit
             d == Gateway!DetailsRead
             t == Gateway!DetailsOf
             c == [kind |-> "answer", yes |-> "no", reason |-> "none", version |-> "empty",
                   fit |-> fit, details |-> d, more |-> "no", total |-> "none"]
  <2>6. AreDetails(d, t)
    BY <1>2, <2>1, DetailsAreTrue
  <2>7. Gateway!TruthOf =
          [kind |-> "answer", yes |-> "no", reason |-> "none", version |-> "empty",
           fit |-> truth.fit, details |-> t, more |-> "no", total |-> "none"]
    BY DEF Readable, Gateway!TruthOf, Gateway!Concludes
  <2>8. Gateway!ReadCandidates = c
    BY <1>2 DEF Gateway!ReadCandidates, Gateway!Concludes
  <2>9. /\ c = [kind |-> "answer", yes |-> "no", reason |-> c.reason, version |-> "empty",
                fit |-> fit, details |-> d, more |-> c.more, total |-> c.total]
        /\ c.reason = "none" /\ c.more = "no" /\ c.total = "none" /\ fit = truth.fit
    BY <2>5
  <2> HIDE DEF c, d, t, fit
  <2> QED BY <2>6, <2>7, <2>8, <2>9, LossIsAllowed
<1> QED BY <1>1, <1>2

LEMMA ValidationIsTrue ==
  ASSUME GatewayConstants, Readable, call = "validate"
  PROVE  ReadsTruth(Gateway!ReadValidation)
<1> DEFINE Passes ==
      /\ \A i \in DOMAIN rows : Gateway!ValidationRow(rows[i])
      /\ Gateway!Unique /\ Gateway!ExactlyAsked
      /\ Gateway!DecisionFlag(head.flag)
      /\ ~(head.flag = "yes" /\ Gateway!HasReason(head.reason))
      /\ Gateway!CurrentVersion
      /\ head.stamp \notin Gateway!Bad
      /\ Gateway!SameObject
<1>1. CASE ~Passes
  BY <1>1, UnavailableReads DEF Gateway!ReadValidation
<1>2. CASE Passes
  <2>1. \A i \in DOMAIN rows : rows[i].id \in Members /\ Gateway!DecisionFlag(rows[i].flag)
    BY <1>2 DEF Gateway!ValidationRow, Gateway!ExactlyAsked
  <2>2. \A m \in Members : \E i \in DOMAIN rows : rows[i].id = m
    <3> SUFFICES ASSUME NEW m \in Members PROVE \E i \in DOMAIN rows : rows[i].id = m
      OBVIOUS
    <3>1. m \in {rows[i].id : i \in DOMAIN rows}
      BY <1>2 DEF Gateway!ExactlyAsked
    <3> QED BY <3>1
  <2>3. Gateway!Fit = {m \in Members : Right(m) = "yes"}
    BY <1>2, <2>1, <2>2, FitIsRight DEF Readable
  <2>4. Gateway!Fit = {m \in Members : Gateway!IsFit(m)}
    BY <2>3, YesMeansFit DEF Readable
  <2>5. head.flag = Gateway!YesNo(truth.job = "expected")
    BY <1>2 DEF Gateway!DecisionFlag, Readable, HeadIsHonestOrBad, Gateway!HonestHead, Gateway!Bad
  <2>6. head.version = Gateway!Version(truth.job)
    BY <1>2 DEF Gateway!CurrentVersion, Readable, HeadIsHonestOrBad, Gateway!HonestHead,
      Gateway!Bad, Gateway!Version, Gateway!JobReason
  <2> DEFINE fit == Gateway!Fit
             d == Gateway!DetailsRead
             t == Gateway!DetailsOf
             yes == Gateway!YesNo(truth.job = "expected")
             version == Gateway!Version(truth.job)
             reason == Gateway!EligibilityReason(head.reason)
             c == [kind |-> "answer", yes |-> yes, reason |-> reason, version |-> version,
                   fit |-> fit, details |-> d, more |-> "no", total |-> "none"]
  <2>7. AreDetails(d, t)
    BY <1>2, <2>1, DetailsAreTrue
  <2>8. Gateway!TruthOf =
          [kind |-> "answer", yes |-> yes, reason |-> Gateway!JobReason(truth.job),
           version |-> version, fit |-> fit, details |-> t, more |-> "no", total |-> "none"]
    BY <2>4 DEF Readable, Gateway!TruthOf, Gateway!Concludes
  <2>9. Gateway!ReadValidation = c
    BY <1>2, <2>5, <2>6 DEF Gateway!ReadValidation, Gateway!Concludes
  <2>10. reason \in {Gateway!JobReason(truth.job)} \cup Gateway!Lost
    <3>1. Gateway!HonestHead.flag = yes /\ Gateway!HonestHead.reason = Gateway!JobReason(truth.job)
      BY DEF Gateway!HonestHead
    <3>2. \/ head.reason \in {Gateway!JobReason(truth.job)} \cup Gateway!Bad
          \/ head.reason = "reason" /\ yes = "yes"
      BY <3>1 DEF Readable, HeadIsHonestOrBad
    <3>3. yes = "yes" => reason = "none"
      BY <1>2, <2>5 DEF Gateway!HasReason
    <3>4. head.reason \in {Gateway!JobReason(truth.job)} \cup Gateway!Bad =>
            reason \in {Gateway!JobReason(truth.job)} \cup Gateway!Lost
      BY DEF Gateway!EligibilityReason, Gateway!Bad, Gateway!Lost, Gateway!JobReason
    <3> HIDE DEF reason, yes
    <3> QED BY <3>2, <3>3, <3>4 DEF Gateway!Lost
  <2>11. /\ c = [kind |-> "answer", yes |-> yes, reason |-> c.reason, version |-> version,
                 fit |-> fit, details |-> d, more |-> c.more, total |-> c.total]
         /\ c.reason = reason /\ c.more = "no" /\ c.total = "none"
    OBVIOUS
  <2> HIDE DEF c, d, t, fit, yes, version, reason
  <2> QED BY <2>7, <2>8, <2>9, <2>10, <2>11, LossIsAllowed
<1> QED BY <1>1, <1>2

LEMMA ReadIsTrue ==
  ASSUME GatewayConstants, Readable
  PROVE  ReadsTruth(Gateway!Read)
<1>1. call \in Gateway!Calls
  BY DEF Readable
<1> QED
  BY <1>1, VerificationIsTrue, SummaryAndDetailAreTrue, RecommendedIsTrue, CandidatesAreTrue,
    ValidationIsTrue, SearchIsTrue DEF Gateway!Read, Gateway!Calls

\* An honest answer passes every check.
LEMMA HonestIsRead ==
  ASSUME GatewayConstants, call \in Gateway!Calls, truth \in Gateway!Truths, Gateway!Exists,
         head = Gateway!HonestHead, rows = Gateway!HonestRows
  PROVE  Gateway!Read.kind = "answer"
<1>1. /\ rows \in Seq(SomeRows)
      /\ \A i \in DOMAIN rows :
           rows[i].id \in Gateway!Listed /\ rows[i] = Gateway!HonestRow(rows[i].id)
      /\ \A m \in Gateway!Listed : \E i \in DOMAIN rows : rows[i].id = m
      /\ \A i, k \in DOMAIN rows : rows[i].id = rows[k].id => i = k
  BY HonestRowsList
<1>2. Gateway!Unique
  BY <1>1, UniqueIsApart
<1>3. Gateway!Listed \subseteq Members
  BY DEF Gateway!Listed, Gateway!Truths
<1>4. \A m \in Members : Gateway!RequiredText(m)
  BY DEF Gateway!RequiredText, GatewayConstants, Gateway!MembersAssumption, Gateway!Bad
<1>5. \A i \in DOMAIN rows : Gateway!CandidateRow(rows[i]) /\ Gateway!ValidationRow(rows[i])
      /\ Gateway!JobRow(rows[i])
  <2> SUFFICES ASSUME NEW m \in Members
               PROVE  Gateway!CandidateRow(Gateway!HonestRow(m))
                      /\ Gateway!ValidationRow(Gateway!HonestRow(m))
                      /\ Gateway!JobRow(Gateway!HonestRow(m))
    BY <1>1, <1>3
  <2> QED
    BY <1>4 DEF Gateway!CandidateRow, Gateway!ValidationRow, Gateway!JobRow, Gateway!HonestRow,
      Gateway!DecisionFlag, Gateway!YesNo, Gateway!HasReason, Gateway!EligibilityReason,
      Gateway!RowReason, Gateway!RequiredText, Gateway!Bad
<1>6. call = "validate" => Gateway!ExactlyAsked
  <2>1. call = "validate" => Gateway!Listed = Members
    BY DEF Gateway!Listed
  <2> QED BY <1>1, <2>1 DEF Gateway!ExactlyAsked
<1> USE DEF Gateway!Concludes, Gateway!DecisionFlag, Gateway!YesNo, Gateway!HasReason,
    Gateway!EligibilityReason, Gateway!JobReason, Gateway!RequiredText, Gateway!Bad,
    Gateway!HonestHead
<1>7. CASE call = "verify"
  BY <1>7 DEF Gateway!Read, Gateway!ReadVerification
<1>8. CASE call = "summary"
  BY <1>8 DEF Gateway!Read, Gateway!ReadSummary, Gateway!SameObject
<1>9. CASE call = "detail"
  BY <1>9 DEF Gateway!Read, Gateway!ReadDetail, Gateway!SameObject, Gateway!Version,
    Gateway!Exists, Gateway!Truths
<1>10. CASE call = "recommended"
  BY <1>2, <1>5, <1>10 DEF Gateway!Read, Gateway!ReadRecommended, Gateway!UniqueJobs,
    Gateway!JobsRead
<1>11. CASE call = "candidates"
  BY <1>2, <1>5, <1>11 DEF Gateway!Read, Gateway!ReadCandidates
<1>12. CASE call = "validate"
  BY <1>2, <1>5, <1>6, <1>12 DEF Gateway!Read, Gateway!ReadValidation, Gateway!SameObject,
    Gateway!CurrentVersion, Gateway!Version, Gateway!Truths
<1>13. CASE call = "search"
  BY <1>2, <1>5, <1>13 DEF Gateway!Read, Gateway!ReadSearch, Gateway!UniqueJobs,
    Gateway!JobsRead
<1> QED
  BY <1>7, <1>8, <1>9, <1>10, <1>11, <1>12, <1>13 DEF Gateway!Calls

-----------------------------------------------------------------------------
(* The invariant holds at the start and in every step. *)

LEMMA GInvInit ==
  ASSUME GatewayConstants, Gateway!Init
  PROVE  GInv
  BY DEF Gateway!Init, GInv, ExchangeIsHonest, Places, Gateway!Nothing, Gateway!Concludes,
    Gateway!ConclusionIsTrue,
    Gateway!HonestIsUnderstood, Gateway!ReplyTellsOutage

LEMMA ContradictHeadStep ==
  ASSUME HeadIsHonestOrBad, Gateway!ContradictHead
  PROVE  HeadIsHonestOrBad'
<1>1. Gateway!HonestHead' = Gateway!HonestHead
  BY DEF Gateway!HonestHead, Gateway!AskedState, Gateway!ContradictHead, Gateway!Damage,
    Gateway!question
<1>2. Gateway!HonestHead.flag = "yes"
  BY DEF HeadIsHonestOrBad, Gateway!ContradictHead, Gateway!Bad
<1> QED
  BY <1>1, <1>2 DEF HeadIsHonestOrBad, Gateway!ContradictHead

DamageHappens ==
  \/ \E field \in Gateway!HeadFields : Gateway!DamageHead(field)
  \/ Gateway!ContradictHead
  \/ \E i \in Gateway!Positions :
       \/ \E field \in Gateway!RowFields : Gateway!DamageRow(i, field)
       \/ Gateway!ContradictRow(i) \/ Gateway!RepeatRow(i) \/ Gateway!LoseRow(i)

LEMMA DamageStep ==
  ASSUME GatewayConstants, GInv, DamageHappens
  PROVE  GInv'
<1>1. Gateway!Damage
  BY DEF DamageHappens, Gateway!DamageHead, Gateway!ContradictHead, Gateway!DamageRow,
    Gateway!ContradictRow, Gateway!RepeatRow, Gateway!LoseRow
<1>2. /\ gatewayPc = "answered" /\ status = "ok" /\ damages' = damages + 1
      /\ UNCHANGED Gateway!question /\ gatewayPc' = gatewayPc /\ status' = status
      /\ conclusion' = conclusion /\ reply' = reply
  BY <1>1 DEF Gateway!Damage
<1>3. /\ call \in Gateway!Calls /\ truth \in Gateway!Truths /\ damages \in Nat /\ Gateway!Exists
      /\ HeadIsHonestOrBad /\ RowsAreHonestOrBad
      /\ conclusion = Gateway!Nothing /\ reply = 0
  BY <1>2 DEF GInv, ExchangeIsHonest
<1>4. HeadIsHonestOrBad'
  <2>1. ASSUME NEW field \in Gateway!HeadFields,
               Gateway!DamageHead(field)
        PROVE  HeadIsHonestOrBad'
    <3>1. PICK v \in Gateway!Spoilt(field) : head' = [head EXCEPT ![field] = v]
      BY <2>1 DEF Gateway!DamageHead
    <3>2. field \in HeadNames
      BY FieldsAreNamed
    <3> QED BY <1>2, <1>3, <3>1, <3>2, HeadDamaged
  <2>2. CASE head' = head
    <3>1. Gateway!HonestHead' = Gateway!HonestHead
      BY <1>2 DEF Gateway!HonestHead, Gateway!AskedState, Gateway!question
    <3> QED BY <1>3, <2>2, <3>1 DEF HeadIsHonestOrBad
  <2> QED
    BY <1>3, <2>1, <2>2, ContradictHeadStep
    DEF DamageHappens, Gateway!DamageRow, Gateway!ContradictRow, Gateway!RepeatRow,
      Gateway!LoseRow
<1>5. RowsAreHonestOrBad'
  <2>1. CASE rows' = rows
    <3>1. /\ call' = call /\ truth' = truth /\ Gateway!Listed' = Gateway!Listed
          /\ \A m : Right(m)' = Right(m)
          /\ \A m : Gateway!JobState(m)' = Gateway!JobState(m)
      BY <1>2 DEF Gateway!question, Gateway!Listed, Right, Gateway!IsFit, Gateway!JobState
    <3> QED BY <1>3, <2>1, <3>1 DEF RowsAreHonestOrBad, Nameless, Decided, StateKnown
  <2>2. ASSUME NEW i \in Gateway!Positions, NEW field \in RowNames, Gateway!DamageRow(i, field)
        PROVE  RowsAreHonestOrBad'
    BY <1>3, <2>2, RowDamageStep
  <2>3. ASSUME NEW i \in Gateway!Positions, Gateway!ContradictRow(i) \/ Gateway!RepeatRow(i)
               \/ Gateway!LoseRow(i)
        PROVE  RowsAreHonestOrBad'
    <3>1. "id" \in RowNames
      BY DEF RowNames
    <3> QED BY <1>3, <2>3, <3>1, RowDamageStep, RowRepeatStep, RowLossStep
  <2> QED
    BY <2>1, <2>2, <2>3, FieldsAreNamed
    DEF DamageHappens, Gateway!DamageHead, Gateway!ContradictHead
<1>6. damages' > 0 /\ damages' \in Nat
  BY <1>2, <1>3
<1>7. Gateway!Exists' = Gateway!Exists
  BY <1>2 DEF Gateway!Exists, Gateway!question
<1> QED
  BY <1>2, <1>3, <1>4, <1>5, <1>6, <1>7 DEF GInv, ExchangeIsHonest, Gateway!ConclusionIsTrue,
    Gateway!HonestIsUnderstood, Gateway!ReplyTellsOutage, Gateway!Nothing, Gateway!Concludes,
      Gateway!question, Places

LEMMA AnswerStep ==
  ASSUME GatewayConstants, GInv, Gateway!Answer
  PROVE  GInv'
<1>1. /\ call \in Gateway!Calls /\ truth \in Gateway!Truths /\ gatewayPc = "sent"
          /\ gatewayPc' = "answered"
      /\ head = Gateway!HonestHead /\ damages = 0 /\ conclusion = Gateway!Nothing /\ reply = 0
      /\ UNCHANGED <<Gateway!question, head, damages, conclusion, reply>>
      /\ status' = (IF Gateway!Exists THEN "ok" ELSE "not_found") /\ rows' = Gateway!HonestRows
  BY DEF Gateway!Answer, GInv, ExchangeIsHonest
<1>2. Gateway!Exists' = Gateway!Exists /\ Gateway!HonestHead' = Gateway!HonestHead
      /\ Gateway!HonestRows' = Gateway!HonestRows
      /\ Gateway!Listed' = Gateway!Listed
      /\ (\A m : Right(m)' = Right(m)) /\ \A m : Gateway!JobState(m)' = Gateway!JobState(m)
  BY <1>1 DEF Gateway!Exists, Gateway!HonestHead, Gateway!AskedState, Gateway!HonestRows,
    Gateway!HonestRow, Gateway!RowReason, Gateway!IsFit, Gateway!JobState, Gateway!Listed,
    Right, Gateway!question
<1>3. HeadIsHonestOrBad'
  <2>1. /\ head.id = "asked" /\ head.flag = Gateway!HonestHead.flag
            /\ head.version = Gateway!HonestHead.version
        /\ head.reason = Gateway!HonestHead.reason
        /\ head.state = Gateway!HonestHead.state /\ head.more = Gateway!HonestHead.more
        /\ head.total = "known"
        /\ head = [id |-> head.id, flag |-> head.flag, reason |-> head.reason,
                   version |-> head.version, stamp |-> head.stamp, state |-> head.state,
                   more |-> head.more, total |-> head.total]
    BY <1>1 DEF Gateway!HonestHead
  <2> QED BY <1>1, <1>2, <2>1 DEF HeadIsHonestOrBad
<1>4. RowsAreHonestOrBad'
  <2> DEFINE H == Gateway!HonestRows
  <2>1. /\ H \in Seq(SomeRows)
        /\ \A i \in DOMAIN H : H[i].id \in Gateway!Listed /\ H[i] = Gateway!HonestRow(H[i].id)
        /\ \A m \in Gateway!Listed : \E i \in DOMAIN H : H[i].id = m
    BY <1>1, HonestRowsList
  <2>2. \A m : /\ Gateway!HonestRow(m).flag = Right(m)
               /\ Right(m) = "no" => Gateway!HonestRow(m).reason # "none"
               /\ Gateway!HonestRow(m).state = Gateway!JobState(m)
    BY DEF Gateway!HonestRow, Right, Gateway!RowReason, Gateway!YesNo
  <2>3. Gateway!Listed \subseteq Members /\ "other" \notin Members
    BY <1>1 DEF Gateway!Listed, Gateway!Truths, GatewayConstants, Gateway!MembersAssumption
  <2>4. \A i \in DOMAIN H : /\ H[i].id # "other" /\ H[i].flag = Right(H[i].id)
                            /\ H[i].flag = "no" => H[i].reason # "none"
                            /\ H[i].state = Gateway!JobState(H[i].id)
    BY <2>1, <2>2, <2>3
  <2>5. rows' = H
    BY <1>1
  <2> HIDE DEF H
  <2> QED
    BY <1>1, <1>2, <2>1, <2>4, <2>5 DEF RowsAreHonestOrBad, Gateway!question
<1> QED
  BY <1>1, <1>2, <1>3, <1>4 DEF GInv, ExchangeIsHonest, Gateway!ConclusionIsTrue,
    Gateway!HonestIsUnderstood,
    Gateway!ReplyTellsOutage, Gateway!Nothing, Gateway!Concludes, Gateway!question, Places

LEMMA ConcludeStep ==
  ASSUME GatewayConstants, GInv, Gateway!Conclude
  PROVE  GInv'
<1>1. /\ call \in Gateway!Calls /\ truth \in Gateway!Truths /\ damages \in Nat
      /\ gatewayPc = "answered" /\ gatewayPc' = "concluded" /\ reply = 0
      /\ UNCHANGED <<Gateway!question, Gateway!answer, damages, reply>>
      /\ status \in {"ok", "not_found", "organization_not_found", "failed"}
      /\ status = "not_found" => ~Gateway!Exists
      /\ status = "ok" => Readable
      /\ status = "ok" /\ damages = 0 => head = Gateway!HonestHead /\ rows = Gateway!HonestRows
      /\ conclusion' = CASE status = "failed" -> Gateway!Unavailable
                         [] status \in {"not_found", "organization_not_found"} ->
                              Gateway!NotFoundOr
                         [] status = "ok" -> Gateway!Read
  BY DEF Gateway!Conclude, GInv, ExchangeIsHonest, Readable
<1>2. Gateway!Exists' = Gateway!Exists /\ Gateway!TruthOf' = Gateway!TruthOf
  BY <1>1 DEF Gateway!Exists, Gateway!TruthOf, Gateway!AskedState, Gateway!DetailsOf,
    Gateway!DetailOf, Gateway!JobState, Gateway!RowReason, Gateway!IsFit, Gateway!Listed,
    Gateway!question
<1>3. /\ Gateway!ConclusionIsTrue' /\ Gateway!HonestIsUnderstood'
      /\ conclusion'.kind \in {"answer", "not_found", "unavailable"}
  <2>1. CASE status = "failed"
    <3>1. conclusion' = Gateway!Unavailable
      BY <1>1, <2>1
    <3> QED
      BY <1>1, <2>1, <3>1 DEF Gateway!ConclusionIsTrue, Gateway!HonestIsUnderstood,
        Gateway!Unavailable, Gateway!Concludes, Gateway!answer
  <2>2. CASE status = "organization_not_found"
    <3>1. conclusion' = Gateway!Unavailable
      BY <1>1, <2>2 DEF Gateway!NotFoundOr
    <3> QED
      BY <1>1, <2>2, <3>1 DEF Gateway!ConclusionIsTrue, Gateway!HonestIsUnderstood,
        Gateway!Unavailable, Gateway!Concludes, Gateway!answer
  <2>3. CASE status = "not_found"
    <3>1. call \notin {"verify", "validate", "search"}
      BY <1>1, <2>3 DEF Gateway!Exists
    <3>2. conclusion' = Gateway!NotFound /\ Gateway!TruthOf = Gateway!NotFound
      BY <1>1, <2>3, <3>1 DEF Gateway!NotFoundOr, Gateway!TruthOf
    <3> QED
      BY <1>2, <3>2 DEF Gateway!ConclusionIsTrue, Gateway!HonestIsUnderstood, Gateway!OnlyLoses,
        Gateway!NotFound, Gateway!Concludes
  <2>4. CASE status = "ok"
    <3>1. conclusion' = Gateway!Read /\ ReadsTruth(Gateway!Read)
      BY <1>1, <2>4, ReadIsTrue
    <3>2. damages = 0 => Gateway!Read.kind = "answer"
      BY <1>1, <2>4, HonestIsRead DEF Readable
    <3>3. Gateway!ConclusionIsTrue' /\ conclusion'.kind \in {"answer", "unavailable"}
      BY <1>2, <3>1 DEF Gateway!ConclusionIsTrue, ReadsTruth, Gateway!OnlyLoses
    <3>4. Gateway!HonestIsUnderstood'
      <4>1. damages' = damages /\ damages \in Nat
        BY <1>1
      <4> QED BY <3>1, <3>2, <4>1 DEF Gateway!HonestIsUnderstood
    <3> QED BY <3>3, <3>4
  <2> QED BY <1>1, <2>1, <2>2, <2>3, <2>4
<1> QED
  BY <1>1, <1>3 DEF GInv, ExchangeIsHonest, Gateway!ReplyTellsOutage, Gateway!question, Places

LEMMA ReplyStep ==
  ASSUME GatewayConstants, GInv, Gateway!Reply
  PROVE  GInv'
<1>1. /\ gatewayPc = "concluded" /\ gatewayPc' = "replied"
      /\ UNCHANGED <<Gateway!question, Gateway!answer, damages, conclusion>>
      /\ conclusion.kind \in {"answer", "not_found", "unavailable"}
      /\ reply' = Gateway!StatusOf(conclusion.kind)
  BY DEF Gateway!Reply, GInv, ExchangeIsHonest
<1>2. Gateway!Exists' = Gateway!Exists /\ Gateway!TruthOf' = Gateway!TruthOf
  BY <1>1 DEF Gateway!Exists, Gateway!TruthOf, Gateway!AskedState, Gateway!DetailsOf,
    Gateway!DetailOf, Gateway!JobState, Gateway!RowReason, Gateway!IsFit, Gateway!Listed,
    Gateway!question
<1>3. Gateway!ConclusionIsTrue' /\ Gateway!HonestIsUnderstood'
  BY <1>1, <1>2 DEF GInv, Gateway!ConclusionIsTrue, Gateway!HonestIsUnderstood,
    Gateway!OnlyLoses, Gateway!answer
<1>4. /\ Gateway!TruthOf.kind = "not_found" => ~Gateway!Exists
      /\ Gateway!TruthOf.kind = "answer" => Gateway!Exists
  <2>1. call \in Gateway!Calls
    BY DEF GInv, ExchangeIsHonest
  <2>2. Gateway!Exists => Gateway!TruthOf.kind = "answer"
    BY <2>1 DEF Gateway!TruthOf, Gateway!Concludes, Gateway!Calls
  <2>3. ~Gateway!Exists => Gateway!TruthOf.kind = "not_found"
    BY DEF Gateway!TruthOf, Gateway!NotFound, Gateway!Concludes
  <2> QED BY <2>2, <2>3
<1>5. Gateway!ReplyTellsOutage'
  <2>1. CASE conclusion.kind = "answer"
    <3>1. reply' = 200 /\ Gateway!OnlyLoses(conclusion) /\ Gateway!Exists
      BY <1>1, <1>4, <2>1 DEF Gateway!StatusOf, GInv, Gateway!ConclusionIsTrue,
        Gateway!OnlyLoses
    <3> QED BY <1>1, <1>2, <3>1 DEF Gateway!ReplyTellsOutage, Gateway!OnlyLoses
  <2>2. CASE conclusion.kind = "not_found"
    <3>1. reply' = 404 /\ ~Gateway!Exists
      BY <1>1, <1>4, <2>2 DEF Gateway!StatusOf, GInv, Gateway!ConclusionIsTrue,
        Gateway!OnlyLoses
    <3> QED BY <1>1, <1>2, <3>1 DEF Gateway!ReplyTellsOutage
  <2>3. CASE conclusion.kind = "unavailable"
    <3>1. reply' = 503
      BY <1>1, <2>3 DEF Gateway!StatusOf
    <3> QED BY <1>1, <1>3, <2>3, <3>1 DEF Gateway!ReplyTellsOutage, Gateway!HonestIsUnderstood
  <2> QED BY <1>1, <2>1, <2>2, <2>3
<1> QED
  BY <1>1, <1>3, <1>5 DEF GInv, ExchangeIsHonest, Gateway!question, Places

LEMMA OtherSteps ==
  ASSUME GatewayConstants, GInv, Gateway!Send \/ Gateway!ScopeMissing \/ Gateway!ExchangeFails
  PROVE  GInv'
<1> USE DEF GInv, ExchangeIsHonest, Gateway!question, Gateway!answer, Places,
    Gateway!ConclusionIsTrue,
  Gateway!HonestIsUnderstood, Gateway!ReplyTellsOutage, Gateway!Nothing, Gateway!Concludes
<1>1. UNCHANGED Gateway!question
  BY DEF Gateway!Send, Gateway!ScopeMissing, Gateway!ExchangeFails
<1>2. Gateway!HonestHead' = Gateway!HonestHead
  BY <1>1 DEF Gateway!HonestHead, Gateway!AskedState
<1>3. CASE Gateway!Send
  BY <1>2, <1>3 DEF Gateway!Send
<1>4. CASE Gateway!ScopeMissing
  BY <1>4 DEF Gateway!ScopeMissing
<1>5. CASE Gateway!ExchangeFails
  BY <1>5 DEF Gateway!ExchangeFails
<1> QED BY <1>3, <1>4, <1>5

LEMMA GInvStep ==
  ASSUME GatewayConstants, GInv, [Gateway!Next]_(Gateway!vars)
  PROVE  GInv'
<1>1. CASE Gateway!Next
  BY <1>1, DamageStep, AnswerStep, ConcludeStep, ReplyStep, OtherSteps DEF Gateway!Next,
    DamageHappens
<1>2. CASE UNCHANGED Gateway!vars
  <2> USE <1>2 DEF Gateway!vars, Gateway!question, Gateway!answer
  <2>1. /\ Gateway!Exists' = Gateway!Exists /\ Gateway!TruthOf' = Gateway!TruthOf
            /\ Gateway!HonestHead' = Gateway!HonestHead
        /\ Gateway!HonestRows' = Gateway!HonestRows /\ HeadIsHonestOrBad' = HeadIsHonestOrBad
        /\ RowsAreHonestOrBad' = RowsAreHonestOrBad
    BY DEF Gateway!Exists, Gateway!TruthOf, Gateway!HonestHead, Gateway!HonestRows,
      Gateway!HonestRow, Gateway!AskedState, Gateway!JobState, Gateway!RowReason,
      Gateway!IsFit, Gateway!DetailsOf, Gateway!DetailOf, HeadIsHonestOrBad,
      RowsAreHonestOrBad, Nameless, Decided, StateKnown, Gateway!Listed, Right
  <2> QED
    BY <2>1 DEF GInv, ExchangeIsHonest, Gateway!ConclusionIsTrue, Gateway!HonestIsUnderstood,
      Gateway!ReplyTellsOutage, Gateway!OnlyLoses
<1> QED BY <1>1, <1>2

\* Types: also how many rows there are.
GTypes ==
  /\ Gateway!TypeOK /\ rows \in Seq(SomeRows)
  /\ Len(rows) <= Cardinality(Members) + damages

LEMMA UnavailableIsOne ==
  ASSUME call \in Gateway!Calls, Gateway!Read.kind = "unavailable"
  PROVE  Gateway!Read = Gateway!Unavailable
<1> USE DEF Gateway!Concludes
<1>1. CASE call = "verify"
  BY <1>1 DEF Gateway!Read, Gateway!ReadVerification
<1>2. CASE call = "summary"
  BY <1>2 DEF Gateway!Read, Gateway!ReadSummary
<1>3. CASE call = "detail"
  BY <1>3 DEF Gateway!Read, Gateway!ReadDetail
<1>4. CASE call = "recommended"
  BY <1>4 DEF Gateway!Read, Gateway!ReadRecommended, Gateway!JobsRead
<1>5. CASE call = "candidates"
  BY <1>5 DEF Gateway!Read, Gateway!ReadCandidates
<1>6. CASE call = "validate"
  BY <1>6 DEF Gateway!Read, Gateway!ReadValidation
<1>7. CASE call = "search"
  BY <1>7 DEF Gateway!Read, Gateway!ReadSearch, Gateway!JobsRead
<1> QED BY <1>1, <1>2, <1>3, <1>4, <1>5, <1>6, <1>7 DEF Gateway!Calls

LEMMA TruthTyped ==
  ASSUME call \in Gateway!Calls, truth \in Gateway!Truths
  PROVE  /\ Gateway!TruthOf.kind \in {"answer", "not_found"}
         /\ Gateway!TruthOf.yes \in {"yes", "no"} /\ Gateway!TruthOf.fit \subseteq Members
         /\ Gateway!TruthOf.more \in {"yes", "no"} /\ Gateway!TruthOf.total \in {"known", "none"}
  BY DEF Gateway!TruthOf, Gateway!NotFound, Gateway!Concludes, Gateway!YesNo, Gateway!Calls,
    Gateway!Truths

LEMMA GTypesInit ==
  ASSUME GatewayConstants, Gateway!Init
  PROVE  GTypes
<1>1. Cardinality(Members) \in Nat /\ MaxDamages \in Nat
  BY SameNotions, FS_CardinalityType DEF GatewayConstants, Gateway!MembersAssumption,
    Gateway!BoundAssumption
<1> QED
  BY <1>1, SameNotions DEF Gateway!Init, GTypes, Gateway!TypeOK, Gateway!Nothing,
    Gateway!Concludes

LEMMA GTypesDamaged ==
  ASSUME GatewayConstants, GInv, GInv', GTypes, DamageHappens
  PROVE  GTypes'
<1>1. Gateway!Damage
  BY ONLY DamageHappens DEF DamageHappens, Gateway!DamageHead, Gateway!ContradictHead,
    Gateway!DamageRow, Gateway!ContradictRow, Gateway!RepeatRow, Gateway!LoseRow
<1>2. /\ damages < MaxDamages /\ damages' = damages + 1 /\ damages \in Nat /\ damages' \in Nat
      /\ call' = call /\ truth' = truth /\ gatewayPc' = gatewayPc /\ status' = status
      /\ conclusion' = conclusion /\ reply' = reply /\ gatewayPc = "answered" /\ status = "ok"
  BY <1>1 DEF Gateway!Damage, Gateway!question, GInv, ExchangeIsHonest
<1>3. rows' \in Seq(SomeRows) /\ rows \in Seq(SomeRows)
  BY <1>2 DEF GInv, ExchangeIsHonest, RowsAreHonestOrBad
<1>4. Len(rows') \in {Len(rows), Len(rows) + 1, Len(rows) - 1}
  <2>1. CASE rows' = rows
    BY <2>1
  <2>2. ASSUME NEW i \in Gateway!Positions, NEW field \in RowNames, Gateway!DamageRow(i, field)
        PROVE  Len(rows') = Len(rows)
    <3>1. PICK v : rows' = [rows EXCEPT ![i][field] = v]
      BY <2>2 DEF Gateway!DamageRow
    <3> QED BY <1>3, <3>1
  <2>3. ASSUME NEW i \in Gateway!Positions, Gateway!ContradictRow(i)
        PROVE  Len(rows') = Len(rows)
    BY <1>3, <2>3 DEF Gateway!ContradictRow
  <2>4. ASSUME NEW i \in Gateway!Positions, Gateway!RepeatRow(i)
        PROVE  Len(rows') = Len(rows) + 1
    <3>1. PICK again : rows' = Append(rows, again)
      BY <2>4 DEF Gateway!RepeatRow
    <3> QED BY <1>3, <3>1
  <2>5. ASSUME NEW i \in Gateway!Positions, Gateway!LoseRow(i)
        PROVE  Len(rows') = Len(rows) - 1
    <3>1. rows' = RemoveAt(rows, i) /\ i \in DOMAIN rows
      BY <2>5, SameNotions DEF Gateway!LoseRow
    <3> QED BY ONLY <1>3, <3>1, RowLost
  <2> QED
    BY <2>1, <2>2, <2>3, <2>4, <2>5, FieldsAreNamed
    DEF DamageHappens, Gateway!DamageHead, Gateway!ContradictHead
<1>5. Cardinality(Members) \in Nat /\ MaxDamages \in Nat
  BY SameNotions, FS_CardinalityType DEF GatewayConstants, Gateway!MembersAssumption,
    Gateway!BoundAssumption
<1>6. Len(rows) \in Nat /\ Len(rows') \in Nat /\ Len(rows) <= Cardinality(Members) + damages
  BY <1>3 DEF GTypes
<1>7. /\ Len(rows') <= Cardinality(Members) + damages'
      /\ Len(rows') <= Cardinality(Members) + MaxDamages
      /\ damages' \in 0..MaxDamages
  BY ONLY <1>2, <1>4, <1>5, <1>6
<1> QED
  BY <1>2, <1>3, <1>7, SameNotions DEF GTypes, Gateway!TypeOK

LEMMA GTypesConcluded ==
  ASSUME GatewayConstants, GInv, GInv', GTypes, Gateway!Conclude
  PROVE  GTypes'
<1>1. /\ call' = call /\ truth' = truth /\ gatewayPc = "answered" /\ gatewayPc' = "concluded"
      /\ status' = status /\ rows' = rows /\ damages' = damages /\ reply' = reply
  BY DEF Gateway!Conclude, Gateway!question, Gateway!answer
<1>2. /\ conclusion'.kind \in {"answer", "not_found", "unavailable"}
      /\ conclusion'.yes \in {"yes", "no"} /\ conclusion'.fit \subseteq Members
      /\ conclusion'.more \in {"yes", "no"}
      /\ conclusion'.total \in {"known", "boolean", "none"}
  <2>1. /\ call' \in Gateway!Calls /\ truth' \in Gateway!Truths
        /\ conclusion'.kind \in {"answer", "not_found", "unavailable"}
        /\ conclusion'.kind \in {"answer", "not_found"} =>
             /\ conclusion'.yes = Gateway!TruthOf'.yes /\ conclusion'.fit = Gateway!TruthOf'.fit
             /\ conclusion'.more \in {Gateway!TruthOf'.more, "no"}
             /\ conclusion'.total \in {Gateway!TruthOf'.total, "none", "boolean"}
    BY <1>1 DEF GInv, ExchangeIsHonest, Gateway!ConclusionIsTrue, Gateway!OnlyLoses
  <2>2. CASE conclusion'.kind = "unavailable"
    <3>1. conclusion' = Gateway!Unavailable
      <4>1. status \in {"ok", "not_found", "organization_not_found", "failed"}
        BY <1>1 DEF GInv, ExchangeIsHonest
      <4>2. CASE status = "ok"
        <5>1. conclusion' = Gateway!Read
          BY <4>2 DEF Gateway!Conclude
        <5> QED BY <1>1, <2>1, <2>2, <5>1, UnavailableIsOne
      <4>3. CASE status = "failed"
        BY <4>3 DEF Gateway!Conclude
      <4>4. CASE status \in {"not_found", "organization_not_found"}
        <5>1. conclusion' = Gateway!NotFoundOr
          BY <4>4 DEF Gateway!Conclude
        <5> QED BY <2>2, <5>1 DEF Gateway!NotFoundOr, Gateway!NotFound, Gateway!Concludes
      <4> QED BY <4>1, <4>2, <4>3, <4>4
    <3> QED BY <2>2, <3>1 DEF Gateway!Unavailable, Gateway!Concludes
  <2>3. CASE conclusion'.kind # "unavailable"
    <3>1. Gateway!TruthOf' = Gateway!TruthOf
      BY <1>1 DEF Gateway!TruthOf, Gateway!Exists, Gateway!AskedState, Gateway!DetailsOf,
        Gateway!DetailOf, Gateway!JobState, Gateway!RowReason, Gateway!IsFit, Gateway!Listed
    <3>2. call \in Gateway!Calls /\ truth \in Gateway!Truths
      BY <1>1, <2>1
    <3> QED BY <2>1, <2>3, <3>1, <3>2, TruthTyped
  <2> QED BY <2>2, <2>3
<1> QED
  BY <1>1, <1>2 DEF GTypes, Gateway!TypeOK

LEMMA GTypesAnswered ==
  ASSUME GatewayConstants, GInv, GTypes, Gateway!Answer
  PROVE  GTypes'
<1>1. /\ call' = call /\ truth' = truth /\ gatewayPc = "sent" /\ gatewayPc' = "answered"
      /\ damages' = damages /\ conclusion' = conclusion /\ reply' = reply
      /\ status' \in {"ok", "not_found"} /\ rows' = Gateway!HonestRows
      /\ call \in Gateway!Calls /\ truth \in Gateway!Truths
  BY DEF Gateway!Answer, Gateway!question, GInv, ExchangeIsHonest
<1> DEFINE H == Gateway!HonestRows
<1>2. H \in Seq(SomeRows) /\ Len(H) <= Cardinality(Members)
  BY <1>1, HonestRowsList
<1>3. rows' = H
  BY <1>1
<1> HIDE DEF H
<1>4. /\ Cardinality(Members) \in Nat /\ MaxDamages \in Nat /\ damages \in 0..MaxDamages
      /\ Len(H) \in Nat
  BY <1>2, SameNotions, FS_CardinalityType DEF GatewayConstants, Gateway!MembersAssumption,
    Gateway!BoundAssumption, GTypes, Gateway!TypeOK
<1>5. Len(H) <= Cardinality(Members) + damages /\ Len(H) <= Cardinality(Members) + MaxDamages
  BY ONLY <1>2, <1>4
<1> QED
  BY <1>1, <1>2, <1>3, <1>5, SameNotions DEF GTypes, Gateway!TypeOK

LEMMA GTypesStep ==
  ASSUME GatewayConstants, GInv, GInv', GTypes, [Gateway!Next]_(Gateway!vars)
  PROVE  GTypes'
<1> USE DEF GTypes, Gateway!TypeOK, Gateway!question, Gateway!answer
<1>1. CASE Gateway!Send
  BY <1>1 DEF Gateway!Send
<1>2. CASE Gateway!ScopeMissing
  BY <1>2 DEF Gateway!ScopeMissing
<1>3. CASE Gateway!ExchangeFails
  BY <1>3 DEF Gateway!ExchangeFails
<1>4. CASE Gateway!Reply
  <2>1. reply' \in {200, 404, 503}
    BY <1>4 DEF Gateway!Reply, Gateway!StatusOf, GInv, ExchangeIsHonest
  <2> QED BY <1>4, <2>1 DEF Gateway!Reply
<1>5. CASE UNCHANGED Gateway!vars
  BY <1>5 DEF Gateway!vars
<1> QED
  BY <1>1, <1>2, <1>3, <1>4, <1>5, GTypesAnswered, GTypesDamaged, GTypesConcluded
  DEF Gateway!Next, DamageHappens

LEMMA GatewayInFocus ==
  ASSUME [Next]_vars, focus = "gateway"
  PROVE  [Gateway!Next]_(Gateway!vars)
  BY DEF Next, vars, gatewayVars, Gateway!vars, Gateway!question, Gateway!answer

\* However many members a question is about and however often its answer is damaged
\* (HttpExternalBusinessGateway), the conclusion is the truth or an outage; the status of
\* a job, a reason, a level and what follows a page may be lost on the way, never changed.
THEOREM GatewayAlwaysTrue == Spec => []GatewayIsTrue
<1> DEFINE I == focus = "gateway" => GInv
<1>1. Init => I
  BY GatewayAssumption, GInvInit DEF Init, GatewayConstants
<1>2. I /\ [Next]_vars => I'
  <2> SUFFICES ASSUME I, [Next]_vars PROVE I'
    OBVIOUS
  <2>1. UNCHANGED focus
    BY DEF Next, vars
  <2> QED BY <2>1, GatewayInFocus, GatewayAssumption, GInvStep DEF GatewayConstants
<1>3. I => GatewayIsTrue
  BY DEF GatewayIsTrue, GInv
<1> QED
  BY <1>1, <1>2, <1>3, PTL DEF Spec

-----------------------------------------------------------------------------
(* Lists of jobs: the invariant is JobListingProofs'. *)

LEMMA JobsInFocus ==
  ASSUME [Next]_vars
  PROVE  /\ focus = "jobs before" => [Before!Next]_(Before!vars)
         /\ focus = "jobs with" => [With!Next]_(With!vars)
         /\ focus = "jobs never" => [Never!Next]_(Never!vars)
  BY DEF Next, vars, jobVars, Before!vars, Before!provider, With!vars, With!provider,
    Never!vars, Never!provider

\* However the provider moves its jobs between the pages (list_jobs), whether a page has
\* its total from before, with its rows or not at all: a list that is returned holds every
\* job that was there all the time, in the promised order, and a provider at rest is
\* not refused.
THEOREM ListAlwaysSound == Spec => []ListIsSound
<1> DEFINE I == /\ focus = "jobs before" => Before!ListInv
                /\ focus = "jobs with" => With!ListInv
                /\ focus = "jobs never" => Never!ListInv
<1>1. Init => I
  BY JobsAssumption, Before!ListInvInit, With!ListInvInit, Never!ListInvInit DEF Init
<1>2. I /\ [Next]_vars => I'
  <2> SUFFICES ASSUME I, [Next]_vars PROVE I'
    OBVIOUS
  <2>1. UNCHANGED focus
    BY DEF Next, vars
  <2>2. focus = "jobs before" => Before!ListInv'
    BY JobsInFocus, JobsAssumption, Before!ListInvStep
  <2>3. focus = "jobs with" => With!ListInv'
    BY JobsInFocus, JobsAssumption, With!ListInvStep
  <2>4. focus = "jobs never" => Never!ListInv'
    BY JobsInFocus, JobsAssumption, Never!ListInvStep
  <2> QED BY <2>1, <2>2, <2>3, <2>4
<1>3. I => ListIsSound
  BY JobsAssumption, Before!ListInvImplies, With!ListInvImplies, Never!ListInvImplies
  DEF ListIsSound
<1> QED
  BY <1>1, <1>2, <1>3, PTL DEF Spec

-----------------------------------------------------------------------------
(* Selecting candidates: recursion and induction                             *)

LEMMA Smallest ==
  ASSUME NEW T \in SUBSET Nat, T # {}
  PROVE  \E n \in T : \A k \in T : n <= k
<1> DEFINE R == {e \in Nat \X Nat : e[1] < e[2]}
<1>1. IsWellFoundedOn(R, Nat)
  BY NatLessThanWellFounded DEF OpToRel
<1>2. \A y, x \in T : <<y, x>> \in R <=> y < x
  OBVIOUS
<1> HIDE DEF R
<1>3. PICK x \in T : \A y \in T : ~ (<<y, x>> \in R)
  BY <1>1, WFMin
<1>4. \A y \in T : ~ (y < x)
  BY <1>2, <1>3
<1> QED BY <1>4

Recurs(v, n, base, step) ==
  v[0] = base /\ \A i \in 1..n : v[i] = step[<<i, v[i - 1]>>]

\* What is defined by recursion over 0..n exists.
LEMMA Recursion ==
  ASSUME NEW n \in Nat, NEW S, NEW base \in S, NEW step \in [(1..n) \X S -> S]
  PROVE  \E v \in [0..n -> S] : Recurs(v, n, base, step)
<1> DEFINE Reaches(m) ==
             \E v \in [0..m -> S] :
               v[0] = base /\ \A i \in 1..m : v[i] = step[<<i, v[i - 1]>>]
           Beyond == {m \in 0..n : ~Reaches(m)}
<1>1. SUFFICES ASSUME ~Reaches(n) PROVE FALSE
  BY DEF Recurs
<1>2. PICK m \in Beyond : \A k \in Beyond : m <= k
  <2> HIDE DEF Reaches
  <2>1. n \in Beyond /\ Beyond \in SUBSET Nat
    BY <1>1
  <2> HIDE DEF Beyond
  <2> QED BY <2>1, Smallest
<1>3. m \in 0..n /\ ~Reaches(m) /\ \A k \in 0..n : ~Reaches(k) => m <= k
  <2> HIDE DEF Reaches
  <2> QED BY <1>2
<1>4. m # 0
  <2> SUFFICES Reaches(0)
    BY <1>3
  <2> DEFINE v == [i \in 0..0 |-> base]
  <2>1. v \in [0..0 -> S] /\ v[0] = base /\ \A i \in 1..0 : v[i] = step[<<i, v[i - 1]>>]
    OBVIOUS
  <2> QED BY <2>1
<1>5. Reaches(m - 1)
  <2> HIDE DEF Reaches
  <2> QED BY <1>3, <1>4
<1>6. PICK v \in [0..(m - 1) -> S] :
        v[0] = base /\ \A i \in 1..(m - 1) : v[i] = step[<<i, v[i - 1]>>]
  BY <1>5
<1> DEFINE w == [i \in 0..m |-> IF i = m THEN step[<<m, v[m - 1]>>] ELSE v[i]]
<1>7. m \in 1..n /\ v[m - 1] \in S /\ step[<<m, v[m - 1]>>] \in S
  BY <1>3, <1>4, <1>6
<1>8. w \in [0..m -> S]
  BY <1>6, <1>7
<1>9. w[0] = base /\ \A i \in 1..m : w[i] = step[<<i, w[i - 1]>>]
  <2>1. w[0] = base
    BY <1>6, <1>7
  <2>2. ASSUME NEW i \in 1..m PROVE w[i] = step[<<i, w[i - 1]>>]
    <3>1. i - 1 \in 0..m /\ i - 1 # m /\ w[i - 1] = v[i - 1]
      BY <1>7
    <3>2. CASE i = m
      <4>1. w[i] = step[<<m, v[m - 1]>>]
        BY <3>2, <1>7
      <4> HIDE DEF w
      <4> QED BY <4>1, <3>1, <3>2
    <3>3. CASE i # m
      <4>1. i \in 1..(m - 1) /\ w[i] = v[i]
        BY <3>3, <1>7
      <4> HIDE DEF w
      <4> QED BY <4>1, <3>1, <1>6
    <3> QED BY <3>2, <3>3
  <2> QED BY <2>1, <2>2
<1>10. Reaches(m)
  <2> HIDE DEF w
  <2> QED BY <1>8, <1>9
<1> QED BY <1>3, <1>10

-----------------------------------------------------------------------------
(* Selecting candidates: the value of a number                               *)

IsDigits(number) == \A i \in 1..Len(number) : number[i] \in 0..9

\* The values of the beginnings of a number.
IsValue(v, number) ==
  /\ v \in [0..Len(number) -> Nat] /\ v[0] = 0
  /\ \A i \in 1..Len(number) : v[i] = 10 * v[i - 1] + number[i]

LEMMA ValueIs ==
  ASSUME NEW number \in Seq(Nat)
  PROVE  \E v : IsValue(v, number) /\ Selecting!Value(number) = v[Len(number)]
<1> DEFINE n == Len(number)
           Solves(u) == u = [i \in 0..n |-> IF i = 0 THEN 0 ELSE 10 * u[i - 1] + number[i]]
<1>1. n \in Nat /\ \A i \in 1..n : number[i] \in Nat
  OBVIOUS
<1> HIDE DEF n
<1>2. \E u : Solves(u)
  <2> DEFINE step == [e \in (1..n) \X Nat |-> 10 * e[2] + number[e[1]]]
  <2>1. step \in [(1..n) \X Nat -> Nat]
    BY <1>1
  <2>2. \A i \in 1..n, k \in Nat : step[<<i, k>>] = 10 * k + number[i]
    OBVIOUS
  <2> HIDE DEF step
  <2>3. PICK u \in [0..n -> Nat] : Recurs(u, n, 0, step)
    BY <1>1, <2>1, Recursion
  <2>4. \A i \in 1..n : i - 1 \in 0..n /\ u[i - 1] \in Nat
    BY <1>1
  <2>5. u[0] = 0 /\ \A i \in 1..n : u[i] = 10 * u[i - 1] + number[i]
    BY <2>2, <2>3, <2>4 DEF Recurs
  <2>6. \A i \in 0..n : u[i] = IF i = 0 THEN 0 ELSE 10 * u[i - 1] + number[i]
    BY <1>1, <2>5
  <2>7. Solves(u)
    BY <2>6
  <2> HIDE DEF Solves
  <2> QED BY <2>7
<1> DEFINE v == CHOOSE u : Solves(u)
<1>3. Solves(v)
  <2> HIDE DEF Solves
  <2> QED BY <1>2
<1>4. Selecting!Value(number) = v[n]
  BY DEF Selecting!Value, n
<1> HIDE DEF v
<1>5. v[0] = 0 /\ \A i \in 1..n : v[i] = 10 * v[i - 1] + number[i]
  BY <1>1, <1>3
<1>6. \A i \in 0..n : v[i] \in Nat
  <2> DEFINE Beyond == {i \in 0..n : v[i] \notin Nat}
  <2>1. SUFFICES ASSUME NEW i \in Beyond, \A k \in Beyond : i <= k PROVE FALSE
    <3>1. Beyond \in SUBSET Nat
      OBVIOUS
    <3>2. Beyond = {} => \A i \in 0..n : v[i] \in Nat
      OBVIOUS
    <3> HIDE DEF Beyond
    <3> QED BY <3>1, <3>2, Smallest
  <2>2. i \in 1..n /\ i - 1 \in 0..n /\ i - 1 < i
    BY <1>1, <1>5
  <2>3. v[i - 1] \in Nat
    BY <2>1, <2>2
  <2> QED BY <1>1, <1>5, <2>2, <2>3
<1>7. v \in [0..n -> Nat]
  BY <1>3, <1>6
<1> QED BY <1>4, <1>5, <1>7 DEF IsValue, n

\* A number that is ahead stays ahead, whatever the digits that follow.
LEMMA Ahead ==
  ASSUME NEW a \in Seq(Nat), NEW b \in Seq(Nat), IsDigits(a), IsDigits(b),
         NEW v, NEW w, IsValue(v, a), IsValue(w, b),
         NEW p \in 0..Len(a), NEW q \in 0..Len(b), Len(a) - p = Len(b) - q,
         v[p] < w[q]
  PROVE  v[Len(a)] < w[Len(b)]
<1> DEFINE l == Len(a) - p
           Behind == {k \in 0..l : ~(v[p + k] < w[q + k])}
<1>1. /\ Len(a) \in Nat /\ Len(b) \in Nat /\ l \in Nat /\ p \in Nat /\ q \in Nat
      /\ p + l = Len(a) /\ q + l = Len(b)
  OBVIOUS
<1>2. /\ \A k \in 0..l : v[p + k] \in Nat /\ w[q + k] \in Nat
      /\ \A k \in 1..l : /\ v[p + k] = 10 * v[p + (k - 1)] + a[p + k] /\ a[p + k] \in 0..9
                         /\ w[q + k] = 10 * w[q + (k - 1)] + b[q + k] /\ b[q + k] \in 0..9
  <2>1. \A k \in 0..l : p + k \in 0..Len(a) /\ q + k \in 0..Len(b)
    BY <1>1
  <2>2. \A k \in 1..l : /\ p + k \in 1..Len(a) /\ q + k \in 1..Len(b)
                        /\ (p + k) - 1 = p + (k - 1) /\ (q + k) - 1 = q + (k - 1)
    BY <1>1
  <2> HIDE DEF l
  <2>3. \A k \in 0..l : v[p + k] \in Nat /\ w[q + k] \in Nat
    BY <2>1 DEF IsValue
  <2>4. \A k \in 1..l : /\ v[p + k] = 10 * v[p + (k - 1)] + a[p + k]
                        /\ w[q + k] = 10 * w[q + (k - 1)] + b[q + k]
    <3> SUFFICES ASSUME NEW k \in 1..l
                 PROVE  /\ v[p + k] = 10 * v[p + (k - 1)] + a[p + k]
                        /\ w[q + k] = 10 * w[q + (k - 1)] + b[q + k]
      OBVIOUS
    <3>1. /\ v[p + k] = 10 * v[(p + k) - 1] + a[p + k]
          /\ w[q + k] = 10 * w[(q + k) - 1] + b[q + k]
      BY <2>2 DEF IsValue
    <3> QED BY <2>2, <3>1
  <2>5. \A k \in 1..l : a[p + k] \in 0..9 /\ b[q + k] \in 0..9
    BY <2>2 DEF IsDigits
  <2> QED BY <2>3, <2>4, <2>5
<1>3. SUFFICES Behind = {}
  <2>1. l \in 0..l /\ p + l = Len(a) /\ q + l = Len(b)
    BY <1>1
  <2> HIDE DEF l
  <2> QED BY <2>1
<1>4. SUFFICES ASSUME NEW k \in Behind, \A j \in Behind : k <= j PROVE FALSE
  <2>1. Behind \in SUBSET Nat
    BY <1>1
  <2> HIDE DEF Behind
  <2> QED BY <2>1, Smallest
<1> HIDE DEF l
<1>5. k \in 0..l /\ ~(v[p + k] < w[q + k])
  OBVIOUS
<1>6. k # 0
  BY <1>1, <1>5
<1>7. k - 1 \in 0..l /\ k \in 1..l /\ k - 1 < k
  BY <1>1, <1>5, <1>6
<1>8. v[p + (k - 1)] < w[q + (k - 1)]
  BY <1>4, <1>7
<1> HIDE DEF Behind
<1> DEFINE x == v[p + (k - 1)]
           y == w[q + (k - 1)]
           c == a[p + k]
           d == b[q + k]
<1>9. /\ x \in Nat /\ y \in Nat /\ x < y /\ c \in 0..9 /\ d \in 0..9
      /\ v[p + k] = 10 * x + c /\ w[q + k] = 10 * y + d
  BY <1>2, <1>7, <1>8
<1> HIDE DEF x, y, c, d
<1>10. 10 * x + c < 10 * y + d
  BY ONLY <1>9
<1> QED BY ONLY <1>5, <1>9, <1>10

\* The l digits of a after p are those of b after q.
SameDigits(a, p, b, q, l) ==
  /\ p \in Nat /\ q \in Nat /\ l \in Nat /\ p + l <= Len(a) /\ q + l <= Len(b)
  /\ \A k \in 1..l : a[p + k] = b[q + k]

\* The same digits after the same value make the same value.
LEMMA Same ==
  ASSUME NEW a \in Seq(Nat), NEW b \in Seq(Nat),
         NEW v, NEW w, IsValue(v, a), IsValue(w, b),
         NEW p, NEW q, NEW l, SameDigits(a, p, b, q, l), v[p] = w[q]
  PROVE  v[p + l] = w[q + l]
<1> DEFINE Differ == {k \in 0..l : v[p + k] # w[q + k]}
<1>1. /\ Len(a) \in Nat /\ Len(b) \in Nat
      /\ p \in Nat /\ q \in Nat /\ l \in Nat /\ p + l <= Len(a) /\ q + l <= Len(b)
      /\ \A k \in 1..l : a[p + k] = b[q + k]
  BY DEF SameDigits
<1>2. \A k \in 1..l : /\ v[p + k] = 10 * v[p + (k - 1)] + a[p + k]
                      /\ w[q + k] = 10 * w[q + (k - 1)] + b[q + k]
  <2> SUFFICES ASSUME NEW k \in 1..l
               PROVE  /\ v[p + k] = 10 * v[p + (k - 1)] + a[p + k]
                      /\ w[q + k] = 10 * w[q + (k - 1)] + b[q + k]
    OBVIOUS
  <2>1. /\ p + k \in 1..Len(a) /\ q + k \in 1..Len(b)
        /\ (p + k) - 1 = p + (k - 1) /\ (q + k) - 1 = q + (k - 1)
    BY <1>1
  <2>2. /\ v[p + k] = 10 * v[(p + k) - 1] + a[p + k]
        /\ w[q + k] = 10 * w[(q + k) - 1] + b[q + k]
    BY <2>1 DEF IsValue
  <2> QED BY <2>1, <2>2
<1>3. SUFFICES ASSUME NEW k \in Differ, \A j \in Differ : k <= j PROVE FALSE
  <2>1. Differ \in SUBSET Nat
    OBVIOUS
  <2>2. l \in 0..l
    BY <1>1
  <2>3. Differ = {} => v[p + l] = w[q + l]
    BY ONLY <2>2
  <2> HIDE DEF Differ
  <2> QED BY <2>1, <2>3, Smallest
<1>4. k \in 0..l /\ v[p + k] # w[q + k]
  OBVIOUS
<1>5. k # 0
  BY <1>1, <1>4
<1>6. k - 1 \in 0..l /\ k \in 1..l /\ k - 1 < k
  BY <1>1, <1>4, <1>5
<1>7. v[p + (k - 1)] = w[q + (k - 1)]
  <2>1. k - 1 \notin Differ
    <3> HIDE DEF Differ
    <3> QED BY <1>3, <1>6
  <2> QED BY <1>6, <2>1
<1>8. a[p + k] = b[q + k]
  BY <1>1, <1>6
<1> QED BY ONLY <1>2, <1>4, <1>6, <1>7, <1>8

-----------------------------------------------------------------------------
(* Selecting candidates: leading zeros, and comparing without computing      *)

Numeric(number) == number \in Seq(Nat) /\ number # <<>> /\ IsDigits(number)

LEMMA NumberTypes ==
  ASSUME NEW number, Numeric(number)
  PROVE  /\ number \in Seq(Nat) /\ Len(number) \in Nat \ {0}
         /\ DOMAIN number = 1..Len(number) /\ \A i \in 1..Len(number) : number[i] \in Nat
         /\ IsDigits(number)
<1>1. number \in Seq(Nat) /\ number # <<>> /\ IsDigits(number)
  BY DEF Numeric
<1> QED BY <1>1

LEMMA ValueTypes ==
  ASSUME NEW number, NEW v, IsValue(v, number)
  PROVE  /\ v[0] = 0 /\ \A i \in 0..Len(number) : v[i] \in Nat
         /\ \A i \in 1..Len(number) : v[i] = 10 * v[i - 1] + number[i]
BY DEF IsValue

\* Without its leading zeros the number begins at f; of zeros the last is left.
Begins(number, f) ==
  LET stripped == Selecting!Stripped(number) IN
  /\ f \in 1..Len(number) /\ stripped \in Seq(Nat) /\ Len(stripped) = Len(number) - f + 1
  /\ \A k \in 1..Len(stripped) : stripped[k] = number[(f - 1) + k]
  /\ \A i \in 1..(f - 1) : number[i] = 0
  /\ number[f] # 0 \/ f = Len(number)

LEMMA StrippedBegins ==
  ASSUME NEW number, Numeric(number)
  PROVE  \E f : Begins(number, f)
<1> DEFINE n == Len(number)
           digits == {i \in DOMAIN number : number[i] # 0}
<1>1. /\ number \in Seq(Nat) /\ n \in Nat \ {0} /\ DOMAIN number = 1..n
      /\ \A i \in 1..n : number[i] \in Nat
  BY NumberTypes
<1>2. CASE digits = {}
  <2>1. Selecting!Stripped(number) = <<0>>
    BY <1>2 DEF Selecting!Stripped
  <2>2. \A i \in 1..n : number[i] = 0
    BY <1>1, <1>2
  <2>3. /\ <<0>> \in Seq(Nat) /\ Len(<<0>>) = (n - n) + 1
        /\ \A k \in 1..Len(<<0>>) : k = 1 /\ <<0>>[k] = 0
    BY <1>1
  <2>4. \A k \in 1..Len(<<0>>) : (n - 1) + k = n
    BY <1>1, <2>3
  <2>5. Begins(number, n)
    BY <1>1, <2>1, <2>2, <2>3, <2>4 DEF Begins
  <2> QED BY <2>5
<1>3. CASE digits # {}
  <2> DEFINE f == CHOOSE i \in digits : \A j \in digits : i <= j
  <2>1. f \in digits /\ \A j \in digits : f <= j
    <3>1. digits \in SUBSET Nat
      BY <1>1
    <3> HIDE DEF digits
    <3>2. \E i \in digits : \A j \in digits : i <= j
      BY <1>3, <3>1, Smallest
    <3> QED BY <3>2
  <2>2. Selecting!Stripped(number) = SubSeq(number, f, n)
    BY <1>3 DEF Selecting!Stripped
  <2> HIDE DEF f
  <2>3. f \in 1..n /\ number[f] # 0
    BY <1>1, <2>1
  <2>4. \A i \in 1..(f - 1) : number[i] = 0
    <3> SUFFICES ASSUME NEW i \in 1..(f - 1), number[i] # 0 PROVE FALSE
      OBVIOUS
    <3>1. i \in digits /\ i < f
      BY <1>1, <2>3
    <3> HIDE DEF digits
    <3> QED BY <2>1, <2>3, <3>1
  <2> DEFINE t == SubSeq(number, f, n)
  <2>5. /\ t \in Seq(Nat) /\ Len(t) = (n - f) + 1
        /\ \A k \in 1..((n - f) + 1) : t[k] = number[(f + k) - 1]
    <3>1. f \in Int /\ n \in Int /\ f <= n /\ \A i \in f..n : number[i] \in Nat
      BY <1>1, <2>3
    <3> HIDE DEF n, t
    <3> QED BY ONLY <3>1, SubSeqProperties DEF t
  <2> HIDE DEF t
  <2>6. \A k \in 1..Len(t) : (f + k) - 1 = (f - 1) + k
    BY <2>3, <2>5
  <2>7. Begins(number, f)
    BY <1>1, <2>2, <2>3, <2>4, <2>5, <2>6 DEF Begins, t
  <2> QED BY <2>7
<1> QED BY <1>2, <1>3

\* Up to where it begins a number has no value; from there on it has.
LEMMA BeginsAtNothing ==
  ASSUME NEW number, Numeric(number), NEW f, Begins(number, f), NEW v, IsValue(v, number)
  PROVE  /\ v[f - 1] = 0
         /\ f # Len(number) => \A i \in f..Len(number) : v[i] > 0
<1> DEFINE n == Len(number)
<1>1. /\ n \in Nat /\ f \in 1..n /\ (number[f] # 0 \/ f = n)
      /\ \A i \in 1..(f - 1) : number[i] = 0
      /\ \A i \in 1..n : number[i] \in Nat
      /\ v[0] = 0 /\ \A i \in 0..n : v[i] \in Nat
      /\ \A i \in 1..n : v[i] = 10 * v[i - 1] + number[i]
  <2>1. f \in 1..n /\ (number[f] # 0 \/ f = n) /\ \A i \in 1..(f - 1) : number[i] = 0
    BY DEF Begins
  <2> QED BY <2>1, NumberTypes, ValueTypes
<1> HIDE DEF n
<1>2. v[f - 1] = 0
  <2> DEFINE T == {i \in 0..(f - 1) : v[i] # 0}
  <2>1. SUFFICES ASSUME NEW i \in T, \A k \in T : i <= k PROVE FALSE
    <3>1. T \in SUBSET Nat /\ f - 1 \in 0..(f - 1)
      BY <1>1
    <3>2. T = {} => v[f - 1] = 0
      BY <3>1
    <3> HIDE DEF T
    <3> QED BY <3>1, <3>2, Smallest
  <2>2. i \in 1..(f - 1) /\ i - 1 \in 0..(f - 1) /\ i - 1 < i /\ v[i] # 0
    BY <1>1
  <2>3. i - 1 \notin T
    <3> HIDE DEF T
    <3> QED BY <2>1, <2>2
  <2>4. v[i - 1] = 0
    BY <2>2, <2>3
  <2>5. i \in 1..n
    BY <1>1, <2>2
  <2> QED BY <1>1, <2>2, <2>4, <2>5
<1>3. ASSUME f # n PROVE \A i \in f..n : v[i] > 0
  <2> DEFINE T == {i \in f..n : ~(v[i] > 0)}
  <2>1. SUFFICES ASSUME NEW i \in T, \A k \in T : i <= k PROVE FALSE
    <3>1. T \in SUBSET Nat
      BY <1>1
    <3>2. T = {} => \A i \in f..n : v[i] > 0
      OBVIOUS
    <3> HIDE DEF T
    <3> QED BY <3>1, <3>2, Smallest
  <2>2. i \in f..n /\ ~(v[i] > 0) /\ i \in 1..n /\ i - 1 \in 0..n /\ i - 1 < i
    BY <1>1
  <2>3. CASE i = f
    BY <1>1, <1>2, <1>3, <2>2, <2>3
  <2>4. CASE i # f
    <3>1. i - 1 \in f..n
      BY <1>1, <2>2, <2>4
    <3>2. i - 1 \notin T
      <4> HIDE DEF T
      <4> QED BY <2>1, <2>2
    <3>3. v[i - 1] > 0
      BY <3>1, <3>2
    <3> QED BY <1>1, <2>2, <3>3
  <2> QED BY <2>3, <2>4
<1> QED BY <1>2, <1>3 DEF n

\* Less by length and text: less in value.
LEMMA SmallerIsLess ==
  ASSUME NEW a, NEW b, Numeric(a), Numeric(b),
         NEW v, NEW w, IsValue(v, a), IsValue(w, b),
         Selecting!Smaller(Selecting!Stripped(a), Selecting!Stripped(b))
  PROVE  v[Len(a)] < w[Len(b)]
<1>1. PICK f : Begins(a, f)
  BY StrippedBegins
<1>2. PICK g : Begins(b, g)
  BY StrippedBegins
<1> DEFINE A == Selecting!Stripped(a)
           B == Selecting!Stripped(b)
           n == Len(a)
           m == Len(b)
<1>3. /\ n \in Nat /\ m \in Nat /\ f \in 1..n /\ g \in 1..m
      /\ A \in Seq(Nat) /\ B \in Seq(Nat) /\ Len(A) = n - f + 1 /\ Len(B) = m - g + 1
      /\ \A k \in 1..Len(A) : A[k] = a[(f - 1) + k]
      /\ \A k \in 1..Len(B) : B[k] = b[(g - 1) + k]
      /\ a \in Seq(Nat) /\ b \in Seq(Nat) /\ IsDigits(a) /\ IsDigits(b)
  <2>1. /\ f \in 1..n /\ A \in Seq(Nat) /\ Len(A) = n - f + 1
        /\ \A k \in 1..Len(A) : A[k] = a[(f - 1) + k]
    BY <1>1 DEF Begins
  <2>2. /\ g \in 1..m /\ B \in Seq(Nat) /\ Len(B) = m - g + 1
        /\ \A k \in 1..Len(B) : B[k] = b[(g - 1) + k]
    BY <1>2 DEF Begins
  <2> HIDE DEF A, B
  <2> QED BY <2>1, <2>2, NumberTypes
<1>4. v[f - 1] = 0 /\ w[g - 1] = 0 /\ (g # m => \A i \in g..m : w[i] > 0)
  BY <1>1, <1>2, BeginsAtNothing
<1>5. Selecting!Smaller(A, B)
  OBVIOUS
<1> HIDE DEF A, B
<1>a. /\ \A i \in 0..n : v[i] \in Nat
      /\ \A i \in 1..n : v[i] = 10 * v[i - 1] + a[i] /\ a[i] \in Nat
      /\ \A i \in 1..m : w[i] = 10 * w[i - 1] + b[i] /\ b[i] \in Nat
  BY NumberTypes, ValueTypes
<1>b. /\ n \in Nat /\ m \in Nat /\ f \in 1..n /\ g \in 1..m
      /\ Len(A) = n - f + 1 /\ Len(B) = m - g + 1
  BY <1>3
<1> HIDE DEF n, m
<1>6. CASE Len(A) < Len(B)
  <2> DEFINE q == m - (n - (f - 1))
  <2>1. f - 1 \in 0..n /\ q \in 0..m /\ n - (f - 1) = m - q /\ q \in g..m /\ g # m
    BY ONLY <1>b, <1>6
  <2>2. v[f - 1] < w[q]
    BY <1>4, <2>1
  <2> HIDE DEF q
  <2> QED BY <1>3, <2>1, <2>2, Ahead DEF n, m
<1>7. CASE Len(A) = Len(B) /\ Selecting!SmallerAsText(A, B)
  <2>1. PICK i \in 1..Len(A) : A[i] < B[i] /\ \A j \in 1..(i - 1) : A[j] = B[j]
    <3>1. ~(A # B /\ Selecting!IsPrefix(A, B))
      <4>1. SubSeq(A, 1, Len(A)) = A /\ SubSeq(B, 1, Len(B)) = B
        BY <1>3, SubSeqFull
      <4> QED BY <1>7, <4>1 DEF Selecting!IsPrefix
    <3>2. DOMAIN A = 1..Len(A)
      BY <1>3
    <3> QED BY <1>7, <3>1, <3>2 DEF Selecting!SmallerAsText
  <2> DEFINE p == (f - 1) + i
             q == (g - 1) + i
             l == i - 1
  <2>2. /\ f - 1 \in Nat /\ g - 1 \in Nat /\ l \in Nat /\ (f - 1) + l <= n /\ (g - 1) + l <= m
        /\ \A k \in 1..l : k \in 1..Len(A) /\ k \in 1..Len(B) /\ k \in 1..(i - 1)
        /\ p \in 1..n /\ q \in 1..m /\ n - p = m - q /\ p \in 0..n /\ q \in 0..m
        /\ p - 1 = (f - 1) + l /\ q - 1 = (g - 1) + l /\ i \in 1..Len(B) /\ p - 1 \in 0..n
    BY ONLY <1>b, <1>7, i \in 1..Len(A)
  <2>3. \A k \in 1..l : a[(f - 1) + k] = b[(g - 1) + k]
    BY <1>3, <2>1, <2>2
  <2>4. a[p] < b[q]
    BY <1>3, <2>1, <2>2
  <2> HIDE DEF p, q, l
  <2>5. v[(f - 1) + l] = w[(g - 1) + l]
    <3> DEFINE x == f - 1
               y == g - 1
    <3>1. /\ v[x] = w[y] /\ x \in Nat /\ y \in Nat /\ l \in Nat
          /\ SameDigits(a, x, b, y, l)
      BY <1>4, <2>2, <2>3 DEF n, m, SameDigits
    <3>2. a \in Seq(Nat) /\ b \in Seq(Nat)
      BY <1>3
    <3> HIDE DEF x, y
    <3>3. v[x + l] = w[y + l]
      BY ONLY IsValue(v, a), IsValue(w, b), <3>1, <3>2, Same
    <3> QED BY <3>3 DEF x, y
  <2>6. v[p] < w[q]
    <3>1. /\ v[p] = 10 * v[p - 1] + a[p] /\ w[q] = 10 * w[q - 1] + b[q]
          /\ v[p - 1] \in Nat /\ a[p] \in Nat /\ b[q] \in Nat
      BY <1>a, <2>2
    <3>2. v[p - 1] = w[q - 1]
      BY <2>2, <2>5
    <3> QED BY ONLY <2>4, <3>1, <3>2
  <2> QED BY <1>3, <2>2, <2>6, Ahead DEF n, m
<1> QED BY <1>5, <1>6, <1>7 DEF Selecting!Smaller

LEMMA SmallerIsTotal ==
  ASSUME NEW A \in Seq(Nat), NEW B \in Seq(Nat),
         ~Selecting!Smaller(A, B), ~Selecting!Smaller(B, A)
  PROVE  A = B
<1>1. Len(A) \in Nat /\ Len(B) \in Nat /\ DOMAIN A = 1..Len(A) /\ DOMAIN B = 1..Len(B)
      /\ (\A i \in 1..Len(A) : A[i] \in Nat) /\ (\A i \in 1..Len(B) : B[i] \in Nat)
  OBVIOUS
<1>2. /\ Len(A) = Len(B)
      /\ ~Selecting!SmallerAsText(A, B) /\ ~Selecting!SmallerAsText(B, A)
  <2>1. /\ ~(Len(A) < Len(B)) /\ ~(Len(B) < Len(A))
        /\ Len(A) = Len(B) =>
             ~Selecting!SmallerAsText(A, B) /\ ~Selecting!SmallerAsText(B, A)
    BY ONLY ~Selecting!Smaller(A, B), ~Selecting!Smaller(B, A) DEF Selecting!Smaller
  <2>2. Len(A) \in Nat /\ Len(B) \in Nat
    BY <1>1
  <2>3. Len(A) = Len(B)
    BY ONLY <2>1, <2>2
  <2> QED BY <2>1, <2>3
<1> DEFINE Differ == {i \in 1..Len(A) : A[i] # B[i]}
<1>3. Differ = {} => A = B
  <2> SUFFICES ASSUME Differ = {} PROVE A = B
    OBVIOUS
  <2>1. \A i \in 1..Len(A) : A[i] = B[i]
    OBVIOUS
  <2> QED BY <1>1, <1>2, <2>1, SeqEqual
<1>4. SUFFICES ASSUME NEW i \in Differ, \A k \in Differ : i <= k PROVE FALSE
  <2>1. Differ \in SUBSET Nat
    BY <1>1
  <2> HIDE DEF Differ
  <2> QED BY <1>3, <2>1, Smallest
<1>5. i \in 1..Len(A) /\ i \in DOMAIN A \cap DOMAIN B /\ i \in DOMAIN B \cap DOMAIN A
      /\ A[i] # B[i]
  BY <1>1, <1>2
<1>6. \A j \in 1..(i - 1) : A[j] = B[j]
  <2> SUFFICES ASSUME NEW j \in 1..(i - 1), A[j] # B[j] PROVE FALSE
    OBVIOUS
  <2>1. j \in Differ /\ j < i /\ j \in Nat /\ i \in Nat
    BY <1>1, <1>5
  <2> HIDE DEF Differ
  <2> QED BY <1>4, <2>1
<1>7. A[i] < B[i] \/ B[i] < A[i]
  BY <1>1, <1>2, <1>5
<1> QED BY <1>2, <1>5, <1>6, <1>7 DEF Selecting!SmallerAsText

\* Two numbers compare by length and text as their values do.
LEMMA ComparedByValue ==
  ASSUME NEW a, NEW b, Numeric(a), Numeric(b)
  PROVE  /\ Selecting!Value(a) \in Nat /\ Selecting!Value(b) \in Nat
         /\ Selecting!Smaller(Selecting!Stripped(a), Selecting!Stripped(b))
              <=> Selecting!Value(a) < Selecting!Value(b)
<1>1. a \in Seq(Nat) /\ b \in Seq(Nat) /\ Len(a) \in Nat /\ Len(b) \in Nat
  BY DEF Numeric
<1>2. PICK v : IsValue(v, a) /\ Selecting!Value(a) = v[Len(a)]
  BY <1>1, ValueIs
<1>3. PICK w : IsValue(w, b) /\ Selecting!Value(b) = w[Len(b)]
  BY <1>1, ValueIs
<1>4. v[Len(a)] \in Nat /\ w[Len(b)] \in Nat
  BY <1>1, <1>2, <1>3, ValueTypes
<1> DEFINE A == Selecting!Stripped(a)
           B == Selecting!Stripped(b)
<1>5. Selecting!Smaller(A, B) => v[Len(a)] < w[Len(b)]
  BY <1>2, <1>3, SmallerIsLess
<1>6. Selecting!Smaller(B, A) => w[Len(b)] < v[Len(a)]
  BY <1>2, <1>3, SmallerIsLess
<1>7. A = B => v[Len(a)] = w[Len(b)]
  <2>1. PICK f : Begins(a, f)
    BY StrippedBegins
  <2>2. PICK g : Begins(b, g)
    BY StrippedBegins
  <2>3. v[f - 1] = 0 /\ w[g - 1] = 0
    BY <1>2, <1>3, <2>1, <2>2, BeginsAtNothing
  <2> DEFINE l == Len(A)
  <2>4. /\ f \in 1..Len(a) /\ A \in Seq(Nat) /\ l = Len(a) - f + 1
        /\ \A k \in 1..l : A[k] = a[(f - 1) + k]
    BY <2>1 DEF Begins
  <2>5. /\ g \in 1..Len(b) /\ Len(B) = Len(b) - g + 1
        /\ \A k \in 1..Len(B) : B[k] = b[(g - 1) + k]
    BY <2>2 DEF Begins
  <2> HIDE DEF A, B
  <2> SUFFICES ASSUME A = B PROVE v[Len(a)] = w[Len(b)]
    OBVIOUS
  <2> HIDE DEF l
  <2>6. /\ l \in Nat /\ f - 1 \in Nat /\ g - 1 \in Nat
        /\ (f - 1) + l = Len(a) /\ (g - 1) + l = Len(b)
    <3>1. l = Len(a) - f + 1 /\ l = Len(b) - g + 1
      BY <2>4, <2>5 DEF l
    <3>2. f \in 1..Len(a) /\ g \in 1..Len(b)
      BY <2>4, <2>5
    <3>3. Len(a) \in Nat /\ Len(b) \in Nat
      BY <1>1
    <3>4. f \in Int /\ 1 <= f /\ f <= Len(a) /\ g \in Int /\ 1 <= g /\ g <= Len(b)
      BY ONLY <3>2, <3>3
    <3> QED BY ONLY <3>1, <3>3, <3>4
  <2>7. \A k \in 1..l : a[(f - 1) + k] = b[(g - 1) + k]
    <3> SUFFICES ASSUME NEW k \in 1..l PROVE a[(f - 1) + k] = b[(g - 1) + k]
      OBVIOUS
    <3>1. k \in 1..Len(B) /\ A[k] = B[k]
      BY DEF l
    <3>2. A[k] = a[(f - 1) + k] /\ B[k] = b[(g - 1) + k]
      BY ONLY <2>4, <2>5, <3>1, k \in 1..l
    <3> QED BY ONLY <3>1, <3>2
  <2> DEFINE x == f - 1
             y == g - 1
  <2>8. /\ v[x] = w[y] /\ x \in Nat /\ y \in Nat /\ l \in Nat
        /\ x + l = Len(a) /\ y + l = Len(b) /\ \A k \in 1..l : a[x + k] = b[y + k]
        /\ IsValue(v, a) /\ IsValue(w, b)
    BY <1>2, <1>3, <2>3, <2>6, <2>7
  <2> HIDE DEF x, y
  <2>9. SameDigits(a, x, b, y, l)
    BY ONLY <1>1, <2>8 DEF SameDigits
  <2>10. v[x + l] = w[y + l]
    BY ONLY <1>1, <2>8, <2>9, Same
  <2> QED BY <2>8, <2>10
<1>8. A \in Seq(Nat) /\ B \in Seq(Nat)
  BY StrippedBegins DEF Begins
<1> HIDE DEF A, B
<1>9. Selecting!Smaller(A, B) \/ Selecting!Smaller(B, A) \/ A = B
  BY <1>8, SmallerIsTotal
<1>10. Selecting!Smaller(A, B) <=> v[Len(a)] < w[Len(b)]
  BY ONLY <1>4, <1>5, <1>6, <1>7, <1>9
<1> QED BY <1>2, <1>3, <1>4, <1>10 DEF A, B

-----------------------------------------------------------------------------
(* Selecting candidates: who is fit, and in what order                       *)

LEMMA Appended ==
  ASSUME NEW S, NEW s \in Seq(S), NEW c \in S
  PROVE  /\ Append(s, c) \in Seq(S) /\ ToSet(Append(s, c)) = ToSet(s) \cup {c}
         /\ IsInjective(s) /\ c \notin ToSet(s) => IsInjective(Append(s, c))
<1> DEFINE t == Append(s, c)
           n == Len(s)
<1>1. /\ t \in Seq(S) /\ Len(t) = n + 1 /\ t[n + 1] = c
      /\ \A i \in 1..n : t[i] = s[i]
      /\ n \in Nat /\ DOMAIN s = 1..n
  BY AppendProperties
<1>2. DOMAIN t = 1..(n + 1)
  <2> HIDE DEF t, n
  <2> QED BY <1>1
<1> HIDE DEF t, n
<1>3. ToSet(t) = ToSet(s) \cup {c}
  <2>1. ASSUME NEW x \in ToSet(t) PROVE x \in ToSet(s) \cup {c}
    BY <1>1, <1>2 DEF ToSet
  <2>2. ASSUME NEW x \in ToSet(s) PROVE x \in ToSet(t)
    BY <1>1, <1>2 DEF ToSet
  <2>3. c \in ToSet(t)
    <3>1. n + 1 \in 1..(n + 1)
      BY <1>1
    <3> QED BY <1>1, <1>2, <3>1 DEF ToSet
  <2> QED BY <2>1, <2>2, <2>3
<1>4. ASSUME IsInjective(s), c \notin ToSet(s) PROVE IsInjective(t)
  <2> SUFFICES ASSUME NEW i \in 1..(n + 1), NEW k \in 1..(n + 1), t[i] = t[k] PROVE i = k
    BY <1>2 DEF IsInjective
  <2>1. \A j \in 1..n : s[j] # c
    BY <1>1, <1>4 DEF ToSet
  <2>2. \A j, l \in 1..n : s[j] = s[l] => j = l
    BY <1>1, <1>4 DEF IsInjective
  <2>3. (i \in 1..n \/ i = n + 1) /\ (k \in 1..n \/ k = n + 1)
    BY <1>1
  <2> QED BY ONLY <1>1, <2>1, <2>2, <2>3, t[i] = t[k]
<1> QED BY <1>1, <1>3, <1>4 DEF t

\* Those of the first i that are fit.
FitUpTo(s, i) == {s[k] : k \in {j \in 1..i : Selecting!Fit(s[j])}}

LEMMA FitOfIs ==
  ASSUME NEW S, NEW s \in Seq(S), IsInjective(s)
  PROVE  /\ Selecting!FitOf(s) \in Seq(S) /\ IsInjective(Selecting!FitOf(s))
         /\ ToSet(Selecting!FitOf(s)) = {c \in ToSet(s) : Selecting!Fit(c)}
<1> DEFINE n == Len(s)
           Solves(u) ==
             u = [i \in 0..n |-> IF i = 0 THEN <<>>
                                 ELSE IF Selecting!Fit(s[i]) THEN Append(u[i - 1], s[i])
                                 ELSE u[i - 1]]
<1>1. n \in Nat /\ DOMAIN s = 1..n /\ \A i \in 1..n : s[i] \in S
  OBVIOUS
<1>2. \A i, k \in 1..n : s[i] = s[k] => i = k
  BY <1>1 DEF IsInjective
<1> HIDE DEF n
<1>3. \E u : Solves(u)
  <2> DEFINE step == [e \in (1..n) \X Seq(S) |->
                        IF Selecting!Fit(s[e[1]]) THEN Append(e[2], s[e[1]]) ELSE e[2]]
  <2>1. step \in [(1..n) \X Seq(S) -> Seq(S)]
    <3> SUFFICES ASSUME NEW e \in (1..n) \X Seq(S)
                 PROVE  (IF Selecting!Fit(s[e[1]]) THEN Append(e[2], s[e[1]]) ELSE e[2]) \in Seq(S)
      OBVIOUS
    <3>1. e[1] \in 1..n /\ e[2] \in Seq(S) /\ s[e[1]] \in S
      BY <1>1
    <3>2. Append(e[2], s[e[1]]) \in Seq(S)
      BY <3>1, AppendProperties
    <3> QED BY <3>1, <3>2
  <2>2. \A i \in 1..n, t \in Seq(S) :
          step[<<i, t>>] = IF Selecting!Fit(s[i]) THEN Append(t, s[i]) ELSE t
    OBVIOUS
  <2> HIDE DEF step
  <2>3. <<>> \in Seq(S)
    OBVIOUS
  <2>4. PICK u \in [0..n -> Seq(S)] : Recurs(u, n, <<>>, step)
    BY <1>1, <2>1, <2>3, Recursion
  <2>5. \A i \in 1..n : i - 1 \in 0..n /\ u[i - 1] \in Seq(S)
    BY <1>1
  <2>6. u[0] = <<>> /\ \A i \in 1..n : u[i] = step[<<i, u[i - 1]>>]
    BY <2>4 DEF Recurs
  <2>7. \A i \in 1..n : u[i] = IF Selecting!Fit(s[i]) THEN Append(u[i - 1], s[i]) ELSE u[i - 1]
    BY <2>2, <2>5, <2>6
  <2>8. \A i \in 0..n : i # 0 => i \in 1..n
    BY <1>1
  <2>9. \A i \in 0..n : u[i] = IF i = 0 THEN <<>>
                               ELSE IF Selecting!Fit(s[i]) THEN Append(u[i - 1], s[i])
                               ELSE u[i - 1]
    BY <2>6, <2>7, <2>8
  <2>10. Solves(u)
    BY <2>9
  <2> HIDE DEF Solves
  <2> QED BY <2>10
<1> DEFINE v == CHOOSE u : Solves(u)
<1>4. Solves(v)
  <2> HIDE DEF Solves
  <2> QED BY <1>3
<1>5. Selecting!FitOf(s) = v[n]
  BY DEF Selecting!FitOf, n
<1> HIDE DEF v
<1>6. /\ v[0] = <<>>
      /\ \A i \in 1..n : v[i] = IF Selecting!Fit(s[i]) THEN Append(v[i - 1], s[i]) ELSE v[i - 1]
  <2>1. \A i \in 0..n : v[i] = IF i = 0 THEN <<>>
                               ELSE IF Selecting!Fit(s[i]) THEN Append(v[i - 1], s[i])
                               ELSE v[i - 1]
    BY ONLY <1>4
  <2>2. 0 \in 0..n /\ \A i \in 1..n : i \in 0..n /\ i # 0
    BY <1>1
  <2> QED BY ONLY <2>1, <2>2
<1> HIDE DEF Solves
<1> DEFINE Good(i) == v[i] \in Seq(S) /\ IsInjective(v[i]) /\ ToSet(v[i]) = FitUpTo(s, i)
           Bad == {i \in 0..n : ~Good(i)}
<1>7. Good(0)
  <2>1. <<>> \in Seq(S) /\ IsInjective(<<>>) /\ ToSet(<<>>) = {} /\ FitUpTo(s, 0) = {}
    BY DEF IsInjective, ToSet, FitUpTo
  <2> QED BY <1>6, <2>1
<1>8. ASSUME NEW i \in 1..n, Good(i - 1) PROVE Good(i)
  <2>1. s[i] \in S /\ i \in Nat
    BY <1>1
  <2>2. CASE Selecting!Fit(s[i])
    <3>1. v[i] = Append(v[i - 1], s[i])
      BY <1>6, <2>2
    <3>2. FitUpTo(s, i) = FitUpTo(s, i - 1) \cup {s[i]}
      <4>1. \A k : k \in 1..i <=> k \in 1..(i - 1) \/ k = i
        BY <2>1
      <4> QED BY <2>2, <4>1 DEF FitUpTo
    <3>3. s[i] \notin FitUpTo(s, i - 1)
      <4>1. \A k \in 1..(i - 1) : k \in 1..n /\ k # i
        BY <1>1, <2>1
      <4> QED BY <1>2, <4>1 DEF FitUpTo
    <3>4. v[i - 1] \in Seq(S) /\ IsInjective(v[i - 1]) /\ ToSet(v[i - 1]) = FitUpTo(s, i - 1)
      BY <1>8
    <3> QED BY ONLY <2>1, <3>1, <3>2, <3>3, <3>4, Appended
  <2>3. CASE ~Selecting!Fit(s[i])
    <3>1. v[i] = v[i - 1]
      BY <1>6, <2>3
    <3>2. FitUpTo(s, i) = FitUpTo(s, i - 1)
      <4>1. \A k : k \in 1..i <=> k \in 1..(i - 1) \/ k = i
        BY <2>1
      <4> QED BY <2>3, <4>1 DEF FitUpTo
    <3> QED BY <1>8, <3>1, <3>2
  <2> QED BY <2>2, <2>3
<1> HIDE DEF Good
<1>9. Good(n)
  <2>1. SUFFICES ASSUME NEW i \in Bad, \A k \in Bad : i <= k PROVE FALSE
    <3>1. Bad \in SUBSET Nat /\ n \in 0..n
      BY <1>1
    <3>2. Bad = {} => Good(n)
      BY <3>1
    <3> HIDE DEF Bad
    <3> QED BY <3>1, <3>2, Smallest
  <2>2. i \in 0..n /\ ~Good(i)
    OBVIOUS
  <2>3. i \in 1..n /\ i - 1 \in 0..n /\ i - 1 < i
    BY <1>1, <1>7, <2>2
  <2>4. i - 1 \notin Bad
    <3> HIDE DEF Bad
    <3> QED BY <2>1, <2>3
  <2> QED BY <1>8, <2>2, <2>3, <2>4
<1>10. FitUpTo(s, n) = {c \in ToSet(s) : Selecting!Fit(c)}
  BY <1>1 DEF FitUpTo, ToSet
<1> QED BY <1>5, <1>9, <1>10 DEF Good

\* Counting in the modules that are instances.
LEMMA SameCounts ==
  /\ \A S : Selecting!Cardinality(S) = Cardinality(S)
  /\ \A S : Before!Cardinality(S) = Cardinality(S)
BY DEF Cardinality, Selecting!Cardinality, Before!Cardinality

\* The indices D ordered by the whole keys d, equal keys as they come.
ByKey(G, D, d) ==
  /\ d \in [D -> Int]
  /\ \A i, k \in D : <<i, k>> \in G <=> d[i] < d[k] \/ (d[i] = d[k] /\ i < k)

\* t is s put in the order of the whole keys d.
SortedBy(t, s, d) ==
  /\ ToSet(t) = ToSet(s) /\ (IsInjective(s) => IsInjective(t))
  /\ \A p, q \in DOMAIN s : p < q =>
       \E i, k \in DOMAIN s : /\ t[p] = s[i] /\ t[q] = s[k]
                              /\ d[i] < d[k] \/ (d[i] = d[k] /\ i < k)

\* What a stable sort by whole keys returns: Before!PlaceIn is the place of an index.
LEMMA SortedByKey ==
  ASSUME NEW S, NEW s \in Seq(S), NEW D, D = DOMAIN s, NEW d, NEW G, ByKey(G, D, d),
         NEW f, Before!Fills(f, D, G), NEW t, t = [p \in D |-> s[f[p]]]
  PROVE  t \in Seq(S) /\ DOMAIN t = D /\ SortedBy(t, s, d)
<1>1. D = 1..Len(s) /\ D \subseteq Nat /\ \A i \in D : d[i] \in Int
  BY DEF ByKey
<1> USE DEF ByKey
<1>2. Before!Orders(G, D)
  <2>1. \A i \in D : <<i, i>> \notin G
    BY <1>1
  <2>2. \A i, k \in D : i = k \/ <<i, k>> \in G \/ <<k, i>> \in G
    <3> SUFFICES ASSUME NEW i \in D, NEW k \in D, i # k
                 PROVE  \/ d[i] < d[k] \/ (d[i] = d[k] /\ i < k)
                        \/ d[k] < d[i] \/ (d[k] = d[i] /\ k < i)
      OBVIOUS
    <3>1. d[i] \in Int /\ d[k] \in Int /\ i \in Nat /\ k \in Nat
      BY <1>1
    <3> QED BY ONLY <3>1, i # k
  <2>3. \A i, k, l \in D : <<i, k>> \in G /\ <<k, l>> \in G => <<i, l>> \in G
    <3> SUFFICES ASSUME NEW i \in D, NEW k \in D, NEW l \in D, <<i, k>> \in G, <<k, l>> \in G
                 PROVE  d[i] < d[l] \/ (d[i] = d[l] /\ i < l)
      OBVIOUS
    <3>1. /\ d[i] < d[k] \/ (d[i] = d[k] /\ i < k)
          /\ d[k] < d[l] \/ (d[k] = d[l] /\ k < l)
      OBVIOUS
    <3>2. d[i] \in Int /\ d[k] \in Int /\ d[l] \in Int /\ i \in Nat /\ k \in Nat /\ l \in Nat
      BY <1>1
    <3> QED BY ONLY <3>1, <3>2
  <2> QED BY <2>1, <2>2, <2>3 DEF Before!Orders
<1>3. /\ t \in Seq(S) /\ DOMAIN t = D /\ Before!ToSet(t) = Before!ToSet(s)
      /\ Before!IsInjective(s) => Before!IsInjective(t)
      /\ \A p \in D : f[p] \in D /\ t[p] = s[f[p]]
      /\ \A p, q \in D : p < q => <<f[p], f[q]>> \in G
  BY <1>2, Before!SortedBy
<1>4. ToSet(t) = ToSet(s) /\ (IsInjective(s) => IsInjective(t))
  BY <1>3 DEF ToSet, IsInjective, Before!ToSet, Before!IsInjective
<1>5. ASSUME NEW p \in D, NEW q \in D, p < q
      PROVE  \E i, k \in D : /\ t[p] = s[i] /\ t[q] = s[k]
                             /\ d[i] < d[k] \/ (d[i] = d[k] /\ i < k)
  <2>1. f[p] \in D /\ f[q] \in D /\ t[p] = s[f[p]] /\ t[q] = s[f[q]] /\ <<f[p], f[q]>> \in G
    BY <1>3, <1>5
  <2> QED BY <2>1
<1> QED BY <1>3, <1>4, <1>5 DEF SortedBy

\* Different candidates, each once, whose numbers can be compared.
Rankable(s) ==
  /\ s \in Seq(Selecting!Candidates) /\ IsInjective(s)
  /\ \A c, d \in ToSet(s) : c.id = d.id => c = d
  /\ \A c \in ToSet(s) : c.id \in Nat /\ Numeric(c.number)

LEMMA CandidatesById ==
  ASSUME NEW s, Rankable(s)
  PROVE  LET t == Selecting!StableSort(s, Selecting!ById) IN
         /\ Rankable(t) /\ ToSet(t) = ToSet(s) /\ DOMAIN t = DOMAIN s
         /\ \A p, q \in DOMAIN s : p < q => t[p].id < t[q].id
<1> DEFINE D == DOMAIN s
           t == Selecting!StableSort(s, Selecting!ById)
           d == [i \in D |-> s[i].id]
           G == {e \in D \X D : d[e[1]] < d[e[2]] \/ (d[e[1]] = d[e[2]] /\ e[1] < e[2])}
           f == [p \in D |-> CHOOSE i \in D :
                  Selecting!Cardinality({k \in D : Selecting!ById(s[k], s[i])
                      \/ (~Selecting!ById(s[i], s[k]) /\ k < i)}) + 1 = p]
<1>1. /\ s \in Seq(Selecting!Candidates) /\ IsInjective(s) /\ D \subseteq Nat
      /\ \A i \in D : s[i].id \in Nat /\ s[i] \in ToSet(s)
      /\ \A i, k \in D : s[i].id = s[k].id => i = k
  <2>1. s \in Seq(Selecting!Candidates) /\ IsInjective(s) /\ \A i \in D : s[i] \in ToSet(s)
    BY DEF Rankable, ToSet
  <2>2. D \subseteq Nat
    BY <2>1
  <2>3. \A i, k \in D : s[i] = s[k] => i = k
    BY <2>1 DEF IsInjective
  <2> QED BY <2>1, <2>2, <2>3 DEF Rankable
<1>2. d \in [D -> Int] /\ \A i \in D : d[i] = s[i].id
  BY <1>1
<1>3. \A i, k \in D : <<i, k>> \in G <=> d[i] < d[k] \/ (d[i] = d[k] /\ i < k)
  OBVIOUS
<1>4. t = [p \in D |-> s[f[p]]]
  BY DEF Selecting!StableSort
<1> HIDE DEF G, d
<1>5. \A i, k \in D : Selecting!ById(s[i], s[k]) \/ (~Selecting!ById(s[k], s[i]) /\ i < k)
                        <=> <<i, k>> \in G
  <2> SUFFICES ASSUME NEW i \in D, NEW k \in D
               PROVE  d[i] < d[k] \/ (~(d[k] < d[i]) /\ i < k)
                        <=> d[i] < d[k] \/ (d[i] = d[k] /\ i < k)
    BY <1>2, <1>3 DEF Selecting!ById
  <2>1. d[i] \in Int /\ d[k] \in Int
    BY <1>2
  <2> QED BY ONLY <2>1
<1>6. Before!Fills(f, D, G)
  <2>1. \A i \in D :
          Before!PlaceIn(D, G, i)
            = Selecting!Cardinality({k \in D : Selecting!ById(s[k], s[i])
                      \/ (~Selecting!ById(s[i], s[k]) /\ k < i)}) + 1
    <3>1. \A i \in D : {k \in D : Selecting!ById(s[k], s[i])
                      \/ (~Selecting!ById(s[i], s[k]) /\ k < i)}
                         = {k \in D : <<k, i>> \in G}
      BY <1>5
    <3> QED BY <3>1, SameCounts DEF Before!PlaceIn
  <2> SUFFICES ASSUME NEW p \in D, NEW i \in D, Before!PlaceIn(D, G, i) = p
               PROVE  f[p] \in D /\ Before!PlaceIn(D, G, f[p]) = p
    BY DEF Before!Fills
  <2>2. /\ f[p] \in D
        /\ Selecting!Cardinality({k \in D : Selecting!ById(s[k], s[f[p]])
                      \/ (~Selecting!ById(s[f[p]], s[k]) /\ k < f[p])}) + 1 = p
    BY <2>1
  <2> QED BY <2>1, <2>2
<1> HIDE DEF f, t
<1>7. /\ t \in Seq(Selecting!Candidates) /\ DOMAIN t = D /\ ToSet(t) = ToSet(s)
      /\ IsInjective(s) => IsInjective(t)
      /\ \A p, q \in D : p < q =>
           \E i, k \in D : /\ t[p] = s[i] /\ t[q] = s[k]
                           /\ d[i] < d[k] \/ (d[i] = d[k] /\ i < k)
  <2>1. D = DOMAIN s
    OBVIOUS
  <2>2. s \in Seq(Selecting!Candidates) /\ ByKey(G, D, d)
    BY <1>1, <1>2, <1>3 DEF ByKey
  <2>3. t \in Seq(Selecting!Candidates) /\ DOMAIN t = D /\ SortedBy(t, s, d)
    <3> HIDE DEF D
    <3> QED BY ONLY <1>4, <1>6, <2>1, <2>2, SortedByKey
  <2> QED BY ONLY <2>3 DEF SortedBy, D
<1>8. Rankable(t)
  BY <1>1, <1>7 DEF Rankable
<1>9. ASSUME NEW p \in D, NEW q \in D, p < q PROVE t[p].id < t[q].id
  <2>1. PICK i \in D, k \in D : /\ t[p] = s[i] /\ t[q] = s[k]
                                /\ d[i] < d[k] \/ (d[i] = d[k] /\ i < k)
    BY <1>7, <1>9
  <2>2. d[i] = s[i].id /\ d[k] = s[k].id /\ (d[i] = d[k] => i = k) /\ i \in Nat /\ k \in Nat
    BY <1>1, <1>2
  <2>3. d[i] < d[k]
    BY <2>1, <2>2
  <2> QED BY <2>1, <2>2, <2>3
<1> QED BY <1>7, <1>8, <1>9 DEF t

LEMMA CandidatesByNumber ==
  ASSUME NEW s, Rankable(s)
  PROVE  LET t == Selecting!StableSort(s, Selecting!HighestFirst) IN
         /\ Rankable(t) /\ ToSet(t) = ToSet(s) /\ DOMAIN t = DOMAIN s
         /\ \A p, q \in DOMAIN s : p < q =>
              \E i, k \in DOMAIN s :
                /\ t[p] = s[i] /\ t[q] = s[k]
                /\ \/ Selecting!Value(s[i].number) > Selecting!Value(s[k].number)
                   \/ Selecting!Value(s[i].number) = Selecting!Value(s[k].number) /\ i < k
<1> DEFINE D == DOMAIN s
           t == Selecting!StableSort(s, Selecting!HighestFirst)
           value(i) == Selecting!Value(s[i].number)
           d == [i \in D |-> 0 - value(i)]
           G == {e \in D \X D : d[e[1]] < d[e[2]] \/ (d[e[1]] = d[e[2]] /\ e[1] < e[2])}
           f == [p \in D |-> CHOOSE i \in D :
                  Selecting!Cardinality({k \in D : Selecting!HighestFirst(s[k], s[i])
                      \/ (~Selecting!HighestFirst(s[i], s[k]) /\ k < i)}) + 1 = p]
<1>1. /\ s \in Seq(Selecting!Candidates) /\ IsInjective(s)
      /\ \A i \in D : Numeric(s[i].number)
  <2>1. s \in Seq(Selecting!Candidates) /\ IsInjective(s) /\ \A i \in D : s[i] \in ToSet(s)
    BY DEF Rankable, ToSet
  <2> QED BY <2>1 DEF Rankable
<1>2. /\ \A i \in D : value(i) \in Nat
      /\ \A i, k \in D : Selecting!HighestFirst(s[i], s[k]) <=> value(k) < value(i)
  BY <1>1, ComparedByValue DEF Selecting!HighestFirst
<1> HIDE DEF value
<1>3. /\ d \in [D -> Int] /\ \A i \in D : d[i] = 0 - value(i)
      /\ \A i, k \in D : d[i] < d[k] <=> value(k) < value(i)
      /\ \A i, k \in D : d[i] = d[k] <=> value(k) = value(i)
  <2>1. \A i \in D : d[i] = 0 - value(i) /\ 0 - value(i) \in Int
    BY <1>2
  <2>2. d \in [D -> Int]
    BY <2>1
  <2>3. \A i, k \in D : (d[i] < d[k] <=> value(k) < value(i)) /\ (d[i] = d[k] <=> value(k) = value(i))
    BY ONLY <1>2, <2>1
  <2> QED BY <2>1, <2>2, <2>3
<1>4. \A i, k \in D : <<i, k>> \in G <=> d[i] < d[k] \/ (d[i] = d[k] /\ i < k)
  OBVIOUS
<1>5. t = [p \in D |-> s[f[p]]]
  BY DEF Selecting!StableSort
<1> HIDE DEF G, d
<1>6. \A i, k \in D :
        Selecting!HighestFirst(s[i], s[k]) \/ (~Selecting!HighestFirst(s[k], s[i]) /\ i < k)
          <=> <<i, k>> \in G
  <2> SUFFICES ASSUME NEW i \in D, NEW k \in D
               PROVE  value(k) < value(i) \/ (~(value(i) < value(k)) /\ i < k)
                        <=> value(k) < value(i) \/ (value(k) = value(i) /\ i < k)
    <3> SUFFICES ASSUME NEW i \in D, NEW k \in D
                 PROVE  Selecting!HighestFirst(s[i], s[k])
                          \/ (~Selecting!HighestFirst(s[k], s[i]) /\ i < k) <=> <<i, k>> \in G
      OBVIOUS
    <3>1. /\ Selecting!HighestFirst(s[i], s[k]) <=> value(k) < value(i)
          /\ Selecting!HighestFirst(s[k], s[i]) <=> value(i) < value(k)
      BY <1>2
    <3>2. (d[i] < d[k] <=> value(k) < value(i)) /\ (d[i] = d[k] <=> value(k) = value(i))
      BY <1>3
    <3>3. <<i, k>> \in G <=> d[i] < d[k] \/ (d[i] = d[k] /\ i < k)
      BY <1>4
    <3> HIDE DEF D
    <3> QED BY <3>1, <3>2, <3>3
  <2>1. value(i) \in Nat /\ value(k) \in Nat
    BY <1>2
  <2> QED BY ONLY <2>1
<1>7. Before!Fills(f, D, G)
  <2>1. \A i \in D :
          Before!PlaceIn(D, G, i)
            = Selecting!Cardinality({k \in D : Selecting!HighestFirst(s[k], s[i])
                      \/ (~Selecting!HighestFirst(s[i], s[k]) /\ k < i)}) + 1
    <3>1. \A i \in D : {k \in D : Selecting!HighestFirst(s[k], s[i])
                      \/ (~Selecting!HighestFirst(s[i], s[k]) /\ k < i)}
                         = {k \in D : <<k, i>> \in G}
      BY <1>6
    <3> QED BY <3>1, SameCounts DEF Before!PlaceIn
  <2> SUFFICES ASSUME NEW p \in D, NEW i \in D, Before!PlaceIn(D, G, i) = p
               PROVE  f[p] \in D /\ Before!PlaceIn(D, G, f[p]) = p
    BY DEF Before!Fills
  <2>2. /\ f[p] \in D
        /\ Selecting!Cardinality({k \in D : Selecting!HighestFirst(s[k], s[f[p]])
                      \/ (~Selecting!HighestFirst(s[f[p]], s[k]) /\ k < f[p])}) + 1 = p
    BY <2>1
  <2> QED BY <2>1, <2>2
<1> HIDE DEF f, t
<1>8. /\ t \in Seq(Selecting!Candidates) /\ DOMAIN t = D /\ ToSet(t) = ToSet(s)
      /\ IsInjective(s) => IsInjective(t)
      /\ \A p, q \in D : p < q =>
           \E i, k \in D : /\ t[p] = s[i] /\ t[q] = s[k]
                           /\ d[i] < d[k] \/ (d[i] = d[k] /\ i < k)
  <2>1. D = DOMAIN s
    OBVIOUS
  <2>2. s \in Seq(Selecting!Candidates) /\ ByKey(G, D, d)
    BY <1>1, <1>3, <1>4 DEF ByKey
  <2>3. t \in Seq(Selecting!Candidates) /\ DOMAIN t = D /\ SortedBy(t, s, d)
    <3> HIDE DEF D
    <3> QED BY ONLY <1>5, <1>7, <2>1, <2>2, SortedByKey
  <2> QED BY ONLY <2>3 DEF SortedBy, D
<1>9. Rankable(t)
  BY <1>1, <1>8 DEF Rankable
<1>10. ASSUME NEW p \in D, NEW q \in D, p < q
       PROVE  \E i, k \in D : /\ t[p] = s[i] /\ t[q] = s[k]
                              /\ value(i) > value(k) \/ (value(i) = value(k) /\ i < k)
  <2>1. PICK i \in D, k \in D : /\ t[p] = s[i] /\ t[q] = s[k]
                                /\ d[i] < d[k] \/ (d[i] = d[k] /\ i < k)
    BY <1>8, <1>10
  <2>2. value(k) < value(i) \/ (value(k) = value(i) /\ i < k)
    BY <1>3, <2>1
  <2>3. value(i) > value(k) \/ (value(i) = value(k) /\ i < k)
    BY <1>2, <2>2
  <2> QED BY <2>1, <2>3
<1> QED BY <1>8, <1>9, <1>10 DEF t, value

\* Each one goes before those that come later.
LEMMA CandidatesRanked ==
  ASSUME NEW s, Rankable(s)
  PROVE  LET t == Selecting!SortedCandidates(s) IN
         /\ Rankable(t) /\ ToSet(t) = ToSet(s)
         /\ \A p, q \in DOMAIN t : p < q => Selecting!Beats(t[p], t[q])
<1> DEFINE r == Selecting!StableSort(s, Selecting!ById)
           t == Selecting!StableSort(r, Selecting!HighestFirst)
<1>1. /\ Rankable(r) /\ ToSet(r) = ToSet(s) /\ DOMAIN r = DOMAIN s
      /\ \A p, q \in DOMAIN s : p < q => r[p].id < r[q].id
  BY CandidatesById
<1>2. t = Selecting!SortedCandidates(s)
  BY DEF Selecting!SortedCandidates
<1> HIDE DEF r
<1>3. /\ Rankable(t) /\ ToSet(t) = ToSet(r) /\ DOMAIN t = DOMAIN r
      /\ \A p, q \in DOMAIN r : p < q =>
           \E i, k \in DOMAIN r :
             /\ t[p] = r[i] /\ t[q] = r[k]
             /\ \/ Selecting!Value(r[i].number) > Selecting!Value(r[k].number)
                \/ Selecting!Value(r[i].number) = Selecting!Value(r[k].number) /\ i < k
  BY <1>1, CandidatesByNumber
<1> HIDE DEF t
<1>4. ASSUME NEW p \in DOMAIN t, NEW q \in DOMAIN t, p < q
      PROVE  Selecting!Beats(t[p], t[q])
  <2>1. PICK i \in DOMAIN r, k \in DOMAIN r :
          /\ t[p] = r[i] /\ t[q] = r[k]
          /\ \/ Selecting!Value(r[i].number) > Selecting!Value(r[k].number)
             \/ Selecting!Value(r[i].number) = Selecting!Value(r[k].number) /\ i < k
    BY <1>3, <1>4
  <2>2. i < k => r[i].id < r[k].id
    BY <1>1
  <2> QED BY <2>1, <2>2 DEF Selecting!Beats
<1> QED BY <1>1, <1>2, <1>3, <1>4

\* So many as stand at earlier places go before the one at place p.
LEMMA AheadOfPlace ==
  ASSUME NEW best, Rankable(best), NEW p \in DOMAIN best,
         \A q, r \in DOMAIN best : q < r => Selecting!Beats(best[q], best[r])
  PROVE  Cardinality({d \in ToSet(best) : Selecting!Beats(d, best[p])}) = p - 1
<1> DEFINE D == DOMAIN best
           value(q) == Selecting!Value(best[q].number)
           ahead == [q \in 1..(p - 1) |-> best[q]]
<1>1. /\ best \in Seq(Selecting!Candidates) /\ D = 1..Len(best) /\ Len(best) \in Nat
      /\ \A q, r \in D : best[q] = best[r] => q = r
  BY DEF Rankable, IsInjective
<1>2. /\ \A q \in D : best[q] \in ToSet(best)
      /\ \A c \in ToSet(best) : \E q \in D : c = best[q]
  BY DEF ToSet
<1>3. \A q \in D : value(q) \in Nat /\ best[q].id \in Nat
  <2> SUFFICES ASSUME NEW q \in D PROVE value(q) \in Nat /\ best[q].id \in Nat
    OBVIOUS
  <2>1. Numeric(best[q].number) /\ best[q].id \in Nat
    BY <1>2 DEF Rankable
  <2> QED BY <2>1, ComparedByValue
<1>4. \A q, r \in D : Selecting!Beats(best[q], best[r])
                        <=> value(q) > value(r) \/ (value(q) = value(r) /\ best[q].id < best[r].id)
  BY DEF Selecting!Beats
<1> HIDE DEF value
<1>5. \A q, r \in D : Selecting!Beats(best[q], best[r]) => ~Selecting!Beats(best[r], best[q])
  <2> SUFFICES ASSUME NEW q \in D, NEW r \in D,
                      value(q) > value(r) \/ (value(q) = value(r) /\ best[q].id < best[r].id),
                      value(r) > value(q) \/ (value(r) = value(q) /\ best[r].id < best[q].id)
               PROVE  FALSE
    BY <1>4
  <2>1. value(q) \in Nat /\ value(r) \in Nat /\ best[q].id \in Nat /\ best[r].id \in Nat
    BY <1>3
  <2> QED BY ONLY <2>1, value(q) > value(r) \/ (value(q) = value(r) /\ best[q].id < best[r].id),
                  value(r) > value(q) \/ (value(r) = value(q) /\ best[r].id < best[q].id)
<1>6. \A q \in D : Selecting!Beats(best[q], best[p]) <=> q \in 1..(p - 1)
  <2> SUFFICES ASSUME NEW q \in D
               PROVE  Selecting!Beats(best[q], best[p]) <=> q \in 1..(p - 1)
    OBVIOUS
  <2>1. p \in Nat /\ q \in Nat /\ 1 <= q
    BY <1>1
  <2>2. q < p => Selecting!Beats(best[q], best[p])
    OBVIOUS
  <2>3. p < q => ~Selecting!Beats(best[q], best[p])
    BY <1>5
  <2>4. q = p => ~Selecting!Beats(best[q], best[p])
    BY <1>5
  <2> QED BY ONLY <2>1, <2>2, <2>3, <2>4
<1>7. /\ p - 1 \in Nat /\ DOMAIN ahead = 1..(p - 1) /\ \A q \in 1..(p - 1) : q \in D
      /\ \A q \in 1..(p - 1) : ahead[q] = best[q] /\ best[q] \in Selecting!Candidates
  BY <1>1
<1> HIDE DEF ahead
<1>8. ahead \in Seq(Selecting!Candidates) /\ Len(ahead) = p - 1
  <2>1. ahead \in [1..(p - 1) -> Selecting!Candidates]
    BY <1>7 DEF ahead
  <2> QED BY <1>7, <2>1
<1>9. IsInjective(ahead)
  BY <1>1, <1>7 DEF IsInjective
<1>10. ToSet(ahead) = {d \in ToSet(best) : Selecting!Beats(d, best[p])}
  <2>1. ToSet(ahead) = {best[q] : q \in 1..(p - 1)}
    BY <1>7 DEF ToSet
  <2>2. ASSUME NEW q \in 1..(p - 1)
        PROVE  best[q] \in ToSet(best) /\ Selecting!Beats(best[q], best[p])
    BY <1>2, <1>6, <1>7
  <2>3. ASSUME NEW d \in ToSet(best), Selecting!Beats(d, best[p])
        PROVE  \E q \in 1..(p - 1) : d = best[q]
    BY <1>2, <1>6, <2>3
  <2> QED BY ONLY <2>1, <2>2, <2>3
<1>11. Cardinality(ToSet(ahead)) = Len(ahead)
  <2>1. Before!Cardinality(Before!ToSet(ahead)) = Len(ahead)
    BY <1>8, <1>9, Before!Counted DEF Before!IsInjective, IsInjective
  <2> QED BY <2>1, SameCounts DEF ToSet, Before!ToSet
<1> QED BY <1>8, <1>10, <1>11

-----------------------------------------------------------------------------
(* Selecting candidates: the selection *)

\* The provider lists every candidate once.
ListedOnce ==
  /\ listed \in Seq(Selecting!Candidates) /\ IsInjective(listed)
  /\ \A c, d \in ToSet(listed) : c.id = d.id => c = d

SelInv ==
  /\ ListedOnce
  /\ selection \in {"pending", "selected", "incomplete"}
  /\ selection = "selected" =>
       Selecting!Comparable(listed) /\ selected = Selecting!SelectHighest(listed)
  /\ selection = "incomplete" => ~Selecting!Comparable(listed)

LEMMA SelInit ==
  ASSUME Selecting!Init
  PROVE  SelInv
<1>1. PICK order \in Selecting!SetToSeqs(Ids),
           number \in [Ids -> Numbers], profile \in [Ids -> Profiles] :
        listed = [i \in DOMAIN order |-> [id |-> order[i], number |-> number[order[i]],
                                          profile |-> profile[order[i]]]]
  BY DEF Selecting!Init
<1>2. IsFiniteSet(Ids) /\ Cardinality(Ids) \in Nat
  BY SelectionAssumption, FS_CardinalityType
  DEF Selecting!MemberAssumption, IsFiniteSet, Selecting!IsFiniteSet
<1>3. /\ order \in [1..Cardinality(Ids) -> Ids]
      /\ \A i, k \in 1..Cardinality(Ids) : i # k => order[i] # order[k]
  BY <1>1, SameCounts DEF Selecting!SetToSeqs
<1>4. DOMAIN order = 1..Cardinality(Ids)
  BY <1>3
<1>5. \A i \in 1..Cardinality(Ids) :
        listed[i] = [id |-> order[i], number |-> number[order[i]], profile |-> profile[order[i]]]
  BY <1>1, <1>4
<1>6. listed \in [1..Cardinality(Ids) -> Selecting!Candidates]
  BY <1>1, <1>3, <1>4 DEF Selecting!Candidates
<1>7. \A i, k \in 1..Cardinality(Ids) : listed[i].id = listed[k].id => i = k
  <2>1. \A i \in 1..Cardinality(Ids) : listed[i].id = order[i]
    <3> SUFFICES ASSUME NEW i \in 1..Cardinality(Ids) PROVE listed[i].id = order[i]
      OBVIOUS
    <3>1. listed[i] = [id |-> order[i], number |-> number[order[i]], profile |-> profile[order[i]]]
      BY <1>5
    <3> QED BY ONLY <3>1
  <2> QED BY <1>3, <2>1
<1>8. DOMAIN listed = 1..Cardinality(Ids) /\ listed \in Seq(Selecting!Candidates)
  BY <1>2, <1>6
<1>9. IsInjective(listed)
  BY <1>7, <1>8 DEF IsInjective
<1>10. \A c, d \in ToSet(listed) : c.id = d.id => c = d
  BY <1>7, <1>8 DEF ToSet
<1>11. selection = "pending"
  BY DEF Selecting!Init
<1> QED BY <1>8, <1>9, <1>10, <1>11 DEF SelInv, ListedOnce

LEMMA SelStep ==
  ASSUME SelInv, [Selecting!Next]_(Selecting!vars)
  PROVE  SelInv'
<1>1. CASE Selecting!Next
  <2>1. listed' = listed /\ ListedOnce'
    BY <1>1 DEF Selecting!Next, Selecting!Answer, SelInv, ListedOnce
  <2>2. CASE Selecting!Comparable(listed)
    <3>1. selected' = Selecting!SelectHighest(listed) /\ selection' = "selected"
      BY <1>1, <2>2 DEF Selecting!Next, Selecting!Answer
    <3> QED BY <2>1, <2>2, <3>1 DEF SelInv
  <2>3. CASE ~Selecting!Comparable(listed)
    <3>1. selection' = "incomplete"
      BY <1>1, <2>3 DEF Selecting!Next, Selecting!Answer
    <3> QED BY <2>1, <2>3, <3>1 DEF SelInv
  <2> QED BY <2>2, <2>3
<1>2. CASE UNCHANGED Selecting!vars
  BY <1>2 DEF Selecting!vars, SelInv, ListedOnce
<1> QED BY <1>1, <1>2

LEMMA FitAreRankable ==
  ASSUME ListedOnce, Selecting!Comparable(listed)
  PROVE  /\ Rankable(Selecting!FitOf(listed))
         /\ ToSet(Selecting!FitOf(listed)) = Selecting!FitCandidates
<1> DEFINE fit == Selecting!FitOf(listed)
<1>1. /\ fit \in Seq(Selecting!Candidates) /\ IsInjective(fit)
      /\ ToSet(fit) = {c \in ToSet(listed) : Selecting!Fit(c)}
  BY FitOfIs DEF ListedOnce
<1> HIDE DEF fit
<1>2. ASSUME NEW c \in ToSet(fit) PROVE c.id \in Nat /\ Numeric(c.number)
  <2>1. c \in ToSet(listed) /\ Selecting!Fit(c)
    BY <1>1
  <2>2. PICK i \in DOMAIN listed : c = listed[i]
    BY <2>1 DEF ToSet
  <2>3. c \in Selecting!Candidates
    BY <2>2 DEF ListedOnce
  <2>4. c.id \in Nat /\ c.number \in Seq(Nat)
    BY <2>3, SelectionAssumption
    DEF Selecting!Candidates, Selecting!MemberAssumption, Selecting!NumberAssumption
  <2>5. Selecting!IsNumeric(c.number)
    BY <2>1, <2>2 DEF Selecting!Comparable
  <2> QED BY <2>4, <2>5 DEF Numeric, IsDigits, Selecting!IsNumeric
<1>3. Rankable(fit)
  BY <1>1, <1>2 DEF Rankable, ListedOnce
<1>4. ToSet(fit) = Selecting!FitCandidates
  BY <1>1 DEF Selecting!FitCandidates, ToSet, Selecting!ToSet
<1> QED BY <1>3, <1>4 DEF fit

\* The first Limit of the fit in their order are those that fewer than Limit go before.
LEMMA SelectedAreHighest ==
  ASSUME ListedOnce, Selecting!Comparable(listed),
         selected = Selecting!SelectHighest(listed)
  PROVE  Selecting!SelectsTheHighest
<1> DEFINE best == Selecting!SortedCandidates(Selecting!FitOf(listed))
           n == Len(best)
           m == IF n < Limit THEN n ELSE Limit
           F == Selecting!FitCandidates
           Prior(f) == {d \in F : Selecting!Beats(d, f)}
<1>1. /\ Rankable(best) /\ ToSet(best) = F
      /\ \A p, q \in DOMAIN best : p < q => Selecting!Beats(best[p], best[q])
  BY FitAreRankable, CandidatesRanked
<1>2. selected = [i \in 1..m |-> best[i].id]
  BY DEF Selecting!SelectHighest
<1> HIDE DEF best, F
<1>3. n \in Nat /\ DOMAIN best = 1..n
  BY <1>1 DEF Rankable
<1> HIDE DEF n
<1>4. Limit \in Nat
  BY SelectionAssumption DEF Selecting!LimitAssumption
<1>5. /\ DOMAIN selected = 1..m /\ \A i \in 1..m : i \in 1..n /\ selected[i] = best[i].id
      /\ \A p \in 1..n : p \in 1..m <=> p - 1 < Limit
  BY <1>2, <1>3, <1>4
<1> HIDE DEF m
<1>6. /\ \A p \in 1..n : best[p] \in F
      /\ \A c \in F : \E p \in 1..n : c = best[p]
  BY <1>1, <1>3 DEF ToSet
<1>7. \A p \in 1..n : Cardinality(Prior(best[p])) = p - 1
  BY <1>1, <1>3, AheadOfPlace
<1> HIDE DEF Prior
<1>8. Selecting!ToSet(selected) = {c.id : c \in {f \in F : Cardinality(Prior(f)) < Limit}}
  <2>1. Selecting!ToSet(selected) = {selected[i] : i \in 1..m}
    BY <1>5 DEF Selecting!ToSet
  <2>2. ASSUME NEW i \in 1..m
        PROVE  \E c \in F : Cardinality(Prior(c)) < Limit /\ selected[i] = c.id
    <3>1. best[i] \in F /\ Cardinality(Prior(best[i])) < Limit
      BY <1>5, <1>6, <1>7
    <3> QED BY <1>5, <3>1
  <2>3. ASSUME NEW c \in F, Cardinality(Prior(c)) < Limit
        PROVE  \E i \in 1..m : selected[i] = c.id
    <3>1. PICK p \in 1..n : c = best[p]
      BY <1>6
    <3>2. p \in 1..m
      BY <1>5, <1>7, <2>3, <3>1
    <3> QED BY <1>5, <3>1, <3>2
  <2> QED BY ONLY <2>1, <2>2, <2>3
<1>9. ASSUME NEW i \in DOMAIN selected, NEW k \in DOMAIN selected, i < k
      PROVE  \E c, d \in F : c.id = selected[i] /\ d.id = selected[k] /\ Selecting!Beats(c, d)
  <2>1. /\ best[i] \in F /\ best[k] \in F
        /\ best[i].id = selected[i] /\ best[k].id = selected[k]
    BY <1>5, <1>6
  <2>2. Selecting!Beats(best[i], best[k])
    BY <1>1, <1>3, <1>5, <1>9
  <2> QED BY <2>1, <2>2
<1> QED BY <1>8, <1>9, SameCounts DEF Selecting!SelectsTheHighest, F, Prior

LEMMA SelImplies ==
  ASSUME SelInv
  PROVE  Selecting!SelectsTheHighest /\ Selecting!NeverGuesses
<1>1. Selecting!SelectsTheHighest
  <2>1. CASE selection = "selected"
    BY <2>1, SelectedAreHighest DEF SelInv
  <2>2. CASE selection # "selected"
    BY <2>2 DEF Selecting!SelectsTheHighest
  <2> QED BY <2>1, <2>2
<1>2. Selecting!Comparable(listed)
        <=> ~(\E c \in Selecting!FitCandidates : ~Selecting!IsNumeric(c.number))
  BY DEF Selecting!Comparable, Selecting!FitCandidates, Selecting!ToSet
<1>3. Selecting!NeverGuesses
  BY <1>2 DEF SelInv, Selecting!NeverGuesses
<1> QED BY <1>1, <1>3

LEMMA SelectingInFocus ==
  ASSUME [Next]_vars, focus = "selecting"
  PROVE  [Selecting!Next]_(Selecting!vars)
  BY DEF Next, vars, selectionVars, Selecting!vars

\* For any candidates in any order, with numbers of any length and any limit
\* (select_automatic_members): the highest numbers are selected, the lower id first among
\* equal ones, or nobody when a fit candidate has no number that can be compared.
THEOREM SelectionAlwaysRight == Spec => []SelectionIsRight
<1> DEFINE I == focus = "selecting" => SelInv
<1>1. Init => I
  BY SelInit DEF Init
<1>2. I /\ [Next]_vars => I'
  <2> SUFFICES ASSUME I, [Next]_vars PROVE I'
    OBVIOUS
  <2>1. UNCHANGED focus
    BY DEF Next, vars
  <2> QED BY <2>1, SelectingInFocus, SelStep
<1>3. I => SelectionIsRight
  BY SelImplies DEF SelectionIsRight
<1> QED
  BY <1>1, <1>2, <1>3, PTL DEF Spec

-----------------------------------------------------------------------------
(* Types of all components *)

\* The state of a listing, an exchange, a cache, a validation or a selection
\* stays within its type: the pages within their limit, the rows of an answer
\* within those of its members and the damages.
THEOREM TypesAlwaysHold == Spec => []TypeOK
<1> DEFINE I == /\ focus = "jobs before" => Before!ListInv
                /\ focus = "jobs with" => With!ListInv
                /\ focus = "jobs never" => Never!ListInv
                /\ focus = "gateway" => GInv /\ GTypes
                /\ focus = "line" => LineInv
                /\ focus = "token" => TokenInv
                /\ focus = "manual" => Manual!VInv
                /\ focus = "automatic" => Automatic!VInv
                /\ focus = "selecting" => selection \in {"pending", "selected", "incomplete"}
                /\ focus \in {"jobs before", "jobs with", "jobs never", "gateway", "line",
                              "token", "manual", "automatic", "selecting"}
<1>1. Init => I
  <2> SUFFICES ASSUME Init PROVE I
    OBVIOUS
  <2>1. /\ focus = "jobs before" => Before!ListInv
        /\ focus = "jobs with" => With!ListInv
        /\ focus = "jobs never" => Never!ListInv
    BY JobsAssumption, Before!ListInvInit, With!ListInvInit, Never!ListInvInit DEF Init
  <2>2. focus = "gateway" => GInv /\ GTypes
    BY GatewayAssumption, GInvInit, GTypesInit DEF Init, GatewayConstants
  <2>3. (focus = "line" => LineInv) /\ (focus = "token" => TokenInv)
    BY LineInit, TokenInit DEF Init
  <2>4. (focus = "manual" => Manual!VInv) /\ (focus = "automatic" => Automatic!VInv)
    BY ValidationAssumption, Manual!VInvInit, Automatic!VInvInit DEF Init
  <2>5. focus = "selecting" => selection \in {"pending", "selected", "incomplete"}
    BY DEF Init, Selecting!Init
  <2>6. focus \in {"jobs before", "jobs with", "jobs never", "gateway", "line",
                  "token", "manual", "automatic", "selecting"}
    BY DEF Init
  <2> QED BY <2>1, <2>2, <2>3, <2>4, <2>5, <2>6
<1>2. I /\ [Next]_vars => I'
  <2> SUFFICES ASSUME I, [Next]_vars PROVE I'
    OBVIOUS
  <2>1. UNCHANGED focus
    BY DEF Next, vars
  <2>2. /\ focus = "jobs before" => Before!ListInv'
        /\ focus = "jobs with" => With!ListInv'
        /\ focus = "jobs never" => Never!ListInv'
    BY JobsInFocus, JobsAssumption, Before!ListInvStep, With!ListInvStep, Never!ListInvStep
  <2>3. focus = "gateway" => GInv' /\ GTypes'
    <3> SUFFICES ASSUME focus = "gateway" PROVE GInv' /\ GTypes'
      OBVIOUS
    <3>1. GatewayConstants /\ GInv /\ GTypes /\ [Gateway!Next]_(Gateway!vars)
      BY GatewayInFocus, GatewayAssumption DEF GatewayConstants
    <3>2. GInv'
      BY <3>1, GInvStep
    <3> QED BY <3>1, <3>2, GTypesStep
  <2>4. focus = "line" => LineInv'
    BY LineInFocus, LineStep, LineRests
  <2>5. focus = "token" => TokenInv'
    BY TokenInFocus, TokenStep
  <2>6. /\ focus = "manual" => Manual!VInv'
        /\ focus = "automatic" => Automatic!VInv'
    BY ManualInFocus, AutomaticInFocus, ValidationAssumption, Manual!VInvStep,
      Automatic!VInvStep
  <2>7. focus = "selecting" => selection' \in {"pending", "selected", "incomplete"}
    BY DEF Next, vars, selectionVars, Selecting!Next, Selecting!Answer
  <2> QED BY <2>1, <2>2, <2>3, <2>4, <2>5, <2>6, <2>7
<1>3. I => TypeOK
  <2> SUFFICES ASSUME I PROVE TypeOK
    OBVIOUS
  <2>1. /\ focus = "jobs before" => Before!TypeOK
        /\ focus = "jobs with" => With!TypeOK
        /\ focus = "jobs never" => Never!TypeOK
    BY DEF Before!ListInv, With!ListInv, Never!ListInv
  <2>2. /\ focus = "gateway" => Gateway!TypeOK
        /\ focus = "line" => Line!TypeOK
        /\ focus = "token" => Token!TypeOK
    BY DEF GTypes, LineInv, TokenInv
  <2>3. /\ focus = "manual" => Manual!TypeOK
        /\ focus = "automatic" => Automatic!TypeOK
    BY DEF Manual!VInv, Automatic!VInv
  <2> QED BY <2>1, <2>2, <2>3 DEF TypeOK
<1> QED
  BY <1>1, <1>2, <1>3, PTL DEF Spec
=============================================================================
