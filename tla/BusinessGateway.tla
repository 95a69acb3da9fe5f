---------------------------- MODULE BusinessGateway ----------------------------
(***************************************************************************)
(* One exchange with the external business API over HTTP, up to the reply   *)
(* of Admin's internal API: the provider answers what is true, the answer   *)
(* is damaged on its way, the gateway reads it and concludes.               *)
(*                                                                         *)
(* The damage is what a faulty provider or network may do to a JSON answer  *)
(* without forging it: a field is lost or has another type, a row is        *)
(* repeated, lost or replaced, an answer belongs to another question, a     *)
(* reason contradicts its flag, a status is not a success.  What nobody     *)
(* could detect is left out: a flag turned round, another version or        *)
(* status, a candidate or a job missing from a list (that a page of jobs    *)
(* fits the total is for list_jobs to check, see JobListing).               *)
(***************************************************************************)
EXTENDS Integers, Sequences, FiniteSets, SequencesExt

CONSTANTS
  Members,    \* members (or, for "recommended", jobs) the question is about
  MaxDamages  \* bound on the damages of one answer

MembersAssumption ==
  IsFiniteSet(Members) /\ Members \cap {"asked", "other", "missing", "odd", "empty"} = {}
BoundAssumption == MaxDamages \in Nat

Calls == {"verify", "summary", "recommended", "detail", "candidates", "validate",
          "search"}
\* The internal API passes these on; the others serve Admin itself.
Internal == {"verify", "summary", "recommended", "detail"}

\* "missing": no such field; "odd": of another type; "empty": an empty string.
Bad == {"missing", "odd"}

VARIABLES
  call,       \* the question
  truth,      \* what is true at the provider
  pc,         \* "scope", "sent", "answered", "replied"
  status,     \* the HTTP status, or how the request failed
  head,       \* the fields of the answer
  rows,       \* its rows
  damages,    \* how often the answer was damaged
  conclusion, \* what the gateway returns or raises
  reply       \* the status the internal API replies with

question == <<call, truth>>
answer == <<status, head, rows>>
vars == <<question, pc, answer, damages, conclusion, reply>>

Truths == [member : BOOLEAN, job : {"expected", "edited", "closed", "absent"},
           fit : SUBSET Members, more : BOOLEAN]

\* Whether the question has an object at all.
Exists ==
  CASE call \in {"summary", "recommended"} -> truth.member
    [] call \in {"detail", "candidates"}   -> truth.job # "absent"
    [] OTHER                               -> TRUE

YesNo(b) == IF b THEN "yes" ELSE "no"

\* What an answer says: yes or no and why, the version of a job, who or what is
\* fit or found, a detail of each of them, and what follows a page.
Concludes(kind) ==
  [kind |-> kind, yes |-> "no", reason |-> "none", version |-> "empty", fit |-> {},
   details |-> {}, more |-> "no", total |-> "none"]
Nothing == Concludes("none")
Unavailable == Concludes("unavailable")
NotFound == Concludes("not_found")

Version(j) == IF j = "absent" THEN "empty" ELSE j
JobReason(j) ==
  CASE j = "expected" -> "none" [] j = "absent" -> "job_not_found" [] OTHER -> "reason"

\* The status of the job asked for, and of a job that is listed: recommended jobs
\* are published, of the others some.
AskedState == IF truth.job = "closed" THEN "closed" ELSE "published"
JobState(m) == IF m \in truth.fit THEN "published" ELSE "closed"

\* Candidates, validations and pages of jobs have a row for each member or job,
\* recommended jobs only for those there are.
Listed ==
  CASE call = "recommended"                      -> truth.fit
    [] call \in {"candidates", "validate", "search"} -> Members
    [] OTHER                                     -> {}

IsFit(m) == m \in truth.fit /\ (call = "validate" => truth.job = "expected")
RowReason(m) == IF IsFit(m) THEN "none" ELSE "reason"

\* What a row says of its member or job besides.
DetailOf(m) ==
  CASE call \in {"recommended", "search"} -> JobState(m)
    [] call = "candidates"               -> "level"
    [] OTHER                             -> RowReason(m)
DetailsOf == {<<m, DetailOf(m)>> : m \in Listed}

\* What a question asked of the truth itself would be answered.
TruthOf ==
  IF ~Exists THEN NotFound
  ELSE CASE call = "verify" ->
              [Concludes("answer") EXCEPT !.yes = YesNo(truth.member)]
         [] call = "summary" -> Concludes("answer")
         [] call = "detail" ->
              [Concludes("answer") EXCEPT !.version = truth.job,
                                          !.details = {<<"asked", AskedState>>}]
         [] call \in {"candidates", "recommended"} ->
              [Concludes("answer") EXCEPT !.fit = truth.fit, !.details = DetailsOf]
         [] call = "search" ->
              [Concludes("answer") EXCEPT !.fit = Members, !.details = DetailsOf,
                                          !.more = YesNo(truth.more), !.total = "known"]
         [] call = "validate" ->
              [Concludes("answer") EXCEPT
                 !.yes = YesNo(truth.job = "expected"), !.reason = JobReason(truth.job),
                 !.version = Version(truth.job), !.fit = {m \in Members : IsFit(m)},
                 !.details = DetailsOf]

-----------------------------------------------------------------------------
(* The provider and the network. *)

HonestHead ==
  [id      |-> "asked",
   flag    |-> YesNo(IF call = "verify" THEN truth.member ELSE truth.job = "expected"),
   reason  |-> IF call = "verify" THEN (IF truth.member THEN "none" ELSE "reason")
               ELSE JobReason(truth.job),
   version |-> Version(truth.job),
   stamp   |-> "time",
   state   |-> AskedState,
   more    |-> YesNo(truth.more),
   total   |-> "known"]

HonestRow(m) ==
  [id |-> m, flag |-> YesNo(IsFit(m)), reason |-> RowReason(m), version |-> "version",
   level |-> "level", state |-> JobState(m)]

HonestRows == SetToSeq({HonestRow(m) : m \in Listed})

\* The fields that the gateway reads of each answer and of its rows.
HeadFields ==
  CASE call = "verify"   -> {"id", "flag", "reason"}
    [] call = "summary"  -> {"id"}
    [] call = "detail"   -> {"id", "version", "state"}
    [] call = "validate" -> {"id", "flag", "reason", "version", "stamp"}
    [] call = "search"   -> {"more", "total"}
    [] OTHER             -> {}
RowFields ==
  CASE call = "candidates"               -> {"id", "flag", "reason", "level"}
    [] call = "validate"                 -> {"id", "flag", "reason"}
    [] call \in {"recommended", "search"} -> {"id", "version", "state"}
    [] OTHER                             -> {}

Init ==
  /\ call \in Calls
  /\ truth \in {t \in Truths : t.more => call = "search"}
  /\ pc = "scope"
  /\ status = "none"
  /\ head = HonestHead
  /\ rows = <<>>
  /\ damages = 0
  /\ conclusion = Nothing
  /\ reply = 0

\* The provider answers.
Answer ==
  /\ pc = "sent"
  /\ pc' = "answered"
  /\ status' = IF Exists THEN "ok" ELSE "not_found"
  /\ rows' = HonestRows
  /\ UNCHANGED <<question, head, damages, conclusion, reply>>

\* No token, a transport error, 401, 403, 429, 3xx, 5xx, a body that is no JSON
\* or no object; or a 404 because the organization is not served.
ExchangeFails ==
  /\ pc = "sent"
  /\ pc' = "answered"
  /\ status' \in {"failed", "organization_not_found"}
  /\ UNCHANGED <<question, head, rows, damages, conclusion, reply>>

Damage ==
  /\ pc = "answered" /\ status = "ok" /\ damages < MaxDamages
  /\ damages' = damages + 1
  /\ UNCHANGED <<question, pc, status, conclusion, reply>>

\* A field of the answer is lost, of another type, of another question or empty;
\* a boolean is a number to the gateway.
Spoilt(field) ==
  CASE field = "id"      -> Bad \cup {"other", "empty"}
    [] field = "version" -> Bad \cup {"empty"}
    [] field = "total"   -> Bad \cup {"boolean"}
    [] OTHER             -> Bad

DamageHead(field) ==
  /\ Damage
  /\ \E v \in Spoilt(field) : head' = [head EXCEPT ![field] = v]
  /\ UNCHANGED rows

\* A reason that contradicts the flag.
ContradictHead ==
  /\ Damage
  /\ "reason" \in HeadFields
  /\ head.flag = "yes"
  /\ head' = [head EXCEPT !.reason = "reason"]
  /\ UNCHANGED rows

Positions == 1..(Cardinality(Members) + MaxDamages)

\* A row that names another member is not told from an honest candidate.
DamageRow(i, field) ==
  /\ Damage /\ i \in DOMAIN rows
  /\ \E v \in Spoilt(field) \ (IF call = "validate" THEN {} ELSE {"other"}) :
       rows' = [rows EXCEPT ![i][field] = v]
  /\ UNCHANGED head

ContradictRow(i) ==
  /\ Damage /\ i \in DOMAIN rows
  /\ "reason" \in RowFields
  /\ rows[i].flag = "yes"
  /\ rows' = [rows EXCEPT ![i].reason = "reason"]
  /\ UNCHANGED head

\* A row is repeated, as it is or saying the opposite.
RepeatRow(i) ==
  /\ Damage /\ i \in DOMAIN rows
  /\ \E again \in {rows[i],
                   [rows[i] EXCEPT !.flag = YesNo(@ = "no"),
                                   !.reason = IF rows[i].flag = "no" THEN "none" ELSE "reason",
                                   !.state = IF @ = "published" THEN "closed" ELSE "published"]} :
       rows' = Append(rows, again)
  /\ UNCHANGED head

\* Losing one of two contradicting rows would forge the other, also when the
\* one that is lost does not name its member any more.
LoseRow(i) ==
  /\ Damage /\ i \in DOMAIN rows
  /\ call = "validate"
  /\ rows[i].id \in Members
  /\ \A k \in DOMAIN rows : rows[k].id = rows[i].id => rows[k] = rows[i]
  /\ rows' = RemoveAt(rows, i)
  /\ UNCHANGED head

-----------------------------------------------------------------------------
(* The gateway.  A definition called a variant is a deliberate bug; no        *)
(* specification uses it.                                                     *)

\* _required_text.
RequiredText(v) == v \notin Bad \cup {"empty"}

\* _decision_flag: nothing but a boolean is read as a conclusion.
DecisionFlag(v) == v \in {"yes", "no"}

\* Variant: two rows of one member are accepted, the later one counts.
UniqueNotAsked == TRUE
Unique == Cardinality({rows[i].id : i \in DOMAIN rows}) = Len(rows)

\* _same_job, and the identity of a summary.
SameObject == head.id = "asked"

\* _eligibility_reason: a reason that is not readable is one all the same; a
\* missing one is none.
EligibilityReason(v) ==
  CASE v = "missing" -> "none" [] v = "odd" -> "unknown" [] OTHER -> v
HasReason(v) == EligibilityReason(v) # "none"

\* _job_status: a status that is not readable is an unknown one, not an outage.
JobStatus(v) == IF v \in Bad THEN "unknown" ELSE v

\* _recommendation_level, of a level that is no odd one.
Level(v) == IF v = "missing" THEN "none" ELSE v

CandidateRow(r) ==
  /\ DecisionFlag(r.flag)
  /\ r.reason \notin Bad
  /\ ~(r.flag = "yes" /\ HasReason(r.reason))
  /\ RequiredText(r.id)
  /\ r.level # "odd"

ValidationRow(r) ==
  /\ DecisionFlag(r.flag)
  /\ ~(r.flag = "yes" /\ HasReason(r.reason))
  /\ RequiredText(r.id)

\* No row is missing and none is about somebody else.
ExactlyAsked == {rows[i].id : i \in DOMAIN rows} = Members

\* Only an absent job has no version.
CurrentVersion ==
  /\ head.version \notin Bad
  /\ head.version = "empty" => head.reason = "job_not_found"

\* The later row of a member wins.
Fit ==
  {m \in Members :
     \E i \in DOMAIN rows :
       /\ rows[i].id = m /\ rows[i].flag = "yes"
       /\ \A k \in DOMAIN rows : k > i => rows[k].id # m}

ReadVerification ==
  IF ~DecisionFlag(head.flag) THEN Unavailable
  ELSE IF head.flag = "no" THEN [Concludes("answer") EXCEPT !.yes = "no"]
  ELSE IF HasReason(head.reason) \/ ~RequiredText(head.id) THEN Unavailable
  ELSE [Concludes("answer") EXCEPT !.yes = "yes"]

ReadSummary == IF SameObject THEN Concludes("answer") ELSE Unavailable

ReadDetail ==
  IF SameObject /\ RequiredText(head.version)
  THEN [Concludes("answer") EXCEPT !.version = head.version,
                                   !.details = {<<"asked", JobStatus(head.state)>>}]
  ELSE Unavailable

\* What is read of each row besides.
DetailRead(r) ==
  CASE call \in {"recommended", "search"} -> JobStatus(r.state)
    [] call = "candidates"               -> Level(r.level)
    [] OTHER                             -> EligibilityReason(r.reason)
DetailsRead == {<<rows[i].id, DetailRead(rows[i])>> : i \in DOMAIN rows}

\* _summary and _unique_jobs.
JobRow(r) == RequiredText(r.id) /\ RequiredText(r.version)
UniqueJobs == Unique /\ \A i \in DOMAIN rows : JobRow(rows[i])
JobsRead ==
  [Concludes("answer") EXCEPT !.fit = {rows[i].id : i \in DOMAIN rows},
                              !.details = DetailsRead]

ReadRecommended == IF UniqueJobs THEN JobsRead ELSE Unavailable

\* Only TRUE is read as a further page; a total that is no number is none.  The
\* number and the size of the page, which list_jobs compares, are left out.
ReadSearch ==
  IF UniqueJobs
  THEN [JobsRead EXCEPT !.more = YesNo(head.more = "yes"),
                        !.total = IF head.total \in Bad THEN "none" ELSE head.total]
  ELSE Unavailable

ReadCandidates ==
  IF Unique /\ \A i \in DOMAIN rows : CandidateRow(rows[i])
  THEN [Concludes("answer") EXCEPT !.fit = Fit, !.details = DetailsRead]
  ELSE Unavailable

ReadValidation ==
  IF /\ \A i \in DOMAIN rows : ValidationRow(rows[i])
     /\ Unique /\ ExactlyAsked
     /\ DecisionFlag(head.flag)
     /\ ~(head.flag = "yes" /\ HasReason(head.reason))
     /\ CurrentVersion
     /\ head.stamp \notin Bad
     /\ SameObject
  THEN [Concludes("answer") EXCEPT
          !.yes = head.flag, !.reason = EligibilityReason(head.reason),
          !.version = head.version, !.fit = Fit, !.details = DetailsRead]
  ELSE Unavailable

Read ==
  CASE call = "verify"      -> ReadVerification
    [] call = "summary"     -> ReadSummary
    [] call = "detail"      -> ReadDetail
    [] call = "recommended" -> ReadRecommended
    [] call = "candidates"  -> ReadCandidates
    [] call = "validate"    -> ReadValidation
    [] call = "search"      -> ReadSearch

\* _not_found: an organization that is not served is not a missing object, and
\* a verification, a validation or a search has no object to miss.
NotFoundOr ==
  IF status = "organization_not_found" \/ call \in {"verify", "validate", "search"}
  THEN Unavailable ELSE NotFound

\* An unusable scope is refused before the provider is asked.
ScopeMissing ==
  /\ pc = "scope"
  /\ call \in Internal
  /\ pc' = "replied"
  /\ reply' = 403
  /\ UNCHANGED <<question, answer, damages, conclusion>>

Send ==
  /\ pc = "scope"
  /\ pc' = "sent"
  /\ UNCHANGED <<question, answer, damages, conclusion, reply>>

Conclude ==
  /\ pc = "answered"
  /\ pc' = "concluded"
  /\ conclusion' =
       CASE status = "failed" -> Unavailable
         [] status \in {"not_found", "organization_not_found"} -> NotFoundOr
         [] status = "ok" -> Read
  /\ UNCHANGED <<question, answer, damages, reply>>

\* InternalRoute: a missing object is a 404, an outage a 503.
StatusOf(kind) ==
  CASE kind = "answer"      -> 200
    [] kind = "not_found"   -> 404
    [] kind = "unavailable" -> 503

Reply ==
  /\ pc = "concluded"
  /\ call \in Internal
  /\ pc' = "replied"
  /\ reply' = StatusOf(conclusion.kind)
  /\ UNCHANGED <<question, answer, damages, conclusion>>

Next ==
  \/ Send \/ ScopeMissing \/ Answer \/ ExchangeFails
  \/ \E field \in HeadFields : DamageHead(field)
  \/ ContradictHead
  \/ \E i \in Positions :
       \/ \E field \in RowFields : DamageRow(i, field)
       \/ ContradictRow(i) \/ RepeatRow(i) \/ LoseRow(i)
  \/ Conclude \/ Reply

Spec == Init /\ [][Next]_vars

-----------------------------------------------------------------------------
(* Properties *)

TypeOK ==
  /\ call \in Calls /\ truth \in Truths
  /\ pc \in {"scope", "sent", "answered", "concluded", "replied"}
  /\ status \in {"none", "ok", "not_found", "organization_not_found", "failed"}
  /\ damages \in 0..MaxDamages /\ Len(rows) <= Cardinality(Members) + MaxDamages
  /\ conclusion.kind \in {"none", "answer", "not_found", "unavailable"}
  /\ conclusion.yes \in {"yes", "no"} /\ conclusion.fit \subseteq Members
  /\ conclusion.more \in {"yes", "no"} /\ conclusion.total \in {"known", "boolean", "none"}
  /\ reply \in {0, 200, 403, 404, 503}

\* What the gateway reads with a default may be lost, and nothing else: a status,
\* a reason or a level becomes unknown or none, a further page none, the total
\* none or a boolean.  It is never another one.
Lost == {"unknown", "none"}
OnlyLoses(c) ==
  /\ c.kind = TruthOf.kind /\ c.yes = TruthOf.yes
  /\ c.version = TruthOf.version /\ c.fit = TruthOf.fit
  /\ c.reason \in {TruthOf.reason} \cup Lost
  /\ \A d \in c.details : \E t \in TruthOf.details : d[1] = t[1] /\ d[2] \in {t[2]} \cup Lost
  /\ c.more \in {TruthOf.more, "no"}
  /\ c.total \in {TruthOf.total, "none", "boolean"}

\* However an answer was damaged, the gateway concludes what is true or that the
\* provider is unavailable: never that somebody is no member, no candidate or
\* not eligible, that a job is gone or has another version, because of a fault.
\* It does pass on a damaged job status as an unknown one, which its callers take
\* for a job that is not published (job_closed), the reason of a refusal as none,
\* and a page as the last one; but never as another status or reason.
ConclusionIsTrue ==
  conclusion.kind \in {"answer", "not_found"} => OnlyLoses(conclusion)

\* An undamaged answer is understood, whatever it says: the checks never take
\* an honest "no", an absent job or an empty list for an outage.
HonestIsUnderstood ==
  conclusion.kind = "unavailable" => damages > 0 \/ status \notin {"ok", "not_found"}

\* The internal API tells an outage from a missing object and from a business
\* result: 404 and 200 only for what is so (a status apart, which may be lost),
\* 503 only when something was wrong.
ReplyTellsOutage ==
  /\ reply = 404 => ~Exists
  /\ reply = 200 => Exists /\ OnlyLoses(conclusion)
  /\ reply = 503 => damages > 0 \/ status \notin {"ok", "not_found"}
=============================================================================
