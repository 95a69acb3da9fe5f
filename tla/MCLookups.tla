------------------------------- MODULE MCLookups -------------------------------
(***************************************************************************)
(* TLC instances of the components that ask other systems: JobListing,     *)
(* BusinessGateway, LineExchange, IdTokenCache, TargetValidation and       *)
(* AutomaticSelection.  They share no state, so a property of one of them  *)
(* holds of all together if it holds of that one alone: a behaviour is     *)
(* about the one in focus, and the variables of the others are Unused.     *)
(* What LookupsProofs proves holds for every value of the constants.       *)
(***************************************************************************)
EXTENDS Integers, Sequences, FiniteSets

CONSTANTS
  Jobs, CreatedAt, PageSize, MaxPages, MaxMoves,  \* listing jobs
  Members, MaxDamages,                      \* asking the business system
  Verdicts, GatewayStatuses, Transport,     \* asking LINE
  Callers, TTL, Life, FetchTime, MaxTime,   \* asking for a token
  Selected, Others, Excluded, CustomJob, ChunkSize, MaxFacts, \* validating
  Ids, Numbers, Profiles, Limit             \* selecting

VARIABLES
  focus,
  jobs, kinds, jobChanges, jobPc, page, total, expected, collected, throughout,
  call, truth, gatewayPc, status, head, rows, damages, conclusion, reply,
  record, authorised, acceptable, request, answer, outcome, took, knew,
  now, issued, until, lock, queue, tokenPc, thread, got,
  line, standing, job, changes, sawLine, sawStanding, sawJob, message, pc,
  linkages, detail, candidates, validation, verdict,
  listed, selected, selection

jobVars == <<jobs, kinds, jobChanges, jobPc, page, total, expected, collected, throughout>>
gatewayVars == <<call, truth, gatewayPc, status, head, rows, damages, conclusion, reply>>
lineVars == <<record, authorised, acceptable, request, answer, outcome, took, knew>>
tokenVars == <<now, issued, until, lock, queue, tokenPc, thread, got>>
validationVars ==
  <<line, standing, job, changes, sawLine, sawStanding, sawJob, message, pc,
    linkages, detail, candidates, validation, verdict>>
selectionVars == <<listed, selected, selection>>
vars == <<focus, jobVars, gatewayVars, lineVars, tokenVars, validationVars, selectionVars>>

-----------------------------------------------------------------------------
(* A list of jobs, with each way of counting and every kind of change it     *)
(* reveals (JobListingProofs.Revealed).                                      *)

NoDate == -1
Shrinking == SUBSET {"update", "withdraw"}
Growing == SUBSET {"update", "register"}

Before == INSTANCE JobListingProofs WITH
  Undated <- NoDate, Counting <- "before", Surroundings <- Shrinking,
  MaxChanges <- MaxMoves, changes <- jobChanges, pc <- jobPc
With == INSTANCE JobListingProofs WITH
  Undated <- NoDate, Counting <- "with", Surroundings <- Shrinking \cup Growing,
  MaxChanges <- MaxMoves, changes <- jobChanges, pc <- jobPc
Never == INSTANCE JobListingProofs WITH
  Undated <- NoDate, Counting <- "never", Surroundings <- Growing,
  MaxChanges <- MaxMoves, changes <- jobChanges, pc <- jobPc

ASSUME JobsAssumption ==
  Before!ListingConstants /\ With!ListingConstants /\ Never!ListingConstants

\* Five jobs: 2 and 4 share a date, 1 and 5 have none.
SomeDates == <<-1, 1, 2, 1, -1>>

(* Answers about some members that are damaged some times.                    *)

Gateway == INSTANCE BusinessGateway WITH pc <- gatewayPc

ASSUME GatewayAssumption == Gateway!MembersAssumption /\ Gateway!BoundAssumption

(* One command.                                                              *)

Line == INSTANCE LineExchange WITH line <- record

ASSUME LineAssumption ==
  Line!VerdictAssumption /\ Line!GatewayAssumption /\ Line!TransportAssumption

(* Requests for one token.                                                   *)

Token == INSTANCE IdTokenCache WITH pc <- tokenPc

ASSUME TokenAssumption ==
  Token!CallerAssumption /\ Token!TimeAssumption /\ Token!NobodyAssumption

(* Members whose linkages are read in chunks, so that each may change after    *)
(* it was read; some of them excluded in the automatic operation.              *)

TwoMembers == <<"m1", "m2">>
NoExclusions == [m \in {} |-> "skip"]
SecondExcluded == [m \in {"m2"} |-> "skip"]

Manual == INSTANCE TargetValidationProofs WITH
  Excluded <- NoExclusions, Automatic <- FALSE, Messages <- {"valid"}, MaxChanges <- MaxFacts
Automatic == INSTANCE TargetValidationProofs WITH
  Automatic <- TRUE, Messages <- {"valid", "empty", "unfilled"}, MaxChanges <- MaxFacts

ASSUME ValidationAssumption == Manual!ValidationConstants /\ Automatic!ValidationConstants

(* Some candidates of a job.                                                  *)

\* "0", "00", "9", "09", "10", an empty number and one with a letter.
SomeNumbers == {<<0>>, <<0, 0>>, <<9>>, <<0, 9>>, <<1, 0>>, <<>>, <<1, 10>>}
\* One is fit; the others are rated 4, not linked, not eligible.
SomeProfiles ==
  {[level |-> 5, linked |-> TRUE, eligible |-> TRUE],
   [level |-> 4, linked |-> TRUE, eligible |-> TRUE],
   [level |-> 5, linked |-> FALSE, eligible |-> TRUE],
   [level |-> 5, linked |-> TRUE, eligible |-> FALSE]}

Selecting == INSTANCE AutomaticSelection WITH
  Members <- Ids, outcome <- selection

ASSUME SelectionAssumption ==
  /\ Selecting!MemberAssumption /\ Selecting!NumberAssumption
  /\ Selecting!ProfileAssumption /\ Selecting!LimitAssumption

-----------------------------------------------------------------------------
(* One component in focus *)

Unused == "unused"

NoJobs ==
  /\ jobs = Unused /\ kinds = Unused /\ jobChanges = Unused /\ jobPc = Unused
  /\ page = Unused /\ total = Unused /\ expected = Unused /\ collected = Unused
  /\ throughout = Unused
NoGateway ==
  /\ call = Unused /\ truth = Unused /\ gatewayPc = Unused /\ status = Unused
  /\ head = Unused /\ rows = Unused /\ damages = Unused /\ conclusion = Unused
  /\ reply = Unused
NoLine ==
  /\ record = Unused /\ authorised = Unused /\ acceptable = Unused
  /\ request = Unused /\ answer = Unused /\ outcome = Unused /\ took = Unused
  /\ knew = Unused
NoToken ==
  /\ now = Unused /\ issued = Unused /\ until = Unused /\ lock = Unused
  /\ queue = Unused /\ tokenPc = Unused /\ thread = Unused /\ got = Unused
NoValidation ==
  /\ line = Unused /\ standing = Unused /\ job = Unused /\ changes = Unused
  /\ sawLine = Unused /\ sawStanding = Unused /\ sawJob = Unused /\ message = Unused
  /\ pc = Unused /\ linkages = Unused /\ detail = Unused /\ candidates = Unused
  /\ validation = Unused /\ verdict = Unused
NoSelection == listed = Unused /\ selected = Unused /\ selection = Unused

Init ==
  \/ /\ \/ focus = "jobs before" /\ Before!Init
        \/ focus = "jobs with" /\ With!Init
        \/ focus = "jobs never" /\ Never!Init
     /\ NoGateway /\ NoLine /\ NoToken /\ NoValidation /\ NoSelection
  \/ /\ focus = "gateway" /\ Gateway!Init
     /\ NoJobs /\ NoLine /\ NoToken /\ NoValidation /\ NoSelection
  \/ /\ focus = "line" /\ Line!Init
     /\ NoJobs /\ NoGateway /\ NoToken /\ NoValidation /\ NoSelection
  \/ /\ focus = "token" /\ Token!Init
     /\ NoJobs /\ NoGateway /\ NoLine /\ NoValidation /\ NoSelection
  \/ /\ \/ focus = "manual" /\ Manual!Init
        \/ focus = "automatic" /\ Automatic!Init
     /\ NoJobs /\ NoGateway /\ NoLine /\ NoToken /\ NoSelection
  \/ /\ focus = "selecting" /\ Selecting!Init
     /\ NoJobs /\ NoGateway /\ NoLine /\ NoToken /\ NoValidation

Next ==
  \/ /\ \/ focus = "jobs before" /\ Before!Next
        \/ focus = "jobs with" /\ With!Next
        \/ focus = "jobs never" /\ Never!Next
     /\ UNCHANGED <<focus, gatewayVars, lineVars, tokenVars, validationVars, selectionVars>>
  \/ /\ focus = "gateway" /\ Gateway!Next
     /\ UNCHANGED <<focus, jobVars, lineVars, tokenVars, validationVars, selectionVars>>
  \/ /\ focus = "line" /\ Line!Next
     /\ UNCHANGED <<focus, jobVars, gatewayVars, tokenVars, validationVars, selectionVars>>
  \/ /\ focus = "token" /\ Token!Next
     /\ UNCHANGED <<focus, jobVars, gatewayVars, lineVars, validationVars, selectionVars>>
  \/ /\ \/ focus = "manual" /\ Manual!Next
        \/ focus = "automatic" /\ Automatic!Next
     /\ UNCHANGED <<focus, jobVars, gatewayVars, lineVars, tokenVars, selectionVars>>
  \/ /\ focus = "selecting" /\ Selecting!Next
     /\ UNCHANGED <<focus, jobVars, gatewayVars, lineVars, tokenVars, validationVars>>

Spec == Init /\ [][Next]_vars

-----------------------------------------------------------------------------
(* Properties *)

\* The types of each component.
TypeOK ==
  CASE focus = "jobs before" -> Before!TypeOK
    [] focus = "jobs with"   -> With!TypeOK
    [] focus = "jobs never"  -> Never!TypeOK
    [] focus = "gateway"     -> Gateway!TypeOK
    [] focus = "line"        -> Line!TypeOK
    [] focus = "token"       -> Token!TypeOK
    [] focus = "manual"      -> Manual!TypeOK
    [] focus = "automatic"   -> Automatic!TypeOK
    [] focus = "selecting"   -> selection \in {"pending", "selected", "incomplete"}

\* A list of jobs that is returned (list_jobs) holds every job that was there
\* all the time, in the promised order, and a provider that stands still is
\* not refused.
ListIsSound ==
  /\ focus = "jobs before" => Before!ListIsComplete /\ Before!ListIsOrdered /\ Before!NoFalseAlarm
  /\ focus = "jobs with" => With!ListIsComplete /\ With!ListIsOrdered /\ With!NoFalseAlarm
  /\ focus = "jobs never" => Never!ListIsComplete /\ Never!ListIsOrdered /\ Never!NoFalseAlarm

\* From a damaged answer of the business system the gateway concludes what is
\* true or an outage, from an honest one what it says, and the internal API
\* tells a business result, a missing object and an outage apart; the status of
\* a job, a reason, a level and what follows a page may be lost, never changed.
GatewayIsTrue ==
  focus = "gateway" =>
    Gateway!ConclusionIsTrue /\ Gateway!HonestIsUnderstood /\ Gateway!ReplyTellsOutage

\* What the LINE client concludes of a command agrees with what LINE holds:
\* accepted only what it has, given up only what it did not take, and final
\* only what it said of this very command.
LineIsUnderstood ==
  /\ [](focus = "line" => Line!AcceptedIsHeld /\ Line!GivenUpIsNotTaken)
  /\ [][focus = "line" => Line!ConcludesFinally]_vars

\* However many requests miss the token cache together, a token is fetched
\* once for each expiry, and none is handed out that is over at the issuer.
TokenIsSound == [][focus = "token" => Token!Replaces /\ Token!HandsOut]_vars

\* What validate_operation concludes from facts that change between its calls
\* was so at some time of the validation: nobody is sent to or left out by the
\* race alone, a loss asks for a new confirmation, and the counts add up.
VerdictIsJustified ==
  /\ focus = "manual" =>
       /\ Manual!SendIsJustified /\ Manual!DropIsJustified /\ Manual!LossAsksAgain
       /\ Manual!CountsAddUp
  /\ focus = "automatic" =>
       /\ Automatic!SendIsJustified /\ Automatic!DropIsJustified
       /\ Automatic!LossAsksAgain /\ Automatic!CountsAddUp

\* select_automatic_members selects the highest numbers, whatever the digits
\* look like, or nobody when one of the fit cannot be compared.
SelectionIsRight ==
  focus = "selecting" => Selecting!SelectsTheHighest /\ Selecting!NeverGuesses
=============================================================================
