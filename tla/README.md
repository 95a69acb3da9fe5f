# A verification development for the admin notification system

The repository is the administration side of a job notification service: staff
members choose the candidates of a job, write a message, have the selection
validated, confirm what they see and send it. The notifications go out through a
separate service, the LINE integration, over HTTP. A recovery loop in every
running instance works off what a request could not finish.

This directory holds TLA+ modules translated from `src/backend/app`, TLC
configurations, and TLAPS proofs. Paths below are relative to `src/backend/app/`.

| modules | contents |
|---|---|
| `NotificationOutbox`, `NotificationOutboxLiveness` | execution of one reserved operation: claims, submissions, polling, aggregation, recovery; what the recovery loop brings about |
| `DeliveryPromise` | what the execution promises the staff; `NotificationOutbox` implements it |
| `NotificationOperation` | one operation before its execution: concurrent editing, validation, confirmation, reservation |
| `SendPromise` | what staff members who work together are promised; `NotificationOperation` implements it |
| `TargetValidation` | the calls one validation makes and what it concludes from them |
| `TargetSelection`, `AutomaticSelection` | what a request looks up before it stores targets; which candidates the automatic mode selects |
| `SendAcceptance` | the end of a send request: guards, reservation, hand-over, answers, retries |
| `RecoveryRunner` | the loop over many operations of several services |
| `LineExchange` | how an answer of LINE is read |
| `JobListing`, `BusinessGateway`, `IdTokenCache` | the business system: job pages, reading of its answers, the token for it |
| `StaffAccess` | registration of staff and the admission of their requests |
| `DeliveryView` | the results page: projection, the two GET routes, the refresh loop |
| `StableSorting` | the stable sort the listings share |
| `MCNotificationOutbox`, `MCNotificationOperation`, `MCJobListing` | symmetries and instances of these modules for TLC |
| `MCLookups`, `MCRequests`, `MCProgress` | TLC instances of all the others, several components to a run (section 4) |
| `NotificationOutboxProofs`, `NotificationOperationProofs` | theorems about the execution and the operation |
| `StaffAccessProofs`, `TargetValidationProofs`, `TargetSelectionProofs`, `JobListingProofs` | theorems about single components |
| `RequestsProofs`, `LookupsProofs` | theorems about `MCRequests` and `MCLookups`: the other components, and what those above say of all together |

Each module models its calls as steps between which everything else may happen, since every
one of them is awaited. A definition whose comment says *variant* is a deliberately wrong
form of the one after it: no specification uses it. For every property of every run
`PROJECT.json` names one that violates it.

## 1. Inventory

### The parts and what they keep

**Operation, targets and audit trail** (`db/admin_notification_repository.py`,
`db/admin_tables.py`). One row for an operation (status, message and
message_version, validation snapshot, `validated_at`, `send_requested_at`,
`completed_at`, `updated_at`), one row per target. Every writing method is one
transaction under `SELECT ... FOR UPDATE` of the operation row.

**Notification service** (`application/notification_service.py`) and **admin
service** (`application/admin_service.py`). No state of their own. A request reads
the operation in one transaction, does its work, with calls to other systems,
and writes in another with `expected_operation`: the repository raises if the stored
row differs in any column. Operations: `create_operation`, `update_draft`,
`replace_targets`, `validate_operation`, `send_operation`, `confirmation`.
`send_operation` calls `validate_operation` again and reads the result back.
The admin service adds the lists of jobs and candidates and the automatic selection.

**Deliveries and outbox** (same tables file). `begin_send_attempt` writes in one
transaction one delivery per selected member (pending, or skipped at once) and one
outbox row per member to send to, with the command that will be posted.

**Dispatcher** (`application/admin_line_dispatch.py`, `dispatch_operation`) claims
outbox rows one at a time under a 60 s lease with a random claim token, posts each to
LINE, and records `accepted`, `retryable_failure` or `permanent_failure`. It
runs in the request that reserved (`adapter/local_inline_notification_queue.py`) and in the
recovery loop.

**Reconciler** (same file, `reconcile_operation`) polls LINE for the commands it has
accepted, a page at a time with a cursor in memory, and settles their deliveries.

**Recovery runner** (`application/admin_notification_runner.py`): one asyncio task per
instance, with a cursor per service in memory; lists the operations that have work left,
dispatches and reconciles each, isolates failures, and starts over.

**LINE integration**: an external service, modelled from how the client
(`adapter/line_internal_api.py`) and the dispatcher use it.

**Send capability guard** (`application/admin_send_capability.py`): asks LINE for its mode and
recipient limit before a reservation and composes the final text.

**External business system**: jobs, candidates and eligibility, read over HTTP
(`adapter/external_business_http.py`) or SQL (`adapter/current_db_external_business.py`). The
HTTP gateway keeps one ID token in memory. The internal API
(`api/routes/admin_internal.py`) passes some of its answers on to LINE.

**Delivery population** (`domain/models/delivery_population.py`): a pure projection of
deliveries onto the selected members, applied by the GET routes.

**Staff registry** (`db/staff_identity_repository.py`, `db/admin_staff_provisioning.py`,
`api/admin_auth.py`): two tables, identities and permissions; registered by hand,
read by every request.

**Frontend** (`src/frontend/app/admin`): shows the confirmation, sends, then polls operation
and deliveries in a loop with a timer.

The rest (settings, wiring, migrations, schemas, editing screens) keeps no state of the
system; `PROJECT.json` lists each part with its status and the reason.

### How they interact

    browser --> AdminApplicationService --> NotificationService --> repository
                                              |        ^                ^
                            business system, LINE lookup       lease / claim
                                              |                         |
                            begin_send_attempt --> outbox rows <-- dispatcher --> LINE
                                                                   reconciler <--
                                                                        ^
                                                     recovery runner / inline queue

Shared state is only the database. Any number of staff requests, inline dispatches and
recovery loops (one per instance) work on one operation at the same time.

### What is hard, and the properties it calls for

* Two staff members edit, validate and send one operation at the same time: no
  lost update, no validation of targets it did not look at, one reservation, and
  what is reserved is what the sender was shown.
* The confirmation is checked before the second validation, which may change
  everything: it has to be compared again.
* Exclusions of an automatic operation are recorded in the snapshot that most
  writes discard.
* A submission outlives its lease, a worker dies anywhere, LINE's answer is lost:
  no claim is overwritten, no untrue outcome is recorded, and every member gets a
  result at last.
* Rows, deliveries, aggregate status and audit trail must agree in every committed
  state.
* A row that never gets an answer must not hold up the others.
* Rows written by the previous release must not stay open for ever.
* A validation, a selection and a job list are each put together from several answers of systems
  that change between them.
* A send can fail after its reservation is committed; the client that retries must not
  be misled.
* The recovery list is paged while operations join and leave it.
* A faulty answer of another system must not be read as a business fact.
* Old results must not return to a page that shows newer ones, and a page that stops asking
  must show the end.

`PROJECT.json` lists these hazards at their lines with the properties that cover
them, and, where none does, why.

## 2. `NotificationOutbox`: the execution

### State and code

`outbox`, `lease`, `earlier`, `token` are the columns of an outbox row; `delivery`,
`status`, `completed`, `audit` those of the operation. Time is abstracted to what the
code does with it: a lease is compared with the clock (`"null"`, `"running"`,
`"over"`) and sorts the rows to claim (`earlier`, the order of the timestamps).
`pc`, `item`, `held`, `answer` are the locals of a dispatching process, `page`,
`copy`, `cursor` those of a reconciling one. `line`, `refusing` and `wire` are
LINE: its record of each command, the commands it would deny, the POSTs under way.

One action is one repository transaction, or the issue or the end of one HTTP call.
`Claim` is `claim_outbox_records`, `RecordOutcome` is `update_outbox_state` with
`_fail_submission` and `_aggregate`, `Reconcile` is `reconcile_outbox_result`,
`Refresh` is `refresh_delivery_aggregate`; `Submit`, `LineAccepts`, `LineReplyLost`,
`LineDenies`, `PostLost`, `SubmissionFails` are the ends a POST can have;
`ReadOutbox`, `ReadDeliveries`, `PollFinal`, `PollNotFound`, `PollForbidden`,
`PollInconclusive` are `reconcile_operation`; `DispatchRaises`, `ReconcileRaises`
and `Crash` are the failures `run_cycle` isolates and a restart. A reply that
comes after its worker lost the lease is included: nothing ties a process to the clock
unless `Prompt` is set.

### Parameters that restrict the environment

* `Prompt`: a live worker records its outcome before its lease is over. The code
  aims at it (30 s timeout, 60 s lease, fresh clock for each claim) but cannot force it. The
  properties that need it (`SingleWorker`, `NoPostOnceAnswered`) say so.
* `ConsistentLine`: LINE never denies a command it has taken or would take. Without it the
  record of a denied retry can be wrong, and no client could tell.
* `Inherited`, `NoLinkage`: rows the previous release can have left.
* `Unanswered`: members about whom LINE may never be conclusive.

### Runs

| run | instance | shows |
|---|---|---|
| `row` | 1 member, 2 runners, 1 inline request, no `Prompt` | outcomes recorded are true of LINE; nothing settled is taken back; a running claim is changed by its own worker only |
| `pair` | 2 members, runner and inline request | rows match deliveries, the status is the aggregate, the audit trail tells each change once; the execution implements `DeliveryPromise` |
| `prompt` | 1 member, 1 inherited without a linkage version, 1 skipped, runner and request, an inconsistent LINE that sends or rejects | types; one worker per command; no POST after an answer was recorded |
| `complete` | 2 inherited rows in every state the previous release could have left, 1 runner; one row has no linkage version, and LINE need not answer about it | what is recorded, in hand and on the wire is true of LINE after the takeover as well (`IInv`); the other row gets its result; if LINE answers about both, the operation completes and leaves the recovery list |

The runs share the verdicts LINE can give: `row` has sent and unknown, `pair` sent and not linked,
`prompt` sent and rejected. Bounds: one row is where all contention over a claim happens, three processes
give a stale one, a current one and a third to take over. Two rows give the first order
and the first page boundary (`PageLimit = 1` where the code has 50: with two rows a
page of one already skips, wraps and forgets). Four tokens (three for two
processes) exceed the claims that can be in hand at once; `FreshToken` reuses a token only when it is in no hand and in
no row, which is what uuid4 gives. No counter is bounded.

### Fairness

Liveness is stated in `NotificationOutboxLiveness`, which adds one variable to the
surroundings: `calm`, set at some time, after which no instance crashes or raises
(under endless restarts the in-memory cursor never advances and nothing is promised).
It is a variable and not a formula over steps because a cycle in which the reconciler raises
and one in which it finds nothing to do are the same step. `RunnersRun`: `_run` is a
loop that catches every exception and sleeps between cycles, so a running instance goes
on with its cycle. `ClockRuns`: a lease runs over. `LineAnswers`: a LINE asked again
and again about a member is conclusive at last (strong fairness, since a request may be
lost any number of times), for the members that are not `Unanswered`; `OperationCompletes`
assumes it of those as well, `NobodyStarves` does not. Inline requests have no fairness.

`OperationCompletes` excludes a row of the previous release that LINE does not know and that
has no linkage version (`Unpostable`): the code asks for it for ever and never posts it. It also excludes, by
`FaultsCease`, a command that the contract refuses (see `SendAcceptance`): its dispatch raises each time, so its
operation stays open for good. Rows are claimed one at a time, so the other rows of the operation go on after it,
and the runner goes on with the next operation.
`NobodyStarves` counts an inherited row by its delivery alone (`Closed`): an earlier release may
have left a row accepted in an operation whose deliveries are all final, and of such an operation
the reconciler drops its cursor at the end of each cycle, so it polls the first page only.

### `DeliveryPromise`

Each selected member gets one final result; it is not taken back; status and
`completed_at` are the aggregate of the results in the same step. `Announce` is the
change from ready to sending, `Settle` one member's result. The refinement mapping is the identity on
`delivery`, `status`, `completed`: claims, retries, leases, polls and crashes are
stutters. It holds without inherited rows (`Inherited = {}`), since the
refresh settles several of those at once.

## 3. `NotificationOperation`: up to the reservation

### State and code

`op` is the operation row, `targets` the selected target rows, `deliveries` and
`outbox` the reservation. The other variables are per staff member: a staff member has one
request at a time (`pc`), which holds the operation and the targets as it read them
(`copy`, `seen`), the status to restore (`origin`), what its validation found
(`summary`) and what for it runs (`errand`). `token` is what the staff member's browser was
given: the operation, the targets and the dispositions on screen. `confirmed`
is a history variable, the token the reservation was made with.

`op.stamp` stands for `updated_at`, a new value at every write. `op.message` is
`message_version`; `op.results` maps each selected member to the linkage version it will be
sent under, to `"skip"` or to `"block"`. `op.excluded` is the automatic selection context
without the entries `automatic_context` drops on every read.

A request is a chain of actions, one per repository call: `ReadDraft` and `UpdateDraft`,
`ReadForTargets` and `ReplaceTargets`; `ReadToValidate`, `ReadTargets`,
`StartValidation`, then one of the ways a validation ends (`NoSelectedTargets`, `Conclude`,
`JobNotFound`, `ExternalSystemUnavailable`, `RestoreStatus`), then
`AfterValidation` with the second validation of `AdminApplicationService.validate`;
`ReadToRespond`, `Respond` (the answer of the validate route) and `ReadToView`,
`ReadTargetsToView`, `View` (`confirmation`) hand out tokens; `ReadToSend`,
`CheckConfirmation`, a validation, `CompareConfirmation` and `Reserve` are
`send_operation`. `MayWrite` is the comparison with `expected_operation` and the two
guards. `Refuse` is any guard or call outside a validation that raises, `Crash` the death of a
request inside one. `Execute` stands for the execution, which from here only changes status and
stamp. What the lookups say is a verdict for each member and one flaw of the job or the
message, chosen anew by every validation. Tokens are modelled as what they are a hash of.

### Runs

| run | instance | shows |
|---|---|---|
| `manual` | 2 members, 2 staff members, 2 linkage versions, crashes | a validation is the only writer until it ends; results, targets, deliveries and commands agree; what is reserved was confirmed, message and linkage included; the reservation is frozen |
| `automatic` | an automatic operation, 2 candidates, a limit of 1, exclusions, crashes, tokens from both routes | types; exclusions survive edits and failed validations, and nobody excluded is sent to; a second candidate selected between the test of the limit and the reservation does not get in |
| `consent` | the same without crashes, 2 linkage versions, 2 messages, a limit of 2 | the whole implements `SendPromise` |
| `ends` | 1 member, every flaw, no crash | an operation leaves `validating` |

Bounds: `MaxStamp` stops new requests after that many writes. A confirmed
send needs two writes for the first validation and three more, so a limit of
4 lets an edit go before and lets the other staff member start anything in between; the
automatic run needs 5 for a validation repeated because of a new exclusion. `MaxMessage` = 2 is one
change of the message. Two staff members give every pair of requests. These
systems end when no request may start: deadlock is not checked.

`ends` assumes that the server goes on with each request it accepted (`WF` of `Serve`): every call
it awaits has a timeout. It does not hold with `CanCrash`: an operation whose request dies
during validation, or whose last write fails, stays `validating`, and neither the
services nor the runner reset it.

### `SendPromise`

Four actions: a message is edited, targets are chosen, a page is shown, and `Send` sends. `Send`
is one step: it needs a page that shows the message and the selection as they are now, and the
recipients it writes are the page's. `NotificationOperation` implements it under the mapping
`Promise` (the tokens in the browsers are the pages, the reservation is what was sent): reads,
validations, locks and stale writers are stutters. That the selection is compared once more by the
reservation itself is needed: without that comparison the refinement and `WithinLimit` both fail.

## 4. The components around them

Each of these modules has a state of its own. `MCLookups`, `MCRequests` and `MCProgress` check
several of them in one run: since they share no variable, an initial choice (`focus`) says which
one a behaviour is about, the variables of the others keep the value `Unused`, and a property
speaks of the component in focus only. What is checked is therefore each component alone, not
their composition. `MCLookups` and `MCRequests` take the sets and numbers that the theorems of section 5
speak about as constants with assumptions, and the two cfg files give them small values: what is proved of
these modules holds for every number of staff members, members, callers and damages. Components with
theorems of their own (`Registry` and `Access`, `Alone` and `Racing`, `Gateway`, `Manual` and
`Automatic`, `Before`, `With` and `Never`) are instances of the module that holds them.

| run | components | shows |
|---|---|---|
| `lookups` | `JobListing` (3 instances), `BusinessGateway`, `LineExchange`, `IdTokenCache`, `TargetValidation` (2), `AutomaticSelection` | `ListIsSound`, `GatewayIsTrue`, `LineIsUnderstood`, `TokenIsSound`, `VerdictIsJustified`, `SelectionIsRight` |
| `requests` | `SendAcceptance`, `TargetSelection` (2), `StaffAccess` (2), `DeliveryView` | `AnswersAreTrue`, `SavesAreRight`, `RegistryIsSound`, `AccessIsJust`, `PageIsRight` |
| `progress` | `RecoveryRunner`, `IdTokenCache`, `SendAcceptance`, `StaffAccess`, `DeliveryView` | `PagesAreFair`, `ReservedIsTaken`, `NobodyWaitsForEver`, `ViewSettles` |
| `jobs_boundary` | `JobListing` | a counterexample (below) |

### `JobListing`

`list_jobs` reads page after page, then sorts. `CountJobs` and `ReadRows` are the two SELECTs
of a page over the current database (`Counting = "before"`); over HTTP a page is one answer, with
its total (`"with"`) or without (`"never"`). `Repeats`, `TotalChanged`, `Incomplete` and
`LimitExceeded` are the checks that turn an inconsistent listing into an outage, `SortJobs` the two
stable sorts. Between any two calls the provider registers, updates or withdraws jobs;
`Surroundings` says which kinds of change may come together in one behaviour. `ListIsComplete` and
`ListIsOrdered` say what a returned list holds, `NoFalseAlarm` that a provider at rest is not refused.
Five jobs on two pages of two: the list ends inside a page, at a page boundary, or beyond
`MaxPages`; two changes (`MaxMoves`).

The promise of `admin_service.py:164`, never to return a partial list as a success, does not hold for
every mixture of changes. Over the current database one registration between the count and the rows
of the last page, when this page is exactly full, pushes a job that was always there off
the page, and the old count agrees with what was collected (`jobs_boundary`, the one finding). A
registration and a withdrawal in one listing leave the total as it was. And without a total nothing
tells that a withdrawal has pulled the later jobs up a page. Everything else is revealed:
`JobListingProofs.Revealed` excludes no more than these three, and `lookups` checks the largest sets of kinds that
it allows: updates and withdrawals for the current database, either these or updates and registrations for
HTTP with a total, updates and registrations for HTTP without one (`Shrinking`, `Growing`).

### `BusinessGateway`

One exchange of `HttpExternalBusinessGateway`, for each of its seven calls: `Send`, the provider's
`Answer` (what is true, as rows and fields), up to two damages (`DamageHead`, `DamageRow`,
`RepeatRow`, `LoseRow`, `ContradictHead`, `ContradictRow`) or `ExchangeFails`, `Conclude` (the
readers `Read...`) and `Reply`, the status the internal API tells LINE. Damage loses, repeats or
contradicts; it does not forge: a well-formed lie cannot be detected by any client. So a row is lost
only while it names its member and all rows of that member agree: losing the honest one of two that
contradict each other would leave a lie. `ConclusionIsTrue`: whether somebody is a member, a
candidate or eligible, whether a job is there and in which version, is concluded truly or not at
all. What the readers give a default may be lost: a job status that is missing or odd becomes
`UNKNOWN` (`JobStatus`), a reason `UNKNOWN` or none (`EligibilityReason`), a level none, a damaged
`has_next` of `search_jobs` no further page and a damaged total none (`ReadSearch`). `OnlyLoses`
says that it never becomes another status, reason, level or total. A lost status has a consequence:
a validation takes whatever is not `PUBLISHED` for a closed job (`notification_service.py:760`), so
there a damaged answer does stop a sending with `job_closed`. And a page wrongly taken for the last
one is noticed by `list_jobs` only if it has a total to compare with. `HonestIsUnderstood`: an
undamaged one is never refused. `ReplyTellsOutage`: a missing object, a result and an outage stay
apart. Two members and two damages: one damage can hide another.

### `LineExchange`

One command's exchanges with LINE: a submission or a poll (`Ask`) is taken by LINE
(`LineHandles`), taken but its answer lost or damaged (`LineHandlesInVain`), or never seen by LINE
(`NeverReachesLine`: transport failures, refusals of a gateway). `Conclude` is `_request` with its
classes in order: `Unavailable`, `ResultNotFound`, `ScopeForbidden`, `Rejected`, `Unreadable`.
`AcceptedIsHeld`, `GivenUpIsNotTaken` and `ConcludesFinally` compare what is concluded with what LINE
held. Verdicts, statuses and bodies stand one for each branch of the code.

### `IdTokenCache`

`_IdTokenCache.get`: the look without the lock (`LookUp`), `Acquire`, the look under it (`CheckAgain`),
`Issue` and `Store` of the fetch, `FetchFails`, `Cancel` at any await, and a clock (`Tick`).
`Replaces`: a token is replaced only when it is over. `HandsOut`: none is handed out that its issuer has ended,
although the cache counts from the answer; this needs `TTL + FetchTime <= Life` (45 minutes, a request
timeout and an hour in the code; 2, 1 and 3 here). Three callers: one fetches, one waits for the lock,
one comes later. The clock stops at `MaxTime`, after three lives.

### `TargetValidation`

The calls one validation makes, in the wiring over the current database: `CheckMessage`, linkages in
chunks (`ReadLinkages`), `ReadJob`, `ReadCandidates`, `ValidateJob` and `ValidateMembers`, two SELECTs;
then `Conclude`, with `DispositionOf`, `Count`, `CanProceed`, `Reconfirm`. The facts change between the calls,
and each variable `saw...` collects what they were since the start. `SendIsJustified` and
`DropIsJustified`: whoever is cleared, or left out, was so by facts that held during the validation;
`LossAsksAgain`: who is lost asks for a new confirmation; `CountsAddUp`. Two selected members read in two
chunks, one not selected, one excluded in the automatic instance; every combination of facts at the
start and one change.

### `AutomaticSelection` and `TargetSelection`

`AutomaticSelection` is `select_automatic_members` on lists of three candidates in every order, with numbers
`0`, `00`, `9`, `09`, `10`, none, and one with a letter: the code's comparison of stripped digit strings by
length and text, sorted twice, against the order of the numbers they stand for
(`SelectsTheHighest`), and no selection at all when one fit candidate cannot be compared
(`NeverGuesses`). It is a function: the module has one step.

`TargetSelection` is what `create_operation` and `replace_targets` look up before they store: for the
first save of an automatic operation the selection is made again (`SelectAgain`) and the candidates are
read once more for the rows (`ListCandidates`, `LookUpLinkages`); `ReadForTargets` and `StoreTargets`
store if nobody else did. `SavesSelection`: the first save is a selection from facts that held during
the request. `CountsOnce`: `initial_count` is its size for good. `SavesKnown`: nobody is stored
who was not a candidate, or selected before. Instances: one staff member, three members, two changes of the other
systems; two staff members who race, two members, one change.

### `SendAcceptance`

The end of `send_operation`: `RejectStatus`, `AlreadyAccepted`, `CheckCapability`, `CheckMessage`,
`Reserve`, `ReserveRefused`, `Enqueue`, `EnqueueFails`, `HandlerRaises`, `RecordFailure`, `Reread`, with
failures of the storage, of LINE, of the queue, of its handler, and `Crash` of the process; clients that try again; the
recovery loop (`RunnerTakes`, `RunnerCompletes`). A client that tries again confirms what is stored, as
the page makes it do, so `Validate` is one step here; what it compares is in `NotificationOperation`.
`AnswersAreTrue` joins: who is told *accepted* can rely on it, a try that is told of a conflict, a message too
long or an outage has reserved nothing, the audit does not contradict itself, what is reserved LINE permitted
when it was asked, and it is never reserved again. The other refusals say nothing: the handler of the inline
queue runs after the commit, and what it raises reaches `_translate`, so that an error, a 404 (a scope that is no
longer configured) and a 422 `invalid_request` may each be the answer of a try that did reserve. The 422 is a
command its contract refuses: `NotificationCommand` bounds the linkage and the job version at 128 characters,
which no source of theirs does, and the `ValidationError` is a `ValueError` (`HandlerRaises`). `ReservedIsTaken`: whatever fails after the
commit, the recovery loop works on it.

### `StaffAccess`

`register_admin_staff` is one PostgreSQL transaction at READ COMMITTED: `FindIdentity` waits for a row lock
(`Lockers`), `WriteIdentity` for an uncommitted insert of the same keys (`Inserters`) and is refused by the
unique keys (`KeysAreFree`), then `Commit` or `RollBack`. A sign-in is two statements, `FindPerson`
and `Decide`, between which registrations commit. `RegistryIsSound`: no two persons share an
identity of the provider, and no registered identity changes hands. `AccessIsJust`: who is let in was active at
some time of the request and had the permission at some time of it (the two reads give no more), who is not let in was
without one of them, or had a permission row with an unreadable role: such a row makes the person's
sign-in fail for every service. Three registrations at once over two persons and two identities;
one request against two commits, two services, roles of earlier releases included. A lock queue is fair (strong fairness of
`Proceed`).

### `RecoveryRunner`

`run_cycle` and `_run` over four operations of two services on pages of two: `ListPage` moves the
cursor of a service, `Dispatch` may raise (`DispatchRaises`, for ever for the `Undispatchable`), `Reconcile`,
`ListFails`, `GoDown` and `Start` with a lost cursor; `Reserve` and `FinishElsewhere` change the list between any two
calls. `PassesOnce`: while an operation waits to be listed no other one is listed twice. The second part of `PagesAreFair`:
an operation that stays open is polled again and again. Fairness: the loop goes on after every failure, a
stopped instance is started again, and the query of a service succeeds again and again (strong); no
dispatch has to succeed. One restart.

### `DeliveryView`

The projection `selected_deliveries` and `projected_operation`, the reads of the two GET
routes (`ReadOperation`, `ReadProjection`, `ReadDeliveries`), and the page: `Open`, the loop of
`delivery-refresh.ts` (`queue`, `TimerFires`, `refresh`, `AskDeliveries`, `onUpdate`, `onError`), the button
(`StaffRefreshes`), `Busy`, `Resume`, `Reload`. Meanwhile `Settle` stores results. `Histories` are the records
to start from: written by this release, by the previous one, or any at all, a missing or unusable
snapshot included. `RestsOnFinal`: a page that no longer asks shows final results that add up.
`NothingHidden`: the projection leaves out recorded exclusions only. `GoesOn`: a result on screen is
not taken back. `calm` is set once failures, pauses and reloads are over; `ViewSettles` is stated under
weak fairness of the execution's results, the requests, the timer, and the opening and resuming of the page.
Two members and two pairs of requests that may overlap; over any records at all while the page is calm, over
those a release can have written while it pauses and reloads without end. Equal rows of one member
coincide (a set); cancelled operations are left out, since no code cancels one.

### Two further deviations

Met while modelling, part of the models, and stated here because no run is devoted to them:

* `docs/PHASE5_SLICE53_STATE_RECOVERY.md:31` calls transport failures retryable.
  `line_internal_api.py:152` catches timeouts and network errors only; other transport errors of the HTTP library
  (a server that closes without an answer) leave `_request` unclassified. The dispatcher
  raises, and the row waits for the end of its lease. In `LineExchange` this is the outcome `raised`.
* The comment at `notification_service.py:1299` says that the operation remains accepted if
  enqueueing fails. Only a `QueueError` is answered so; whatever the inline dispatch itself raises
  (`local_inline_notification_queue.py:39`) is answered with an error, a 404 or a 422, though the reservation stands
  and is worked on. In `SendAcceptance` this is `HandlerRaises`.

### Bounds of the three runs

Beyond those named above: `MaxTries`, `MaxEdits`, `MaxTurns`, `MaxChanges`, `MaxDamages`, `MaxSeen`, `MaxRestarts`,
`MaxTime` count what the surroundings do; nothing of the code's own state is cut. Components
end their requests and bounded surroundings stop, so deadlock is not checked; that requests do end is
`NobodyWaitsForEver`.

## 5. Proofs

All are checked by TLAPS for every value of the constants that satisfies the named assumptions
in the modules.

`NotificationOutboxProofs`:
* `TypeInvariant`, `Spec => [](TypeOK /\ HandsOK)`. `HandsOK` says what a process has in hand at each
  place: without it `RecordOutcome` could write anything.
* `StatusAlwaysAggregate`, `Spec => []StatusIsAggregate`. Every write of the operation is a
  `Settles` step (pending deliveries get results, then the aggregate is written), so a completed
  operation has nothing left to change.
* `RowsAlwaysMatch`, `Spec => []DeliveriesMatchRows`. The invariant adds `ClaimsOK` (a token is
  in one hand, only a delivering row has a running lease): an outcome is recorded only under
  the claim it belongs to, so it finds a row that is still open.
* `AuditAlwaysTellsOnce`, `Spec => []AuditTellsOnce`: a `Settles` step appends what it changed, and
  `StatusIsAggregate` says that it changes nothing once the status is final.
* `SettledStays`, `Spec => SettledForever`, from the above.
* `OutboxKeepsPromise`, `Inherited = {} /\ Spec => KeepsPromise`: initial states map to
  initial states, every step to `Announce`, `Settle` or a stutter.

* `OutcomesAlwaysTrue`, `Spec => []OutcomesAreTrue`, and `HandsAlwaysTrue`, `Spec => []IInv`.

For these two the invariant adds `AnswersAreTrue`: an answer, a polled result and a copy are
true of LINE before they are recorded. `LineStep` says that LINE forgets no command and takes back
no verdict, so they are still true afterwards. For a command that failed for good nothing may be on
the wire or about to be posted, or LINE refuses it: a row that the previous release
closed needs the first, every other one the second, which a consistent LINE never takes back.
`ClaimAlwaysProtected`, `Spec => ClaimProtected`: a claim needs a row whose
lease does not run, an outcome the token, and a token is in one hand (`ClaimsOK`). Under `Prompt`
the invariant `WorkersInTime` (a worker's row is delivering, under its token and a running lease)
gives `WorkerAlwaysSingle`, `Spec => []SingleWorker`, and `NeverPostOnceAnswered`,
`Spec => NoPostOnceAnswered`.

`NotificationOperationProofs`: the invariant `OInv` is `TypeOK`, `InHand`, `SoleValidator` and
`PopulationAgrees` together. `InHand` says that a request holds a state with a stamp not above the stored
one, in which its next write is allowed, and that operation and targets read in two transactions
belong together if the operation has not changed since. It is needed because a validation starts
from two reads. Each step of a request has one of five shapes (`Quiet`, `Edits`, `Starts`,
`Finishes`, `Reserves`); a write needs the stored operation to be the one in hand, which a running
validation's status denies to all others. From it: `TypeInvariant`, `HandsAlwaysGood`,
`ValidatorAlwaysSole`, `PopulationAlwaysAgrees` and `ReservationFrozen`
(`Spec => FrozenOnceReserved`). What is reserved needs more, `SInv`:
* `ValidationIsNamed`: a `validated_at` belongs to one validation. What a request has found, what it has read
  and what is stored have the same results if they have the same one.
* `TokenIsCompared`: from `CompareConfirmation` to `Reserve` a sender's copy of the operation has the
  recipients, targets and message of its token, within the limit; `Reserve` writes only if the copy is the
  stored operation.
* `ExclusionsKept`: whoever is recorded as excluded is not among the stored recipients and has no command.

It gives `ReservationConfirmed` and `ReservationWithinLimit` (`[]ReservedIsConfirmed`, `[]WithinLimit`),
`ExclusionsAlwaysRespected` (`ExclusionsRespected`), and `SendingKeepsPromise`, `Spec => SendsAsPromised`: an edit
is the abstract edit, a token handed out the abstract page, `Reserve` the one step `Send`, and the
rest stutters.

`StaffAccessProofs` is about the component alone, for any persons, holders, services and registrars.
`StaffInvariant` joins what registrations and requests need. A registrar past its guards has locked what it found or
inserted a row whose keys no other one has, committed or not: so two registrations never commit the same holder for two
persons (`HoldersAlwaysSound`). A request remembers what committed since it began: the person it found
keeps its holder, and each refusal was true of one of those states (`AccessAlwaysJust`).

`TargetSelectionProofs` is about one operation, for any members, staff members and limits.
Its invariant (`SelectionInvariant`) says that what a request holds it read at some time since it began
(`ever`), and that what it read of the operation is what is stored unless someone has written in between (`stale`):
so a save rests on one selection and on an unchanged operation. That the selection is right
rests on lemmas about ranks: the number of higher ones maps the members of a set one to one onto
`0..n-1`, hence at most `Limit` are selected and whoever is passed over has `Limit` above.

`RequestsProofs` states every safety property of `MCRequests`, from one invariant `FocusInv` that gives the
component in focus its own:
* `TypesAlwaysHold`, `Spec => []TypeOK`.
* `RegistryAlwaysSound`, `AccessAlwaysJust`, `SavesAlwaysRight` carry over what the components' modules prove.
* `AnswersAlwaysTrue`, `Spec => AnswersAreTrue`, for `SendAcceptance`: before `Reserve` a try has left nothing
  behind, after it the reservation is its own and the audit names it and no other; and LINE has reported, at some
  time, that each guard behind a request was passed.
* `PageAlwaysRight`, `Spec => PageIsRight`, for `DeliveryView`: what is shown, or on its way, was recorded
  (`Recorded`); a final status means that no delivery is pending; at most one pair of requests is live, and the page
  waits for it (`OneIsLive`), or for its timer, or has nothing to wait for (`PageIsDriven`). Records of a release are
  coherent and stay so (`LoopInv`); over those nothing on screen or on its way is taken back.

`JobListingProofs`, `ListAlwaysSound`, for any jobs, dates, page sizes and limits, and each way of counting. The
constants it speaks of are those of a listing whose changes are `Revealed`. The invariant `ListInv` counts instead of
following the pages, so that no induction over them is needed:
* `BoundedByTotal`: without registrations the jobs present and those collected are together never more than the
  last total. A list as long as its total is therefore all of them.
* `CollectedIsPresent`: without withdrawals what was collected is still there. A list as long as the total of the last
  page, which is read with its rows, is therefore all of them.
* `PagesAreFull`: without a total, every page that has a successor was full, so that a last page ends where the
  provider's list does.
* `AtRest`: if the provider stands still, what was collected is the beginning of its list.

That the sorts order the list is proved with ranks: under a strict order the places of `StableSort` are a permutation
(`PlacesAreApart`, `Arranged`), and what goes before what is decided by the later sort first (`SortedJobs`).

`TargetValidationProofs`, `VerdictAlwaysJust`: every answer in hand was so when it was given, and every
fact of the time since the start is in a `saw...` set; the counts add up because they are cardinalities of a partition.

`LookupsProofs` states the safety properties of `MCLookups`:
* `TypesAlwaysHold`, `Spec => []TypeOK`.
* `ListAlwaysSound` and `VerdictAlwaysJustified` carry over what the components' modules prove, for the three ways of
  counting and the two modes.
* `GatewayAlwaysTrue`: the head of an answer is honest or recognisably bad; if a row lies about a member, or about
  the status of a job, then another row contradicts it or some row names nobody, either of which the readers refuse; and nobody is missed unless some row
  names nobody, except in `validate`, which compares the members answered about with those asked about. The lemmas say
  what `SetToSeq`, `RemoveAt` and the insertion of a row do to the rows of one member.
* `TokenAlwaysSound`: who fetches holds the lock and saw under it that the token is not fresh; a stored token was
  issued at most `FetchTime` before it was counted from, and `TTL + FetchTime <= Life`.
* `SelectionAlwaysRight`: the comparison by length and text is that of the values (`ComparedByValue`), for numbers of any
  length: equal leading digits cancel (`Same`), and of two numbers of one length the one ahead at the first difference
  stays ahead (`Ahead`). So the two sorts put the fit candidates in the order promised (`CandidatesRanked`), the
  one at place p has p - 1 ahead (`AheadOfPlace`), and the first `Limit` are those with fewer than `Limit` ahead.
  The invariant says that every candidate is listed once. The values and the fit candidates are recursive functions, and
  what they return is shown at the least place where it could fail (`Smallest`), since the prover cannot
  instantiate the library's induction theorems.
* `LineAlwaysUnderstood`: an answer on its way that reads as LINE's own says what LINE held, and a command that was
  taken is not refused.

Three things the proofs changed in the models. With three damages `BusinessGateway` could repeat a row, contradict the copy and
lose the original, a forgery that the run with two damages cannot reach; `LoseRow` now has the guard
stated in section 4. Two CASE expressions had overlapping guards, of which TLA+ may choose any where the code takes
the first: they are nested IFs now (`HonestHead`, `BusinessDisposition`). And the run used to check a listing under one
kind of change at a time; the proof showed which kinds may come together.

Only model-checked:
* Liveness (`NobodyStarves`, `OperationCompletes`, `ValidationEnds`, the run `progress`): it rests on fairness and
  ENABLED, which the prover does not handle.

No module declares a RECURSIVE operator.

## 6. What is not modelled

* The composition of the main modules: `NotificationOutbox` starts from the committed reservation that `Reserve` of
  `NotificationOperation` writes, `TargetValidation` and `TargetSelection` refine what that module takes as
  free choices, `RecoveryRunner` has only the open or closed state of what `NotificationOutbox` does to an operation.
* Clock skew between instances and equal `updated_at` values (hazards without a property).
* The fields of the HTTP answers one by one, and the SQL text: an answer is well formed or damaged.
* The composition of the final text; it may fit or not (`CheckMessage`).
* The HTTP layer of the admin API: parsing, wording of errors, layout of responses. Its
  role gates, the send route and the routes that read more than once are modelled.
* The editing screens: form state of one browser. Every write and every confirmation is compared by the
  server, which `NotificationOperation` has.
* Provisioning, migration and manual SQL: run once by an operator. What they leave behind is
  `Inherited` in `NotificationOutbox` and `Histories` in `DeliveryView`.
* `SingleWorker` and `NoPostOnceAnswered` without `Prompt`: the code relies on LINE's
  idempotency key there, and LINE is not in this repository.
* The components `PROJECT.json` lists as `not_modelled`, with the reasons given there.

## 7. Plan

1. done: `NotificationOutbox`, `DeliveryPromise`, `NotificationOperation`, and their proofs.
2. done: `SendPromise`, which `NotificationOperation` implements, and the components of section 4.
3. done: proofs of every safety property of the execution.
4. done: proofs of every safety property of the operation, and that it implements `SendPromise`.
5. done: proofs of every safety property of `MCRequests`.
6. done: proofs of every safety property of `MCLookups`.
7. The composition of `RecoveryRunner` with the execution of two operations.
