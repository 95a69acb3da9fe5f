----------------------------- MODULE DeliveryView -----------------------------
(***************************************************************************)
(* What a browser shows of a reserved operation while its deliveries are   *)
(* settled: the population projection the two GET routes apply, the read   *)
(* transactions they are made of, and the refresh loop of the page, which  *)
(* asks for the operation first and for the deliveries next, retries after *)
(* an error, and stops by itself.  No code cancels an operation; the       *)
(* branches for a cancelled one are left out.                              *)
(***************************************************************************)
EXTENDS Integers

CONSTANTS
  Members,
  Flights,      \* requests of the page, those of stopped loops included
  Histories     \* where the records come from

HistoryAssumption == Histories \subseteq {"current", "previous", "uncertain"}

None == "none"
MembersAssumption == Members # {}

VARIABLES
  snapshot,     \* the selected flags in validation_snapshot; none of them
                \* also when they are malformed or name a member twice
  targets,      \* those of the target rows
  rows,         \* rows[m]: results of the deliveries of member m
  status,       \* the stored status
  place,        \* what the page is doing
  page,         \* the operation's status and the deliveries on screen
  timer,        \* the loop's timer is set
  inFlight,     \* as in the loop
  flight,       \* flight[f]: a pair of requests
  calm          \* no failure, pause or reload from now on

stored == <<snapshot, targets, rows, status>>
frozen == <<snapshot, targets>>
loop == <<timer, inFlight>>
vars == <<stored, place, page, loop, flight, calm>>

\* "failed" stands for unknown and for a refused member's skip as well;
\* "excluded" is a skip with the code not_selected.
Outcomes == {"sent", "failed"}
Results == Outcomes \cup {"pending", "excluded"}
Final == {"completed", "completed_with_errors"}
Statuses == Final \cup {"sending"}

NoResults == [m \in Members |-> {}]
Blank == [status |-> None, results |-> NoResults]
Idle == [stage |-> "idle", for |-> None, live |-> FALSE, shown |-> Blank]

PartialFlags == UNION {[D -> BOOLEAN] : D \in SUBSET Members}
RowSets == {{}} \cup {{r, s} : r, s \in Results}
AllResults(R) == UNION {R[m] : m \in Members}

-----------------------------------------------------------------------------
(* The projection *)

Wanted == {m \in DOMAIN snapshot : snapshot[m]}

WithRows == {m \in Members : rows[m] # {}}

RowFits(m) == IF snapshot[m] THEN "excluded" \notin rows[m] ELSE rows[m] = {"excluded"}

\* Both records agree, and every delivery is the one they call for.
Coherent ==
  /\ snapshot = targets
  /\ Wanted # {}
  /\ \A m \in Members : \A r, s \in rows[m] : r = s
  /\ Wanted \subseteq WithRows
  /\ WithRows \subseteq DOMAIN snapshot
  /\ \A m \in WithRows : RowFits(m)

selected_deliveries ==
  IF Coherent THEN [m \in Members |-> IF m \in Wanted THEN rows[m] ELSE {}] ELSE rows

Aggregate(R) ==
  IF "pending" \in AllResults(R) THEN "sending"
  ELSE IF AllResults(R) = {"sent"} THEN "completed" ELSE "completed_with_errors"

\* get_operation of the admin service projects only if rows are left out.
projected_operation(read) ==
  IF selected_deliveries # rows THEN Aggregate(selected_deliveries) ELSE read

-----------------------------------------------------------------------------
(* The stored operation *)

HasHistory(kind) ==
  CASE kind = "current" ->
         /\ snapshot = targets /\ Wanted # {}
         /\ \A m \in Members :
              IF m \in Wanted THEN rows[m] \in {{"pending"}, {"failed"}} ELSE rows[m] = {}
    [] kind = "previous" ->
         /\ snapshot = targets /\ Wanted # {}
         /\ \A m \in Members :
              IF m \in Wanted THEN rows[m] \in {{o} : o \in Outcomes \cup {"pending"}}
              ELSE rows[m] = IF m \in DOMAIN snapshot THEN {"excluded"} ELSE {}
    [] kind = "uncertain" -> WithRows # {}

\* The previous release aggregated over all rows.
Init ==
  /\ snapshot \in PartialFlags
  /\ targets \in PartialFlags
  /\ rows \in [Members -> RowSets]
  /\ \E kind \in Histories : HasHistory(kind)
  /\ status = Aggregate(rows)
  /\ place = "closed"
  /\ page = Blank
  /\ timer = FALSE
  /\ inFlight = FALSE
  /\ flight = [f \in Flights |-> Idle]
  /\ calm \in BOOLEAN

Settled(m, o) == (rows[m] \ {"pending"}) \cup {o}

\* A result is stored, and the aggregate with it.
Settle(m, o) ==
  /\ "pending" \in rows[m]
  /\ rows' = [rows EXCEPT ![m] = Settled(m, o)]
  /\ UNCHANGED <<frozen, place, page, loop, flight, calm>>
  /\ status' = Aggregate(selected_deliveries')

-----------------------------------------------------------------------------
(* The requests: one flight is a GET of the operation, then of the         *)
(* deliveries.  A route reads the operation in one transaction and the     *)
(* deliveries in the next.                                                 *)

At(f, stage) == flight[f].live /\ flight[f].stage = stage
To(f, stage, shown) == flight' = [flight EXCEPT ![f].stage = stage, ![f].shown = shown]
Free(f) == flight' = [flight EXCEPT ![f] = Idle]
Start(f, for) ==
  /\ flight[f] = Idle
  /\ flight' = [flight EXCEPT ![f] =
                  [stage |-> "operation", for |-> for, live |-> TRUE, shown |-> Blank]]

ReadOperation(f) ==
  /\ At(f, "operation")
  /\ To(f, "projection", [Blank EXCEPT !.status = status])
  /\ UNCHANGED <<stored, place, page, loop, calm>>

ReadProjection(f) ==
  /\ At(f, "projection")
  /\ To(f, "answered", [Blank EXCEPT !.status = projected_operation(flight[f].shown.status)])
  /\ UNCHANGED <<stored, place, page, loop, calm>>

\* Of what list_deliveries reads only the deliveries change.
ReadDeliveries(f) ==
  /\ At(f, "deliveries")
  /\ To(f, "reply", [flight[f].shown EXCEPT !.results = selected_deliveries])
  /\ UNCHANGED <<stored, place, page, loop, calm>>

-----------------------------------------------------------------------------
(* The loop; NoResults is the null of deliveries *)

Pending(shown) == "pending" \in AllResults(shown.results)

needsDeliveryRefresh(shown) ==
  \/ Pending(shown)
  \/ IF shown.status \in Final THEN shown.results = NoResults ELSE shown.status = "sending"

\* Variant: the timer is set only when something new was shown.
queueIfNew(shown) == timer' = (needsDeliveryRefresh(shown) /\ shown # page)

queue(shown) == timer' = needsDeliveryRefresh(shown)

\* Variant: a refresh does not wait for the one under way.
MayAlwaysRefresh == place = "mounted"

MayRefresh == place = "mounted" /\ ~inFlight

refresh(f) ==
  /\ MayRefresh
  /\ Start(f, "refresh")
  /\ timer' = FALSE
  /\ inFlight' = TRUE
  /\ UNCHANGED <<stored, place, page, calm>>

TimerFires(f) == timer /\ refresh(f)
StaffRefreshes(f) == ~calm /\ refresh(f)

\* The operation's answer is kept while the deliveries are asked for.
AskDeliveries(f) ==
  /\ At(f, "answered") /\ flight[f].for = "refresh"
  /\ To(f, "deliveries", flight[f].shown)
  /\ UNCHANGED <<stored, place, page, loop, calm>>

onUpdate(f) ==
  /\ At(f, "reply") /\ flight[f].for = "refresh"
  /\ page' = flight[f].shown
  /\ inFlight' = FALSE
  /\ queue(page')
  /\ Free(f)
  /\ UNCHANGED <<stored, place, calm>>

onError(f) ==
  /\ ~calm
  /\ flight[f].live /\ flight[f].for = "refresh"
  /\ inFlight' = FALSE
  /\ queue(page)
  /\ Free(f)
  /\ UNCHANGED <<stored, place, page, calm>>

\* A request whose loop was stopped ends in whatever way, and shows nothing.
Discard(f) ==
  /\ flight[f] # Idle /\ ~flight[f].live
  /\ Free(f)
  /\ UNCHANGED <<stored, place, page, loop, calm>>

\* stop: the timer is cleared, and what is under way aborted.
Stopped == [f \in Flights |-> [flight[f] EXCEPT !.live = FALSE]]

-----------------------------------------------------------------------------
(* The page *)

\* It sends the operation, or restores it, and gets it in the answer.
Open(f) ==
  /\ place = "closed"
  /\ Start(f, "open")
  /\ place' = "opening"
  /\ UNCHANGED <<stored, page, loop, calm>>

Mounts(shown) ==
  /\ page' = shown
  /\ place' = "mounted"
  /\ queue(shown)
  /\ inFlight' = FALSE

\* A restored operation that is not final is shown without deliveries.
OpenOperation(f) ==
  /\ At(f, "answered") /\ flight[f].for = "open"
  /\ \/ /\ To(f, "deliveries", flight[f].shown)
        /\ UNCHANGED <<place, page, loop>>
     \/ /\ flight[f].shown.status \notin Final
        /\ Mounts(flight[f].shown)
        /\ Free(f)
  /\ UNCHANGED <<stored, calm>>

OpenDeliveries(f) ==
  /\ At(f, "reply") /\ flight[f].for = "open"
  /\ Mounts(flight[f].shown)
  /\ Free(f)
  /\ UNCHANGED <<stored, calm>>

\* Without the operation nothing is shown; without the deliveries it is.
OpenFails(f) ==
  /\ ~calm
  /\ flight[f].live /\ flight[f].for = "open"
  /\ IF flight[f].stage \in {"deliveries", "reply"}
     THEN Mounts([flight[f].shown EXCEPT !.results = NoResults])
     ELSE place' = "closed" /\ UNCHANGED <<page, loop>>
  /\ Free(f)
  /\ UNCHANGED <<stored, calm>>

\* Another task keeps the page busy: the loop is stopped, and a new one made
\* of what is on screen when the task is over.
Busy ==
  /\ ~calm /\ place = "mounted"
  /\ place' = "busy"
  /\ timer' = FALSE
  /\ flight' = Stopped
  /\ UNCHANGED <<stored, page, inFlight, calm>>

Resume ==
  /\ place = "busy"
  /\ Mounts(page)
  /\ UNCHANGED <<stored, flight, calm>>

\* The page is reloaded or left.
Reload ==
  /\ ~calm
  /\ place' = "closed"
  /\ page' = Blank
  /\ timer' = FALSE
  /\ inFlight' = FALSE
  /\ flight' = [f \in Flights |-> Idle]
  /\ UNCHANGED <<stored, calm>>

CalmDown == ~calm /\ calm' = TRUE /\ UNCHANGED <<stored, place, page, loop, flight>>

Request(f) ==
  \/ ReadOperation(f)
  \/ ReadProjection(f)
  \/ ReadDeliveries(f)
  \/ AskDeliveries(f)
  \/ onUpdate(f)
  \/ OpenOperation(f)
  \/ OpenDeliveries(f)
  \/ Discard(f)

Next ==
  \/ \E m \in Members, o \in Outcomes : Settle(m, o)
  \/ \E f \in Flights :
       \/ Request(f)
       \/ TimerFires(f)
       \/ StaffRefreshes(f)
       \/ onError(f)
       \/ OpenFails(f)
       \/ Open(f)
  \/ Busy
  \/ Resume
  \/ Reload
  \/ CalmDown

Spec == Init /\ [][Next]_vars

\* The execution settles every delivery; a request that is not lost is
\* answered; the timer runs out; the staff look at the operation again.
Fairness ==
  /\ \A m \in Members : WF_vars(\E o \in Outcomes : Settle(m, o))
  /\ \A f \in Flights : WF_vars(Request(f))
  /\ WF_vars(\E f \in Flights : TimerFires(f))
  /\ WF_vars(\E f \in Flights : Open(f))
  /\ WF_vars(Resume)
  /\ WF_vars(CalmDown)

-----------------------------------------------------------------------------
(* Properties *)

Stages == {"idle", "operation", "projection", "answered", "deliveries", "reply"}
Shown == [status : Statuses \cup {None}, results : [Members -> RowSets]]

TypeOK ==
  /\ snapshot \in PartialFlags
  /\ targets \in PartialFlags
  /\ rows \in [Members -> RowSets]
  /\ status \in Statuses
  /\ place \in {"closed", "opening", "mounted", "busy"}
  /\ page \in Shown
  /\ timer \in BOOLEAN /\ inFlight \in BOOLEAN /\ calm \in BOOLEAN
  /\ flight \in [Flights -> [stage : Stages, for : {"open", "refresh", None},
                              live : BOOLEAN, shown : Shown]]

\* A loop that has stopped by itself (queue) shows the deliveries as they
\* are for good, and the status they amount to, whatever was lost on the way.
RestsOnFinal ==
  (place = "mounted" /\ ~timer /\ ~inFlight) =>
    /\ page.results = selected_deliveries
    /\ ~Pending(page)
    /\ page.status = Aggregate(page.results)

\* A stored delivery that is not on screen is a skip of a member whom
\* neither record selected (selected_deliveries).
NothingHidden ==
  page.results # NoResults =>
    \A m \in Members : (rows[m] # {} /\ page.results[m] = {}) =>
      /\ rows[m] = {"excluded"}
      /\ m \in DOMAIN targets /\ ~targets[m]
      /\ m \in DOMAIN snapshot /\ ~snapshot[m]

\* On a page that stays open no result and no final status is taken back:
\* requests overlap neither in a loop (inFlight) nor between loops (stop).
GoesOn ==
  place' # "closed" =>
    /\ \A m \in Members : page.results[m] \ {"pending"} \subseteq page'.results[m]
    /\ page.status \in Final => page'.status = page.status
=============================================================================
