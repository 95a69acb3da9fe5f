------------------------------ MODULE MCProgress ------------------------------
(***************************************************************************)
(* TLC instances for what must happen in the end: RecoveryRunner,          *)
(* IdTokenCache, SendAcceptance, StaffAccess and DeliveryView, each under  *)
(* the fairness of its own.  As in MCLookups, they share no state and a    *)
(* behaviour is about the one in focus.                                    *)
(***************************************************************************)
EXTENDS Integers, FiniteSets, Sequences

VARIABLES
  focus,
  watched,   \* the operation of the runner that a property speaks of
  state, runnerPc, turn, listed, cursor, restarts, passed,
  now, issued, until, lock, queue, tokenPc, thread, got,
  sendOp, work, capability, text, edits, turns, reports, sendPc, tries, sendCopy,
  answer, audits,
  identity, permission, at, form, found, staffPc, asks, person, access, ever,
  snapshot, flags, rows, status, place, page, timer, inFlight, flight, calm

runnerVars == <<state, runnerPc, turn, listed, cursor, restarts, passed>>
tokenVars == <<now, issued, until, lock, queue, tokenPc, thread, got>>
sendVars == <<sendOp, work, capability, text, edits, turns, reports, sendPc, tries,
              sendCopy, answer, audits>>
staffVars == <<identity, permission, at, form, found, staffPc, asks, person, access,
               ever>>
viewVars == <<snapshot, flags, rows, status, place, page, timer, inFlight, flight, calm>>
vars == <<focus, watched, runnerVars, tokenVars, sendVars, staffVars, viewVars>>

-----------------------------------------------------------------------------
(* Three operations of one service, one of another, on pages of two; two of  *)
(* them never dispatch.                                                      *)

TwoServices == <<"north", "south">>
Runner == INSTANCE RecoveryRunner WITH
  Operations <- 1..4, Services <- TwoServices,
  ServiceOf <- <<"north", "north", "south", "north">>, Limit <- 2,
  Undispatchable <- {1, 2}, MaxRestarts <- 1, pc <- runnerPc, page <- listed

ASSUME RunnerAssumption ==
  /\ Runner!OperationAssumption /\ Runner!ServiceAssumption
  /\ Runner!LimitAssumption /\ Runner!FaultAssumption

(* Three requests for one token.                                             *)

Callers == {"c1", "c2", "c3"}
Token == INSTANCE IdTokenCache WITH
  TTL <- 2, Life <- 3, FetchTime <- 1, MaxTime <- 4, pc <- tokenPc

ASSUME TokenAssumption ==
  Token!CallerAssumption /\ Token!TimeAssumption /\ Token!NobodyAssumption

(* Two clients, every fault.                                                 *)

Clients == {"c1", "c2"}
Send == INSTANCE SendAcceptance WITH
  Sendable <- 2, Limits <- {2}, MaxTries <- 2, MaxEdits <- 0, MaxTurns <- 0,
  Faults <- {"line", "storage", "queue", "handler", "crash"},
  op <- sendOp, pc <- sendPc, copy <- sendCopy

ASSUME SendAssumption ==
  Send!CountAssumption /\ Send!FaultAssumption /\ Send!BoundAssumption

(* Two registrations of two persons with two identities.                     *)

Registrars == 1..2
Registry == INSTANCE StaffAccess WITH
  Staff <- {"s1", "s2"}, Holders <- {"h1", "h2"}, Services <- {"v1"},
  Roles <- {"viewer"}, OldRoles <- {}, Requests <- {}, MaxSeen <- 0, pc <- staffPc

ASSUME RegistryAssumption ==
  /\ Registry!RoleAssumption /\ Registry!BoundAssumption
  /\ Registry!FiniteAssumption /\ Registry!NoneAssumption

(* A page that shows two deliveries, one pair of requests at a time.          *)

Pair == {"m1", "m2"}
Flights == {1}
View == INSTANCE DeliveryView WITH
  Members <- Pair, Histories <- {"current", "previous"}, targets <- flags

ASSUME ViewAssumption == View!HistoryAssumption /\ View!MembersAssumption

-----------------------------------------------------------------------------
(* One component in focus *)

Unused == "unused"

NoRunner ==
  /\ state = Unused /\ runnerPc = Unused /\ turn = Unused /\ listed = Unused
  /\ cursor = Unused /\ restarts = Unused /\ passed = Unused
NoToken ==
  /\ now = Unused /\ issued = Unused /\ until = Unused /\ lock = Unused
  /\ queue = Unused /\ tokenPc = Unused /\ thread = Unused /\ got = Unused
NoSend ==
  /\ sendOp = Unused /\ work = Unused /\ capability = Unused /\ text = Unused
  /\ edits = Unused /\ turns = Unused /\ reports = Unused /\ sendPc = Unused
  /\ tries = Unused /\ sendCopy = Unused /\ answer = Unused /\ audits = Unused
NoStaff ==
  /\ identity = Unused /\ permission = Unused /\ at = Unused /\ form = Unused
  /\ found = Unused /\ staffPc = Unused /\ asks = Unused /\ person = Unused
  /\ access = Unused /\ ever = Unused
NoView ==
  /\ snapshot = Unused /\ flags = Unused /\ rows = Unused /\ status = Unused
  /\ place = Unused /\ page = Unused /\ timer = Unused /\ inFlight = Unused
  /\ flight = Unused /\ calm = Unused
Init ==
  \/ /\ focus = "runner" /\ Runner!Init /\ watched \in 1..4
     /\ NoToken /\ NoSend /\ NoStaff /\ NoView
  \/ /\ focus = "token" /\ Token!Init
     /\ watched = Unused /\ NoRunner /\ NoSend /\ NoStaff /\ NoView
  \/ /\ focus = "send" /\ Send!Init
     /\ watched = Unused /\ NoRunner /\ NoToken /\ NoStaff /\ NoView
  \/ /\ focus = "staff" /\ Registry!Init
     /\ watched = Unused /\ NoRunner /\ NoToken /\ NoSend /\ NoView
  \/ /\ focus = "view" /\ View!Init /\ ~calm
     /\ watched = Unused /\ NoRunner /\ NoToken /\ NoSend /\ NoStaff

Next ==
  \/ /\ focus = "runner" /\ Runner!Next
     /\ UNCHANGED <<focus, watched, tokenVars, sendVars, staffVars, viewVars>>
  \/ /\ focus = "token" /\ Token!Next
     /\ UNCHANGED <<focus, watched, runnerVars, sendVars, staffVars, viewVars>>
  \/ /\ focus = "send" /\ Send!Next
     /\ UNCHANGED <<focus, watched, runnerVars, tokenVars, staffVars, viewVars>>
  \/ /\ focus = "staff" /\ Registry!Next
     /\ UNCHANGED <<focus, watched, runnerVars, tokenVars, sendVars, viewVars>>
  \/ /\ focus = "view" /\ View!Next
     /\ UNCHANGED <<focus, watched, runnerVars, tokenVars, sendVars, staffVars>>

\* The Fairness of each component's module, for the behaviours about it.
RunnerGoesOn ==
  /\ WF_runnerVars(focus = "runner" /\ Runner!Start)
  /\ WF_runnerVars(focus = "runner" /\ Runner!BeginCycle)
  /\ WF_runnerVars(/\ focus = "runner"
                   /\ Runner!ListFails \/ \E s \in Runner!ServiceSet : Runner!ListPage(s))
  /\ \A s \in Runner!ServiceSet : SF_runnerVars(focus = "runner" /\ Runner!ListPage(s))
  /\ WF_runnerVars(focus = "runner" /\ (Runner!Dispatch \/ Runner!DispatchRaises))
  /\ WF_runnerVars(focus = "runner" /\ Runner!Reconcile)

EventLoopRuns ==
  \A c \in Callers :
    /\ WF_tokenVars(focus = "token" /\ Token!LookUp(c))
    /\ WF_tokenVars(focus = "token" /\ Token!Acquire(c))
    /\ WF_tokenVars(focus = "token" /\ Token!CheckAgain(c))
    /\ WF_tokenVars(focus = "token" /\ (Token!Store(c) \/ Token!FetchFails(c)))

SendsGoOn ==
  /\ \A c \in Clients : WF_sendVars(focus = "send" /\ Send!Step(c))
  /\ WF_sendVars(focus = "send" /\ Send!RunnerTakes)

RegistrarsRun == \A r \in Registrars : SF_staffVars(focus = "staff" /\ Registry!Proceed(r))

PageGoesOn ==
  /\ \A m \in Pair : WF_viewVars(focus = "view" /\ \E o \in View!Outcomes : View!Settle(m, o))
  /\ \A f \in Flights : WF_viewVars(focus = "view" /\ View!Request(f))
  /\ WF_viewVars(focus = "view" /\ \E f \in Flights : View!TimerFires(f))
  /\ WF_viewVars(focus = "view" /\ \E f \in Flights : View!Open(f))
  /\ WF_viewVars(focus = "view" /\ View!Resume)
  /\ WF_viewVars(focus = "view" /\ View!CalmDown)

Spec ==
  /\ Init /\ [][Next]_vars
  /\ RunnerGoesOn /\ EventLoopRuns /\ SendsGoOn /\ RegistrarsRun /\ PageGoesOn

-----------------------------------------------------------------------------
(* Properties *)

\* The recovery cursor is fair: no operation is listed twice while another one
\* waits, and an operation that stays open is polled again and again, though
\* its dispatch raises and operations join and leave the list.
PagesAreFair ==
  /\ [](focus = "runner" => Runner!TypeOK)
  /\ [][focus = "runner" => Runner!PassesOnce]_vars
  /\ (focus = "runner" /\ state[watched] = "open")
       ~> (focus = "runner" /\ (state[watched] = "closed" \/ Runner!Reconciling(watched)))

\* Whatever fails after begin_send_attempt has committed, the queue, its
\* handler, the answer or the process, what is reserved is worked on.
ReservedIsTaken ==
  (focus = "send" /\ sendOp.reserved # Send!Nobody) ~> (focus = "send" /\ work = "taken")

\* Requests that wait for one another get on at last: for the lock of the token
\* cache, for the row locks of registrations, and for the answer of a send.
\* The requests of a component are interchangeable; one is spoken of.
Waits ==
  CASE focus = "token" -> tokenPc["c1"] \notin Token!Ended
    [] focus = "staff" -> at[1] # "idle"
    [] focus = "send"  -> sendPc["c1"] # "idle"
    [] OTHER -> FALSE
NobodyWaitsForEver == Waits ~> ~Waits

\* Once failures end, the page comes to show the final results for good.
ViewSettles ==
  <>[](focus = "view" => /\ page.status \in View!Final
                         /\ page.results = View!selected_deliveries
                         /\ ~View!Pending(page))
=============================================================================
