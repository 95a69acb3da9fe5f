------------------------------ MODULE MCRequests ------------------------------
(***************************************************************************)
(* TLC instances of the components that answer a browser's requests from   *)
(* what is stored: SendAcceptance, TargetSelection, StaffAccess and        *)
(* DeliveryView.  As in MCLookups, they share no state and a behaviour is  *)
(* about the one in focus.  What RequestsProofs proves holds for every     *)
(* value of the constants.                                                 *)
(***************************************************************************)
EXTENDS Integers, FiniteSets, TLC

CONSTANTS
  Pair,              \* clients, staff members, services or targets, whichever is meant
  One,               \* one of them
  \* sending
  Sendable, Limits, Faults, MaxTries, MaxEdits, MaxTurns,
  \* saving targets, alone and against another
  Numbers, Numberless, Limit, MaxChanges,
  RacingNumbers, RacingLimit, MaxRacingChanges,
  \* registering
  Holders, Services, Roles, Registrars,
  \* asking for access
  Person, Holder, AccessRoles, OldRoles, Registrar, Requests, MaxSeen,
  \* viewing deliveries
  Flights

VARIABLES
  focus,
  sendOp, work, capability, text, edits, turns, reports, sendPc, tries, sendCopy,
  answer, audits,
  rated, linked, changes, op, targets, pc, purpose, asked, listing, linkage, kept,
  copy, stale, ever,
  identity, permission, at, form, found, staffPc, asks, person, access, staffEver,
  snapshot, flags, rows, status, place, page, timer, inFlight, flight, calm

sendVars == <<sendOp, work, capability, text, edits, turns, reports, sendPc, tries,
              sendCopy, answer, audits>>
targetVars == <<rated, linked, changes, op, targets, pc, purpose, asked, listing,
                linkage, kept, copy, stale, ever>>
staffVars == <<identity, permission, at, form, found, staffPc, asks, person, access,
               staffEver>>
viewVars == <<snapshot, flags, rows, status, place, page, timer, inFlight, flight, calm>>
vars == <<focus, sendVars, targetVars, staffVars, viewVars>>

PairSymmetry == Permutations(Pair)

-----------------------------------------------------------------------------
(* Two clients send the same operation, each twice.                          *)

Send == INSTANCE SendAcceptance WITH
  Clients <- Pair, op <- sendOp, pc <- sendPc, copy <- sendCopy

ASSUME SendAssumption ==
  Send!CountAssumption /\ Send!FaultAssumption /\ Send!BoundAssumption

(* One staff member saves, of three members one without a number; or two     *)
(* save at once.                                                             *)

Alone == INSTANCE TargetSelectionProofs WITH
  Members <- Numbers, Unnumbered <- Numberless, Staff <- One
Racing == INSTANCE TargetSelectionProofs WITH
  Members <- RacingNumbers, Unnumbered <- {}, Limit <- RacingLimit, Staff <- Pair,
  MaxChanges <- MaxRacingChanges

ASSUME TargetAssumption ==
  /\ Alone!MemberAssumption /\ Alone!LimitAssumption
  /\ Racing!MemberAssumption /\ Racing!LimitAssumption

(* Three registrations of two persons with two identities and no request; or *)
(* one person is registered while a request of hers is judged.               *)

Registry == INSTANCE StaffAccessProofs WITH
  Staff <- Pair, OldRoles <- {}, Requests <- {}, MaxSeen <- 0,
  pc <- staffPc, ever <- staffEver
Access == INSTANCE StaffAccessProofs WITH
  Staff <- Person, Holders <- Holder, Services <- Pair, Roles <- AccessRoles,
  Registrars <- Registrar,
  pc <- staffPc, ever <- staffEver

ASSUME StaffAssumption ==
  /\ Registry!RoleAssumption /\ Registry!BoundAssumption
  /\ Registry!FiniteAssumption /\ Registry!NoneAssumption
  /\ Access!RoleAssumption /\ Access!BoundAssumption
  /\ Access!FiniteAssumption /\ Access!NoneAssumption

(* Any records at all and a calm page; or records a release of the program   *)
(* can have written and a page that never calms down, with requests that     *)
(* overlap.                                                                  *)

View == INSTANCE DeliveryView WITH
  Members <- Pair, Histories <- {"current", "previous", "uncertain"}, targets <- flags

ASSUME ViewAssumption == View!HistoryAssumption /\ View!MembersAssumption

-----------------------------------------------------------------------------
(* One component in focus *)

Unused == "unused"

NoSend ==
  /\ sendOp = Unused /\ work = Unused /\ capability = Unused /\ text = Unused
  /\ edits = Unused /\ turns = Unused /\ reports = Unused /\ sendPc = Unused
  /\ tries = Unused /\ sendCopy = Unused /\ answer = Unused /\ audits = Unused
NoTargets ==
  /\ rated = Unused /\ linked = Unused /\ changes = Unused /\ op = Unused
  /\ targets = Unused /\ pc = Unused /\ purpose = Unused /\ asked = Unused
  /\ listing = Unused /\ linkage = Unused /\ kept = Unused /\ copy = Unused
  /\ stale = Unused /\ ever = Unused
NoStaff ==
  /\ identity = Unused /\ permission = Unused /\ at = Unused /\ form = Unused
  /\ found = Unused /\ staffPc = Unused /\ asks = Unused /\ person = Unused
  /\ access = Unused /\ staffEver = Unused
NoView ==
  /\ snapshot = Unused /\ flags = Unused /\ rows = Unused /\ status = Unused
  /\ place = Unused /\ page = Unused /\ timer = Unused /\ inFlight = Unused
  /\ flight = Unused /\ calm = Unused

Init ==
  \/ focus = "send" /\ Send!Init /\ NoTargets /\ NoStaff /\ NoView
  \/ /\ \/ focus = "alone" /\ Alone!Init
        \/ focus = "racing" /\ Racing!Init
     /\ NoSend /\ NoStaff /\ NoView
  \/ /\ \/ focus = "registry" /\ Registry!Init
        \/ focus = "access" /\ Access!Init
     /\ NoSend /\ NoTargets /\ NoView
  \/ /\ View!Init
     /\ \/ focus = "records" /\ calm
        \/ focus = "loop" /\ ~calm /\ \E kind \in {"current", "previous"} : View!HasHistory(kind)
     /\ NoSend /\ NoTargets /\ NoStaff

Next ==
  \/ focus = "send" /\ Send!Next /\ UNCHANGED <<focus, targetVars, staffVars, viewVars>>
  \/ /\ \/ focus = "alone" /\ Alone!Next
        \/ focus = "racing" /\ Racing!Next
     /\ UNCHANGED <<focus, sendVars, staffVars, viewVars>>
  \/ /\ \/ focus = "registry" /\ Registry!Next
        \/ focus = "access" /\ Access!Next
     /\ UNCHANGED <<focus, sendVars, targetVars, viewVars>>
  \/ /\ focus \in {"records", "loop"} /\ View!Next
     /\ UNCHANGED <<calm, focus, sendVars, targetVars, staffVars>>

Spec == Init /\ [][Next]_vars

-----------------------------------------------------------------------------
(* Properties *)

\* The types of each component.
TypeOK ==
  CASE focus = "send"     -> Send!TypeOK
    [] focus = "alone"    -> Alone!TypeOK
    [] focus = "racing"   -> Racing!TypeOK
    [] focus = "registry" -> Registry!TypeOK
    [] focus = "access"   -> Access!TypeOK
    [] focus \in {"records", "loop"} -> View!TypeOK

\* However clients compete and retry, and whatever fails between a validation
\* and the answer (send_operation): who is told "accepted" can rely on it, who
\* is told of a conflict, a message that is too long or an outage has reserved
\* nothing, the audit agrees, and the one reservation was permitted by LINE and
\* is never made again.
AnswersAreTrue ==
  /\ [](focus = "send" =>
          /\ Send!AcceptedIsReserved /\ Send!RefusedReservedNothing
          /\ Send!AuditIsConsistent /\ Send!ReservedIsPermitted)
  /\ [][focus = "send" => Send!StaysReserved]_vars

\* What is saved as targets (create_operation, replace_targets) from reads that
\* changed in between: the first save is the automatic selection, its size is
\* the initial count for good, and nobody is saved who was not known.
SavesAreRight ==
  /\ [][focus = "alone" => Alone!SavesSelection /\ Alone!CountsOnce /\ Alone!SavesKnown]_vars
  /\ [][focus = "racing" => Racing!SavesSelection /\ Racing!CountsOnce /\ Racing!SavesKnown]_vars

\* However registrations overlap (register_admin_staff), a verified token names
\* one person, for ever.
RegistryIsSound ==
  /\ [](focus = "registry" => Registry!OneHolder)
  /\ [][focus = "registry" => Registry!KeepsHolders]_vars

\* Who is let in had the access at some time while the request was judged, who
\* is not was without it at some time, though identity and permissions are
\* read one after the other.
AccessIsJust == focus = "access" => Access!AccessWasInForce /\ Access!DeniedWithReason

\* The page rests on nothing but the final results, hides no delivery of a
\* selected member whatever the records say, and never takes a result back.
PageIsRight ==
  /\ [](focus \in {"records", "loop"} => View!RestsOnFinal /\ View!NothingHidden)
  /\ [][focus = "loop" => View!GoesOn]_vars
=============================================================================
