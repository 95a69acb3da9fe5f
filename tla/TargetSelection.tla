--------------------------- MODULE TargetSelection ---------------------------
(***************************************************************************)
(* AdminApplicationService.create_operation and replace_targets: what a    *)
(* request looks up before the targets of an operation are stored.  The    *)
(* candidates come from the business system, their linkage from LINE, and  *)
(* both are read twice by the first save of an automatic operation: once   *)
(* to select again, once for the rows.  Everything may change in between,  *)
(* and another staff member may save.                                      *)
(*                                                                         *)
(* The order of the member numbers is the order of the members here;       *)
(* AutomaticSelection shows that the code's sort is that order.            *)
(***************************************************************************)
EXTENDS Integers, FiniteSets

CONSTANTS
  Members,      \* naturals: a higher one has a higher member number
  Unnumbered,   \* the members without a usable member number
  Limit,        \* how many are selected automatically at most
  Staff,        \* staff members, with one request at a time each
  MaxChanges    \* bound on the changes of the other systems

MemberAssumption ==
  Members \subseteq Nat /\ IsFiniteSet(Members) /\ Unnumbered \subseteq Members
LimitAssumption == Limit \in Nat \ {0} /\ MaxChanges \in Nat

VARIABLES
  rated,    \* rated[m]: "fit" is level 5 and eligible, "other" a candidate
            \* like any other, "gone" no candidate
  linked,   \* the members LINE says are linked
  changes,  \* how often these two have changed
  op,       \* the operation: whether made, automatic and initialized,
            \* initial_count
  targets,  \* the target rows: candidates, selected ones, linked ones
  pc,       \* pc[p]: where the request of p is
  purpose,  \* "create" or "replace"
  asked,    \* asked[p]: selected_member_ids
  listing,  \* listing[p]: the candidates p was told of
  linkage,  \* linkage[p]: those of them that are linked
  kept,     \* kept[p]: asked ones that are selected already, candidates or not
  copy,     \* copy[p]: the operation as p read it to write
  stale,    \* stale[p]: it was written since
  ever      \* history of the running requests, for the properties

world == <<rated, linked, changes>>
stored == <<op, targets>>
request == <<purpose, asked, listing, linkage, kept, copy, stale>>
vars == <<world, stored, request, pc, ever>>

NoTargets == [rows |-> {}, selected |-> {}, linked |-> {}]
NoListing == [m \in Members |-> "gone"]

Fit(r, l) == {m \in l : r[m] = "fit"}
Candidates(r) == {m \in Members : r[m] # "gone"}

\* select_automatic_members.
Highest(S) == {m \in S : Cardinality({n \in S : n > m}) < Limit}

NoOperation == [made |-> FALSE, automatic |-> FALSE, initialized |-> FALSE, initial |-> 0]

\* What is so at some time during a request, and what all the time.
Now == [fit |-> {m \in Members : rated[m] = "fit"}, linked |-> linked,
        known |-> Candidates(rated) \cup targets.selected,
        always |-> Fit(rated, linked)]
Nothing == [fit |-> {}, linked |-> {}, known |-> {}, always |-> {}]
Joined(e, now) ==
  [fit |-> e.fit \cup now.fit, linked |-> e.linked \cup now.linked,
   known |-> e.known \cup now.known, always |-> e.always \cap now.always]
Remember ==
  ever' = [p \in Staff |-> IF pc'[p] = "idle" THEN Nothing
                           ELSE IF pc[p] = "idle" THEN Now
                           ELSE Joined(ever[p], Now')]

Init ==
  /\ rated = [m \in Members |-> "fit"]
  /\ linked = Members \ Unnumbered
  /\ changes = 0
  /\ op \in [made : {FALSE}, automatic : BOOLEAN, initialized : {FALSE}, initial : {0}]
  /\ targets = NoTargets
  /\ pc = [p \in Staff |-> "idle"]
  /\ purpose = [p \in Staff |-> "replace"]
  /\ asked = [p \in Staff |-> {}]
  /\ listing = [p \in Staff |-> NoListing]
  /\ linkage = [p \in Staff |-> {}]
  /\ kept = [p \in Staff |-> {}]
  /\ copy = [p \in Staff |-> NoOperation]
  /\ stale = [p \in Staff |-> FALSE]
  /\ ever = [p \in Staff |-> Nothing]

-----------------------------------------------------------------------------
(* The other systems *)

Change ==
  /\ changes < MaxChanges
  /\ changes' = changes + 1
  /\ \/ \E m \in Members, r \in {"fit", "other", "gone"} :
          /\ r # rated[m]
          /\ rated' = [rated EXCEPT ![m] = r]
          /\ UNCHANGED linked
     \/ \E m \in Members :
          /\ linked' = IF m \in linked THEN linked \ {m} ELSE linked \cup {m}
          /\ UNCHANGED rated
  /\ UNCHANGED <<stored, request, pc>>
  /\ Remember

-----------------------------------------------------------------------------
(* Requests *)

GoTo(p, place) == pc' = [pc EXCEPT ![p] = place]

\* The request is answered, with or without an error; the requests in stales
\* have read an operation that is no more.
EndWriting(p, stales) ==
  /\ GoTo(p, "idle")
  /\ purpose' = [purpose EXCEPT ![p] = "replace"]
  /\ asked' = [asked EXCEPT ![p] = {}]
  /\ listing' = [listing EXCEPT ![p] = NoListing]
  /\ linkage' = [linkage EXCEPT ![p] = {}]
  /\ kept' = [kept EXCEPT ![p] = {}]
  /\ copy' = [copy EXCEPT ![p] = NoOperation]
  /\ stale' = [q \in Staff |-> q # p /\ (stale[q] \/ q \in stales)]
End(p) == EndWriting(p, {})

Begin(p, place, why, ids) ==
  /\ pc[p] = "idle"
  /\ GoTo(p, place)
  /\ purpose' = [purpose EXCEPT ![p] = why]
  /\ asked' = [asked EXCEPT ![p] = ids]
  /\ UNCHANGED <<world, stored, listing, linkage, kept, copy, stale>>
  /\ Remember

\* An automatic operation is not created before there is a selection.
BeginCreate(p) ==
  ~op.made /\ Begin(p, IF op.automatic THEN "select" ELSE "create", "create", {})
BeginReplace(p) ==
  op.made /\ \E ids \in SUBSET Members : Begin(p, "context", "replace", ids)

\* Any call, to another system or to the repository, may fail, and the job may
\* not be published.
CallFails(p) ==
  /\ pc[p] # "idle"
  /\ End(p)
  /\ UNCHANGED <<world, stored>>
  /\ Remember

\* Variant: the browser is trusted to ask for what it was offered.
SelectsNever == FALSE
\* The first save of an automatic operation.
SelectsAgain == op.automatic /\ ~op.initialized

ReadContext(p) ==
  /\ pc[p] = "context"
  /\ GoTo(p, IF SelectsAgain THEN "select" ELSE "list")
  /\ UNCHANGED <<world, stored, request>>
  /\ Remember

\* list_candidates, as part of automatic_selection or for the rows.
ListCandidates(p) ==
  /\ pc[p] \in {"select", "list"}
  /\ listing' = [listing EXCEPT ![p] = rated]
  /\ GoTo(p, IF pc[p] = "select" THEN "select_linkage" ELSE "list_linkage")
  /\ UNCHANGED <<world, stored, purpose, asked, linkage, kept, copy, stale>>
  /\ Remember

\* A creation needs a selection, a first save has to ask for exactly this one,
\* and there is none while a fit candidate has no usable number.
Selection(p) == Fit(listing[p], linked)
SelectionServes(p) ==
  /\ Selection(p) \cap Unnumbered = {}
  /\ IF purpose[p] = "create" THEN Selection(p) # {}
                              ELSE asked[p] = Highest(Selection(p))

SelectAgain(p) ==
  /\ pc[p] = "select_linkage"
  /\ IF SelectionServes(p)
     THEN /\ GoTo(p, IF purpose[p] = "create" THEN "create" ELSE "list")
          /\ UNCHANGED request
     ELSE End(p)
  /\ UNCHANGED <<world, stored>>
  /\ Remember

Create(p) ==
  /\ pc[p] = "create"
  /\ op' = IF op.made THEN op ELSE [op EXCEPT !.made = TRUE]
  /\ End(p)
  /\ UNCHANGED <<world, targets>>
  /\ Remember

LookUpLinkages(p) ==
  /\ pc[p] = "list_linkage"
  /\ linkage' = [linkage EXCEPT ![p] = linked \cap Candidates(listing[p])]
  /\ GoTo(p, "previous")
  /\ UNCHANGED <<world, stored, purpose, asked, listing, kept, copy, stale>>
  /\ Remember

\* Who is selected already stays, though a candidate no more.
Keeps(p) == IF op.automatic THEN asked[p] \cap targets.selected ELSE {}

ReadPrevious(p) ==
  /\ pc[p] = "previous"
  /\ kept' = [kept EXCEPT ![p] = Keeps(p) \ Candidates(listing[p])]
  /\ GoTo(p, "check")
  /\ UNCHANGED <<world, stored, purpose, asked, listing, linkage, copy, stale>>
  /\ Remember

\* Candidates and those who stay may be asked for.
MayBeAsked(p) == asked[p] \subseteq Candidates(listing[p]) \cup kept[p]

\* The operation is read again, to be written.
ReadForTargets(p) ==
  /\ pc[p] = "check"
  /\ IF MayBeAsked(p)
     THEN /\ GoTo(p, "write")
          /\ copy' = [copy EXCEPT ![p] = op]
          /\ UNCHANGED <<purpose, asked, listing, linkage, kept, stale>>
     ELSE End(p)
  /\ UNCHANGED <<world, stored>>
  /\ Remember

\* expected_operation.
MayWrite(p) == ~stale[p]

Initialized(o, ids) ==
  IF o.automatic /\ ~o.initialized
  THEN [o EXCEPT !.initialized = TRUE, !.initial = Cardinality(ids)]
  ELSE o

StoreTargets(p) ==
  /\ pc[p] = "write"
  /\ IF MayWrite(p)
     THEN /\ targets' = [rows |-> Candidates(listing[p]) \cup kept[p],
                         selected |-> asked[p], linked |-> linkage[p]]
          /\ op' = Initialized(copy[p], asked[p])
          /\ EndWriting(p, {q \in Staff : pc[q] = "write"})
     ELSE UNCHANGED stored /\ End(p)
  /\ UNCHANGED world
  /\ Remember

Next ==
  \/ Change
  \/ \E p \in Staff :
       \/ BeginCreate(p)
       \/ BeginReplace(p)
       \/ CallFails(p)
       \/ ReadContext(p)
       \/ ListCandidates(p)
       \/ SelectAgain(p)
       \/ Create(p)
       \/ LookUpLinkages(p)
       \/ ReadPrevious(p)
       \/ ReadForTargets(p)
       \/ StoreTargets(p)

Spec == Init /\ [][Next]_vars

-----------------------------------------------------------------------------
(* Properties *)

Ratings == {"fit", "other", "gone"}
Places == {"idle", "context", "select", "select_linkage", "create", "list",
           "list_linkage", "previous", "check", "write"}
Operations == [made : BOOLEAN, automatic : BOOLEAN, initialized : BOOLEAN, initial : Nat]
Memories == [{"fit", "linked", "known", "always"} -> SUBSET Members]

\* Selected members have a row, linked ones are candidates, and the state of
\* a request fits its place.
TypeOK ==
  /\ rated \in [Members -> Ratings] /\ linked \subseteq Members
  /\ changes \in 0..MaxChanges
  /\ op \in Operations
  /\ targets \in [rows : SUBSET Members, selected : SUBSET Members, linked : SUBSET Members]
  /\ targets.selected \cup targets.linked \subseteq targets.rows
  /\ pc \in [Staff -> Places] /\ purpose \in [Staff -> {"create", "replace"}]
  /\ listing \in [Staff -> [Members -> Ratings]]
  /\ asked \in [Staff -> SUBSET Members] /\ kept \in [Staff -> SUBSET Members]
  /\ linkage \in [Staff -> SUBSET Members]
  /\ copy \in [Staff -> Operations] /\ stale \in [Staff -> BOOLEAN]
  /\ ever \in [Staff -> Memories]
  /\ \A p \in Staff :
       /\ pc[p] = "create" => purpose[p] = "create"
       /\ kept[p] \subseteq asked[p]
       /\ linkage[p] \subseteq Candidates(listing[p])

Saves(p) == pc[p] = "write" /\ pc'[p] = "idle" /\ <<targets, op>>' # <<targets, op>>

\* The targets an automatic operation starts with are at most Limit members
\* that were rated 5, eligible and linked, and numbered, while the request ran,
\* and nobody who was so all along is left out for one with a lower number:
\* whatever the other systems and the other staff did between the reads.
SavesSelection ==
  op.automatic /\ ~op.initialized /\ op'.initialized =>
    \E p \in Staff :
      /\ Saves(p) /\ targets'.selected = asked[p]
      /\ Cardinality(asked[p]) <= Limit
      /\ asked[p] \subseteq (ever[p].fit \cap ever[p].linked) \ Unnumbered
      /\ \A m \in ever[p].always \ asked[p] :
           Cardinality({n \in asked[p] : n > m}) = Limit

\* initial_count is the size of the first save and stays so, though two first
\* saves may be on their way at once.
CountsOnce ==
  /\ op.initialized => op'.initialized /\ op'.initial = op.initial
  /\ ~op.initialized /\ op'.initialized =>
       op'.initial = Cardinality(targets'.selected)

\* Nobody is selected who was neither a candidate nor selected at any time
\* while the request ran, nobody is stored as linked whom LINE never said to be.
SavesKnown ==
  \A p \in Staff : Saves(p) =>
    /\ targets'.selected \subseteq ever[p].known
    /\ targets'.linked \subseteq ever[p].linked
=============================================================================
