------------------------ MODULE TargetSelectionProofs ------------------------
(***************************************************************************)
(* What is saved as targets rests on what was so while the request ran:    *)
(* SavesSelection, CountsOnce and SavesKnown of TargetSelection for any    *)
(* members, staff members and limits.  The lemmas say what is selected of  *)
(* any finite set of numbers.                                              *)
(***************************************************************************)
EXTENDS TargetSelection, FiniteSetTheorems, TLAPS

\* What the constants are assumed to be.
SelectionConstants == MemberAssumption /\ LimitAssumption

-----------------------------------------------------------------------------
(* select_automatic_members *)

\* How many of S are above m.
Rank(S, m) == Cardinality({n \in S : n > m})

\* A set of numbers and its parts are finite.
LEMMA PartsAreFinite ==
  ASSUME SelectionConstants, NEW S \in SUBSET Members, NEW T \in SUBSET S
  PROVE  /\ IsFiniteSet(S) /\ IsFiniteSet(T)
         /\ Cardinality(S) \in Nat /\ Cardinality(T) \in Nat
         /\ Cardinality(T) <= Cardinality(S)
<1>1. IsFiniteSet(Members)
  BY DEF SelectionConstants, MemberAssumption
<1>2. IsFiniteSet(S)
  BY <1>1, FS_Subset
<1> QED
  BY <1>2, FS_Subset, FS_CardinalityType

\* Different members of a set have different ranks below its size.
LEMMA RanksAreApart ==
  ASSUME SelectionConstants, NEW S \in SUBSET Members
  PROVE  [m \in S |-> Rank(S, m)] \in Injection(S, 0..(Cardinality(S) - 1))
<1> DEFINE Above(m) == {n \in S : n > m}
<1> S \subseteq Nat
  BY DEF SelectionConstants, MemberAssumption
<1>1. \A m \in S : Rank(S, m) \in 0..(Cardinality(S) - 1)
  <2> SUFFICES ASSUME NEW m \in S PROVE Rank(S, m) \in 0..(Cardinality(S) - 1)
    OBVIOUS
  <2>1. Above(m) \in SUBSET S /\ Above(m) # S
    OBVIOUS
  <2>2. IsFiniteSet(S) /\ Cardinality(S) \in Nat /\ Cardinality(Above(m)) \in Nat
        /\ Cardinality(Above(m)) <= Cardinality(S)
    BY <2>1, PartsAreFinite
  <2>3. Cardinality(Above(m)) # Cardinality(S)
    BY <2>1, <2>2, FS_Subset
  <2> QED BY <2>2, <2>3 DEF Rank
<1>2. ASSUME NEW m \in S, NEW k \in S, m < k PROVE Rank(S, m) # Rank(S, k)
  <2> m \in Nat /\ k \in Nat
    OBVIOUS
  <2>a. \A n \in Nat : n > k => n > m
    BY <1>2
  <2>b. Above(m) \in SUBSET S /\ k \in Above(m) /\ k \notin Above(k)
    BY <1>2
  <2>1. Above(k) \in SUBSET Above(m) /\ Above(m) \in SUBSET S /\ k \in Above(m) /\ k \notin Above(k)
    BY <2>a, <2>b
  <2>2. IsFiniteSet(Above(m))
    BY <2>1, PartsAreFinite
  <2>3. Cardinality(Above(m)) # Cardinality(Above(k))
    BY <2>1, <2>2, FS_Subset
  <2> QED BY <2>3 DEF Rank
<1>3. ASSUME NEW m \in S, NEW k \in S, Rank(S, m) = Rank(S, k) PROVE m = k
  <2>1. m < k \/ k < m \/ m = k
    OBVIOUS
  <2> QED BY <1>2, <1>3, <2>1
<1> QED
  BY <1>1, <1>3 DEF Injection, IsInjective

\* At most Limit members are selected.
LEMMA HighestAreFew ==
  ASSUME SelectionConstants, NEW S \in SUBSET Members
  PROVE  Highest(S) \subseteq S /\ Cardinality(Highest(S)) <= Limit
<1> DEFINE f == [m \in Highest(S) |-> Rank(S, m)]
<1>1. Highest(S) \subseteq S
  BY DEF Highest
<1>2. Limit \in Nat \ {0}
  BY DEF SelectionConstants, LimitAssumption
<1>3. \A m \in S : Rank(S, m) \in Nat
  BY PartsAreFinite DEF Rank
<1>4. \A m \in Highest(S) : Rank(S, m) \in 0..(Limit - 1)
  BY <1>1, <1>2, <1>3 DEF Highest, Rank
<1>5. \A m, k \in S : Rank(S, m) = Rank(S, k) => m = k
  BY RanksAreApart DEF Injection, IsInjective
<1>6. f \in Injection(Highest(S), 0..(Limit - 1))
  BY <1>1, <1>4, <1>5 DEF Injection, IsInjective
<1>7. IsFiniteSet(0..(Limit - 1)) /\ Cardinality(0..(Limit - 1)) = Limit
  BY <1>2, FS_Interval
<1> QED
  BY <1>1, <1>6, <1>7, FS_Injection

\* Whoever is passed over has Limit selected members above.
LEMMA HigherAreSelected ==
  ASSUME SelectionConstants, NEW S \in SUBSET Members, NEW m \in S, m \notin Highest(S)
  PROVE  Cardinality({n \in Highest(S) : n > m}) = Limit
<1> DEFINE T == {n \in S : n > m}
           H == {n \in Highest(S) : n > m}
           f == [n \in T |-> Rank(T, n)]
           g == [n \in H |-> Rank(T, n)]
<1>1. Limit \in Nat \ {0}
  BY DEF SelectionConstants, LimitAssumption
<1>2. T \in SUBSET S /\ T \in SUBSET Members /\ S \subseteq Nat /\ Highest(S) \subseteq S /\ H \in SUBSET T
  BY DEF SelectionConstants, MemberAssumption, Highest
<1>3. IsFiniteSet(T) /\ IsFiniteSet(H) /\ Cardinality(T) \in Nat /\ Cardinality(H) \in Nat
  BY <1>2, PartsAreFinite
<1>4. Cardinality(T) >= Limit
  BY <1>1, <1>3 DEF Highest
<1>5. f \in Injection(T, 0..(Cardinality(T) - 1))
  BY <1>2, RanksAreApart
<1>6. f \in Surjection(T, 0..(Cardinality(T) - 1))
  <2>1. ASSUME NEW c \in Nat
        PROVE  IsFiniteSet(0..(c - 1)) /\ Cardinality(0..(c - 1)) = c
    BY FS_Interval
  <2>2. IsFiniteSet(0..(Cardinality(T) - 1)) /\ Cardinality(0..(Cardinality(T) - 1)) = Cardinality(T)
    BY <1>3, <2>1
  <2> QED BY <1>5, <2>2, FS_Injection
<1>7. \A n \in T : Rank(T, n) = Rank(S, n)
  <2> SUFFICES ASSUME NEW n \in T PROVE {k \in T : k > n} = {k \in S : k > n}
    BY DEF Rank
  <2>1. m \in Nat /\ n \in Nat /\ n > m
    BY <1>2
  <2>2. \A k \in Nat : k > n => k > m
    BY <2>1
  <2> QED BY <1>2, <2>2
<1>8. g \in Surjection(H, 0..(Limit - 1))
  <2>1. \A n \in H : Rank(T, n) \in 0..(Limit - 1)
    <3> SUFFICES ASSUME NEW n \in H PROVE Rank(S, n) \in 0..(Limit - 1)
      BY <1>2, <1>7
    <3>1. Rank(S, n) \in Nat
      BY <1>2, PartsAreFinite DEF Rank
    <3> QED BY <1>1, <3>1 DEF Highest, Rank
  <2>2. ASSUME NEW i \in 0..(Limit - 1) PROVE \E n \in H : g[n] = i
    <3>1. i \in 0..(Cardinality(T) - 1)
      BY <1>1, <1>3, <1>4
    <3>2. PICK n \in T : f[n] = i
      BY <1>6, <3>1 DEF Surjection
    <3>3. Rank(S, n) < Limit
      BY <1>1, <1>7, <3>2
    <3>4. n \in H
      BY <1>2, <3>3 DEF Highest, Rank
    <3> QED BY <3>2, <3>4
  <2> QED BY <2>1, <2>2 DEF Surjection
<1>9. IsFiniteSet(0..(Limit - 1)) /\ Cardinality(0..(Limit - 1)) = Limit
  BY <1>1, FS_Interval
<1>10. Cardinality(H) >= Limit
  BY <1>3, <1>8, <1>9, FS_Surjection
<1>11. Cardinality(H) <= Limit
  <2>1. Highest(S) \in SUBSET Members /\ H \in SUBSET Highest(S)
    BY <1>2
  <2>2. Cardinality(H) <= Cardinality(Highest(S)) /\ Cardinality(Highest(S)) \in Nat
    BY <2>1, PartsAreFinite
  <2> QED BY <1>1, <1>3, <2>2, HighestAreFew
<1> QED
  BY <1>1, <1>3, <1>10, <1>11

-----------------------------------------------------------------------------
(* What a request rests on *)

\* What is so now was so at some time of every running request.
SeesThePresent ==
  \A p \in Staff : IF pc[p] = "idle" THEN ever[p] = Nothing ELSE
    /\ Now.fit \subseteq ever[p].fit /\ Now.linked \subseteq ever[p].linked
    /\ Now.known \subseteq ever[p].known
    /\ ever[p].always \subseteq Now.always

Listed == {"select_linkage", "list_linkage", "previous", "check", "write"}
RatedFit(r) == {m \in Members : r[m] = "fit"}

\* What a request was told was so at some time of it.
AnswersOf(p) ==
  /\ Candidates(listing[p]) \subseteq ever[p].known
  /\ linkage[p] \subseteq ever[p].linked
  /\ pc[p] \notin {"previous", "check", "write"} => linkage[p] = {}
  /\ kept[p] \subseteq ever[p].known
  /\ RatedFit(listing[p]) \subseteq ever[p].fit
  /\ pc[p] \in Listed => ever[p].always \subseteq RatedFit(listing[p])
AnswersWereSo == \A p \in Staff : AnswersOf(p)

Saving == {"list", "list_linkage", "previous", "check", "write"}

\* Targets are replaced of an operation that there is.
ReplacesMade ==
  \A p \in Staff :
    /\ pc[p] \in Saving \cup {"context"} => purpose[p] = "replace"
    /\ pc[p] # "idle" /\ purpose[p] = "replace" => op.made

\* What p asks for was the selection from facts that held during the request.
Chosen(p) ==
  \E S \in SUBSET Members :
    /\ asked[p] = Highest(S)
    /\ S \subseteq (ever[p].fit \cap ever[p].linked) \ Unnumbered
    /\ ever[p].always \subseteq S

\* While nobody has saved an automatic operation, all who are about to have
\* selected again.
SelectedFirst ==
  SelectsAgain => \A p \in Staff : pc[p] \in Saving => Chosen(p)

\* A request that may write has read what is stored, and may write what it asks.
CopyIsStored ==
  \A p \in Staff : pc[p] = "write" =>
    /\ ~stale[p] => copy[p] = op
    /\ asked[p] \subseteq Candidates(listing[p]) \cup kept[p]

TInv ==
  /\ TypeOK /\ SeesThePresent /\ AnswersWereSo /\ ReplacesMade
  /\ SelectedFirst /\ CopyIsStored

LEMMA TInvInit ==
  ASSUME SelectionConstants
  PROVE  Init => TInv
<1> SUFFICES ASSUME Init PROVE TInv
  OBVIOUS
<1> USE DEF Init
<1>1. /\ NoOperation \in Operations /\ Nothing \in Memories
      /\ NoListing \in [Members -> Ratings] /\ Candidates(NoListing) = {}
      /\ NoTargets \in [rows : SUBSET Members, selected : SUBSET Members, linked : SUBSET Members]
      /\ NoTargets.selected \cup NoTargets.linked \subseteq NoTargets.rows
  BY DEF NoOperation, Operations, Nothing, Memories, NoListing, Ratings, Candidates, NoTargets
<1>a. op \in Operations
  <2>1. op \in [made : {FALSE}, automatic : BOOLEAN, initialized : {FALSE}, initial : {0}]
    OBVIOUS
  <2>2. {FALSE} \subseteq BOOLEAN /\ {0} \subseteq Nat
    OBVIOUS
  <2> HIDE DEF Init
  <2> QED BY <2>1, <2>2, Zenon DEF Operations
<1>b. changes \in 0..MaxChanges /\ rated \in [Members -> Ratings] /\ linked \subseteq Members
  BY DEF SelectionConstants, LimitAssumption, Ratings
<1>c. targets \in [rows : SUBSET Members, selected : SUBSET Members, linked : SUBSET Members]
      /\ targets.selected \cup targets.linked \subseteq targets.rows
  BY <1>1
<1>d. pc \in [Staff -> Places] /\ \A p \in Staff : pc[p] # "create"
  BY DEF Places
<1>e. /\ purpose \in [Staff -> {"create", "replace"}] /\ listing \in [Staff -> [Members -> Ratings]]
      /\ asked \in [Staff -> SUBSET Members] /\ kept \in [Staff -> SUBSET Members]
      /\ linkage \in [Staff -> SUBSET Members]
      /\ copy \in [Staff -> Operations] /\ stale \in [Staff -> BOOLEAN]
      /\ ever \in [Staff -> Memories]
  BY <1>1
<1>2. TypeOK
  BY <1>a, <1>b, <1>c, <1>d, <1>e DEF TypeOK
<1>3. AnswersWereSo
  BY <1>1 DEF AnswersWereSo, AnswersOf, NoListing, RatedFit, Candidates, Listed
<1> QED
  BY <1>2, <1>3 DEF TInv, SeesThePresent, ReplacesMade, SelectedFirst, CopyIsStored, Saving

-----------------------------------------------------------------------------
(* What a step does to the memory of a request *)

\* Of a request that goes on, what it remembers only grows, and what was so all
\* along only shrinks; one that is over remembers nothing.
Remembers(p) ==
  /\ pc'[p] # "idle" =>
       /\ Now'.fit \subseteq ever'[p].fit /\ Now'.linked \subseteq ever'[p].linked
       /\ Now'.known \subseteq ever'[p].known /\ ever'[p].always \subseteq Now'.always
  /\ pc[p] # "idle" /\ pc'[p] # "idle" =>
       /\ ever[p].fit \subseteq ever'[p].fit /\ ever[p].linked \subseteq ever'[p].linked
       /\ ever[p].known \subseteq ever'[p].known /\ ever'[p].always \subseteq ever[p].always
  /\ pc'[p] = "idle" => ever'[p] = Nothing

LEMMA RememberStep ==
  ASSUME TypeOK, Remember, NEW p \in Staff,
         pc[p] = "idle" /\ pc'[p] # "idle" => Now' = Now
  PROVE  Remembers(p)
<1>1. ever'[p] = IF pc'[p] = "idle" THEN Nothing
                 ELSE IF pc[p] = "idle" THEN Now ELSE Joined(ever[p], Now')
  BY DEF Remember
<1>2. CASE pc'[p] # "idle" /\ pc[p] = "idle"
  BY <1>1, <1>2 DEF Remembers
<1>3. CASE pc'[p] # "idle" /\ pc[p] # "idle"
  <2>1. ever'[p] = Joined(ever[p], Now')
    BY <1>1, <1>3
  <2>2. /\ ever'[p].fit = ever[p].fit \cup Now'.fit
        /\ ever'[p].linked = ever[p].linked \cup Now'.linked
        /\ ever'[p].known = ever[p].known \cup Now'.known
        /\ ever'[p].always = ever[p].always \cap Now'.always
    BY <2>1 DEF Joined
  <2> QED BY <1>3, <2>2 DEF Remembers
<1>4. CASE pc'[p] = "idle"
  BY <1>1, <1>4 DEF Remembers
<1> QED
  BY <1>2, <1>3, <1>4

LEMMA MemoryType ==
  ASSUME TypeOK, Remember, rated' \in [Members -> Ratings], linked' \subseteq Members,
         targets'.selected \subseteq Members
  PROVE  ever' \in [Staff -> Memories]
<1>1. Now \in Memories /\ Nothing \in Memories
  BY DEF Now, Nothing, Memories, TypeOK, Candidates, Fit
<1>2. /\ Now'.fit \subseteq Members /\ Now'.linked \subseteq Members
      /\ Now'.known \subseteq Members /\ Now'.always \subseteq Members
  BY DEF Now, Candidates, Fit
<1>3. \A e \in Memories : Joined(e, Now') \in Memories
  BY <1>2 DEF Joined, Memories
<1> QED
  BY <1>1, <1>3 DEF Remember, TypeOK

\* Nothing that a request remembers as possible is lost while it goes on.
LEMMA MemoryGrows ==
  ASSUME SeesThePresent, NEW p \in Staff, Remembers(p), pc'[p] # "idle"
  PROVE  /\ ever[p].fit \subseteq ever'[p].fit /\ ever[p].linked \subseteq ever'[p].linked
         /\ ever[p].known \subseteq ever'[p].known
         /\ pc[p] # "idle" => ever'[p].always \subseteq ever[p].always
<1>1. CASE pc[p] # "idle"
  BY <1>1 DEF Remembers
<1>2. CASE pc[p] = "idle"
  BY <1>2 DEF SeesThePresent, Nothing
<1> QED BY <1>1, <1>2

-----------------------------------------------------------------------------
(* Whom a step is about *)

Acts(p) ==
  \/ BeginCreate(p) \/ BeginReplace(p) \/ CallFails(p) \/ ReadContext(p)
  \/ ListCandidates(p) \/ SelectAgain(p) \/ Create(p) \/ LookUpLinkages(p)
  \/ ReadPrevious(p) \/ ReadForTargets(p) \/ StoreTargets(p)

Stays(q) ==
  /\ pc'[q] = pc[q] /\ purpose'[q] = purpose[q] /\ asked'[q] = asked[q]
  /\ listing'[q] = listing[q] /\ linkage'[q] = linkage[q] /\ kept'[q] = kept[q]
  /\ copy'[q] = copy[q] /\ (stale[q] => stale'[q])

RequestTypes ==
  /\ pc \in [Staff -> Places] /\ purpose \in [Staff -> {"create", "replace"}]
  /\ listing \in [Staff -> [Members -> Ratings]]
  /\ asked \in [Staff -> SUBSET Members] /\ kept \in [Staff -> SUBSET Members]
  /\ linkage \in [Staff -> SUBSET Members]
  /\ copy \in [Staff -> Operations] /\ stale \in [Staff -> BOOLEAN]

\* The end of a request.
LEMMA EndsIdle ==
  ASSUME TypeOK, NEW p \in Staff, NEW stales, EndWriting(p, stales)
  PROVE  /\ pc'[p] = "idle" /\ asked'[p] = {} /\ listing'[p] = NoListing
         /\ linkage'[p] = {} /\ kept'[p] = {} /\ ~stale'[p]
         /\ \A q \in Staff : q # p => Stays(q) /\ stale'[q] = (stale[q] \/ q \in stales)
         /\ RequestTypes'
<1>1. NoOperation \in Operations /\ NoListing \in [Members -> Ratings]
  BY DEF NoOperation, Operations, NoListing, Ratings
<1>2. /\ pc \in [Staff -> Places] /\ purpose \in [Staff -> {"create", "replace"}]
      /\ listing \in [Staff -> [Members -> Ratings]]
      /\ asked \in [Staff -> SUBSET Members] /\ kept \in [Staff -> SUBSET Members]
      /\ linkage \in [Staff -> SUBSET Members]
      /\ copy \in [Staff -> Operations] /\ stale \in [Staff -> BOOLEAN]
  BY DEF TypeOK
<1>3. /\ pc'[p] = "idle" /\ asked'[p] = {} /\ listing'[p] = NoListing
      /\ linkage'[p] = {} /\ kept'[p] = {} /\ ~stale'[p]
  BY <1>2 DEF EndWriting, GoTo
<1>4. ASSUME NEW q \in Staff, q # p
      PROVE  Stays(q) /\ stale'[q] = (stale[q] \/ q \in stales)
  BY <1>2, <1>4 DEF EndWriting, GoTo, Stays
<1>5. /\ pc' \in [Staff -> Places] /\ purpose' \in [Staff -> {"create", "replace"}]
      /\ listing' \in [Staff -> [Members -> Ratings]]
  BY <1>1, <1>2 DEF EndWriting, GoTo, Places
<1>6. /\ asked' \in [Staff -> SUBSET Members] /\ kept' \in [Staff -> SUBSET Members]
      /\ linkage' \in [Staff -> SUBSET Members]
      /\ copy' \in [Staff -> Operations]
  BY <1>1, <1>2 DEF EndWriting
<1>7. stale' \in [Staff -> BOOLEAN]
  BY <1>2 DEF EndWriting
<1> QED
  BY <1>3, <1>4, <1>5, <1>6, <1>7 DEF RequestTypes

\* A step of one request leaves the others where they are, and remembers.
LEMMA OthersStay ==
  ASSUME TypeOK, NEW p \in Staff, Acts(p)
  PROVE  /\ \A q \in Staff : q # p => Stays(q)
         /\ Remember /\ UNCHANGED world
<1> USE DEF TypeOK
<1>1. CASE \E s \in SUBSET Staff : EndWriting(p, s)
  <2>1. \A q \in Staff : q # p => Stays(q)
    BY <1>1, EndsIdle
  <2>2. Remember /\ UNCHANGED world
    BY <1>1, <2>1 DEF Acts, BeginCreate, BeginReplace, Begin, CallFails, ReadContext,
      ListCandidates, SelectAgain, Create, LookUpLinkages, ReadPrevious, ReadForTargets,
      StoreTargets, world
  <2> QED BY <2>1, <2>2
<1>2. CASE BeginCreate(p) \/ BeginReplace(p)
  BY <1>2 DEF BeginCreate, BeginReplace, Begin, GoTo, Stays, world
<1>3. CASE ReadContext(p) \/ ListCandidates(p) \/ LookUpLinkages(p) \/ ReadPrevious(p)
  BY <1>3 DEF ReadContext, ListCandidates, LookUpLinkages, ReadPrevious, GoTo, Stays,
    world, request
<1>4. CASE SelectAgain(p) /\ SelectionServes(p)
  BY <1>4 DEF SelectAgain, GoTo, Stays, world, request
<1>5. CASE ReadForTargets(p) /\ MayBeAsked(p)
  BY <1>5 DEF ReadForTargets, GoTo, Stays, world, request
<1>6. CASE CallFails(p) \/ Create(p) \/ StoreTargets(p)
           \/ (SelectAgain(p) /\ ~SelectionServes(p)) \/ (ReadForTargets(p) /\ ~MayBeAsked(p))
  <2>1. \E s \in SUBSET Staff : EndWriting(p, s)
    BY <1>6 DEF CallFails, Create, StoreTargets, SelectAgain, ReadForTargets, End
  <2> QED BY <2>1, <1>1
<1> QED
  BY <1>2, <1>3, <1>4, <1>5, <1>6 DEF Acts

\* A change of the other systems leaves all requests where they are.
LEMMA ChangeStays ==
  ASSUME SelectionConstants, TypeOK, Change
  PROVE  /\ \A q \in Staff : Stays(q)
         /\ Remember /\ UNCHANGED <<stored, request, pc>>
         /\ rated' \in [Members -> Ratings] /\ linked' \subseteq Members
         /\ changes' \in 0..MaxChanges
<1>1. /\ \A q \in Staff : Stays(q)
      /\ Remember /\ UNCHANGED <<stored, request, pc>>
  BY DEF Change, stored, request, Stays
<1>2. rated' \in [Members -> Ratings] /\ linked' \subseteq Members
  BY DEF Change, TypeOK, Ratings
<1>3. changes' \in 0..MaxChanges
  BY DEF Change, TypeOK, SelectionConstants, LimitAssumption
<1> QED
  BY <1>1, <1>2, <1>3

LEMMA StepKinds ==
  ASSUME Next
  PROVE  Change \/ \E p \in Staff : Acts(p)
BY DEF Next, Acts

\* Every request remembers its time.
LEMMA AllRemember ==
  ASSUME SelectionConstants, TypeOK, Next, NEW p \in Staff
  PROVE  Remembers(p)
<1>1. CASE Change
  <2>1. pc'[p] = pc[p]
    BY <1>1, ChangeStays DEF Stays
  <2> QED BY <1>1, <2>1, ChangeStays, RememberStep
<1>2. ASSUME NEW q \in Staff, Acts(q) PROVE Remembers(p)
  <2>1. Remember
    BY <1>2, OthersStay
  <2>2. pc[p] = "idle" /\ pc'[p] # "idle" => Now' = Now
    <3> SUFFICES ASSUME pc[p] = "idle", pc'[p] # "idle" PROVE Now' = Now
      OBVIOUS
    <3>1. p = q
      BY <1>2, OthersStay DEF Stays
    <3>2. BeginCreate(p) \/ BeginReplace(p)
      BY <1>2, <3>1 DEF Acts, CallFails, ReadContext, ListCandidates, SelectAgain, Create,
        LookUpLinkages, ReadPrevious, ReadForTargets, StoreTargets
    <3>3. UNCHANGED <<rated, linked, targets>>
      BY <3>2 DEF BeginCreate, BeginReplace, Begin, world, stored
    <3> QED BY <3>3 DEF Now, Candidates, Fit
  <2> QED BY <2>1, <2>2, RememberStep
<1> QED
  BY <1>1, <1>2, StepKinds

LEMMA SeesStep ==
  ASSUME SelectionConstants, TypeOK, Next
  PROVE  SeesThePresent'
<1> SUFFICES ASSUME NEW p \in Staff
             PROVE  (IF pc[p] = "idle" THEN ever[p] = Nothing ELSE
                       /\ Now.fit \subseteq ever[p].fit /\ Now.linked \subseteq ever[p].linked
                       /\ Now.known \subseteq ever[p].known
                       /\ ever[p].always \subseteq Now.always)'
  BY DEF SeesThePresent
<1> QED
  BY AllRemember DEF Remembers, Nothing

\* A request that stays where it is rests on what it rested on.
LEMMA StaysAnswered ==
  ASSUME TInv, NEW p \in Staff, Stays(p), Remembers(p)
  PROVE  AnswersOf(p)'
<1>1. AnswersOf(p)
  BY DEF TInv, AnswersWereSo
<1>2. Candidates(listing[p])' = Candidates(listing[p]) /\ RatedFit(listing[p])' = RatedFit(listing[p])
  BY DEF Stays, Candidates, RatedFit
<1>3. CASE pc[p] = "idle"
  <2>1. ever[p] = Nothing /\ ever'[p] = Nothing
    BY <1>3 DEF TInv, SeesThePresent, Remembers, Stays
  <2> QED BY <1>1, <1>2, <1>3, <2>1 DEF AnswersOf, Stays, Listed
<1>4. CASE pc[p] # "idle"
  <2>1. /\ ever[p].fit \subseteq ever'[p].fit /\ ever[p].linked \subseteq ever'[p].linked
        /\ ever[p].known \subseteq ever'[p].known /\ ever'[p].always \subseteq ever[p].always
    BY <1>4 DEF Remembers, Stays
  <2> QED BY <1>1, <1>2, <2>1 DEF AnswersOf, Stays
<1> QED BY <1>3, <1>4

LEMMA EndAnswered ==
  ASSUME TypeOK, NEW p \in Staff, \E s : EndWriting(p, s)
  PROVE  AnswersOf(p)'
<1>1. pc'[p] = "idle" /\ listing'[p] = NoListing /\ linkage'[p] = {} /\ kept'[p] = {}
  BY EndsIdle
<1>2. Candidates(listing[p])' = {} /\ RatedFit(listing[p])' = {}
  BY <1>1 DEF Candidates, RatedFit, NoListing
<1> QED
  BY <1>1, <1>2 DEF AnswersOf, Listed

\* What a request is told is so while it is told.
LEMMA ActsAnswered ==
  ASSUME TInv, NEW p \in Staff, Acts(p), Remembers(p)
  PROVE  AnswersOf(p)'
<1> USE DEF TInv
<1>0. AnswersOf(p)
  BY DEF AnswersWereSo
<1>a. ASSUME pc'[p] # "idle"
      PROVE  /\ ever[p].fit \subseteq ever'[p].fit /\ ever[p].linked \subseteq ever'[p].linked
             /\ ever[p].known \subseteq ever'[p].known
             /\ pc[p] # "idle" => ever'[p].always \subseteq ever[p].always
  BY <1>a, MemoryGrows
<1>b. ASSUME listing'[p] = listing[p]
      PROVE  Candidates(listing[p])' = Candidates(listing[p])
             /\ RatedFit(listing[p])' = RatedFit(listing[p])
  BY <1>b DEF Candidates, RatedFit
<1>1. CASE \E s : EndWriting(p, s)
  BY <1>1, EndAnswered
<1>2. CASE BeginCreate(p) \/ BeginReplace(p) \/ ReadContext(p)
  <2>1. /\ pc[p] \notin {"previous", "check", "write"}
        /\ pc'[p] \notin Listed \ {"list"} /\ pc'[p] # "idle" /\ listing'[p] = listing[p]
        /\ linkage'[p] = linkage[p] /\ kept'[p] = kept[p]
    BY <1>2 DEF BeginCreate, BeginReplace, Begin, ReadContext, GoTo, TypeOK, request, Listed
  <2> QED BY <1>0, <1>a, <1>b, <2>1 DEF AnswersOf, Listed
<1>3. CASE SelectAgain(p) /\ SelectionServes(p)
  <2>1. /\ pc[p] \notin {"previous", "check", "write"}
        /\ pc'[p] \notin Listed /\ pc'[p] # "idle" /\ listing'[p] = listing[p]
        /\ linkage'[p] = linkage[p] /\ kept'[p] = kept[p]
    BY <1>3 DEF SelectAgain, GoTo, TypeOK, request, Listed
  <2> QED BY <1>0, <1>a, <1>b, <2>1 DEF AnswersOf
<1>4. CASE ListCandidates(p)
  <2>1. /\ pc[p] \notin {"previous", "check", "write"} /\ pc[p] # "idle"
        /\ pc'[p] # "idle" /\ listing'[p] = rated /\ linkage'[p] = linkage[p] /\ kept'[p] = kept[p]
        /\ UNCHANGED <<world, stored>>
    BY <1>4 DEF ListCandidates, GoTo, TypeOK
  <2>2. /\ Now'.fit \subseteq ever'[p].fit /\ Now'.known \subseteq ever'[p].known
        /\ ever'[p].always \subseteq Now'.always
    BY <2>1 DEF Remembers
  <2>a. listing'[p] = rated'
    BY <2>1 DEF world
  <2>d. /\ Now'.known = Candidates(rated)' \cup targets'.selected
        /\ Now'.fit = {m \in Members : rated'[m] = "fit"} /\ Now'.always = Fit(rated, linked)'
    BY DEF Now
  <2>b. /\ Now'.known = Candidates(rated)' \cup targets'.selected
        /\ Now'.fit = RatedFit(rated)' /\ Now'.always \subseteq RatedFit(rated)'
    BY <2>1, <2>d DEF RatedFit, Fit, TypeOK, world
  <2>c. Candidates(listing[p])' = Candidates(rated)' /\ RatedFit(listing[p])' = RatedFit(rated)'
    BY <2>a DEF Candidates, RatedFit
  <2>3. /\ Candidates(listing[p])' \subseteq Now'.known /\ RatedFit(listing[p])' = Now'.fit
        /\ Now'.always \subseteq RatedFit(listing[p])'
    BY <2>b, <2>c
  <2> QED BY <1>0, <1>a, <2>1, <2>2, <2>3 DEF AnswersOf
<1>5. CASE LookUpLinkages(p)
  <2>1. /\ pc'[p] = "previous" /\ listing'[p] = listing[p] /\ linkage'[p] \subseteq linked /\ kept'[p] = kept[p]
        /\ pc[p] \in Listed /\ pc[p] # "idle" /\ UNCHANGED <<world, stored>>
    BY <1>5 DEF LookUpLinkages, GoTo, TypeOK, Listed
  <2>2. linked \subseteq ever'[p].linked
    BY <2>1 DEF Remembers, Now, world
  <2> QED BY <1>0, <1>a, <1>b, <2>1, <2>2 DEF AnswersOf
<1>6. CASE ReadPrevious(p)
  <2>1. /\ pc'[p] = "check" /\ listing'[p] = listing[p] /\ linkage'[p] = linkage[p]
        /\ kept'[p] \subseteq targets.selected
        /\ pc[p] \in Listed /\ pc[p] # "idle" /\ UNCHANGED <<world, stored>>
    BY <1>6 DEF ReadPrevious, Keeps, GoTo, TypeOK, Listed
  <2>2. targets.selected \subseteq ever'[p].known
    BY <2>1 DEF Remembers, Now, stored
  <2> QED BY <1>0, <1>a, <1>b, <2>1, <2>2 DEF AnswersOf
<1>7. CASE ReadForTargets(p) /\ MayBeAsked(p)
  <2>1. /\ pc'[p] = "write" /\ listing'[p] = listing[p] /\ linkage'[p] = linkage[p]
        /\ kept'[p] = kept[p] /\ pc[p] \in Listed /\ pc[p] # "idle"
    BY <1>7 DEF ReadForTargets, GoTo, TypeOK, Listed
  <2> QED BY <1>0, <1>a, <1>b, <2>1 DEF AnswersOf
<1>8. CASE CallFails(p) \/ Create(p) \/ StoreTargets(p)
           \/ (SelectAgain(p) /\ ~SelectionServes(p)) \/ (ReadForTargets(p) /\ ~MayBeAsked(p))
  <2>1. \E s : EndWriting(p, s)
    BY <1>8 DEF CallFails, Create, StoreTargets, SelectAgain, ReadForTargets, End
  <2> QED BY <2>1, <1>1
<1> QED
  BY <1>2, <1>3, <1>4, <1>5, <1>6, <1>7, <1>8 DEF Acts

LEMMA AnswersStep ==
  ASSUME SelectionConstants, TInv, Next
  PROVE  AnswersWereSo'
<1> SUFFICES ASSUME NEW p \in Staff PROVE AnswersOf(p)'
  BY DEF AnswersWereSo
<1> TypeOK
  BY DEF TInv
<1>1. Remembers(p)
  BY AllRemember
<1>2. CASE Stays(p)
  BY <1>1, <1>2, StaysAnswered
<1>3. CASE Acts(p)
  BY <1>1, <1>3, ActsAnswered
<1>4. Stays(p) \/ Acts(p)
  BY StepKinds, ChangeStays, OthersStay
<1> QED
  BY <1>2, <1>3, <1>4

-----------------------------------------------------------------------------
(* Who may write *)

\* What is written of the operation is written by a creation, if there is none,
\* or by a save that nobody has overtaken.
LEMMA OperationWritten ==
  ASSUME TInv, Next, op' # op \/ targets' # targets
  PROVE  \E p \in Staff :
           \/ /\ pc[p] = "create" /\ ~op.made /\ op' = [op EXCEPT !.made = TRUE] /\ targets' = targets
              /\ \A q \in Staff : q # p => Stays(q)
           \/ /\ StoreTargets(p) /\ MayWrite(p) /\ pc[p] = "write" /\ copy[p] = op
              /\ op' = Initialized(op, asked[p])
              /\ targets' = [rows |-> Candidates(listing[p]) \cup kept[p],
                             selected |-> asked[p], linked |-> linkage[p]]
<1> TypeOK
  BY DEF TInv
<1>1. PICK p \in Staff : Create(p) \/ StoreTargets(p)
  BY DEF Next, Change, BeginCreate, BeginReplace, Begin, CallFails, ReadContext,
    ListCandidates, SelectAgain, LookUpLinkages, ReadPrevious, ReadForTargets, stored
<1>2. CASE Create(p)
  <2>1. \A q \in Staff : q # p => Stays(q)
    BY <1>2, OthersStay DEF Acts
  <2>2. pc[p] = "create" /\ targets' = targets /\ ~op.made /\ op' = [op EXCEPT !.made = TRUE]
    BY <1>2 DEF Create
  <2> QED BY <2>1, <2>2
<1>3. CASE StoreTargets(p)
  <2>1. MayWrite(p) /\ pc[p] = "write"
    BY <1>3 DEF StoreTargets, stored
  <2>2. copy[p] = op
    BY <2>1 DEF TInv, CopyIsStored, MayWrite
  <2> QED BY <1>3, <2>1, <2>2 DEF StoreTargets
<1> QED BY <1>1, <1>2, <1>3

\* A save ends the first one for good.
LEMMA InitializedParts ==
  ASSUME op \in Operations, NEW ids, Cardinality(ids) \in Nat
  PROVE  LET o == Initialized(op, ids) IN
         /\ o \in Operations /\ o.made = op.made /\ o.automatic = op.automatic
         /\ (op.automatic => o.initialized)
         /\ (op.initialized => o = op)
         /\ (op.automatic /\ ~op.initialized => o.initialized /\ o.initial = Cardinality(ids))
         /\ (~op.automatic => o = op)
BY DEF Initialized, Operations

LEMMA OperationGoesOn ==
  ASSUME SelectionConstants, TInv, Next
  PROVE  /\ op' \in Operations
         /\ op.made => op'.made
         /\ SelectsAgain' => SelectsAgain
<1>0. op \in Operations /\ \A p \in Staff : Cardinality(asked[p]) \in Nat
  BY PartsAreFinite DEF TInv, TypeOK
<1>1. CASE op' = op
  BY <1>0, <1>1 DEF SelectsAgain
<1>2. CASE op' # op
  <2>1. PICK p \in Staff : op' = [op EXCEPT !.made = TRUE] \/ op' = Initialized(op, asked[p])
    BY <1>2, OperationWritten
  <2>2. CASE op' = [op EXCEPT !.made = TRUE]
    BY <1>0, <2>2 DEF SelectsAgain, Operations
  <2>3. CASE op' = Initialized(op, asked[p])
    BY <1>0, <2>3, InitializedParts DEF SelectsAgain, Operations
  <2> QED BY <2>1, <2>2, <2>3
<1> QED BY <1>1, <1>2

\* Where a request gets to.
LEMMA ComesFrom ==
  ASSUME TypeOK, NEW p \in Staff, Acts(p)
  PROVE  /\ pc'[p] \in Saving =>
              /\ asked'[p] = asked[p]
              /\ \/ pc[p] \in Saving
                 \/ pc[p] = "context" /\ ~SelectsAgain /\ op' = op
                 \/ /\ pc[p] = "select_linkage" /\ purpose[p] = "replace"
                    /\ SelectAgain(p) /\ SelectionServes(p)
         /\ pc'[p] \in Saving \cup {"context"} =>
              purpose'[p] = "replace" \/ (pc[p] \in Saving \cup {"context"} /\ purpose'[p] = purpose[p])
         /\ pc'[p] # "idle" /\ purpose'[p] = "replace" =>
              op.made \/ (pc[p] # "idle" /\ purpose[p] = "replace")
         /\ pc'[p] = "write" => ReadForTargets(p) /\ MayBeAsked(p)
<1>1. CASE \E s : EndWriting(p, s)
  BY <1>1, EndsIdle DEF Saving
<1>2. CASE BeginCreate(p) \/ BeginReplace(p)
  BY <1>2 DEF BeginCreate, BeginReplace, Begin, GoTo, TypeOK, Saving, stored
<1>3. CASE ReadContext(p) \/ ListCandidates(p) \/ LookUpLinkages(p) \/ ReadPrevious(p)
  BY <1>3 DEF ReadContext, ListCandidates, LookUpLinkages, ReadPrevious, GoTo, TypeOK,
    request, stored, Saving
<1>4. CASE SelectAgain(p) /\ SelectionServes(p)
  BY <1>4 DEF SelectAgain, GoTo, TypeOK, request, Saving
<1>5. CASE ReadForTargets(p) /\ MayBeAsked(p)
  BY <1>5 DEF ReadForTargets, GoTo, TypeOK, Saving
<1>6. CASE CallFails(p) \/ Create(p) \/ StoreTargets(p)
           \/ (SelectAgain(p) /\ ~SelectionServes(p)) \/ (ReadForTargets(p) /\ ~MayBeAsked(p))
  <2>1. \E s : EndWriting(p, s)
    BY <1>6 DEF CallFails, Create, StoreTargets, SelectAgain, ReadForTargets, End
  <2> QED BY <2>1, <1>1
<1> QED
  BY <1>2, <1>3, <1>4, <1>5, <1>6 DEF Acts

LEMMA ReplacesMadeStep ==
  ASSUME SelectionConstants, TInv, Next
  PROVE  ReplacesMade'
<1> SUFFICES ASSUME NEW p \in Staff
             PROVE  /\ pc'[p] \in Saving \cup {"context"} => purpose'[p] = "replace"
                    /\ pc'[p] # "idle" /\ purpose'[p] = "replace" => op'.made
  BY DEF ReplacesMade
<1> TypeOK /\ ReplacesMade
  BY DEF TInv
<1>1. op.made => op'.made
  BY OperationGoesOn
<1>2. CASE Stays(p)
  BY <1>1, <1>2 DEF ReplacesMade, Stays
<1>3. CASE Acts(p)
  BY <1>1, <1>3, ComesFrom DEF ReplacesMade
<1>4. Stays(p) \/ Acts(p)
  BY StepKinds, ChangeStays, OthersStay
<1> QED BY <1>2, <1>3, <1>4

\* Who is selected again has asked for what is selected now.
LEMMA ServesChosen ==
  ASSUME TInv, NEW p \in Staff, SelectAgain(p), SelectionServes(p), purpose[p] = "replace",
         Remembers(p), pc'[p] # "idle", asked'[p] = asked[p]
  PROVE  Chosen(p)'
<1> DEFINE S == Selection(p)
<1>1. pc[p] = "select_linkage" /\ AnswersOf(p) /\ UNCHANGED world /\ linked \subseteq Members
  BY DEF SelectAgain, TInv, AnswersWereSo, TypeOK
<1>2. asked[p] = Highest(S) /\ S \cap Unnumbered = {}
  BY DEF SelectionServes
<1>3. S = {m \in linked : listing[p][m] = "fit"} /\ S \in SUBSET Members
  BY <1>1 DEF Selection, Fit
<1>4. S \subseteq ever'[p].fit
  <2>1. S \subseteq ever[p].fit
    BY <1>1, <1>3 DEF AnswersOf, RatedFit
  <2> QED BY <1>1, <2>1 DEF Remembers
<1>5. S \subseteq ever'[p].linked
  BY <1>1, <1>3 DEF Remembers, Now, world
<1>6. ever'[p].always \subseteq S
  <2>1. ever'[p].always \subseteq RatedFit(listing[p])
    BY <1>1 DEF Remembers, AnswersOf, Listed
  <2>2. ever'[p].always \subseteq linked
    BY <1>1 DEF Remembers, Now, Fit, world
  <2> QED BY <1>3, <2>1, <2>2 DEF RatedFit
<1>7. asked'[p] = Highest(S)
  BY <1>2
<1>8. /\ S \in SUBSET Members /\ asked'[p] = Highest(S)
      /\ S \subseteq (ever'[p].fit \cap ever'[p].linked) \ Unnumbered
      /\ ever'[p].always \subseteq S
  BY <1>2, <1>3, <1>4, <1>5, <1>6, <1>7
<1> HIDE DEF S
<1> QED BY <1>8 DEF Chosen

\* Who has selected again has done so whatever happens meanwhile.
LEMMA StaysChosen ==
  ASSUME NEW p \in Staff, Chosen(p), Remembers(p), pc[p] # "idle", pc'[p] # "idle",
         asked'[p] = asked[p]
  PROVE  Chosen(p)'
<1>1. PICK S \in SUBSET Members :
         /\ asked[p] = Highest(S)
         /\ S \subseteq (ever[p].fit \cap ever[p].linked) \ Unnumbered
         /\ ever[p].always \subseteq S
  BY DEF Chosen
<1>2. /\ asked'[p] = Highest(S)
      /\ S \subseteq (ever'[p].fit \cap ever'[p].linked) \ Unnumbered
      /\ ever'[p].always \subseteq S
  BY <1>1 DEF Remembers
<1> QED BY <1>2 DEF Chosen

LEMMA SelectedFirstStep ==
  ASSUME SelectionConstants, TInv, Next
  PROVE  SelectedFirst'
<1> SUFFICES ASSUME SelectsAgain', NEW p \in Staff, pc'[p] \in Saving
             PROVE  Chosen(p)'
  BY DEF SelectedFirst
<1> TypeOK /\ SelectedFirst
  BY DEF TInv
<1>1. SelectsAgain /\ Remembers(p) /\ pc'[p] # "idle"
  BY OperationGoesOn, AllRemember DEF Saving
<1>2. CASE pc[p] \in Saving /\ asked'[p] = asked[p]
  BY <1>1, <1>2, StaysChosen DEF SelectedFirst, Saving
<1>3. CASE Stays(p)
  BY <1>2, <1>3 DEF Stays
<1>4. CASE Acts(p)
  BY <1>1, <1>2, <1>4, ComesFrom, ServesChosen
<1>5. Stays(p) \/ Acts(p)
  BY StepKinds, ChangeStays, OthersStay
<1> QED BY <1>3, <1>4, <1>5

LEMMA CopyStep ==
  ASSUME SelectionConstants, TInv, Next
  PROVE  CopyIsStored'
<1> SUFFICES ASSUME NEW q \in Staff, pc'[q] = "write"
             PROVE  /\ ~stale'[q] => copy'[q] = op'
                    /\ asked'[q] \subseteq (Candidates(listing[q]) \cup kept[q])'
  BY DEF CopyIsStored
<1> TypeOK
  BY DEF TInv
<1>1. CASE Acts(q)
  <2>1. ReadForTargets(q) /\ MayBeAsked(q)
    BY <1>1, ComesFrom
  <2>2. /\ copy'[q] = op /\ op' = op /\ asked'[q] = asked[q] /\ listing'[q] = listing[q]
        /\ kept'[q] = kept[q]
    BY <2>1 DEF ReadForTargets, TypeOK, stored
  <2> QED BY <2>1, <2>2 DEF MayBeAsked, Candidates
<1>2. CASE Stays(q)
  <2>1. /\ pc[q] = "write" /\ ~stale[q] => copy[q] = op
        /\ asked[q] \subseteq Candidates(listing[q]) \cup kept[q]
    BY <1>2 DEF Stays, TInv, CopyIsStored
  <2>2. asked'[q] \subseteq (Candidates(listing[q]) \cup kept[q])'
    BY <1>2, <2>1 DEF Stays, Candidates
  <2>3. ~stale'[q] => copy'[q] = op'
    <3>1. CASE op' = op
      BY <1>2, <2>1, <3>1 DEF Stays
    <3>2. CASE op' # op
      <4>1. op.made
        BY <1>2, <2>1 DEF Stays, TInv, ReplacesMade, Saving
      <4>2. PICK p \in Staff : StoreTargets(p) /\ MayWrite(p)
        BY <3>2, <4>1, OperationWritten
      <4>3. EndWriting(p, {r \in Staff : pc[r] = "write"})
        BY <4>2 DEF StoreTargets
      <4>4. p # q
        BY <1>2, <2>1, <4>3, EndsIdle DEF Stays
      <4>a. stale'[q] = (stale[q] \/ q \in {r \in Staff : pc[r] = "write"})
        BY <4>3, <4>4, EndsIdle
      <4>b. q \in {r \in Staff : pc[r] = "write"}
        BY <1>2 DEF Stays
      <4>5. stale'[q]
        BY <4>a, <4>b, Zenon
      <4> QED BY <4>5
    <3> QED BY <3>1, <3>2
  <2> QED BY <2>2, <2>3
<1>3. Stays(q) \/ Acts(q)
  BY StepKinds, ChangeStays, OthersStay
<1> QED BY <1>1, <1>2, <1>3

-----------------------------------------------------------------------------
(* Types *)

LEMMA BeginTypes ==
  ASSUME TypeOK, NEW p \in Staff, BeginCreate(p) \/ BeginReplace(p)
  PROVE  RequestTypes' /\ UNCHANGED stored /\ pc'[p] \in {"create", "select", "context"}
         /\ (pc'[p] = "create" => purpose'[p] = "create")
         /\ kept'[p] = kept[p] /\ (kept[p] = {} => kept'[p] \subseteq asked'[p])
         /\ linkage'[p] = linkage[p] /\ listing'[p] = listing[p] /\ pc[p] = "idle"
<1> PICK place \in {"create", "select", "context"}, why \in {"create", "replace"}, ids \in SUBSET Members :
        Begin(p, place, why, ids) /\ (place = "create" => why = "create")
  BY DEF BeginCreate, BeginReplace
<1> QED
  BY DEF Begin, GoTo, TypeOK, RequestTypes, Places, stored

LEMMA ActsTyped ==
  ASSUME TInv, NEW p \in Staff, Acts(p)
  PROVE  /\ RequestTypes'
         /\ pc'[p] = "create" => purpose'[p] = "create"
         /\ kept'[p] \subseteq asked'[p]
         /\ linkage'[p] \subseteq Candidates(listing[p])'
<1> USE DEF TInv
<1>1. CASE \E s : EndWriting(p, s)
  BY <1>1, EndsIdle
<1>2. CASE BeginCreate(p) \/ BeginReplace(p)
  <2>1. ever[p] = Nothing
    BY <1>2 DEF BeginCreate, BeginReplace, Begin, SeesThePresent
  <2>2. kept[p] = {}
    BY <2>1 DEF Nothing, AnswersWereSo, AnswersOf
  <2> QED BY <1>2, <2>2, BeginTypes DEF Candidates, TypeOK
<1>3. CASE ReadContext(p)
  BY <1>3 DEF ReadContext, GoTo, request, RequestTypes, TypeOK, Places, Candidates
<1>4. CASE ListCandidates(p)
  <2>1. RequestTypes' /\ pc'[p] # "create" /\ kept'[p] = kept[p] /\ asked'[p] = asked[p]
    BY <1>4 DEF ListCandidates, GoTo, RequestTypes, TypeOK, Places
  <2>2. linkage'[p] = {}
    BY <1>4 DEF ListCandidates, AnswersWereSo, AnswersOf
  <2> QED BY <2>1, <2>2 DEF TypeOK
<1>5. CASE SelectAgain(p) /\ SelectionServes(p)
  BY <1>5 DEF SelectAgain, GoTo, request, RequestTypes, TypeOK, Places, Candidates
<1>6. CASE LookUpLinkages(p)
  BY <1>6 DEF LookUpLinkages, GoTo, RequestTypes, TypeOK, Places, Candidates
<1>7. CASE ReadPrevious(p)
  BY <1>7 DEF ReadPrevious, Keeps, GoTo, RequestTypes, TypeOK, Places, Candidates
<1>8. CASE ReadForTargets(p) /\ MayBeAsked(p)
  <2>1. /\ pc' = [pc EXCEPT ![p] = "write"] /\ copy' = [copy EXCEPT ![p] = op]
        /\ UNCHANGED <<purpose, asked, listing, linkage, kept, stale>>
    BY <1>8 DEF ReadForTargets, GoTo
  <2>2. pc' \in [Staff -> Places] /\ pc'[p] = "write" /\ copy' \in [Staff -> Operations]
    BY <2>1 DEF TypeOK, Places
  <2> QED BY <2>1, <2>2 DEF RequestTypes, TypeOK, Candidates
<1>9. CASE CallFails(p) \/ Create(p) \/ StoreTargets(p)
           \/ (SelectAgain(p) /\ ~SelectionServes(p)) \/ (ReadForTargets(p) /\ ~MayBeAsked(p))
  <2>1. \E s : EndWriting(p, s)
    BY <1>9 DEF CallFails, Create, StoreTargets, SelectAgain, ReadForTargets, End
  <2> QED BY <2>1, <1>1
<1> QED
  BY <1>2, <1>3, <1>4, <1>5, <1>6, <1>7, <1>8, <1>9 DEF Acts

LEMMA TypeStep ==
  ASSUME SelectionConstants, TInv, Next
  PROVE  TypeOK'
<1> TypeOK
  BY DEF TInv
<1>1. op' \in Operations
  BY OperationGoesOn
<1>2. /\ targets' \in [rows : SUBSET Members, selected : SUBSET Members, linked : SUBSET Members]
      /\ targets'.selected \cup targets'.linked \subseteq targets'.rows
  <2>1. CASE targets' = targets
    BY <2>1 DEF TypeOK
  <2>2. CASE targets' # targets
    <3>1. PICK p \in Staff :
            /\ pc[p] = "write"
            /\ targets' = [rows |-> Candidates(listing[p]) \cup kept[p],
                           selected |-> asked[p], linked |-> linkage[p]]
      BY <2>2, OperationWritten
    <3>2. /\ asked[p] \subseteq Candidates(listing[p]) \cup kept[p]
          /\ linkage[p] \subseteq Candidates(listing[p])
          /\ asked[p] \subseteq Members /\ kept[p] \subseteq Members
          /\ Candidates(listing[p]) \subseteq Members
      BY <3>1 DEF TInv, CopyIsStored, TypeOK, Candidates
    <3> QED BY <3>1, <3>2
  <2> QED BY <2>1, <2>2
<1>3. /\ rated' \in [Members -> Ratings] /\ linked' \subseteq Members
      /\ changes' \in 0..MaxChanges
  <2>1. CASE Change
    BY <2>1, ChangeStays
  <2>2. CASE \E p \in Staff : Acts(p)
    BY <2>2, OthersStay DEF world, TypeOK
  <2> QED BY <2>1, <2>2, StepKinds
<1>4. RequestTypes'
  <2>1. CASE Change
    BY <2>1, ChangeStays DEF request, TypeOK, RequestTypes
  <2>2. CASE \E p \in Staff : Acts(p)
    BY <2>2, ActsTyped
  <2> QED BY <2>1, <2>2, StepKinds
<1>5. ever' \in [Staff -> Memories]
  <2>1. Remember
    BY StepKinds, ChangeStays, OthersStay
  <2> QED BY <1>2, <1>3, <2>1, MemoryType
<1>6. ASSUME NEW p \in Staff
      PROVE  /\ pc'[p] = "create" => purpose'[p] = "create"
             /\ kept'[p] \subseteq asked'[p]
             /\ linkage'[p] \subseteq Candidates(listing[p])'
  <2>1. CASE Stays(p)
    BY <2>1 DEF Stays, TypeOK, Candidates
  <2>2. CASE Acts(p)
    BY <2>2, ActsTyped
  <2> QED BY <2>1, <2>2, StepKinds, ChangeStays, OthersStay
<1> QED
  BY <1>1, <1>2, <1>3, <1>4, <1>5, <1>6 DEF TypeOK, RequestTypes

-----------------------------------------------------------------------------
(* Theorems *)

LEMMA TInvStep ==
  ASSUME SelectionConstants, TInv, [Next]_vars
  PROVE  TInv'
<1>1. CASE Next
  BY <1>1, TypeStep, SeesStep, AnswersStep, ReplacesMadeStep, SelectedFirstStep, CopyStep
     DEF TInv
<1>2. CASE UNCHANGED vars
  <2> USE <1>2 DEF vars, world, stored, request
  <2>1. TypeOK'
    BY DEF TInv, TypeOK, Candidates
  <2>2. SeesThePresent' /\ AnswersWereSo'
    BY DEF TInv, SeesThePresent, AnswersWereSo, AnswersOf, Now, Candidates, Fit, RatedFit
  <2>3. ReplacesMade' /\ SelectedFirst' /\ CopyIsStored'
    BY DEF TInv, ReplacesMade, SelectedFirst, SelectsAgain, Chosen, CopyIsStored, Candidates
  <2> QED BY <2>1, <2>2, <2>3 DEF TInv
<1> QED BY <1>1, <1>2

\* What a save has found.
LEMMA SaveOf ==
  ASSUME TInv, NEW p \in Staff, StoreTargets(p), MayWrite(p)
  PROVE  /\ pc[p] = "write" /\ pc'[p] = "idle" /\ targets'.selected = asked[p]
         /\ targets'.linked = linkage[p]
<1> TypeOK
  BY DEF TInv
<1> QED
  BY EndsIdle DEF StoreTargets

LEMMA SavesSelectionStep ==
  ASSUME SelectionConstants, TInv, Next
  PROVE  SavesSelection
<1> SUFFICES ASSUME op.automatic, ~op.initialized, op'.initialized
             PROVE  \E p \in Staff :
                      /\ Saves(p) /\ targets'.selected = asked[p]
                      /\ Cardinality(asked[p]) <= Limit
                      /\ asked[p] \subseteq (ever[p].fit \cap ever[p].linked) \ Unnumbered
                      /\ \A m \in ever[p].always \ asked[p] :
                           Cardinality({n \in asked[p] : n > m}) = Limit
  BY DEF SavesSelection
<1>1. op' # op /\ op \in Operations
  BY DEF TInv, TypeOK
<1>2. PICK p \in Staff : StoreTargets(p) /\ MayWrite(p)
  BY <1>1, OperationWritten DEF Operations
<1>3. Saves(p) /\ targets'.selected = asked[p]
  BY <1>1, <1>2, SaveOf DEF Saves
<1>4. Chosen(p)
  BY <1>2, SaveOf DEF TInv, SelectedFirst, SelectsAgain, Saving
<1>5. PICK S \in SUBSET Members :
         /\ asked[p] = Highest(S)
         /\ S \subseteq (ever[p].fit \cap ever[p].linked) \ Unnumbered
         /\ ever[p].always \subseteq S
  BY <1>4 DEF Chosen
<1>6. Cardinality(asked[p]) <= Limit /\ asked[p] \subseteq S
  BY <1>5, HighestAreFew
<1>7. \A m \in ever[p].always \ asked[p] : Cardinality({n \in asked[p] : n > m}) = Limit
  BY <1>5, HigherAreSelected
<1> QED BY <1>3, <1>5, <1>6, <1>7

LEMMA CountsOnceStep ==
  ASSUME SelectionConstants, TInv, Next
  PROVE  CountsOnce
<1>0. op \in Operations
  BY DEF TInv, TypeOK
<1>1. CASE op' = op
  BY <1>1 DEF CountsOnce
<1>2. CASE op' # op
  <2>1. PICK p \in Staff :
          \/ op' = [op EXCEPT !.made = TRUE]
          \/ /\ StoreTargets(p) /\ MayWrite(p)
             /\ op' = Initialized(op, asked[p])
    BY <1>2, OperationWritten
  <2>2. CASE op' = [op EXCEPT !.made = TRUE]
    BY <1>0, <2>2 DEF CountsOnce, Operations
  <2>3. CASE StoreTargets(p) /\ MayWrite(p) /\ op' = Initialized(op, asked[p])
    <3>1. targets'.selected = asked[p]
      BY <2>3, SaveOf
    <3>2. Cardinality(asked[p]) \in Nat
      BY PartsAreFinite DEF TInv, TypeOK
    <3> QED BY <1>0, <2>3, <3>1, <3>2, InitializedParts DEF CountsOnce
  <2> QED BY <2>1, <2>2, <2>3
<1> QED BY <1>1, <1>2

LEMMA SavesKnownStep ==
  ASSUME TInv, Next
  PROVE  SavesKnown
<1> SUFFICES ASSUME NEW p \in Staff, Saves(p)
             PROVE  /\ targets'.selected \subseteq ever[p].known
                    /\ targets'.linked \subseteq ever[p].linked
  BY DEF SavesKnown
<1> TypeOK
  BY DEF TInv
<1>1. op' # op \/ targets' # targets
  BY DEF Saves
<1>2. PICK q \in Staff : (pc[q] = "create" /\ \A r \in Staff : r # q => Stays(r))
                         \/ (StoreTargets(q) /\ MayWrite(q))
  BY <1>1, OperationWritten
<1>3. \A r \in Staff : r # q => Stays(r)
  BY <1>2, OthersStay DEF Acts
<1>4. p = q /\ StoreTargets(p) /\ MayWrite(p)
  BY <1>2, <1>3 DEF Saves, Stays
<1>5. /\ asked[p] \subseteq Candidates(listing[p]) \cup kept[p]
      /\ Candidates(listing[p]) \subseteq ever[p].known /\ kept[p] \subseteq ever[p].known
      /\ linkage[p] \subseteq ever[p].linked
  BY DEF TInv, CopyIsStored, AnswersWereSo, AnswersOf, Saves
<1> QED BY <1>4, <1>5, SaveOf

\* However the other systems and the other staff change what a request has
\* read (create_operation, replace_targets): the types, and what it rests on.
THEOREM SelectionInvariant ==
  ASSUME SelectionConstants
  PROVE  Spec => []TInv
<1>1. Init => TInv
  BY TInvInit
<1>2. TInv /\ [Next]_vars => TInv'
  BY TInvStep
<1> QED
  BY <1>1, <1>2, PTL DEF Spec

\* The first save of an automatic operation is the selection of at most Limit
\* members from facts that held during the request, its size is the initial
\* count for good, and nobody is saved who was not known (replace_targets).
THEOREM SavesAlwaysRight ==
  ASSUME SelectionConstants
  PROVE  Spec => [][SavesSelection /\ CountsOnce /\ SavesKnown]_vars
<1>1. TInv /\ [Next]_vars => [SavesSelection /\ CountsOnce /\ SavesKnown]_vars
  BY SavesSelectionStep, CountsOnceStep, SavesKnownStep
<1> QED
  BY <1>1, SelectionInvariant, PTL DEF Spec
=============================================================================
