-------------------------- MODULE AutomaticSelection --------------------------
(***************************************************************************)
(* select_automatic_members: which candidates of a job the automatic mode  *)
(* selects.  Member numbers are digit strings of any length, ordered as    *)
(* the numbers they stand for; the provider lists candidates in any order. *)
(***************************************************************************)
EXTENDS Integers, Sequences, FiniteSets, SequencesExt, StableSorting

CONSTANTS
  Members,      \* member ids, naturals ordered like the ids
  Numbers,      \* member numbers: strings as sequences of characters, 0..9 is
                \* a digit, <<>> stands for an empty or missing one
  Profiles,     \* the level, linkage and eligibility a candidate may have
  Limit         \* how many are selected at most

MemberAssumption == Members \subseteq Nat /\ IsFiniteSet(Members)
NumberAssumption == Numbers \subseteq Seq(Nat)
ProfileAssumption ==
  Profiles \subseteq [level : 0..5, linked : BOOLEAN, eligible : BOOLEAN]
LimitAssumption == Limit \in Nat

VARIABLES
  listed,   \* the candidates as the provider lists them
  selected, \* the selected ids, in order
  outcome   \* "pending", "selected", or "incomplete": the ValueError

vars == <<listed, selected, outcome>>

Candidates == [id : Members, number : Numbers, profile : Profiles]

\* An unrated candidate has level 0.
Fit(c) == c.profile.level = 5 /\ c.profile.linked /\ c.profile.eligible
IsNumeric(number) == number # <<>> /\ \A i \in DOMAIN number : number[i] \in 0..9

\* lstrip("0") or "0".
Stripped(number) ==
  LET digits == {i \in DOMAIN number : number[i] # 0}
      first  == CHOOSE i \in digits : \A j \in digits : i <= j
  IN  IF digits = {} THEN <<0>> ELSE SubSeq(number, first, Len(number))

\* As text; in place of Smaller a variant that ignores the length.
SmallerAsText(a, b) ==
  \/ a # b /\ IsPrefix(a, b)
  \/ \E i \in DOMAIN a \cap DOMAIN b :
       a[i] < b[i] /\ \A j \in 1..(i - 1) : a[j] = b[j]
\* Two stripped numbers: by length, then as text.
Smaller(a, b) ==
  \/ Len(a) < Len(b)
  \/ Len(a) = Len(b) /\ SmallerAsText(a, b)

\* By id, then, stably, by number in reverse.
ById(c, d) == c.id < d.id
HighestFirst(c, d) == Smaller(Stripped(d.number), Stripped(c.number))
SortedCandidates(candidates) == StableSort(StableSort(candidates, ById), HighestFirst)

\* The fit ones, as they are listed.
FitOf(candidates) ==
  LET upTo[i \in 0..Len(candidates)] ==
        IF i = 0 THEN <<>>
        ELSE IF Fit(candidates[i]) THEN Append(upTo[i - 1], candidates[i])
        ELSE upTo[i - 1]
  IN  upTo[Len(candidates)]

SelectHighest(candidates) ==
  LET best == SortedCandidates(FitOf(candidates))
  IN  [i \in 1..(IF Len(best) < Limit THEN Len(best) ELSE Limit) |-> best[i].id]

Comparable(candidates) ==
  \A i \in DOMAIN candidates : Fit(candidates[i]) => IsNumeric(candidates[i].number)

-----------------------------------------------------------------------------
Init ==
  /\ \E order \in SetToSeqs(Members),
        number \in [Members -> Numbers], profile \in [Members -> Profiles] :
       listed = [i \in DOMAIN order |-> [id |-> order[i], number |-> number[order[i]],
                                         profile |-> profile[order[i]]]]
  /\ selected = <<>>
  /\ outcome = "pending"

Answer ==
  /\ outcome = "pending"
  /\ IF Comparable(listed)
     THEN selected' = SelectHighest(listed) /\ outcome' = "selected"
     ELSE outcome' = "incomplete" /\ UNCHANGED selected
  /\ UNCHANGED listed

Next == Answer
Spec == Init /\ [][Next]_vars

-----------------------------------------------------------------------------
(* What the selection has to be, from the numbers themselves.                *)

Value(number) ==
  LET upTo[i \in 0..Len(number)] == IF i = 0 THEN 0 ELSE 10 * upTo[i - 1] + number[i]
  IN  upTo[Len(number)]

\* c goes before d: the higher number, the lower id among equal numbers.
Beats(c, d) ==
  \/ Value(c.number) > Value(d.number)
  \/ Value(c.number) = Value(d.number) /\ c.id < d.id

FitCandidates == {c \in ToSet(listed) : Fit(c)}

\* A candidate is selected exactly when it is fit and fewer than Limit fit
\* candidates go before it, and those selected are in that order.
SelectsTheHighest ==
  outcome = "selected" =>
    /\ ToSet(selected) = {c.id : c \in {f \in FitCandidates :
         Cardinality({d \in FitCandidates : Beats(d, f)}) < Limit}}
    /\ \A i, k \in DOMAIN selected : i < k =>
         \E c, d \in FitCandidates :
           c.id = selected[i] /\ d.id = selected[k] /\ Beats(c, d)

\* Nobody is selected by a guess: one fit candidate without a number that can
\* be compared, in however low a place, and there is no selection at all.
NeverGuesses ==
  outcome # "pending" =>
    ((outcome = "incomplete") <=> \E c \in FitCandidates : ~IsNumeric(c.number))
=============================================================================
