---------------------------- MODULE StableSorting ----------------------------
(* list.sort, the sort of the language: stable.                              *)
EXTENDS Integers, FiniteSets

\* Before(a, b) puts a first; elements neither of which comes first keep
\* their order.  Everything goes where as many go before it.
StableSort(seq, Before(_, _)) ==
  LET Precedes(i, k) ==
        Before(seq[i], seq[k]) \/ (~Before(seq[k], seq[i]) /\ i < k)
      Place(i) == Cardinality({k \in DOMAIN seq : Precedes(k, i)}) + 1
  IN  [p \in DOMAIN seq |-> seq[CHOOSE i \in DOMAIN seq : Place(i) = p]]
=============================================================================
