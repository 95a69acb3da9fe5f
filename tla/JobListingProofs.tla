--------------------------- MODULE JobListingProofs ---------------------------
(***************************************************************************)
(* A list of jobs that is returned is complete and in order, and a         *)
(* provider at rest is not refused, for any jobs, dates, page sizes and    *)
(* limits, as long as the changes of the provider are of kinds that a      *)
(* total, or without one the pages, reveal together.  The lemmas say what  *)
(* a sort by places does, for any strict order.                            *)
(***************************************************************************)
EXTENDS JobListing, FiniteSetTheorems, SequenceTheorems, TLAPS

\* The changes a listing can tell.  A registration between count and rows
\* pushes a job off the page unseen; a registration and a withdrawal leave the
\* total as it was; without a total a withdrawal that pulls jobs up is not seen.
Revealed ==
  \A S \in Surroundings :
    /\ Counting = "before" => "register" \notin S
    /\ Counting = "with" => "register" \notin S \/ "withdraw" \notin S
    /\ Counting = "never" => "withdraw" \notin S

ListingConstants ==
  /\ JobAssumption /\ DateAssumption /\ PageAssumption /\ CountingAssumption
  /\ ChangeAssumption /\ Revealed

-----------------------------------------------------------------------------
(* The inductive invariant *)

Reading == {"count", "rows"}
Offset == (page - 1) * PageSize

\* What is known of the number of jobs: the last total, or that of the page
\* under way.
Known == IF expected # NoTotal THEN expected ELSE total

\* Where the listing is.
CollectedSoFar ==
  /\ IsInjective(collected)
  /\ throughout \subseteq Present \/ pc \notin Reading
  /\ pc \in Reading => page <= MaxPages
  /\ pc = "count" => total = NoTotal
  /\ pc = "rows" /\ Counting = "before" => total # NoTotal
  /\ pc \in Reading =>
       /\ page = 1 => collected = <<>> /\ expected = NoTotal
       /\ page > 1 => (expected = NoTotal <=> Counting = "never")
  /\ Counting # "before" => total = NoTotal
  /\ pc = "listed" \/ pc = "sort" => throughout \subseteq ToSet(collected)

\* Nothing new is found: there are never more jobs than the total said.
BoundedByTotal ==
  pc \in Reading /\ "register" \notin kinds /\ Known # NoTotal =>
    Cardinality(Present \cup ToSet(collected)) <= Known

\* Nothing is lost: what was collected is still there.
CollectedIsPresent ==
  pc \in Reading /\ "withdraw" \notin kinds => ToSet(collected) \subseteq Present

\* Without a total the pages that have a successor are full.
PagesAreFull ==
  pc \in Reading /\ Counting = "never" =>
    Len(collected) = Offset /\ (page > 1 => Offset < Len(jobs))

\* At rest the listing is the provider's.
AtRest ==
  pc \in Reading /\ kinds = {} =>
    /\ page > 1 => Offset < Len(jobs)
    /\ collected = SubSeq(jobs, 1, Offset)
    /\ Known \in {NoTotal, Len(jobs)}
    /\ total \in {NoTotal, Len(jobs)}

ListInv ==
  /\ TypeOK /\ CollectedSoFar /\ BoundedByTotal /\ CollectedIsPresent /\ PagesAreFull
  /\ AtRest /\ ListIsOrdered

-----------------------------------------------------------------------------
(* Sorting: everything goes where as many go before it.                      *)

\* G orders the indices D strictly; i is the PlaceIn(D, G, i)-th; at place p stands f[p].
Orders(G, D) ==
  /\ \A i \in D : <<i, i>> \notin G
  /\ \A i, k \in D : i = k \/ <<i, k>> \in G \/ <<k, i>> \in G
  /\ \A i, k, l \in D : <<i, k>> \in G /\ <<k, l>> \in G => <<i, l>> \in G
PlaceIn(D, G, i) == Cardinality({k \in D : <<k, i>> \in G}) + 1
Fills(f, D, G) ==
  \A p, i \in D : PlaceIn(D, G, i) = p => f[p] \in D /\ PlaceIn(D, G, f[p]) = p

\* In a strict total order different indices have different places, and the
\* places are all of 1..n.
LEMMA PlacesAreApart ==
  ASSUME NEW n \in Nat, NEW D, D = 1..n, NEW G, Orders(G, D)
  PROVE  /\ \A i \in D : PlaceIn(D, G, i) \in D
         /\ \A p \in D : \E i \in D : PlaceIn(D, G, i) = p
         /\ \A i, k \in D : PlaceIn(D, G, i) < PlaceIn(D, G, k) => <<i, k>> \in G
         /\ \A i, k \in D : PlaceIn(D, G, i) = PlaceIn(D, G, k) => i = k
<1> DEFINE Prior(i) == {k \in D : <<k, i>> \in G}
           Place == [i \in D |-> PlaceIn(D, G, i)]
<1>1. IsFiniteSet(D) /\ Cardinality(D) = n
  BY FS_Interval
<1>2. ASSUME NEW i \in D
      PROVE  /\ IsFiniteSet(Prior(i)) /\ Cardinality(Prior(i)) \in Nat
             /\ PlaceIn(D, G, i) = Cardinality(Prior(i)) + 1 /\ PlaceIn(D, G, i) \in D
  <2>1. Prior(i) \in SUBSET D /\ Prior(i) # D
    BY DEF Orders
  <2>2. PlaceIn(D, G, i) = Cardinality(Prior(i)) + 1
    BY DEF PlaceIn
  <2> HIDE DEF Prior
  <2>3. /\ IsFiniteSet(Prior(i)) /\ Cardinality(Prior(i)) \in Nat
        /\ Cardinality(Prior(i)) <= Cardinality(D) /\ Cardinality(Prior(i)) # Cardinality(D)
    BY <1>1, <2>1, FS_Subset, FS_CardinalityType
  <2>4. Cardinality(Prior(i)) + 1 \in 1..n
    BY <1>1, <2>3
  <2> QED BY <2>2, <2>3, <2>4
<1>3. ASSUME NEW i \in D, NEW k \in D, <<i, k>> \in G
      PROVE  PlaceIn(D, G, i) < PlaceIn(D, G, k)
  <2>1. Prior(i) \in SUBSET Prior(k) /\ Prior(i) # Prior(k)
    BY <1>3 DEF Orders
  <2>2. /\ IsFiniteSet(Prior(k)) /\ Cardinality(Prior(i)) \in Nat /\ Cardinality(Prior(k)) \in Nat
        /\ PlaceIn(D, G, i) = Cardinality(Prior(i)) + 1
        /\ PlaceIn(D, G, k) = Cardinality(Prior(k)) + 1
    BY <1>2
  <2> HIDE DEF Prior
  <2>3. /\ Cardinality(Prior(i)) <= Cardinality(Prior(k))
        /\ Cardinality(Prior(i)) # Cardinality(Prior(k))
    BY <2>1, <2>2, FS_Subset
  <2> QED BY <2>2, <2>3
<1>4. \A i \in D : PlaceIn(D, G, i) \in D /\ PlaceIn(D, G, i) \in Nat
  <2> SUFFICES ASSUME NEW i \in D PROVE PlaceIn(D, G, i) \in D
    OBVIOUS
  <2> QED BY <1>2
<1> HIDE DEF Prior
<1>5. ASSUME NEW i \in D, NEW k \in D
      PROVE  /\ PlaceIn(D, G, i) < PlaceIn(D, G, k) => <<i, k>> \in G
             /\ PlaceIn(D, G, i) = PlaceIn(D, G, k) => i = k
  <2>1. i = k \/ <<i, k>> \in G \/ <<k, i>> \in G
    BY DEF Orders
  <2>2. PlaceIn(D, G, i) \in Nat /\ PlaceIn(D, G, k) \in Nat
    BY <1>4
  <2> QED BY <1>3, <2>1, <2>2
<1>6. Place \in Injection(D, D)
  BY <1>4, <1>5 DEF Injection, IsInjective
<1>7. Place \in Surjection(D, D)
  <2> HIDE DEF Place
  <2> QED BY <1>1, <1>6, FS_Injection
<1>8. \A p \in D : \E i \in D : PlaceIn(D, G, i) = p
  BY <1>7 DEF Surjection
<1> QED BY <1>4, <1>5, <1>8

\* What stands at each place: every index once, and in the order.
LEMMA Arranged ==
  ASSUME NEW n \in Nat, NEW D, D = 1..n, NEW G, NEW f, Orders(G, D), Fills(f, D, G)
  PROVE  /\ \A p \in D : f[p] \in D
         /\ \A i \in D : \E p \in D : f[p] = i
         /\ \A p, q \in D : f[p] = f[q] => p = q
         /\ \A p, q \in D : p < q => <<f[p], f[q]>> \in G
<1>1. /\ \A i \in D : PlaceIn(D, G, i) \in D
      /\ \A p \in D : \E i \in D : PlaceIn(D, G, i) = p
      /\ \A i, k \in D : PlaceIn(D, G, i) < PlaceIn(D, G, k) => <<i, k>> \in G
      /\ \A i, k \in D : PlaceIn(D, G, i) = PlaceIn(D, G, k) => i = k
  BY PlacesAreApart
<1>2. \A p \in D : f[p] \in D /\ PlaceIn(D, G, f[p]) = p
  BY ONLY <1>1, Fills(f, D, G) DEF Fills
<1>3. \A i \in D : f[PlaceIn(D, G, i)] = i
  BY ONLY <1>1, <1>2
<1> QED BY ONLY <1>1, <1>2, <1>3

\* What such a sort returns: the elements, in the order.
LEMMA SortedBy ==
  ASSUME NEW S, NEW s \in Seq(S), NEW D, D = DOMAIN s, NEW G, NEW f,
         Orders(G, D), Fills(f, D, G), NEW t, t = [p \in D |-> s[f[p]]]
  PROVE  /\ t \in Seq(S) /\ Len(t) = Len(s) /\ DOMAIN t = D /\ ToSet(t) = ToSet(s)
         /\ IsInjective(s) => IsInjective(t)
         /\ \A p \in D : f[p] \in D /\ t[p] = s[f[p]]
         /\ \A p, q \in D : p < q => <<f[p], f[q]>> \in G
<1>1. Len(s) \in Nat /\ D = 1..Len(s) /\ \A i \in D : s[i] \in S
  OBVIOUS
<1>2. /\ \A p \in D : f[p] \in D
      /\ \A i \in D : \E p \in D : f[p] = i
      /\ \A p, q \in D : f[p] = f[q] => p = q
      /\ \A p, q \in D : p < q => <<f[p], f[q]>> \in G
  BY <1>1, Arranged
<1>3. t \in [1..Len(s) -> S]
  BY <1>1, <1>2
<1>4. t \in Seq(S) /\ Len(t) = Len(s) /\ DOMAIN t = D /\ \A p \in D : t[p] = s[f[p]]
  BY <1>1, <1>3
<1>5. ToSet(t) = ToSet(s)
  BY <1>2, <1>4 DEF ToSet
<1>6. IsInjective(s) => IsInjective(t)
  <2> SUFFICES ASSUME IsInjective(s), NEW p \in D, NEW q \in D, t[p] = t[q]
               PROVE  p = q
    BY <1>4 DEF IsInjective
  <2>1. s[f[p]] = s[f[q]] /\ f[p] \in DOMAIN s /\ f[q] \in DOMAIN s
    BY <1>2, <1>4
  <2>2. f[p] = f[q]
    BY <2>1 DEF IsInjective
  <2> QED BY <1>2, <2>2
<1> QED BY ONLY <1>2, <1>4, <1>5, <1>6

\* sort by external_job_id: distinct numbers.
LEMMA SortedById ==
  ASSUME ListingConstants, NEW s \in Seq(Jobs), IsInjective(s)
  PROVE  LET t == StableSort(s, ById) IN
         /\ t \in Seq(Jobs) /\ Len(t) = Len(s) /\ ToSet(t) = ToSet(s) /\ IsInjective(t)
         /\ DOMAIN t = DOMAIN s
         /\ \A p, q \in DOMAIN s : p < q => t[p] < t[q]
<1> DEFINE D == DOMAIN s
           t == StableSort(s, ById)
           G == {e \in D \X D : s[e[1]] < s[e[2]]}
           f == [p \in D |-> CHOOSE i \in D :
                  Cardinality({k \in D : ById(s[k], s[i]) \/ (~ById(s[i], s[k]) /\ k < i)}) + 1 = p]
<1>0. Jobs \subseteq Nat
  BY DEF ListingConstants, JobAssumption
<1>1. D = 1..Len(s) /\ \A i \in D : s[i] \in Nat
  <2>1. D = 1..Len(s) /\ \A i \in D : s[i] \in Jobs
    OBVIOUS
  <2> QED BY ONLY <1>0, <2>1
<1>2. \A i, k \in D : s[i] = s[k] => i = k
  BY DEF IsInjective
<1>3. \A i, k \in D : <<i, k>> \in G <=> s[i] < s[k]
  OBVIOUS
<1>4. t = [p \in D |-> s[f[p]]]
  BY DEF StableSort
<1> HIDE DEF G
<1>5. \A i, k \in D : ById(s[i], s[k]) \/ (~ById(s[k], s[i]) /\ i < k) <=> <<i, k>> \in G
  <2> SUFFICES ASSUME NEW i \in D, NEW k \in D
               PROVE  s[i] < s[k] \/ (~(s[k] < s[i]) /\ i < k) <=> s[i] < s[k]
    BY <1>3 DEF ById
  <2>1. s[i] \in Nat /\ s[k] \in Nat /\ (s[i] = s[k] => i = k) /\ i \in Nat
    BY <1>1, <1>2
  <2> QED BY ONLY <2>1
<1>6. Fills(f, D, G)
  <2>1. \A i \in D :
          PlaceIn(D, G, i)
            = Cardinality({k \in D : ById(s[k], s[i]) \/ (~ById(s[i], s[k]) /\ k < i)}) + 1
    <3>1. \A i \in D : {k \in D : ById(s[k], s[i]) \/ (~ById(s[i], s[k]) /\ k < i)}
                         = {k \in D : <<k, i>> \in G}
      BY <1>5
    <3> QED BY <3>1 DEF PlaceIn
  <2> SUFFICES ASSUME NEW p \in D, NEW i \in D, PlaceIn(D, G, i) = p
               PROVE  f[p] \in D /\ PlaceIn(D, G, f[p]) = p
    BY DEF Fills
  <2>2. /\ f[p] \in D
        /\ Cardinality({k \in D : ById(s[k], s[f[p]]) \/ (~ById(s[f[p]], s[k]) /\ k < f[p])}) + 1 = p
    BY <2>1
  <2> QED BY <2>1, <2>2
<1>7. Orders(G, D)
  BY <1>1, <1>2, <1>3 DEF Orders
<1>8. /\ t \in Seq(Jobs) /\ Len(t) = Len(s) /\ DOMAIN t = D /\ ToSet(t) = ToSet(s)
      /\ IsInjective(s) => IsInjective(t)
      /\ \A p \in D : f[p] \in D /\ t[p] = s[f[p]]
      /\ \A p, q \in D : p < q => <<f[p], f[q]>> \in G
  <2>1. D = DOMAIN s
    OBVIOUS
  <2> HIDE DEF D, f, t
  <2> QED BY ONLY <1>4, <1>6, <1>7, <2>1, s \in Seq(Jobs), SortedBy
<1> HIDE DEF t, f
<1>9. \A p, q \in D : p < q => t[p] < t[q]
  BY <1>3, <1>8
<1> QED BY <1>8, <1>9 DEF t

\* sort by date, latest first: ties are broken by the order they come in.
LEMMA SortedLatest ==
  ASSUME ListingConstants, NEW s \in Seq(Jobs)
  PROVE  LET t == StableSort(s, LatestFirst) IN
         /\ t \in Seq(Jobs) /\ Len(t) = Len(s) /\ ToSet(t) = ToSet(s)
         /\ IsInjective(s) => IsInjective(t)
         /\ DOMAIN t = DOMAIN s
         /\ \A p, q \in DOMAIN s : p < q =>
              \E i, k \in DOMAIN s :
                /\ t[p] = s[i] /\ t[q] = s[k]
                /\ \/ CreatedAt[s[i]] > CreatedAt[s[k]]
                   \/ CreatedAt[s[i]] = CreatedAt[s[k]] /\ i < k
<1> DEFINE D == DOMAIN s
           t == StableSort(s, LatestFirst)
           d == [i \in D |-> CreatedAt[s[i]]]
           G == {e \in D \X D : d[e[1]] > d[e[2]] \/ (d[e[1]] = d[e[2]] /\ e[1] < e[2])}
           f == [p \in D |-> CHOOSE i \in D :
                  Cardinality({k \in D : \/ LatestFirst(s[k], s[i])
                                         \/ ~LatestFirst(s[i], s[k]) /\ k < i}) + 1 = p]
<1>0. CreatedAt \in [Jobs -> Nat \cup {-1}] /\ Undated = -1
  BY DEF ListingConstants, DateAssumption
<1>1. D = 1..Len(s) /\ \A i \in D : s[i] \in Jobs
  OBVIOUS
<1>2. \A i \in D : d[i] \in Nat \cup {-1} /\ d[i] = CreatedAt[s[i]]
  BY ONLY <1>0, <1>1
<1>3. \A i, k \in D : <<i, k>> \in G <=> d[i] > d[k] \/ (d[i] = d[k] /\ i < k)
  OBVIOUS
<1>4. t = [p \in D |-> s[f[p]]]
  BY DEF StableSort
<1> HIDE DEF G, d
<1>5. \A i, k \in D :
        LatestFirst(s[i], s[k]) \/ (~LatestFirst(s[k], s[i]) /\ i < k) <=> <<i, k>> \in G
  <2> SUFFICES ASSUME NEW i \in D, NEW k \in D
               PROVE  LatestFirst(s[i], s[k]) \/ (~LatestFirst(s[k], s[i]) /\ i < k)
                        <=> d[i] > d[k] \/ (d[i] = d[k] /\ i < k)
    BY <1>3
  <2>1. /\ d[i] \in Nat \cup {-1} /\ d[i] = CreatedAt[s[i]]
        /\ d[k] \in Nat \cup {-1} /\ d[k] = CreatedAt[s[k]]
    BY <1>2
  <2>2. /\ LatestFirst(s[i], s[k]) <=> d[i] > d[k]
        /\ LatestFirst(s[k], s[i]) <=> d[k] > d[i]
    BY ONLY <1>0, <2>1 DEF LatestFirst
  <2> QED BY ONLY <2>1, <2>2
<1>6. Fills(f, D, G)
  <2>1. \A i \in D :
          PlaceIn(D, G, i)
            = Cardinality({k \in D : \/ LatestFirst(s[k], s[i])
                                     \/ ~LatestFirst(s[i], s[k]) /\ k < i}) + 1
    <3>1. \A i \in D : {k \in D : \/ LatestFirst(s[k], s[i])
                                  \/ ~LatestFirst(s[i], s[k]) /\ k < i}
                         = {k \in D : <<k, i>> \in G}
      BY <1>5
    <3> QED BY <3>1 DEF PlaceIn
  <2> SUFFICES ASSUME NEW p \in D, NEW i \in D, PlaceIn(D, G, i) = p
               PROVE  f[p] \in D /\ PlaceIn(D, G, f[p]) = p
    BY DEF Fills
  <2>2. /\ f[p] \in D
        /\ Cardinality({k \in D : \/ LatestFirst(s[k], s[f[p]])
                                  \/ ~LatestFirst(s[f[p]], s[k]) /\ k < f[p]}) + 1 = p
    BY <2>1
  <2> QED BY <2>1, <2>2
<1>7. Orders(G, D)
  <2>1. D \subseteq Nat /\ \A i \in D : d[i] \in Int
    BY <1>1, <1>2
  <2>2. \A i \in D : <<i, i>> \notin G
    BY ONLY <1>3, <2>1
  <2>3. \A i, k \in D : i = k \/ <<i, k>> \in G \/ <<k, i>> \in G
    <3> SUFFICES ASSUME NEW i \in D, NEW k \in D, i # k
                 PROVE  \/ d[i] > d[k] \/ (d[i] = d[k] /\ i < k)
                        \/ d[k] > d[i] \/ (d[k] = d[i] /\ k < i)
      BY <1>3
    <3>1. d[i] \in Int /\ d[k] \in Int /\ i \in Nat /\ k \in Nat
      BY <2>1
    <3> QED BY ONLY <3>1, i # k
  <2>4. \A i, k, l \in D : <<i, k>> \in G /\ <<k, l>> \in G => <<i, l>> \in G
    <3> SUFFICES ASSUME NEW i \in D, NEW k \in D, NEW l \in D, <<i, k>> \in G, <<k, l>> \in G
                 PROVE  d[i] > d[l] \/ (d[i] = d[l] /\ i < l)
      BY <1>3
    <3>1. /\ d[i] > d[k] \/ (d[i] = d[k] /\ i < k)
          /\ d[k] > d[l] \/ (d[k] = d[l] /\ k < l)
      BY <1>3
    <3> QED BY <2>1, <3>1
  <2> QED BY <2>2, <2>3, <2>4 DEF Orders
<1>8. /\ t \in Seq(Jobs) /\ Len(t) = Len(s) /\ DOMAIN t = D /\ ToSet(t) = ToSet(s)
      /\ IsInjective(s) => IsInjective(t)
      /\ \A p \in D : f[p] \in D /\ t[p] = s[f[p]]
      /\ \A p, q \in D : p < q => <<f[p], f[q]>> \in G
  <2>1. D = DOMAIN s
    OBVIOUS
  <2> HIDE DEF D, f, t
  <2> QED BY ONLY <1>4, <1>6, <1>7, <2>1, s \in Seq(Jobs), SortedBy
<1> HIDE DEF t, f
<1>9. ASSUME NEW p \in D, NEW q \in D, p < q
      PROVE  \E i, k \in D :
               /\ t[p] = s[i] /\ t[q] = s[k]
               /\ \/ CreatedAt[s[i]] > CreatedAt[s[k]]
                  \/ CreatedAt[s[i]] = CreatedAt[s[k]] /\ i < k
  <2>1. f[p] \in D /\ f[q] \in D /\ t[p] = s[f[p]] /\ t[q] = s[f[q]] /\ <<f[p], f[q]>> \in G
    BY <1>8, <1>9
  <2>2. d[f[p]] > d[f[q]] \/ (d[f[p]] = d[f[q]] /\ f[p] < f[q])
    BY <1>3, <2>1
  <2>3. d[f[p]] = CreatedAt[s[f[p]]] /\ d[f[q]] = CreatedAt[s[f[q]]]
    BY <1>2, <2>1
  <2> QED BY ONLY <2>1, <2>2, <2>3
<1> QED BY <1>8, <1>9 DEF t

\* What SortJobs returns: the same jobs, in the promised order.
LEMMA SortedJobs ==
  ASSUME ListingConstants, NEW s \in Seq(Jobs), IsInjective(s)
  PROVE  LET t == Sorted(s) IN
         /\ t \in Seq(Jobs) /\ ToSet(t) = ToSet(s) /\ IsInjective(t)
         /\ \A p, q \in DOMAIN t : p < q =>
              \/ CreatedAt[t[p]] > CreatedAt[t[q]]
              \/ CreatedAt[t[p]] = CreatedAt[t[q]] /\ t[p] < t[q]
<1> DEFINE r == StableSort(s, ById)
           t == StableSort(r, LatestFirst)
<1>1. /\ r \in Seq(Jobs) /\ ToSet(r) = ToSet(s) /\ IsInjective(r)
      /\ DOMAIN r = DOMAIN s /\ \A p, q \in DOMAIN s : p < q => r[p] < r[q]
  BY SortedById
<1> HIDE DEF r
<1>2. /\ t \in Seq(Jobs) /\ ToSet(t) = ToSet(r) /\ IsInjective(t) /\ DOMAIN t = DOMAIN r
      /\ \A p, q \in DOMAIN r : p < q =>
           \E i, k \in DOMAIN r :
             /\ t[p] = r[i] /\ t[q] = r[k]
             /\ \/ CreatedAt[r[i]] > CreatedAt[r[k]]
                \/ CreatedAt[r[i]] = CreatedAt[r[k]] /\ i < k
  BY <1>1, SortedLatest
<1>3. t = Sorted(s)
  BY DEF Sorted, r
<1> HIDE DEF t
<1>4. ASSUME NEW p \in DOMAIN t, NEW q \in DOMAIN t, p < q
      PROVE  \/ CreatedAt[t[p]] > CreatedAt[t[q]]
             \/ CreatedAt[t[p]] = CreatedAt[t[q]] /\ t[p] < t[q]
  <2>1. PICK i \in DOMAIN r, k \in DOMAIN r :
               /\ t[p] = r[i] /\ t[q] = r[k]
               /\ \/ CreatedAt[r[i]] > CreatedAt[r[k]]
                  \/ CreatedAt[r[i]] = CreatedAt[r[k]] /\ i < k
    BY <1>2, <1>4
  <2> QED BY <1>1, <2>1
<1> QED BY <1>1, <1>2, <1>3, <1>4

-----------------------------------------------------------------------------
(* Sequences of distinct elements *)

LEMMA Counted ==
  ASSUME NEW S, NEW s \in Seq(S), IsInjective(s)
  PROVE  IsFiniteSet(ToSet(s)) /\ Cardinality(ToSet(s)) = Len(s)
<1>1. Len(s) \in Nat /\ DOMAIN s = 1..Len(s) /\ s \in [1..Len(s) -> ToSet(s)]
  BY DEF ToSet
<1>2. IsFiniteSet(1..Len(s)) /\ Cardinality(1..Len(s)) = Len(s)
  BY <1>1, FS_Interval
<1>3. s \in Surjection(1..Len(s), ToSet(s)) /\ s \in Injection(1..Len(s), ToSet(s))
  BY <1>1 DEF Surjection, Injection, IsInjective, ToSet
<1> QED BY <1>2, <1>3, FS_Surjection

Apart(s, t) == ToSet(s) \cap ToSet(t) = {}

LEMMA Concatenated ==
  ASSUME NEW S, NEW s \in Seq(S), NEW t \in Seq(S)
  PROVE  /\ s \o t \in Seq(S) /\ Len(s \o t) = Len(s) + Len(t)
         /\ ToSet(s \o t) = ToSet(s) \cup ToSet(t)
         /\ IsInjective(s) /\ IsInjective(t) /\ Apart(s, t) => IsInjective(s \o t)
<1> DEFINE u == s \o t
<1>1. /\ u \in Seq(S) /\ Len(u) = Len(s) + Len(t)
      /\ \A i \in 1..(Len(s) + Len(t)) : u[i] = IF i <= Len(s) THEN s[i] ELSE t[i - Len(s)]
  BY ConcatProperties
<1> HIDE DEF u
<1>2. /\ Len(s) \in Nat /\ DOMAIN s = 1..Len(s) /\ Len(t) \in Nat /\ DOMAIN t = 1..Len(t)
      /\ DOMAIN u = 1..(Len(s) + Len(t))
  BY <1>1
<1>3. /\ \A i \in DOMAIN s : i \in DOMAIN u /\ u[i] = s[i]
      /\ \A i \in DOMAIN t : Len(s) + i \in DOMAIN u /\ u[Len(s) + i] = t[i]
  <2>1. ASSUME NEW i \in DOMAIN s PROVE i \in DOMAIN u /\ u[i] = s[i]
    BY <1>1, <1>2
  <2>2. ASSUME NEW i \in DOMAIN t PROVE Len(s) + i \in DOMAIN u /\ u[Len(s) + i] = t[i]
    <3>1. /\ Len(s) + i \in 1..(Len(s) + Len(t)) /\ ~(Len(s) + i <= Len(s))
          /\ (Len(s) + i) - Len(s) = i
      BY <1>2
    <3> QED BY <1>1, <1>2, <3>1
  <2> QED BY <2>1, <2>2
<1>4. \A i \in DOMAIN u : \/ i \in DOMAIN s /\ u[i] = s[i]
                          \/ i - Len(s) \in DOMAIN t /\ u[i] = t[i - Len(s)] /\ i \notin DOMAIN s
  <2> SUFFICES ASSUME NEW i \in DOMAIN u
               PROVE  \/ i \in DOMAIN s /\ u[i] = s[i]
                      \/ i - Len(s) \in DOMAIN t /\ u[i] = t[i - Len(s)] /\ i \notin DOMAIN s
    OBVIOUS
  <2>1. CASE i <= Len(s)
    BY <1>1, <1>2, <2>1
  <2>2. CASE ~(i <= Len(s))
    BY <1>1, <1>2, <2>2
  <2> QED BY <2>1, <2>2
<1>5. ToSet(u) = ToSet(s) \cup ToSet(t)
  <2>1. ToSet(u) \subseteq ToSet(s) \cup ToSet(t)
    BY <1>4 DEF ToSet
  <2>2. ToSet(s) \subseteq ToSet(u) /\ ToSet(t) \subseteq ToSet(u)
    BY <1>3 DEF ToSet
  <2> QED BY <2>1, <2>2
<1>6. ASSUME IsInjective(s), IsInjective(t), Apart(s, t) PROVE IsInjective(u)
  <2> SUFFICES ASSUME NEW i \in DOMAIN u, NEW k \in DOMAIN u, u[i] = u[k] PROVE i = k
    BY DEF IsInjective
  <2>1. ~(u[i] \in ToSet(s) /\ u[i] \in ToSet(t))
    BY <1>6 DEF Apart
  <2>2. CASE i \in DOMAIN s /\ u[i] = s[i]
    <3>1. k \in DOMAIN s /\ u[k] = s[k]
      BY <1>4, <2>1, <2>2 DEF ToSet
    <3> QED BY <1>6, <2>2, <3>1 DEF IsInjective
  <2>3. CASE i - Len(s) \in DOMAIN t /\ u[i] = t[i - Len(s)] /\ i \notin DOMAIN s
    <3>1. k - Len(s) \in DOMAIN t /\ u[k] = t[k - Len(s)]
      BY <1>4, <2>1, <2>3 DEF ToSet
    <3>2. i - Len(s) = k - Len(s)
      BY <1>6, <2>3, <3>1 DEF IsInjective
    <3> QED BY <1>2, <3>2
  <2> QED BY <1>4, <2>2, <2>3
<1> QED BY <1>1, <1>5, <1>6 DEF u

\* A page of a sequence.
LEMMA Part ==
  ASSUME NEW S, NEW s \in Seq(S), NEW m \in Nat \ {0}, NEW n \in Nat, n <= Len(s)
  PROVE  LET t == SubSeq(s, m, n) IN
         /\ t \in Seq(S) /\ Len(t) = IF m <= n THEN n - m + 1 ELSE 0
         /\ \A i \in m..n : s[i] \in ToSet(t)
         /\ \A x \in ToSet(t) : \E i \in m..n : x = s[i]
         /\ ToSet(t) \subseteq ToSet(s) /\ (IsInjective(s) => IsInjective(t))
<1> DEFINE t == SubSeq(s, m, n)
<1>1. Len(s) \in Nat /\ DOMAIN s = 1..Len(s) /\ \A i \in m..n : i \in DOMAIN s /\ s[i] \in S
  OBVIOUS
<1>2. /\ t \in Seq(S) /\ Len(t) = IF m <= n THEN n - m + 1 ELSE 0
      /\ \A i \in 1..(n - m + 1) : t[i] = s[m + i - 1]
  BY <1>1, SubSeqProperties
<1> HIDE DEF t
<1>3. DOMAIN t = 1..(n - m + 1)
  BY <1>2
<1>4. \A i \in DOMAIN t : m + i - 1 \in m..n /\ t[i] = s[m + i - 1]
  BY <1>2, <1>3
<1>5. \A i \in m..n : i - m + 1 \in DOMAIN t /\ t[i - m + 1] = s[i]
  <2> SUFFICES ASSUME NEW i \in m..n PROVE i - m + 1 \in DOMAIN t /\ t[i - m + 1] = s[i]
    OBVIOUS
  <2>1. i - m + 1 \in 1..(n - m + 1) /\ m + (i - m + 1) - 1 = i
    OBVIOUS
  <2> QED BY <1>2, <1>3, <2>1
<1>6. /\ \A i \in m..n : s[i] \in ToSet(t)
      /\ \A x \in ToSet(t) : \E i \in m..n : x = s[i]
  BY <1>4, <1>5 DEF ToSet
<1>7. ToSet(t) \subseteq ToSet(s)
  BY <1>1, <1>6 DEF ToSet
<1>8. ASSUME IsInjective(s) PROVE IsInjective(t)
  <2> SUFFICES ASSUME NEW i \in DOMAIN t, NEW k \in DOMAIN t, t[i] = t[k] PROVE i = k
    BY DEF IsInjective
  <2>1. m + i - 1 \in DOMAIN s /\ m + k - 1 \in DOMAIN s /\ s[m + i - 1] = s[m + k - 1]
    BY <1>1, <1>4
  <2>2. m + i - 1 = m + k - 1
    BY <1>8, <2>1 DEF IsInjective
  <2> QED BY <1>3, <2>2
<1> QED BY <1>2, <1>6, <1>7, <1>8 DEF t

\* The provider without one of its jobs.
LEMMA WithoutOne ==
  ASSUME jobs \in Seq(Jobs), IsInjective(jobs), NEW j \in Present
  PROVE  /\ Without(j) \in Seq(Jobs) /\ IsInjective(Without(j))
         /\ ToSet(Without(j)) = Present \ {j} /\ Len(Without(j)) = Len(jobs) - 1
<1> DEFINE i == CHOOSE k \in DOMAIN jobs : jobs[k] = j
           s == SubSeq(jobs, 1, i - 1)
           t == SubSeq(jobs, i + 1, Len(jobs))
<1>1. i \in DOMAIN jobs /\ jobs[i] = j
  BY DEF Present, ToSet
<1>2. Without(j) = s \o t
  BY DEF Without, RemoveAt
<1>3. Len(jobs) \in Nat /\ DOMAIN jobs = 1..Len(jobs)
  OBVIOUS
<1> HIDE DEF i
<1>4. i \in Nat \ {0} /\ i <= Len(jobs) /\ i - 1 \in Nat /\ i - 1 <= Len(jobs) /\ i + 1 \in Nat \ {0}
  BY <1>1, <1>3
<1>5. /\ s \in Seq(Jobs) /\ Len(s) = i - 1 /\ IsInjective(s) /\ ToSet(s) \subseteq Present
      /\ \A k \in 1..(i - 1) : jobs[k] \in ToSet(s)
      /\ \A x \in ToSet(s) : \E k \in 1..(i - 1) : x = jobs[k]
  <2> HIDE DEF s
  <2>1. /\ s \in Seq(Jobs) /\ Len(s) = IF 1 <= i - 1 THEN (i - 1) - 1 + 1 ELSE 0
        /\ \A k \in 1..(i - 1) : jobs[k] \in ToSet(s)
        /\ \A x \in ToSet(s) : \E k \in 1..(i - 1) : x = jobs[k]
        /\ ToSet(s) \subseteq ToSet(jobs) /\ (IsInjective(jobs) => IsInjective(s))
    BY <1>4, Part DEF s
  <2> QED BY <1>4, <2>1 DEF Present
<1>6. /\ t \in Seq(Jobs) /\ Len(t) = Len(jobs) - i /\ IsInjective(t) /\ ToSet(t) \subseteq Present
      /\ \A k \in (i + 1)..Len(jobs) : jobs[k] \in ToSet(t)
      /\ \A x \in ToSet(t) : \E k \in (i + 1)..Len(jobs) : x = jobs[k]
  <2> HIDE DEF t
  <2> DEFINE m == i + 1
             n == Len(jobs)
  <2>0. m \in Nat \ {0} /\ n \in Nat /\ n <= Len(jobs) /\ t = SubSeq(jobs, m, n)
    BY <1>3, <1>4 DEF t
  <2> HIDE DEF m, n
  <2>1. /\ t \in Seq(Jobs) /\ Len(t) = IF m <= n THEN n - m + 1 ELSE 0
        /\ \A k \in m..n : jobs[k] \in ToSet(t)
        /\ \A x \in ToSet(t) : \E k \in m..n : x = jobs[k]
        /\ ToSet(t) \subseteq ToSet(jobs) /\ (IsInjective(jobs) => IsInjective(t))
    BY <2>0, Part
  <2> USE DEF m, n
  <2>2. Len(t) = IF i + 1 <= Len(jobs) THEN Len(jobs) - (i + 1) + 1 ELSE 0
    BY ONLY <2>1
  <2>3. Len(t) = Len(jobs) - i
    <3>1. CASE i < Len(jobs)
      <4>1. i + 1 <= Len(jobs) /\ Len(jobs) - (i + 1) + 1 = Len(jobs) - i
        BY <1>3, <1>4, <3>1
      <4> QED BY ONLY <2>2, <4>1
    <3>2. CASE i = Len(jobs)
      <4>1. ~(i + 1 <= Len(jobs)) /\ 0 = Len(jobs) - i
        BY <1>3, <1>4, <3>2
      <4> QED BY ONLY <2>2, <4>1
    <3>3. i < Len(jobs) \/ i = Len(jobs)
      <4>1. i \in 1..Len(jobs) /\ Len(jobs) \in Nat
        BY ONLY <1>1, <1>3
      <4> QED BY ONLY <4>1
    <3> QED BY ONLY <3>1, <3>2, <3>3
  <2> QED BY ONLY <2>1, <2>3, IsInjective(jobs) DEF Present
<1> HIDE DEF s, t
<1>7. \A k, l \in DOMAIN jobs : jobs[k] = jobs[l] => k = l
  BY DEF IsInjective
<1>8. \A x \in ToSet(s) : \E k \in DOMAIN jobs : k < i /\ x = jobs[k]
  BY <1>3, <1>4, <1>5
<1>9. \A x \in ToSet(t) : \E k \in DOMAIN jobs : i < k /\ x = jobs[k]
  BY <1>3, <1>4, <1>6
<1>10. ToSet(s) \cap ToSet(t) = {} /\ j \notin ToSet(s) /\ j \notin ToSet(t)
  <2>1. \A k \in DOMAIN jobs : k \in Int
    BY <1>3
  <2>2. ASSUME NEW x \in ToSet(s), x \in ToSet(t) PROVE FALSE
    BY <1>1, <1>7, <1>8, <1>9, <2>1, <2>2
  <2>3. j \notin ToSet(s)
    BY <1>1, <1>7, <1>8, <2>1
  <2>4. j \notin ToSet(t)
    BY <1>1, <1>7, <1>9, <2>1
  <2> QED BY <2>2, <2>3, <2>4
<1>11. Present \ {j} \subseteq ToSet(s) \cup ToSet(t)
  <2> SUFFICES ASSUME NEW k \in DOMAIN jobs, jobs[k] # j
               PROVE  jobs[k] \in ToSet(s) \cup ToSet(t)
    BY DEF Present, ToSet
  <2>1. k \in 1..(i - 1) \/ k \in (i + 1)..Len(jobs)
    BY <1>1, <1>3, <1>4
  <2> QED BY <1>5, <1>6, <2>1
<1>12. /\ s \o t \in Seq(Jobs) /\ Len(s \o t) = Len(s) + Len(t)
       /\ ToSet(s \o t) = ToSet(s) \cup ToSet(t) /\ IsInjective(s \o t)
  <2>1. /\ s \in Seq(Jobs) /\ IsInjective(s) /\ t \in Seq(Jobs) /\ IsInjective(t)
        /\ Apart(s, t)
    BY <1>5, <1>6, <1>10 DEF Apart
  <2> QED BY ONLY <2>1, Concatenated
<1>13. Len(s) + Len(t) = Len(jobs) - 1
  BY <1>3, <1>4, <1>5, <1>6
<1> QED BY <1>2, <1>5, <1>6, <1>10, <1>11, <1>12, <1>13

\* A job at the front.
LEMMA InFront ==
  ASSUME NEW S, NEW j \in S, NEW s \in Seq(S), IsInjective(s), j \notin ToSet(s)
  PROVE  /\ <<j>> \o s \in Seq(S) /\ IsInjective(<<j>> \o s)
         /\ ToSet(<<j>> \o s) = {j} \cup ToSet(s) /\ Len(<<j>> \o s) = Len(s) + 1
<1> DEFINE t == <<j>>
<1>1. /\ t \in Seq(S) /\ Len(t) = 1 /\ ToSet(t) = {j} /\ IsInjective(t)
  BY DEF ToSet, IsInjective
<1> HIDE DEF t
<1>2. /\ t \o s \in Seq(S) /\ Len(t \o s) = Len(t) + Len(s)
      /\ ToSet(t \o s) = ToSet(t) \cup ToSet(s) /\ IsInjective(t \o s)
  <2>1. t \in Seq(S) /\ s \in Seq(S) /\ IsInjective(t) /\ IsInjective(s) /\ Apart(t, s)
    BY <1>1 DEF Apart
  <2> QED BY ONLY <2>1, Concatenated
<1> QED BY <1>1, <1>2 DEF t

-----------------------------------------------------------------------------
(* Pages *)

LEMMA PageArithmetic ==
  ASSUME ListingConstants, NEW p \in Nat \ {0}
  PROVE  /\ (p - 1) * PageSize \in Nat /\ p * PageSize \in Nat /\ PageSize \in Nat \ {0}
         /\ p * PageSize = (p - 1) * PageSize + PageSize
         /\ ((p + 1) - 1) * PageSize = p * PageSize /\ (1 - 1) * PageSize = 0
<1>1. PageSize \in Nat \ {0}
  BY DEF ListingConstants, PageAssumption
<1>2. PICK q \in Nat : p = q + 1
  <2>1. p - 1 \in Nat /\ p = (p - 1) + 1
    OBVIOUS
  <2> QED BY <2>1
<1>3. \A z \in Nat : /\ q * z \in Nat /\ (q + 1) * z \in Nat /\ (q + 1) * z = q * z + z
                     /\ 0 * z = 0
  OBVIOUS
<1>4. p - 1 = q /\ (p + 1) - 1 = q + 1 /\ 1 - 1 = 0
  BY <1>2
<1> QED BY <1>1, <1>2, <1>3, <1>4

\* The rows of a page end here.
Cut == IF page * PageSize < Len(jobs) THEN page * PageSize ELSE Len(jobs)

LEMMA RowsRead ==
  ASSUME ListingConstants, TypeOK
  PROVE  /\ Rows \in Seq(Jobs) /\ IsInjective(Rows) /\ ToSet(Rows) \subseteq Present
         /\ Len(Rows) = IF Offset < Cut THEN Cut - Offset ELSE 0
         /\ \A x \in ToSet(Rows) : \E i \in (Offset + 1)..Cut : x = jobs[i]
         /\ Offset \in Nat /\ Cut \in Nat /\ Cut <= Len(jobs) /\ PageSize \in Nat \ {0}
         /\ page * PageSize = Offset + PageSize
         /\ Rows = SubSeq(jobs, Offset + 1, Cut)
<1>1. /\ jobs \in Seq(Jobs) /\ IsInjective(jobs) /\ page \in Nat \ {0}
  BY DEF TypeOK, ListingConstants, PageAssumption
<1>2. /\ Offset \in Nat /\ PageSize \in Nat \ {0} /\ page * PageSize = Offset + PageSize
  BY <1>1, PageArithmetic DEF Offset
<1>3. Len(jobs) \in Nat
  BY <1>1
<1> DEFINE m == Offset + 1
           n == Cut
<1>4. m \in Nat \ {0} /\ n \in Nat /\ n <= Len(jobs) /\ Offset \in Nat /\ n = Cut
  BY ONLY <1>2, <1>3 DEF Cut
<1>5. Rows = SubSeq(jobs, m, n)
  BY DEF Rows, Cut, Offset
<1>6. IF m <= n THEN n - m + 1 = n - Offset ELSE ~(Offset < n)
  BY ONLY <1>4
<1>7. m <= n <=> Offset < n
  BY ONLY <1>4
<1> HIDE DEF m, n
<1>8. /\ Rows \in Seq(Jobs) /\ Len(Rows) = IF m <= n THEN n - m + 1 ELSE 0
      /\ \A i \in m..n : jobs[i] \in ToSet(Rows)
      /\ \A x \in ToSet(Rows) : \E i \in m..n : x = jobs[i]
      /\ ToSet(Rows) \subseteq ToSet(jobs) /\ (IsInjective(jobs) => IsInjective(Rows))
  BY ONLY <1>1, <1>4, <1>5, Part
<1>9. Len(Rows) = IF Offset < n THEN n - Offset ELSE 0
  BY ONLY <1>6, <1>7, <1>8
<1> USE DEF m, n
<1>10. Offset \in Nat /\ Cut \in Nat /\ Cut <= Len(jobs)
  BY ONLY <1>4
<1> QED BY ONLY <1>1, <1>2, <1>5, <1>8, <1>9, <1>10 DEF Present

-----------------------------------------------------------------------------
(* The steps *)

\* The jobs there and the jobs collected can be counted.
LEMMA CollectedIsFinite ==
  ASSUME ListingConstants, TypeOK
  PROVE  /\ IsFiniteSet(Present) /\ Cardinality(Present) = Len(jobs)
         /\ IsFiniteSet(Present \cup ToSet(collected))
         /\ Cardinality(Present \cup ToSet(collected)) \in Nat
         /\ Present \subseteq Jobs /\ ToSet(collected) \subseteq Jobs
<1>1. IsFiniteSet(Jobs) /\ Present \subseteq Jobs /\ ToSet(collected) \subseteq Jobs
  BY DEF TypeOK, ListingConstants, JobAssumption, Present, ToSet
<1>2. IsFiniteSet(Present) /\ Cardinality(Present) = Len(jobs)
  BY Counted DEF TypeOK, Present
<1>3. IsFiniteSet(Present \cup ToSet(collected))
  <2> DEFINE U == Present \cup ToSet(collected)
  <2>1. U \in SUBSET Jobs
    BY <1>1
  <2> HIDE DEF U
  <2>2. IsFiniteSet(U)
    BY ONLY <1>1, <2>1, FS_Subset
  <2> QED BY <2>2 DEF U
<1> QED BY <1>1, <1>2, <1>3, FS_CardinalityType

\* A change of the provider, of a kind that registers nothing, or withdraws
\* nothing, or neither.
LEMMA ProviderMoves ==
  ASSUME ListingConstants, ListInv, kinds # {},
         UNCHANGED <<kinds, pc, page, total, expected, collected>>,
         changes' \in 0..MaxChanges, jobs' \in Seq(Jobs), IsInjective(jobs'),
         "register" \notin kinds => Present' \subseteq Present,
         "withdraw" \notin kinds => Present \subseteq Present' /\ Len(jobs) <= Len(jobs'),
         throughout' \subseteq throughout,
         pc \in Reading => throughout' \subseteq Present'
  PROVE  ListInv'
<1>1. TypeOK'
  BY DEF ListInv, TypeOK
<1>2. CollectedSoFar'
  BY DEF ListInv, CollectedSoFar, Reading
<1>3. BoundedByTotal'
  <2> SUFFICES ASSUME pc \in Reading, "register" \notin kinds, Known # NoTotal
               PROVE  Cardinality(Present' \cup ToSet(collected)) <= Known
    BY DEF BoundedByTotal, Reading, Known
  <2> DEFINE U == Present \cup ToSet(collected)
             V == Present' \cup ToSet(collected)
  <2>1. IsFiniteSet(U) /\ Cardinality(U) \in Nat
    BY CollectedIsFinite DEF ListInv
  <2>2. V \in SUBSET U
    OBVIOUS
  <2>3. Cardinality(U) <= Known /\ Known \in Nat
    BY DEF ListInv, BoundedByTotal, TypeOK, Known
  <2> HIDE DEF U, V
  <2>4. Cardinality(V) <= Cardinality(U) /\ Cardinality(V) \in Nat
    BY ONLY <2>1, <2>2, FS_Subset, FS_CardinalityType
  <2>5. Cardinality(V) <= Known
    BY ONLY <2>1, <2>3, <2>4
  <2> QED BY <2>5 DEF V
<1>4. CollectedIsPresent'
  BY DEF ListInv, CollectedIsPresent, Reading
<1>5. PagesAreFull'
  <2> SUFFICES ASSUME pc \in Reading, Counting = "never"
               PROVE  Len(collected) = Offset /\ (page > 1 => Offset < Len(jobs'))
    BY DEF PagesAreFull, Reading, Offset
  <2>1. "withdraw" \notin kinds
    BY DEF ListInv, TypeOK, ListingConstants, Revealed
  <2>2. Len(collected) = Offset /\ (page > 1 => Offset < Len(jobs))
    BY DEF ListInv, PagesAreFull
  <2>3. Len(jobs) <= Len(jobs') /\ Len(jobs) \in Nat /\ Len(jobs') \in Nat /\ Offset \in Nat
    BY <2>1, RowsRead DEF ListInv, TypeOK
  <2> QED BY ONLY <2>2, <2>3
<1>6. AtRest'
  BY DEF AtRest
<1>7. ListIsOrdered'
  BY DEF ListInv, ListIsOrdered
<1> QED BY <1>1, <1>2, <1>3, <1>4, <1>5, <1>6, <1>7 DEF ListInv

LEMMA RegisterJobStep ==
  ASSUME ListingConstants, ListInv, NEW j \in Jobs, RegisterJob(j)
  PROVE  ListInv'
<1>1. jobs \in Seq(Jobs) /\ IsInjective(jobs) /\ j \notin ToSet(jobs) /\ Len(jobs) \in Nat
  BY DEF ListInv, TypeOK, RegisterJob, Present
<1>2. jobs' = <<j>> \o jobs
  BY DEF RegisterJob
<1>3. /\ jobs' \in Seq(Jobs) /\ IsInjective(jobs')
      /\ ToSet(jobs') = {j} \cup ToSet(jobs) /\ Len(jobs') = Len(jobs) + 1
  BY ONLY <1>1, <1>2, j \in Jobs, InFront
<1>4. "register" \in kinds /\ changes' \in 0..MaxChanges
  BY DEF RegisterJob, Changes, ListInv, TypeOK, ListingConstants, ChangeAssumption
<1>5. Present' = Present \cup {j}
  BY <1>3 DEF Present
<1>6. throughout' = throughout /\ (pc \in Reading => throughout \subseteq Present)
  BY DEF RegisterJob, ListInv, CollectedSoFar
<1>7. UNCHANGED <<kinds, pc, page, total, expected, collected>>
  BY DEF RegisterJob, Changes
<1>8. Len(jobs) <= Len(jobs')
  BY ONLY <1>1, <1>3
<1> QED BY <1>3, <1>4, <1>5, <1>6, <1>7, <1>8, ProviderMoves

LEMMA UpdateJobStep ==
  ASSUME ListingConstants, ListInv, NEW j \in Jobs, UpdateJob(j)
  PROVE  ListInv'
<1>1. jobs \in Seq(Jobs) /\ IsInjective(jobs) /\ j \in Present /\ Len(jobs) \in Nat
  BY DEF ListInv, TypeOK, UpdateJob
<1> DEFINE w == Without(j)
<1>2. w \in Seq(Jobs) /\ IsInjective(w) /\ ToSet(w) = Present \ {j} /\ Len(w) = Len(jobs) - 1
  BY <1>1, WithoutOne
<1>3. jobs' = <<j>> \o w
  BY DEF UpdateJob
<1> HIDE DEF w
<1>4. j \notin ToSet(w)
  BY <1>2
<1>5. /\ jobs' \in Seq(Jobs) /\ IsInjective(jobs')
      /\ ToSet(jobs') = {j} \cup ToSet(w) /\ Len(jobs') = Len(w) + 1
  BY ONLY <1>2, <1>3, <1>4, j \in Jobs, InFront
<1>6. Present' = Present /\ Len(jobs') = Len(jobs)
  BY <1>1, <1>2, <1>5 DEF Present
<1>7. "update" \in kinds /\ changes' \in 0..MaxChanges
  BY DEF UpdateJob, Changes, ListInv, TypeOK, ListingConstants, ChangeAssumption
<1>8. throughout' = throughout /\ (pc \in Reading => throughout \subseteq Present)
  BY DEF UpdateJob, ListInv, CollectedSoFar
<1>9. UNCHANGED <<kinds, pc, page, total, expected, collected>>
  BY DEF UpdateJob, Changes
<1> QED BY <1>1, <1>5, <1>6, <1>7, <1>8, <1>9, ProviderMoves

LEMMA WithdrawJobStep ==
  ASSUME ListingConstants, ListInv, NEW j \in Jobs, WithdrawJob(j)
  PROVE  ListInv'
<1>1. jobs \in Seq(Jobs) /\ IsInjective(jobs) /\ j \in Present
  BY DEF ListInv, TypeOK, WithdrawJob
<1>2. jobs' = Without(j)
  BY DEF WithdrawJob
<1>3. jobs' \in Seq(Jobs) /\ IsInjective(jobs') /\ Present' = Present \ {j}
  BY <1>1, <1>2, WithoutOne DEF Present
<1>4. "withdraw" \in kinds /\ changes' \in 0..MaxChanges
  BY DEF WithdrawJob, Changes, ListInv, TypeOK, ListingConstants, ChangeAssumption
<1>5. throughout' \subseteq throughout /\ (pc \in Reading => throughout' \subseteq Present')
  BY <1>3 DEF WithdrawJob, ListInv, CollectedSoFar, Reading
<1>6. UNCHANGED <<kinds, pc, page, total, expected, collected>>
  BY DEF WithdrawJob, Changes
<1> QED BY <1>3, <1>4, <1>5, <1>6, ProviderMoves

LEMMA CountJobsStep ==
  ASSUME ListingConstants, ListInv, CountJobs
  PROVE  ListInv'
<1>1. /\ UNCHANGED <<jobs, kinds, changes, page, expected, collected, throughout>>
      /\ pc = "count" /\ pc' = "rows" /\ total = NoTotal
      /\ total' = IF Counting = "before" THEN Len(jobs) ELSE NoTotal
  BY DEF CountJobs, provider, ListInv, CollectedSoFar
<1>2. Len(jobs) \in Nat /\ jobs \in Seq(Jobs) /\ IsInjective(jobs)
  BY DEF ListInv, TypeOK
<1>3. TypeOK'
  BY <1>1, <1>2 DEF ListInv, TypeOK
<1>4. CollectedSoFar'
  <2>1. Present' = Present
    BY <1>1 DEF Present
  <2> QED BY <1>1, <1>2, <2>1 DEF ListInv, CollectedSoFar, Reading, NoTotal
<1>5. BoundedByTotal'
  <2> SUFFICES ASSUME "register" \notin kinds, Known' # NoTotal
               PROVE  Cardinality(Present \cup ToSet(collected)) <= Known'
    BY <1>1 DEF BoundedByTotal, Present
  <2>1. CASE expected # NoTotal
    <3>1. Known' = Known /\ Known # NoTotal
      BY <1>1, <2>1 DEF Known
    <3> QED BY <1>1, <3>1 DEF ListInv, BoundedByTotal, Reading
  <2>2. CASE expected = NoTotal
    <3>1. Known' = total' /\ Counting = "before" /\ Known' = Len(jobs)
      BY <1>1, <2>2 DEF Known
    <3>2. page = 1
      BY <1>1, <2>2, <3>1 DEF ListInv, CollectedSoFar, Reading, TypeOK
    <3>3. collected = <<>>
      BY <1>1, <3>2 DEF ListInv, CollectedSoFar, Reading
    <3>4. Present \cup ToSet(collected) = Present
      BY <3>3 DEF ToSet
    <3>5. Cardinality(Present) = Len(jobs)
      BY <1>2, Counted DEF Present
    <3>6. Cardinality(Present \cup ToSet(collected)) = Len(jobs)
      BY <3>4, <3>5
    <3>7. Cardinality(Present \cup ToSet(collected)) <= Len(jobs)
      BY ONLY <1>2, <3>6
    <3> QED BY ONLY <3>1, <3>7
  <2> QED BY <2>1, <2>2
<1>6. CollectedIsPresent'
  BY <1>1 DEF ListInv, CollectedIsPresent, Reading, Present
<1>7. PagesAreFull'
  BY <1>1 DEF ListInv, PagesAreFull, Reading, Offset
<1>8. AtRest'
  BY <1>1 DEF ListInv, AtRest, Reading, Offset, Known
<1>9. ListIsOrdered'
  BY <1>1 DEF ListIsOrdered
<1> QED BY <1>3, <1>4, <1>5, <1>6, <1>7, <1>8, <1>9 DEF ListInv

LEMMA ProviderFailsStep ==
  ASSUME ListingConstants, ListInv, ProviderFails
  PROVE  ListInv'
<1>1. /\ UNCHANGED <<jobs, kinds, changes, page, total, expected, collected, throughout>>
      /\ pc' = "unavailable"
  BY DEF ProviderFails, provider
<1>2. TypeOK'
  BY <1>1 DEF ListInv, TypeOK
<1>3. CollectedSoFar'
  BY <1>1 DEF ListInv, CollectedSoFar, Reading
<1>4. BoundedByTotal' /\ CollectedIsPresent' /\ PagesAreFull' /\ AtRest' /\ ListIsOrdered'
  BY <1>1 DEF BoundedByTotal, CollectedIsPresent, PagesAreFull, AtRest, ListIsOrdered, Reading
<1> QED BY <1>2, <1>3, <1>4 DEF ListInv

LEMMA SortJobsStep ==
  ASSUME ListingConstants, ListInv, SortJobs
  PROVE  ListInv'
<1>1. /\ UNCHANGED <<jobs, kinds, changes, page, total, expected, throughout>>
      /\ pc = "sort" /\ pc' = "listed" /\ collected' = Sorted(collected)
  BY DEF SortJobs, provider
<1>2. collected \in Seq(Jobs) /\ IsInjective(collected)
  BY DEF ListInv, TypeOK, CollectedSoFar
<1> DEFINE t == Sorted(collected)
<1>3. /\ t \in Seq(Jobs) /\ ToSet(t) = ToSet(collected) /\ IsInjective(t)
      /\ \A p, q \in DOMAIN t : p < q =>
           \/ CreatedAt[t[p]] > CreatedAt[t[q]]
           \/ CreatedAt[t[p]] = CreatedAt[t[q]] /\ t[p] < t[q]
  BY <1>2, SortedJobs
<1>4. collected' = t
  BY <1>1
<1> HIDE DEF t
<1>5. TypeOK'
  BY <1>1, <1>3, <1>4 DEF ListInv, TypeOK
<1>6. CollectedSoFar'
  BY <1>1, <1>3, <1>4 DEF ListInv, CollectedSoFar, Reading
<1>7. BoundedByTotal' /\ CollectedIsPresent' /\ PagesAreFull' /\ AtRest'
  BY <1>1 DEF BoundedByTotal, CollectedIsPresent, PagesAreFull, AtRest, Reading
<1>8. ListIsOrdered'
  <2> SUFFICES ASSUME NEW p \in DOMAIN t, NEW q \in DOMAIN t, p < q
               PROVE  \/ CreatedAt[t[p]] = CreatedAt[t[q]] /\ t[p] < t[q]
                      \/ CreatedAt[t[q]] = Undated /\ CreatedAt[t[p]] # Undated
                      \/ CreatedAt[t[q]] # Undated /\ CreatedAt[t[p]] > CreatedAt[t[q]]
    BY <1>1, <1>4 DEF ListIsOrdered
  <2>1. t[p] \in Jobs /\ t[q] \in Jobs
    BY <1>3
  <2>2. CreatedAt \in [Jobs -> Nat \cup {-1}] /\ Undated = -1
    BY DEF ListingConstants, DateAssumption
  <2>3. CreatedAt[t[p]] \in Nat \cup {-1} /\ CreatedAt[t[q]] \in Nat \cup {-1}
    BY <2>1, <2>2
  <2>4. \/ CreatedAt[t[p]] > CreatedAt[t[q]]
        \/ CreatedAt[t[p]] = CreatedAt[t[q]] /\ t[p] < t[q]
    BY <1>3
  <2> QED BY ONLY <2>2, <2>3, <2>4
<1> QED BY <1>5, <1>6, <1>7, <1>8 DEF ListInv

LEMMA ListInvInit ==
  ASSUME ListingConstants, Init
  PROVE  ListInv
<1>1. PICK S \in SUBSET Jobs : jobs \in SetToSeqs(S)
  BY DEF Init
<1>2. IsFiniteSet(S) /\ Cardinality(S) \in Nat
  BY FS_Subset, FS_CardinalityType DEF ListingConstants, JobAssumption
<1>3. /\ jobs \in [1..Cardinality(S) -> S]
      /\ \A i, k \in 1..Cardinality(S) : i # k => jobs[i] # jobs[k]
  BY <1>1 DEF SetToSeqs
<1>4. jobs \in Seq(Jobs) /\ IsInjective(jobs)
  <2>1. jobs \in [1..Cardinality(S) -> Jobs]
    BY <1>3
  <2>2. jobs \in Seq(Jobs)
    BY <1>2, <2>1
  <2> QED BY <1>3, <2>2 DEF IsInjective
<1>5. /\ kinds \in Surroundings /\ changes = 0 /\ pc = "count" /\ page = 1 /\ total = NoTotal
      /\ expected = NoTotal /\ collected = <<>> /\ throughout = Present
  BY DEF Init
<1>6. MaxPages \in Nat \ {0} /\ MaxChanges \in Nat
  BY DEF ListingConstants, PageAssumption, ChangeAssumption
<1>7. TypeOK
  BY <1>4, <1>5, <1>6 DEF TypeOK, Present, ToSet
<1>8. Offset = 0
  BY <1>5, PageArithmetic DEF Offset
<1>9. CollectedSoFar
  BY <1>5, <1>6 DEF CollectedSoFar, Reading, IsInjective
<1>10. BoundedByTotal /\ CollectedIsPresent /\ PagesAreFull /\ ListIsOrdered
  BY <1>5, <1>8 DEF BoundedByTotal, CollectedIsPresent, PagesAreFull, ListIsOrdered, Known, ToSet
<1>11. AtRest
  BY <1>4, <1>5, <1>8, SubSeqEmpty DEF AtRest, Known
<1> QED BY <1>7, <1>9, <1>10, <1>11 DEF ListInv

\* The whole of a set of jobs was collected when as many were collected as are in it.
LEMMA AllCollected ==
  ASSUME NEW U, IsFiniteSet(U), NEW s \in Seq(Jobs), IsInjective(s), ToSet(s) \subseteq U,
         Cardinality(U) <= Len(s)
  PROVE  ToSet(s) = U
<1>1. Cardinality(ToSet(s)) = Len(s) /\ Len(s) \in Nat
  BY Counted
<1>2. Cardinality(ToSet(s)) <= Cardinality(U) /\ Cardinality(U) \in Nat
  BY FS_Subset, FS_CardinalityType
<1>3. Cardinality(ToSet(s)) = Cardinality(U)
  BY <1>1, <1>2
<1> QED BY <1>3, FS_Subset

\* The total a page is checked against.
KnownNow == IF PageTotal # NoTotal THEN PageTotal ELSE expected

\* It is what is known, and no jobs are there beyond it.
LEMMA KnownWhenRead ==
  ASSUME ListingConstants, ListInv, pc = "rows", ~TotalChanged
  PROVE  /\ KnownNow \in Nat \cup {NoTotal} /\ (KnownNow = NoTotal <=> Counting = "never")
         /\ "register" \notin kinds /\ KnownNow # NoTotal =>
              Cardinality(Present \cup ToSet(collected)) <= KnownNow
         /\ Counting = "with" => KnownNow = Len(jobs)
<1>1. /\ Counting \in {"before", "with", "never"} /\ Len(jobs) \in Nat
      /\ expected \in Nat \cup {NoTotal} /\ total \in Nat \cup {NoTotal} /\ page \in Nat \ {0}
  BY DEF ListInv, TypeOK, ListingConstants, CountingAssumption, PageAssumption
<1>2. /\ Counting = "before" => total # NoTotal
      /\ Counting # "before" => total = NoTotal
      /\ page = 1 => collected = <<>> /\ expected = NoTotal
      /\ page > 1 => (expected = NoTotal <=> Counting = "never")
  BY DEF ListInv, CollectedSoFar, Reading
<1>3. page = 1 \/ page > 1
  BY <1>1
<1>4. /\ PageTotal \in Nat \cup {NoTotal} /\ (PageTotal = NoTotal <=> Counting = "never")
      /\ Counting = "before" => PageTotal = total
      /\ Counting = "with" => PageTotal = Len(jobs)
  BY <1>1, <1>2 DEF PageTotal, NoTotal
<1>5. /\ KnownNow \in Nat \cup {NoTotal} /\ (KnownNow = NoTotal <=> Counting = "never")
      /\ Counting = "with" => KnownNow = Len(jobs)
  BY <1>1, <1>2, <1>3, <1>4 DEF KnownNow
<1>6. ASSUME "register" \notin kinds, KnownNow # NoTotal
      PROVE  Cardinality(Present \cup ToSet(collected)) <= KnownNow
  <2>1. CASE Known # NoTotal
    <3>1. Known = KnownNow
      BY <1>1, <1>2, <1>4, <1>5, <1>6, <2>1 DEF Known, KnownNow, TotalChanged
    <3>2. Cardinality(Present \cup ToSet(collected)) <= Known
      BY <1>6, <2>1 DEF ListInv, BoundedByTotal, Reading
    <3> QED BY ONLY <3>1, <3>2
  <2>2. CASE Known = NoTotal
    <3>1. expected = NoTotal /\ total = NoTotal
      BY <2>2 DEF Known
    <3>2. Counting = "with" /\ page = 1 /\ collected = <<>>
      BY <1>1, <1>2, <1>3, <1>5, <1>6, <3>1
    <3>3. Present \cup ToSet(collected) = Present
      BY <3>2 DEF ToSet
    <3>4. Cardinality(Present) = Len(jobs)
      BY CollectedIsFinite DEF ListInv
    <3>5. KnownNow = Len(jobs)
      BY <1>5, <3>2
    <3>6. Cardinality(Present \cup ToSet(collected)) = Len(jobs)
      BY <3>3, <3>4
    <3>7. Len(jobs) <= Len(jobs)
      BY ONLY <1>1
    <3> QED BY ONLY <3>5, <3>6, <3>7
  <2> QED BY <2>1, <2>2
<1> QED BY <1>5, <1>6

\* What a page that is not refused adds.
After == collected \o Rows

LEMMA PageCollected ==
  ASSUME ListingConstants, ListInv, pc = "rows", ~Repeats(Rows)
  PROVE  /\ After \in Seq(Jobs) /\ IsInjective(After) /\ Len(After) = Len(collected) + Len(Rows)
         /\ ToSet(After) = ToSet(collected) \cup ToSet(Rows)
         /\ Present \cup ToSet(After) = Present \cup ToSet(collected)
         /\ "withdraw" \notin kinds => ToSet(After) \subseteq Present
<1>1. collected \in Seq(Jobs) /\ IsInjective(collected)
  BY DEF ListInv, TypeOK, CollectedSoFar
<1>2. Rows \in Seq(Jobs) /\ IsInjective(Rows) /\ ToSet(Rows) \subseteq Present
  BY RowsRead DEF ListInv
<1>3. Apart(collected, Rows)
  BY DEF Apart, Repeats
<1>4. /\ After \in Seq(Jobs) /\ IsInjective(After) /\ Len(After) = Len(collected) + Len(Rows)
      /\ ToSet(After) = ToSet(collected) \cup ToSet(Rows)
  BY ONLY <1>1, <1>2, <1>3, Concatenated DEF After
<1>5. "withdraw" \notin kinds => ToSet(collected) \subseteq Present
  BY DEF ListInv, CollectedIsPresent, Reading
<1> QED BY <1>2, <1>4, <1>5

\* At rest, what is read is how the provider's jobs begin.
LEMMA ReadAtRest ==
  ASSUME ListingConstants, ListInv, pc = "rows", kinds = {}
  PROVE  /\ After = SubSeq(jobs, 1, Cut) /\ Len(After) = Cut /\ ~Repeats(Rows) /\ ~TotalChanged
         /\ PageTotal \in {NoTotal, Len(jobs)} /\ KnownNow \in {NoTotal, Len(jobs)}
         /\ HasNext <=> page * PageSize < Len(jobs)
         /\ HasNext => Rows # <<>>
<1>1. /\ jobs \in Seq(Jobs) /\ IsInjective(jobs) /\ page \in Nat \ {0} /\ Len(jobs) \in Nat
      /\ Counting \in {"before", "with", "never"}
  BY DEF ListInv, TypeOK, ListingConstants, CountingAssumption, PageAssumption
<1>2. /\ page > 1 => Offset < Len(jobs)
      /\ collected = SubSeq(jobs, 1, Offset)
      /\ Known \in {NoTotal, Len(jobs)} /\ total \in {NoTotal, Len(jobs)}
  BY DEF ListInv, AtRest, Reading
<1>3. /\ Rows = SubSeq(jobs, Offset + 1, Cut) /\ Offset \in Nat /\ Cut \in Nat /\ Cut <= Len(jobs)
      /\ PageSize \in Nat \ {0} /\ page * PageSize = Offset + PageSize
      /\ Len(Rows) = IF Offset < Cut THEN Cut - Offset ELSE 0
      /\ \A x \in ToSet(Rows) : \E i \in (Offset + 1)..Cut : x = jobs[i]
  BY RowsRead DEF ListInv
<1>4. page = 1 => Offset = 0
  BY PageArithmetic DEF Offset
<1>5. Offset <= Cut /\ Offset <= Len(jobs)
  <2>1. Offset <= Len(jobs)
    <3>1. page = 1 \/ page > 1
      BY ONLY <1>1
    <3> QED BY ONLY <1>1, <1>2, <1>3, <1>4, <3>1
  <2>2. Cut = IF Offset + PageSize < Len(jobs) THEN Offset + PageSize ELSE Len(jobs)
    BY ONLY <1>3 DEF Cut
  <2> QED BY ONLY <1>1, <1>3, <2>1, <2>2
<1>6. After = SubSeq(jobs, 1, Cut)
  <2>1. After = SubSeq(jobs, 1, Offset) \o SubSeq(jobs, Offset + 1, Cut)
    BY ONLY <1>2, <1>3 DEF After
  <2> QED BY ONLY <1>1, <1>3, <1>5, <2>1, ConcatAdjacentSubSeq
<1>7. Len(After) = Cut
  <2>1. Len(SubSeq(jobs, 1, Cut)) = IF 1 <= Cut THEN Cut - 1 + 1 ELSE 0
    BY ONLY <1>1, <1>3, SubSeqProperties
  <2> QED BY ONLY <1>3, <1>6, <2>1
<1>8. ~Repeats(Rows)
  <2>1. \A x \in ToSet(collected) : \E i \in 1..Offset : x = jobs[i]
    BY ONLY <1>1, <1>2, <1>3, <1>5, Part
  <2>2. \A i, k \in DOMAIN jobs : jobs[i] = jobs[k] => i = k
    BY <1>1 DEF IsInjective
  <2>3. DOMAIN jobs = 1..Len(jobs)
    BY <1>1
  <2>4. ASSUME NEW x \in ToSet(collected), x \in ToSet(Rows) PROVE FALSE
    <3>1. PICK i \in 1..Offset : x = jobs[i]
      BY <2>1
    <3>2. PICK k \in (Offset + 1)..Cut : x = jobs[k]
      BY <1>3, <2>4
    <3>3. i \in DOMAIN jobs /\ k \in DOMAIN jobs /\ i # k
      BY ONLY <1>1, <1>3, <1>5, <2>3, i \in 1..Offset, k \in (Offset + 1)..Cut
    <3> QED BY <2>2, <3>1, <3>2, <3>3
  <2> QED BY <2>4 DEF Repeats
<1>9. /\ Counting = "before" => total # NoTotal
      /\ Counting # "before" => total = NoTotal
  BY DEF ListInv, CollectedSoFar, Reading
<1>10. /\ PageTotal \in {NoTotal, Len(jobs)} /\ (Counting = "before" => total = Len(jobs))
       /\ expected \in {NoTotal, Len(jobs)}
  BY <1>1, <1>2, <1>9 DEF PageTotal, Known
<1>11. ~TotalChanged /\ KnownNow \in {NoTotal, Len(jobs)}
  BY <1>10 DEF TotalChanged, KnownNow
<1>12. HasNext <=> page * PageSize < Len(jobs)
  BY <1>10 DEF HasNext
<1>13. ASSUME HasNext PROVE Rows # <<>>
  <2>1. Cut = Offset + PageSize
    BY <1>3, <1>12, <1>13 DEF Cut
  <2>2. Len(Rows) = PageSize
    BY ONLY <1>3, <2>1
  <2>3. Len(Rows) # 0
    BY ONLY <1>3, <2>2
  <2> QED BY <2>3
<1> QED BY <1>6, <1>7, <1>8, <1>10, <1>11, <1>12, <1>13

\* The checks have no false alarm.
LEMMA NoFalseAlarmFollows ==
  ASSUME ListingConstants, ListInv
  PROVE  NoFalseAlarm
<1> SUFFICES ASSUME pc = "rows", kinds = {}
             PROVE  ~(TotalChanged \/ Repeats(Rows) \/ Incomplete(After, PageTotal))
  BY DEF NoFalseAlarm, After
<1>1. /\ Len(After) = Cut /\ ~Repeats(Rows) /\ ~TotalChanged
      /\ PageTotal \in {NoTotal, Len(jobs)}
      /\ HasNext <=> page * PageSize < Len(jobs)
      /\ HasNext => Rows # <<>>
  BY ReadAtRest
<1>2. Len(jobs) \in Nat /\ Cut \in Nat
  BY RowsRead DEF ListInv, TypeOK
<1>3. ~HasNext => Cut = Len(jobs)
  BY <1>1 DEF Cut
<1>4. HasNext => Cut < Len(jobs)
  BY <1>1 DEF Cut
<1>5. ~(Cut < Len(jobs) /\ Cut >= Len(jobs))
  BY ONLY <1>2
<1>6. ~Incomplete(After, PageTotal)
  <2>1. CASE HasNext
    BY ONLY <1>1, <1>4, <1>5, <2>1 DEF Incomplete
  <2>2. CASE ~HasNext
    BY ONLY <1>1, <1>3, <2>2 DEF Incomplete
  <2> QED BY <2>1, <2>2
<1> QED BY <1>1, <1>6

\* A page that is refused ends the listing.
LEMMA PageRefused ==
  ASSUME ListingConstants, ListInv, pc = "rows", pc' = "unavailable", total' = NoTotal,
         UNCHANGED <<jobs, kinds, changes, page, expected, collected, throughout>>
  PROVE  ListInv'
<1>1. TypeOK'
  BY DEF ListInv, TypeOK
<1>2. CollectedSoFar'
  BY DEF ListInv, CollectedSoFar, Reading
<1>3. BoundedByTotal' /\ CollectedIsPresent' /\ PagesAreFull' /\ AtRest' /\ ListIsOrdered'
  BY DEF BoundedByTotal, CollectedIsPresent, PagesAreFull, AtRest, ListIsOrdered, Reading
<1> QED BY <1>1, <1>2, <1>3 DEF ListInv

\* A page that has a successor.
LEMMA PageFollowed ==
  ASSUME ListingConstants, ListInv, pc = "rows", HasNext, ~TotalChanged, ~Repeats(Rows),
         ~LimitExceeded, pc' = "count", page' = page + 1, expected' = KnownNow,
         collected' = After, total' = NoTotal, UNCHANGED <<jobs, kinds, changes, throughout>>
  PROVE  ListInv'
<1>1. /\ page \in Nat \ {0} /\ MaxPages \in Nat \ {0} /\ page <= MaxPages /\ Len(jobs) \in Nat
  BY DEF ListInv, TypeOK, CollectedSoFar, Reading, ListingConstants, PageAssumption
<1>2. page' \in Nat /\ page' > 1 /\ page' <= MaxPages /\ page' # 1
  BY <1>1 DEF LimitExceeded
<1>3. /\ KnownNow \in Nat \cup {NoTotal} /\ (KnownNow = NoTotal <=> Counting = "never")
      /\ "register" \notin kinds /\ KnownNow # NoTotal =>
           Cardinality(Present \cup ToSet(collected)) <= KnownNow
  BY KnownWhenRead
<1>4. /\ After \in Seq(Jobs) /\ IsInjective(After) /\ Len(After) = Len(collected) + Len(Rows)
      /\ Present \cup ToSet(After) = Present \cup ToSet(collected)
      /\ "withdraw" \notin kinds => ToSet(After) \subseteq Present
  BY PageCollected
<1>5. TypeOK'
  BY <1>1, <1>2, <1>3, <1>4 DEF ListInv, TypeOK
<1>6. CollectedSoFar'
  BY <1>2, <1>3, <1>4 DEF ListInv, CollectedSoFar, Reading, Present
<1>7. BoundedByTotal'
  <2>1. Known' \in {KnownNow, NoTotal} /\ Present' = Present
    BY DEF Known, Present
  <2>2. Present' \cup ToSet(collected') = Present \cup ToSet(collected)
    BY <1>4, <2>1
  <2>3. "register" \notin kinds /\ Known' # NoTotal =>
          Cardinality(Present' \cup ToSet(collected')) <= Known'
    <3>1. Known' # NoTotal => Known' = KnownNow
      BY ONLY <2>1
    <3> QED BY ONLY <1>3, <2>2, <3>1
  <2> QED BY <2>3 DEF BoundedByTotal
<1>8. CollectedIsPresent'
  BY <1>4 DEF CollectedIsPresent, Present
<1>9. Offset' = page * PageSize
  BY <1>1, PageArithmetic DEF Offset
<1>10. PagesAreFull'
  <2> SUFFICES ASSUME Counting = "never"
               PROVE  Len(After) = page * PageSize /\ page * PageSize < Len(jobs)
    BY <1>9 DEF PagesAreFull
  <2>1. page * PageSize < Len(jobs)
    BY DEF HasNext
  <2>2. Cut = page * PageSize
    BY <2>1 DEF Cut
  <2>3. /\ Len(Rows) = IF Offset < Cut THEN Cut - Offset ELSE 0
        /\ Offset \in Nat /\ PageSize \in Nat \ {0} /\ page * PageSize = Offset + PageSize
    BY RowsRead DEF ListInv
  <2>4. Len(Rows) = PageSize
    BY ONLY <2>2, <2>3
  <2>5. Len(collected) = Offset
    BY DEF ListInv, PagesAreFull, Reading
  <2>6. Len(After) = Offset + PageSize
    BY ONLY <1>4, <2>4, <2>5
  <2> QED BY ONLY <2>1, <2>3, <2>6
<1>11. AtRest'
  <2> SUFFICES ASSUME kinds = {}
               PROVE  /\ page * PageSize < Len(jobs) /\ After = SubSeq(jobs, 1, page * PageSize)
                      /\ Known' \in {NoTotal, Len(jobs)}
    BY <1>9 DEF AtRest
  <2>1. /\ After = SubSeq(jobs, 1, Cut) /\ KnownNow \in {NoTotal, Len(jobs)}
        /\ page * PageSize < Len(jobs)
    BY ReadAtRest
  <2>2. Cut = page * PageSize
    BY <2>1 DEF Cut
  <2>3. Known' \in {KnownNow, NoTotal}
    BY DEF Known
  <2> QED BY <2>1, <2>2, <2>3
<1>12. ListIsOrdered'
  BY DEF ListIsOrdered
<1> QED BY <1>5, <1>6, <1>7, <1>8, <1>10, <1>11, <1>12 DEF ListInv

\* The last page: every job that is there was collected.
LEMMA LastPage ==
  ASSUME ListingConstants, ListInv, pc = "rows", ~HasNext, ~TotalChanged, ~Repeats(Rows),
         ~Incomplete(After, KnownNow)
  PROVE  Present \subseteq ToSet(After)
<1>1. /\ Len(jobs) \in Nat /\ page \in Nat \ {0} /\ kinds \in Surroundings
      /\ Counting \in {"before", "with", "never"}
  BY DEF ListInv, TypeOK, ListingConstants, CountingAssumption, PageAssumption
<1>2. /\ KnownNow \in Nat \cup {NoTotal} /\ (KnownNow = NoTotal <=> Counting = "never")
      /\ "register" \notin kinds /\ KnownNow # NoTotal =>
           Cardinality(Present \cup ToSet(collected)) <= KnownNow
      /\ Counting = "with" => KnownNow = Len(jobs)
  BY KnownWhenRead
<1>3. /\ After \in Seq(Jobs) /\ IsInjective(After) /\ Len(After) = Len(collected) + Len(Rows)
      /\ Present \cup ToSet(After) = Present \cup ToSet(collected)
      /\ "withdraw" \notin kinds => ToSet(After) \subseteq Present
  BY PageCollected
<1>4. KnownNow # NoTotal => Len(After) = KnownNow
  BY DEF Incomplete
<1>5. /\ IsFiniteSet(Present) /\ Cardinality(Present) = Len(jobs)
      /\ IsFiniteSet(Present \cup ToSet(collected))
  BY CollectedIsFinite DEF ListInv
<1>6. ASSUME "register" \notin kinds, KnownNow # NoTotal
      PROVE  Present \subseteq ToSet(After)
  <2> DEFINE U == Present \cup ToSet(collected)
  <2>1. IsFiniteSet(U) /\ ToSet(After) \subseteq U /\ Cardinality(U) <= Len(After)
    BY <1>2, <1>3, <1>4, <1>5, <1>6
  <2>2. Present \subseteq U
    OBVIOUS
  <2> HIDE DEF U
  <2>3. ToSet(After) = U
    BY ONLY <1>3, <2>1, AllCollected
  <2> QED BY <2>2, <2>3
<1>7. ASSUME "withdraw" \notin kinds, Len(After) = Len(jobs)
      PROVE  Present \subseteq ToSet(After)
  <2>1. ToSet(After) \subseteq Present /\ Cardinality(Present) <= Len(After)
    BY <1>1, <1>3, <1>5, <1>7
  <2>2. ToSet(After) = Present
    BY ONLY <1>3, <1>5, <2>1, AllCollected
  <2> QED BY <2>2
<1>8. CASE Counting = "before"
  BY <1>1, <1>2, <1>6, <1>8 DEF ListingConstants, Revealed
<1>9. CASE Counting = "with"
  <2>1. KnownNow = Len(jobs) /\ KnownNow # NoTotal /\ Len(After) = Len(jobs)
    BY <1>2, <1>4, <1>9
  <2>2. "register" \notin kinds \/ "withdraw" \notin kinds
    BY <1>1, <1>9 DEF ListingConstants, Revealed
  <2> QED BY <1>6, <1>7, <2>1, <2>2
<1>10. CASE Counting = "never"
  <2>1. "withdraw" \notin kinds
    BY <1>1, <1>10 DEF ListingConstants, Revealed
  <2>2. ~(page * PageSize < Len(jobs))
    BY <1>10 DEF HasNext
  <2>3. Cut = Len(jobs)
    BY <2>2 DEF Cut
  <2>4. /\ Len(Rows) = IF Offset < Cut THEN Cut - Offset ELSE 0
        /\ Offset \in Nat
    BY RowsRead DEF ListInv
  <2>5. Len(collected) = Offset /\ (page > 1 => Offset < Len(jobs))
    BY <1>10 DEF ListInv, PagesAreFull, Reading
  <2>6. page = 1 => Offset = 0
    BY PageArithmetic DEF Offset
  <2>7. page = 1 \/ page > 1
    BY ONLY <1>1
  <2>8. Offset <= Len(jobs)
    BY ONLY <1>1, <2>4, <2>5, <2>6, <2>7
  <2>9. Len(collected) + Len(Rows) = Len(jobs)
    BY ONLY <1>1, <2>3, <2>4, <2>5, <2>8
  <2> QED BY <1>3, <1>7, <2>1, <2>9
<1> QED BY <1>1, <1>8, <1>9, <1>10

LEMMA PageIsLast ==
  ASSUME ListingConstants, ListInv, pc = "rows", ~HasNext, ~TotalChanged, ~Repeats(Rows),
         ~Incomplete(After, KnownNow), pc' = "sort", page' = page + 1, expected' = KnownNow,
         collected' = After, total' = NoTotal, UNCHANGED <<jobs, kinds, changes, throughout>>
  PROVE  ListInv'
<1>1. /\ page \in Nat \ {0} /\ MaxPages \in Nat \ {0} /\ page <= MaxPages
      /\ throughout \subseteq Present
  BY DEF ListInv, TypeOK, CollectedSoFar, Reading, ListingConstants, PageAssumption
<1>2. page' \in 1..(MaxPages + 1)
  BY <1>1
<1>3. KnownNow \in Nat \cup {NoTotal}
  BY KnownWhenRead
<1>4. After \in Seq(Jobs) /\ IsInjective(After)
  BY PageCollected
<1>5. throughout \subseteq ToSet(After)
  BY <1>1, LastPage
<1>6. TypeOK'
  BY <1>2, <1>3, <1>4 DEF ListInv, TypeOK
<1>7. CollectedSoFar'
  BY <1>4, <1>5 DEF CollectedSoFar, Reading
<1>8. BoundedByTotal' /\ CollectedIsPresent' /\ PagesAreFull' /\ AtRest' /\ ListIsOrdered'
  BY DEF BoundedByTotal, CollectedIsPresent, PagesAreFull, AtRest, ListIsOrdered, Reading
<1> QED BY <1>6, <1>7, <1>8 DEF ListInv

LEMMA ReadRowsStep ==
  ASSUME ListingConstants, ListInv, ReadRows
  PROVE  ListInv'
<1>1. pc = "rows" /\ total' = NoTotal /\ UNCHANGED <<jobs, kinds, changes, throughout>>
  BY DEF ReadRows, provider
<1> DEFINE refused == \/ TotalChanged \/ Repeats(Rows)
                      \/ KnownNow # NoTotal /\ Len(After) > KnownNow
                      \/ Incomplete(After, KnownNow) \/ LimitExceeded
<1>2. CASE refused
  <2>1. pc' = "unavailable" /\ UNCHANGED <<page, expected, collected>>
    BY <1>2 DEF ReadRows, KnownNow, After
  <2> QED BY <1>1, <2>1, PageRefused
<1>3. CASE ~refused
  <2>1. /\ pc' = IF HasNext THEN "count" ELSE "sort"
        /\ page' = page + 1 /\ expected' = KnownNow /\ collected' = After
    BY <1>3 DEF ReadRows, KnownNow, After
  <2>2. /\ ~TotalChanged /\ ~Repeats(Rows) /\ ~Incomplete(After, KnownNow) /\ ~LimitExceeded
    BY <1>3
  <2>3. CASE HasNext
    BY <1>1, <2>1, <2>2, <2>3, PageFollowed
  <2>4. CASE ~HasNext
    BY <1>1, <2>1, <2>2, <2>4, PageIsLast
  <2> QED BY <2>3, <2>4
<1> QED BY <1>2, <1>3

LEMMA ListInvStep ==
  ASSUME ListingConstants, ListInv, [Next]_vars
  PROVE  ListInv'
<1>1. CASE UNCHANGED vars
  BY <1>1 DEF vars, provider, ListInv, TypeOK, CollectedSoFar, BoundedByTotal, CollectedIsPresent,
              PagesAreFull, AtRest, ListIsOrdered, Known, Offset, Present, Reading
<1>2. CASE \E j \in Jobs : RegisterJob(j)
  BY <1>2, RegisterJobStep
<1>3. CASE \E j \in Jobs : UpdateJob(j)
  BY <1>3, UpdateJobStep
<1>4. CASE \E j \in Jobs : WithdrawJob(j)
  BY <1>4, WithdrawJobStep
<1> QED BY <1>1, <1>2, <1>3, <1>4, CountJobsStep, ReadRowsStep, ProviderFailsStep, SortJobsStep
        DEF Next

LEMMA ListInvImplies ==
  ASSUME ListingConstants, ListInv
  PROVE  ListIsComplete /\ ListIsOrdered /\ NoFalseAlarm
BY NoFalseAlarmFollows DEF ListInv, CollectedSoFar, ListIsComplete

\* However the provider moves its jobs between the pages while they are read
\* (list_jobs), by changes of the kinds that are revealed: a list that is returned
\* holds every job that was there all the time, in the promised order, and a
\* provider at rest is not refused.
THEOREM ListAlwaysSound ==
  ASSUME ListingConstants
  PROVE  Spec => [](ListIsComplete /\ ListIsOrdered /\ NoFalseAlarm)
<1>1. Init => ListInv
  BY ListInvInit
<1>2. ListInv /\ [Next]_vars => ListInv'
  BY ListInvStep
<1>3. ListInv => ListIsComplete /\ ListIsOrdered /\ NoFalseAlarm
  BY ListInvImplies
<1> QED BY <1>1, <1>2, <1>3, PTL DEF Spec
=============================================================================
