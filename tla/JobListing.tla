------------------------------- MODULE JobListing -------------------------------
(***************************************************************************)
(* The list of all jobs of one organization: the admin service reads the   *)
(* provider page by page, in the provider's order, while the provider      *)
(* registers, updates and withdraws jobs, and sorts what it collected.     *)
(*                                                                         *)
(* Every request to the provider is a point where it may change.  Over the *)
(* current database a page is two SELECTs, a count and the rows, and the   *)
(* provider may change between them too; over HTTP a page is one answer,   *)
(* whose total the provider may leave out.                                 *)
(***************************************************************************)
EXTENDS Integers, Sequences, FiniteSets, SequencesExt, StableSorting

CONSTANTS
  Jobs,           \* jobs, numbered by external_job_id
  CreatedAt,      \* CreatedAt[j]: the registration date, Undated when None
  Undated,
  PageSize,       \* JOB_PAGE_SIZE (200 in the code)
  MaxPages,       \* MAX_JOB_PAGES (100 in the code)
  Counting,       \* how a page gets its total: "before" the rows are read (the
                  \* current database), "with" them (HTTP), "never" (HTTP)
  Surroundings,   \* the sets of kinds of change a behaviour may contain
  MaxChanges      \* bound on the changes of the provider in a behaviour

JobAssumption == Jobs \subseteq Nat /\ IsFiniteSet(Jobs)
DateAssumption ==
  Undated = -1 /\ CreatedAt \in [Jobs -> Nat \cup {Undated}]
PageAssumption == PageSize \in Nat \ {0} /\ MaxPages \in Nat \ {0}
CountingAssumption == Counting \in {"before", "with", "never"}
ChangeAssumption ==
  Surroundings \subseteq SUBSET {"register", "update", "withdraw"}
  /\ MaxChanges \in Nat

NoTotal == -1

VARIABLES
  jobs,       \* the provider's jobs, the last updated first
  kinds,      \* the kinds of change this behaviour contains
  changes,    \* how many changes there have been
  pc,         \* "count", "rows", "sort", "listed" or "unavailable"
  page,       \* the page that is being read
  total,      \* the total that comes with this page
  expected,   \* the last total that came with a page
  collected,  \* the jobs collected so far; at the end the list itself
  throughout  \* ghost: the jobs there from the first request to the last

provider == <<jobs, kinds, changes>>
vars == <<jobs, kinds, changes, pc, page, total, expected, collected, throughout>>

Present == ToSet(jobs)

Init ==
  /\ \E S \in SUBSET Jobs : jobs \in SetToSeqs(S)
  /\ kinds \in Surroundings
  /\ changes = 0
  /\ pc = "count"
  /\ page = 1
  /\ total = NoTotal
  /\ expected = NoTotal
  /\ collected = <<>>
  /\ throughout = Present

-----------------------------------------------------------------------------
(* The provider.  Writing a job moves it to the front of the order.         *)

Changes(kind) ==
  /\ kind \in kinds
  /\ changes < MaxChanges
  /\ changes' = changes + 1
  /\ UNCHANGED <<kinds, pc, page, total, expected, collected>>

RegisterJob(j) ==
  /\ Changes("register")
  /\ j \in Jobs \ Present
  /\ jobs' = <<j>> \o jobs
  /\ UNCHANGED throughout

Without(j) == RemoveAt(jobs, CHOOSE i \in DOMAIN jobs : jobs[i] = j)

UpdateJob(j) ==
  /\ Changes("update")
  /\ j \in Present
  /\ jobs' = <<j>> \o Without(j)
  /\ UNCHANGED throughout

WithdrawJob(j) ==
  /\ Changes("withdraw")
  /\ j \in Present
  /\ jobs' = Without(j)
  /\ throughout' = IF pc \in {"count", "rows"} THEN throughout \ {j} ELSE throughout

-----------------------------------------------------------------------------
(* The listing.  A definition called a variant is a deliberate bug; no         *)
(* specification uses it.                                                      *)

\* The count SELECT of search_jobs.
CountJobs ==
  /\ pc = "count"
  /\ pc' = "rows"
  /\ total' = IF Counting = "before" THEN Len(jobs) ELSE NoTotal
  /\ UNCHANGED <<provider, page, expected, collected, throughout>>

\* ORDER BY updated_at DESC, id OFFSET (page - 1) * page_size LIMIT page_size.
Rows ==
  SubSeq(jobs, (page - 1) * PageSize + 1,
         IF page * PageSize < Len(jobs) THEN page * PageSize ELSE Len(jobs))

PageTotal ==
  CASE Counting = "before" -> total
    [] Counting = "with"   -> Len(jobs)
    [] Counting = "never"  -> NoTotal

\* page * page_size < total, with the total the page was cut by.
HasNext ==
  page * PageSize < IF Counting = "before" THEN total ELSE Len(jobs)

\* Variant: a job seen on an earlier page is collected again.
RepeatsNothing(rows) == FALSE
Repeats(rows) == ToSet(rows) \cap ToSet(collected) # {}

TotalChanged ==
  /\ PageTotal # NoTotal
  /\ expected # NoTotal
  /\ expected # PageTotal

\* Against the total: too few at the end, or more pages but no progress.
Incomplete(after, known) ==
  IF HasNext THEN Rows = <<>> \/ (known # NoTotal /\ Len(after) >= known)
             ELSE known # NoTotal /\ Len(after) # known

\* Variant: the pages are read for as long as there are any.
LimitNeverExceeded == FALSE
LimitExceeded == HasNext /\ page = MaxPages

\* One page is checked and collected; any inconsistency ends in a 503.
ReadRows ==
  /\ pc = "rows"
  /\ LET after == collected \o Rows
         known == IF PageTotal # NoTotal THEN PageTotal ELSE expected
         refused == \/ TotalChanged
                    \/ Repeats(Rows)
                    \/ known # NoTotal /\ Len(after) > known
                    \/ Incomplete(after, known)
                    \/ LimitExceeded
     IN  IF refused
         THEN /\ pc' = "unavailable"
              /\ UNCHANGED <<page, expected, collected>>
         ELSE /\ pc' = IF HasNext THEN "count" ELSE "sort"
              /\ page' = page + 1
              /\ expected' = known
              /\ collected' = after
  /\ total' = NoTotal
  /\ UNCHANGED <<provider, throughout>>

\* A request that fails ends the listing.
ProviderFails ==
  /\ pc \in {"count", "rows"}
  /\ pc' = "unavailable"
  /\ UNCHANGED <<provider, page, total, expected, collected, throughout>>

\* By identity, then, stably, by (dated, date) in reverse.
ById(a, b) == a < b
LatestFirst(a, b) ==
  /\ CreatedAt[a] # Undated
  /\ CreatedAt[b] = Undated \/ CreatedAt[a] > CreatedAt[b]
Sorted(seq) == StableSort(StableSort(seq, ById), LatestFirst)

SortJobs ==
  /\ pc = "sort"
  /\ pc' = "listed"
  /\ collected' = Sorted(collected)
  /\ UNCHANGED <<provider, page, total, expected, throughout>>

Next ==
  \/ \E j \in Jobs : RegisterJob(j) \/ UpdateJob(j) \/ WithdrawJob(j)
  \/ CountJobs
  \/ ReadRows
  \/ ProviderFails
  \/ SortJobs

Spec == Init /\ [][Next]_vars

-----------------------------------------------------------------------------
(* Properties *)

\* Types, and the bound on pages.
TypeOK ==
  /\ jobs \in Seq(Jobs) /\ IsInjective(jobs)
  /\ kinds \in Surroundings /\ changes \in 0..MaxChanges
  /\ pc \in {"count", "rows", "sort", "listed", "unavailable"}
  /\ page \in 1..(MaxPages + 1)
  /\ total \in Nat \cup {NoTotal} /\ expected \in Nat \cup {NoTotal}
  /\ collected \in Seq(Jobs) /\ throughout \subseteq Jobs

\* A list that is returned holds every job that was there all the time, however
\* the jobs moved between the pages while it was read (as long as the changes
\* of the provider are of the kinds Surroundings allows together).
ListIsComplete == pc = "listed" => throughout \subseteq ToSet(collected)

\* No job is shown twice, the latest registration is shown first, undated jobs
\* last, and equal dates in the order of their identities.
ListIsOrdered ==
  pc = "listed" =>
    \A i, k \in DOMAIN collected : i < k =>
      LET a == collected[i]
          b == collected[k]
      IN  \/ CreatedAt[a] = CreatedAt[b] /\ a < b
          \/ CreatedAt[b] = Undated /\ CreatedAt[a] # Undated
          \/ CreatedAt[b] # Undated /\ CreatedAt[a] > CreatedAt[b]

\* With a provider that stands still and answers, only an organization with
\* more jobs than the pages can hold is refused: the checks have no false alarm.
NoFalseAlarm ==
  pc = "rows" /\ kinds = {} /\ Len(jobs) <= MaxPages * PageSize =>
    ~(TotalChanged \/ Repeats(Rows)
      \/ Incomplete(collected \o Rows, PageTotal))
=============================================================================
