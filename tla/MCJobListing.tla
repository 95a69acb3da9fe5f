----------------------------- MODULE MCJobListing -----------------------------
(* Instances of JobListing for TLC. *)
EXTENDS JobListing

OnlyRegister == {{"register"}}
\* Jobs 2 and 4 share a date, jobs 1 and 5 have none.
Dates == <<-1, 1, 2, 1, -1>>
NoDate == -1
=============================================================================
