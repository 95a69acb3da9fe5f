------------------------ MODULE MCNotificationOperation ------------------------
(* Instances of NotificationOperation for TLC. *)
EXTENDS NotificationOperation, TLC

\* Staff members are interchangeable, and so are the candidates.
StaffSymmetry == Permutations(Staff)
Symmetry == Permutations(Staff) \cup Permutations(Members)
=============================================================================
