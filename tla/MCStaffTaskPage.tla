-------------------------- MODULE MCStaffTaskPage --------------------------
(* Instances of StaffTaskPage for TLC. *)
EXTENDS StaffTaskPage, TLC

CONSTANTS t1, t2, c1, c2

TwoTasks == {t1, t2}
TwoCalls == {c1, c2}

Symmetry == Permutations(TwoTasks) \cup Permutations(TwoCalls)
=============================================================================
