-------------------------- MODULE MCMonthlyReports --------------------------
(* Instances of MonthlyReports for TLC: managers of one branch and a member *)
(* of the quality department, one or two (property, month) slots.           *)
EXTENDS MonthlyReports, TLC

CONSTANTS c1, c2, c3, u1, u2, qa, t1, t2, f1, f2

\* u1 manages both slots, u2 the first one only; qa sees everything.
MCPermitted == (u1 :> Slots @@ u2 :> {t1} @@ qa :> Slots)

MCOneManager == (u1 :> Slots)

ClientSymmetry == Permutations(Clients) \cup Permutations(Forms \ {Empty})
=============================================================================
