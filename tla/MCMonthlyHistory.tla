-------------------------- MODULE MCMonthlyHistory --------------------------
(* Instances of MonthlyHistory for TLC. *)
EXTENDS MonthlyHistory, MCMonthlyReports
=============================================================================
