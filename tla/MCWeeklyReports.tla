--------------------------- MODULE MCWeeklyReports ---------------------------
(* An instance of WeeklyReports for TLC. *)
EXTENDS WeeklyReports

CONSTANTS l1, o1, o2, g1
==============================================================================
