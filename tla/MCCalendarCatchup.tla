------------------------- MODULE MCCalendarCatchup -------------------------
(* Instances of CalendarCatchup for TLC. *)
EXTENDS CalendarCatchup

CONSTANTS k1, k2, scanner, catchup
=============================================================================
