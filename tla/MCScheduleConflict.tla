--------------------------- MODULE MCScheduleConflict ---------------------------
(* Small instances of ScheduleConflict. *)
EXTENDS ScheduleConflict, TLC

CONSTANTS w1, w2, w3, t1, t2, t3, t4
\* One workflow with two appointments, two with one, all within reach of each other.
Plans == (w1 :> <<t1, t2>>) @@ (w2 :> <<t3>>) @@ (w3 :> <<t4>>)
TimesOfDay == {0, 40, 80}
AtFirst == (t1 :> 0) @@ (t2 :> 80) @@ (t3 :> 40) @@ (t4 :> 80)
================================================================================
