----------------------------- MODULE MCSchedule -----------------------------
(***************************************************************************)
(* Small instances of Schedule.                                            *)
(***************************************************************************)
EXTENDS Schedule, TLC

\* The plan asks for the second day, or for the next two.
TheSecondDay == {{2}}
TwoDays == {{2, 3}}

\* Every operation; the two left out here are in Board.
OneAtATime == (PlanHandlers \cup JobHandlers \cup OtherHandlers) \ {"materialize", "delete_plan"}

Board == {"materialize", "regenerate", "delete_plan", "patch", "destroy"}

Interchangeable == Permutations(Jobs)
=============================================================================
