------------------------- MODULE MCGradeScheduler -------------------------
(***************************************************************************)
(* Instances of GradeScheduler for TLC.                                    *)
(***************************************************************************)
EXTENDS GradeScheduler

\* The oldest notice is the one that cannot be graded.
OldestIsPoison == {1}
=============================================================================
