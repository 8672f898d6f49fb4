-------------------------- MODULE MCNoticePipeline --------------------------
(***************************************************************************)
(* Instances of NoticePipeline for TLC: which handlers are called and      *)
(* which scores occur.                                                     *)
(***************************************************************************)
EXTENDS NoticePipeline, TLC

\* A score just below the lower threshold of compute_notify_status, and one
\* on each threshold: every final status, at its boundary.
AllBands == {39, 40, 70}
HighBand == {70}
TwoBands == {39, 70}

SlotSymmetry == Permutations(Requests)

AllOps == OpNames

\* The handlers that write the status column and compete for it.
StatusOps == {"analyze", "notify", "grade", "autofill", "documents", "fetch"}

\* The handlers that rewrite the analysis document of one notice, one of each
\* kind, with the two that skip the status guard.
DocumentOps == {"analyze", "documents", "fetch", "spec", "compose", "edit"}
=============================================================================
