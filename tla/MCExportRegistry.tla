-------------------------- MODULE MCExportRegistry --------------------------
(***************************************************************************)
(* Instances of ExportRegistry for TLC.                                    *)
(***************************************************************************)
EXTENDS ExportRegistry

\* An Excel export takes the same steps as an HWP export, on another kind.
RaceOps == OpNames \ {"excel"}
AllOps == OpNames
=============================================================================
