---------------------------- MODULE MCHwpJobs ----------------------------
(* Two overlapping put-fields; one mapping whose value comes up empty once *)
(* it is stripped, and one that is switched off.                           *)
EXTENDS HwpJobs

M(active, required, path, default, transform) ==
  [active |-> active, required |-> required, path |-> path, default |-> default,
   transform |-> transform]

MCMappings == {M(TRUE, TRUE, "blank", "none", "strip"), M(FALSE, TRUE, "text", "none", "none")}
=============================================================================
