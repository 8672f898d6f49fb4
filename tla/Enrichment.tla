----------------------------- MODULE Enrichment -----------------------------
(***************************************************************************)
(* What is built on an analysed notice: its spec items and required        *)
(* documents, and the proposal workspace, whose analysis looks for words   *)
(* in the spec items (in all of them, ignored ones included).              *)
(***************************************************************************)
EXTENDS ProposalWorkspace, NoticeItems

CONSTANT MaxMixed      \* bound: calls altogether, once both parts have had one

ASSUME EnrichmentAssumption == MaxMixed \in Nat

allVars == <<vars, itemVars>>

\* The optional types stand for those only a spec item mentions.
Mentioned == IF \E i \in Items : specs[i] # NoRow /\ specs[i].required # "" THEN Optional ELSE {}

EnrichmentInit == Init /\ ItemsInit

EnrichmentNext ==
  /\ \/ WorkspaceNext(Mentioned) /\ UNCHANGED itemVars
     \/ ItemsNext /\ UNCHANGED vars
  /\ calls' > 0 /\ itemCalls' > 0 => calls' + itemCalls' <= MaxMixed

EnrichmentSpec == EnrichmentInit /\ [][EnrichmentNext]_allVars
=============================================================================
