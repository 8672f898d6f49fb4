---------------------------- MODULE MCEnrichment ----------------------------
(* One spec item, one document name with its two stages, one type of       *)
(* requirement that only the spec item brings in.                          *)
EXTENDS Enrichment
=============================================================================
