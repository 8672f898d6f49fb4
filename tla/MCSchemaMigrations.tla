------------------------- MODULE MCSchemaMigrations -------------------------
(* One notice whose date the collector missed or parsed, rows it owns on   *)
(* both sides of the revisions, and shared rows it refers to.              *)
EXTENDS SchemaMigrations

MCRows == {<<"bid_pipeline", "open_date", "missing">>, <<"bid_pipeline", "open_date", "parsed">>,
           <<"notice_exports", "kind", "excel">>, <<"notice_exports", "kind", "bid_form_hwp">>,
           <<"hwp_generation_jobs", "status", "completed">>,
           <<"notice_requirements", "id", "any">>,
           <<"ontology_concepts", "kind", "role">>, <<"notice_work_tasks", "status", "pending">>}
=============================================================================
