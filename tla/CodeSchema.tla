----------------------------- MODULE CodeSchema -----------------------------
(***************************************************************************)
(* The schema the code is written against: the SQLAlchemy metadata of      *)
(* routers/notices.py and ontology/tables.py.  bid_pipeline's own indexes  *)
(* and triggers are the migrations' business and not declared there.       *)
(***************************************************************************)
EXTENDS SchemaObjects

NoticeTables ==
  {Table("bid_pipeline"), Table("notice_spec_items"), Table("notice_exports"),
   ByNotice("notice_spec_items"), ByNotice("notice_exports"),
   Domain("notice_spec_items", "status", {"candidate", "reviewed", "matched", "gap", "ignored"}),
   Domain("notice_spec_items", "review_priority", {"normal", "high"}),
   Domain("notice_exports", "kind", {"excel", "hwp", "bid_form_hwp", "proposal_hwp"}),
   Domain("notice_exports", "validation_status", {"passed", "warning", "failed"})}
  \cup Columns("notice_spec_items", {"note", "reviewed_by", "reviewed_at", "locked_fields",
               "source_text", "source_file_name", "source_page", "review_priority"})
  \cup Columns("notice_exports", {"version", "template_version", "validation_status",
               "validation_errors", "file_size", "sha256"})
  \cup Indexes("notice_spec_items", {"notice", "status"})
  \cup Indexes("notice_exports", {"notice", "active"})

HwpTables ==
  {Table("hwp_templates"), Table("company_profiles"), Table("document_field_mappings"),
   Table("hwp_generation_jobs"),
   Ref("document_field_mappings", "template_id", "hwp_templates", "CASCADE"),
   ByNotice("hwp_generation_jobs"),
   Ref("hwp_generation_jobs", "template_id", "hwp_templates", "SET NULL"),
   Ref("hwp_generation_jobs", "export_id", "notice_exports", "SET NULL"),
   Domain("hwp_templates", "kind", {"bid_form", "proposal"}),
   Domain("document_field_mappings", "transform",
          {"none", "date_yyyy_mm_dd", "number_comma", "business_number_dash", "strip",
           "truncate_1000"}),
   Domain("hwp_generation_jobs", "status", {"pending", "running", "completed", "failed"}),
   Domain("hwp_generation_jobs", "review_status", {"pending", "approved", "rejected"}),
   Index("hwp_templates", "active"), Index("company_profiles", "active"),
   Index("document_field_mappings", "template")}
  \cup Indexes("hwp_generation_jobs", {"notice", "review"})

ProposalTables ==
  {Table("proposal_documents"), Table("document_chunks"), Table("project_performances"),
   Table("notice_requirements"), Table("requirement_evidences"), Table("proposal_sections"),
   Ref("document_chunks", "document_id", "proposal_documents", "CASCADE"),
   Ref("project_performances", "evidence_document_id", "proposal_documents", "SET NULL"),
   ByNotice("notice_requirements"),
   Ref("requirement_evidences", "requirement_id", "notice_requirements", "CASCADE"),
   Ref("requirement_evidences", "document_id", "proposal_documents", "SET NULL"),
   Ref("requirement_evidences", "chunk_id", "document_chunks", "SET NULL"),
   Ref("requirement_evidences", "performance_id", "project_performances", "SET NULL"),
   ByNotice("proposal_sections"),
   Domain("proposal_documents", "category",
          {"proposal", "report", "certificate", "product", "company", "performance", "other"}),
   Domain("proposal_documents", "indexing_status", {"pending", "indexed", "failed"}),
   Domain("proposal_sections", "generation_status", {"draft", "verified", "rejected", "approved"}),
   Domain("proposal_sections", "fact_check_status", {"pending", "pass", "warning", "reject"}),
   Index("document_chunks", "document"), Index("proposal_sections", "notice")}
  \cup Indexes("proposal_documents", {"category", "customer", "checksum"})
  \cup Indexes("project_performances", {"verified", "customer"})
  \cup Indexes("notice_requirements", {"notice", "type"})
  \cup Indexes("requirement_evidences", {"requirement", "document"})

TrackingTables ==
  {Table("notice_errors"), Table("notice_required_documents"), Table("attachment_fetch_jobs"),
   Table("attachment_fetch_files"),
   ByNotice("notice_errors"), ByNotice("notice_required_documents"),
   ByNotice("attachment_fetch_jobs"), ByNotice("attachment_fetch_files"),
   Ref("attachment_fetch_files", "job_id", "attachment_fetch_jobs", "CASCADE"),
   Domain("notice_errors", "severity", {"info", "warning", "error"}),
   Domain("notice_required_documents", "requirement_type",
          {"required", "conditional", "winner_only", "contract_stage", "reference"}),
   Domain("notice_required_documents", "submit_stage",
          {"bid", "proposal", "price", "post_award", "contract", "delivery", "conditional"}),
   Domain("attachment_fetch_jobs", "status",
          {"pending", "running", "completed", "completed_with_errors"}),
   Domain("attachment_fetch_files", "status", {"pending", "success", "failed", "skipped"}),
   Index("attachment_fetch_jobs", "notice")}
  \cup Indexes("notice_errors", {"notice", "unresolved"})
  \cup Indexes("notice_required_documents", {"notice", "stage"})
  \cup Indexes("attachment_fetch_files", {"job", "notice"})

VocabularyTables ==
  {Table("ontology_concepts"), Table("ontology_aliases"), Table("ontology_rules"),
   Table("knowledge_evidence"),
   Ref("ontology_aliases", "concept_id", "ontology_concepts", "CASCADE"),
   Domain("ontology_concepts", "kind",
          {"requirement", "document_type", "task_type", "role", "product_category",
           "qualification", "standard", "risk_type"}),
   Domain("ontology_concepts", "status", {"active", "deprecated", "draft"}),
   Domain("ontology_aliases", "alias_type", {"synonym", "abbreviation", "legacy", "vendor"}),
   Domain("knowledge_evidence", "source_kind",
          {"g2b_field", "attachment", "email", "llm_extracted", "manual"}),
   Index("ontology_rules", "active_priority")}
  \cup Indexes("ontology_concepts", {"kind", "status", "external"})
  \cup Indexes("ontology_aliases", {"concept", "text"})
  \cup Indexes("knowledge_evidence", {"source_kind", "hash"})

AssertionTables ==
  {Table("ontology_relations"), Table("notice_assertions"), Table("notice_work_tasks"),
   Table("role_bindings"),
   Ref("ontology_relations", "subject_concept_id", "ontology_concepts", "CASCADE"),
   Ref("ontology_relations", "object_concept_id", "ontology_concepts", "CASCADE"),
   Ref("ontology_relations", "evidence_id", "knowledge_evidence", "SET NULL"),
   ByNotice("notice_assertions"),
   Ref("notice_assertions", "concept_id", "ontology_concepts", "CASCADE"),
   Ref("notice_assertions", "evidence_id", "knowledge_evidence", "SET NULL"),
   ByNotice("notice_work_tasks"),
   Ref("notice_work_tasks", "role_concept_id", "ontology_concepts", "RESTRICT"),
   Ref("role_bindings", "role_concept_id", "ontology_concepts", "CASCADE"),
   Domain("ontology_relations", "predicate",
          {"requires_document", "triggers_task", "assigned_role", "depends_on", "satisfies",
           "conflicts_with"}),
   Domain("ontology_relations", "status", {"active", "deprecated"}),
   Domain("notice_assertions", "status", {"candidate", "approved", "rejected"}),
   Domain("notice_work_tasks", "status", {"pending", "in_progress", "done", "blocked"})}
  \cup Indexes("ontology_relations", {"subject", "object"})
  \cup Indexes("notice_assertions", {"notice", "concept", "status"})
  \cup Indexes("notice_work_tasks", {"notice", "status", "role", "due"})
  \cup Indexes("role_bindings", {"role", "role_valid_to"})

CodeObjects == NoticeTables \cup HwpTables \cup ProposalTables \cup TrackingTables
                 \cup VocabularyTables \cup AssertionTables
=============================================================================
