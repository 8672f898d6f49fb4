-------------------------- MODULE MigrationScripts --------------------------
(***************************************************************************)
(* The thirteen Alembic revisions.  A script is a sequence of statements;  *)
(* the statement that creates a table stands for it and the indexes that   *)
(* follow it, the one that drops a table for the DROP INDEXes before it.   *)
(***************************************************************************)
EXTENDS SchemaObjects, Naturals, Sequences

Create(objects) == [sql |-> "create", objects |-> objects]
Drop(objects) == [sql |-> "drop", objects |-> objects]
CreateIfMissing(objects) == [sql |-> "create if missing", objects |-> objects]
DropIfExists(objects) == [sql |-> "drop if exists", objects |-> objects]
Backfill == [sql |-> "backfill", objects |-> {}]
DropTable(t) == Drop({Table(t)})

Up0001 ==
  <<Create({Table("bid_pipeline"), Domain("bid_pipeline", "fit_score", {"0..100"})}
           \cup Indexes("bid_pipeline", {"status", "fit_score", "updated_at", "bid_type",
                        "org_code", "close_date", "score_total", "top_sku"})),
    CreateIfMissing({Function("set_updated_at")}),
    DropIfExists({Trigger("bid_pipeline")}),
    Create({Trigger("bid_pipeline")})>>

Down0001 == <<DropIfExists({Trigger("bid_pipeline")}), DropIfExists({Function("set_updated_at")}),
              DropTable("bid_pipeline")>>

SearchIndexes == Indexes("bid_pipeline", {"close_updated", "category", "org_name", "assignee"})

Up0002 == <<CreateIfMissing(SearchIndexes)>>

Down0002 == <<DropIfExists(SearchIndexes)>>

ConceptTables ==
  <<Create({Table("ontology_concepts"),
            Domain("ontology_concepts", "kind",
                   {"requirement", "document_type", "task_type", "role", "product_category",
                    "qualification", "standard", "risk_type"}),
            Domain("ontology_concepts", "status", {"active", "deprecated", "draft"})}
           \cup Indexes("ontology_concepts", {"kind", "status", "external"})),
    Create({Table("ontology_aliases"),
            Ref("ontology_aliases", "concept_id", "ontology_concepts", "CASCADE"),
            Domain("ontology_aliases", "alias_type", {"synonym", "abbreviation", "legacy", "vendor"})}
           \cup Indexes("ontology_aliases", {"concept", "text"}))>>

RuleTables ==
  <<Create({Table("ontology_rules"), Index("ontology_rules", "active_priority")}),
    Create({Table("knowledge_evidence"),
            Domain("knowledge_evidence", "source_kind",
                   {"g2b_field", "attachment", "email", "llm_extracted", "manual"})}
           \cup Indexes("knowledge_evidence", {"source_kind", "hash"})),
    Create({Table("ontology_relations"),
            Ref("ontology_relations", "subject_concept_id", "ontology_concepts", "CASCADE"),
            Ref("ontology_relations", "object_concept_id", "ontology_concepts", "CASCADE"),
            Ref("ontology_relations", "evidence_id", "knowledge_evidence", "SET NULL"),
            Domain("ontology_relations", "predicate",
                   {"requires_document", "triggers_task", "assigned_role", "depends_on",
                    "satisfies", "conflicts_with"}),
            Domain("ontology_relations", "status", {"active", "deprecated"})}
           \cup Indexes("ontology_relations", {"subject", "object"}))>>

TaskTables ==
  <<Create({Table("notice_assertions"), ByNotice("notice_assertions"),
            Ref("notice_assertions", "concept_id", "ontology_concepts", "CASCADE"),
            Ref("notice_assertions", "evidence_id", "knowledge_evidence", "SET NULL"),
            Domain("notice_assertions", "status", {"candidate", "approved", "rejected"})}
           \cup Indexes("notice_assertions", {"notice", "concept", "status"})),
    Create({Table("notice_work_tasks"), ByNotice("notice_work_tasks"),
            Ref("notice_work_tasks", "role_concept_id", "ontology_concepts", "RESTRICT"),
            Domain("notice_work_tasks", "status", {"pending", "in_progress", "done", "blocked"})}
           \cup Indexes("notice_work_tasks", {"notice", "status", "role", "due"})),
    Create({Table("role_bindings"),
            Ref("role_bindings", "role_concept_id", "ontology_concepts", "CASCADE")}
           \cup Indexes("role_bindings", {"role", "role_valid_to"}))>>

UpdatedAtTriggers ==
  {Trigger(t) : t \in {"ontology_concepts", "ontology_rules", "notice_work_tasks"}}

Up0003 == ConceptTables \o RuleTables \o TaskTables
            \o <<DropIfExists(UpdatedAtTriggers), Create(UpdatedAtTriggers)>>

Down0003 ==
  <<DropIfExists(UpdatedAtTriggers), DropTable("role_bindings"), DropTable("notice_work_tasks"),
    DropTable("notice_assertions"), DropTable("ontology_relations"),
    DropTable("knowledge_evidence"), DropTable("ontology_rules"), DropTable("ontology_aliases"),
    DropTable("ontology_concepts")>>

Up0004 == <<Backfill>>

Down0004 == <<>>

Up0005 ==
  <<Create({Table("notice_spec_items"), ByNotice("notice_spec_items"),
            Domain("notice_spec_items", "status",
                   {"candidate", "reviewed", "matched", "gap", "ignored"})}
           \cup Indexes("notice_spec_items", {"notice", "status"}))>>

Down0005 == <<DropTable("notice_spec_items")>>

ReviewColumns == Columns("notice_spec_items", {"note", "reviewed_by", "reviewed_at", "locked_fields"})

Up0006 ==
  <<Create(ReviewColumns),
    Create({Table("notice_exports"), ByNotice("notice_exports"),
            Domain("notice_exports", "kind", {"excel", "hwp", "proposal_hwp"})}
           \cup Indexes("notice_exports", {"notice", "active"})),
    Create({Table("notice_errors"), ByNotice("notice_errors"),
            Domain("notice_errors", "severity", {"info", "warning", "error"})}
           \cup Indexes("notice_errors", {"notice", "unresolved"}))>>

Down0006 == <<DropTable("notice_errors"), DropTable("notice_exports"), Drop(ReviewColumns)>>

SourceColumns ==
  Columns("notice_spec_items", {"source_text", "source_file_name", "source_page", "review_priority"})
Priority == {Domain("notice_spec_items", "review_priority", {"normal", "high"})}

Up0007 ==
  <<Create(SourceColumns), Create(Priority),
    Create({Table("attachment_fetch_jobs"), ByNotice("attachment_fetch_jobs"),
            Domain("attachment_fetch_jobs", "status",
                   {"pending", "running", "completed", "completed_with_errors"}),
            Index("attachment_fetch_jobs", "notice")}),
    Create({Table("attachment_fetch_files"), ByNotice("attachment_fetch_files"),
            Ref("attachment_fetch_files", "job_id", "attachment_fetch_jobs", "CASCADE"),
            Domain("attachment_fetch_files", "status", {"pending", "success", "failed", "skipped"})}
           \cup Indexes("attachment_fetch_files", {"job", "notice"}))>>

Bug_ColumnsStay == <<DropTable("attachment_fetch_files"), DropTable("attachment_fetch_jobs"),
                       Drop(Priority)>>

Down0007 == <<DropTable("attachment_fetch_files"), DropTable("attachment_fetch_jobs"),
              Drop(Priority), Drop(SourceColumns)>>

QualityColumns == Columns("notice_exports", {"version", "template_version", "validation_status",
                          "validation_errors", "file_size", "sha256"})
Quality == {Domain("notice_exports", "validation_status", {"passed", "warning", "failed"})}

Up0008 == <<Create(QualityColumns), Create(Quality)>>

Down0008 == <<Drop(Quality), Drop(QualityColumns)>>

JobExport == Ref("hwp_generation_jobs", "export_id", "notice_exports", "SET NULL")

Up0009 ==
  <<Create({Table("company_profiles"), Index("company_profiles", "active")}),
    Create({Table("hwp_templates"), Domain("hwp_templates", "kind", {"bid_form", "proposal"}),
            Index("hwp_templates", "active")}),
    Create({Table("document_field_mappings"),
            Ref("document_field_mappings", "template_id", "hwp_templates", "CASCADE"),
            Domain("document_field_mappings", "transform",
                   {"none", "date_yyyy_mm_dd", "number_comma", "business_number_dash", "strip",
                    "truncate_1000"}),
            Index("document_field_mappings", "template")}),
    Create({Table("hwp_generation_jobs"), ByNotice("hwp_generation_jobs"),
            Ref("hwp_generation_jobs", "template_id", "hwp_templates", "SET NULL"),
            JobExport,
            Domain("hwp_generation_jobs", "status", {"pending", "running", "completed", "failed"}),
            Domain("hwp_generation_jobs", "review_status", {"pending", "approved", "rejected"})}
           \cup Indexes("hwp_generation_jobs", {"notice", "review"}))>>

Down0009 == <<DropTable("hwp_generation_jobs"), DropTable("document_field_mappings"),
              DropTable("hwp_templates"), DropTable("company_profiles")>>

NewKinds == {Domain("notice_exports", "kind", {"excel", "hwp", "bid_form_hwp", "proposal_hwp"})}
OldKinds == {Domain("notice_exports", "kind", {"excel", "hwp", "proposal_hwp"})}

Bug_KindNotAllowed == <<>>

Up0010 == <<Drop(OldKinds), Create(NewKinds)>>

Down0010 == <<Drop(NewKinds), Create(OldKinds)>>

\* 0010b_noop_placeholder: nothing, both ways.
Up0010b == <<>>

Down0010b == <<>>

Up0011 ==
  <<Create({Table("notice_required_documents"), ByNotice("notice_required_documents"),
            Domain("notice_required_documents", "requirement_type",
                   {"required", "conditional", "winner_only", "contract_stage", "reference"}),
            Domain("notice_required_documents", "submit_stage",
                   {"bid", "proposal", "price", "post_award", "contract", "delivery", "conditional"})}
           \cup Indexes("notice_required_documents", {"notice", "stage"}))>>

Down0011 == <<DropTable("notice_required_documents")>>

LibraryTables ==
  <<Create({Table("proposal_documents"),
            Domain("proposal_documents", "category",
                   {"proposal", "report", "certificate", "product", "company", "performance", "other"}),
            Domain("proposal_documents", "indexing_status", {"pending", "indexed", "failed"})}
           \cup Indexes("proposal_documents", {"category", "customer", "checksum"})),
    Create({Table("document_chunks"),
            Ref("document_chunks", "document_id", "proposal_documents", "CASCADE"),
            Index("document_chunks", "document")}),
    Create({Table("project_performances"),
            Ref("project_performances", "evidence_document_id", "proposal_documents", "SET NULL")}
           \cup Indexes("project_performances", {"verified", "customer"}))>>

Bug_RequirementsUnowned ==
  <<Create({Table("notice_requirements")} \cup Indexes("notice_requirements", {"notice", "type"}))>>

RequirementTable ==
  <<Create({Table("notice_requirements"), ByNotice("notice_requirements")}
           \cup Indexes("notice_requirements", {"notice", "type"}))>>

EvidenceTables ==
  <<Create({Table("requirement_evidences"),
            Ref("requirement_evidences", "requirement_id", "notice_requirements", "CASCADE"),
            Ref("requirement_evidences", "document_id", "proposal_documents", "SET NULL"),
            Ref("requirement_evidences", "chunk_id", "document_chunks", "SET NULL"),
            Ref("requirement_evidences", "performance_id", "project_performances", "SET NULL")}
           \cup Indexes("requirement_evidences", {"requirement", "document"})),
    Create({Table("proposal_sections"), ByNotice("proposal_sections"),
            Domain("proposal_sections", "generation_status",
                   {"draft", "verified", "rejected", "approved"}),
            Domain("proposal_sections", "fact_check_status", {"pending", "pass", "warning", "reject"}),
            Index("proposal_sections", "notice")})>>

Up0012 == LibraryTables \o RequirementTable \o EvidenceTables

Bug_DocumentsBeforeChunks ==
  <<DropTable("proposal_sections"), DropTable("requirement_evidences"),
    DropTable("notice_requirements"), DropTable("project_performances"),
    DropTable("proposal_documents"), DropTable("document_chunks")>>

Down0012 ==
  <<DropTable("proposal_sections"), DropTable("requirement_evidences"),
    DropTable("notice_requirements"), DropTable("project_performances"),
    DropTable("document_chunks"), DropTable("proposal_documents")>>

\* The chain of down_revisions, oldest first: one linear head.
Up == <<Up0001, Up0002, Up0003, Up0004, Up0005, Up0006, Up0007, Up0008, Up0009, Up0010,
        Up0010b, Up0011, Up0012>>
Down == <<Down0001, Down0002, Down0003, Down0004, Down0005, Down0006, Down0007, Down0008,
          Down0009, Down0010, Down0010b, Down0011, Down0012>>

HeadRev == Len(Up)
=============================================================================
