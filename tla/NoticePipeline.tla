--------------------------- MODULE NoticePipeline ---------------------------
(***************************************************************************)
(* The bid_pipeline row of each notice and the HTTP handlers of            *)
(* api/routers/notices.py that change it.                                  *)
(*                                                                         *)
(* Every handler has the same shape: inside one transaction it SELECTs the *)
(* row without locking it, checks a guard, calls something slow (Claude,   *)
(* Qdrant, G2B, the HWP agent, Teams), and at the end UPDATEs the status   *)
(* and/or the whole "analysis" document with values computed from the row  *)
(* it read.  Begin is the read and the guard; the Commit actions are the   *)
(* final write.  Sync handlers run in a thread pool, so any number of them *)
(* interleave; PostgreSQL's READ COMMITTED serialises nothing but the      *)
(* single UPDATE.                                                          *)
(***************************************************************************)
EXTENDS NoticeStatus

CONSTANTS Notices,      \* notice numbers
          Requests,     \* slots of the thread pool: requests that can be in flight
          FitScores,    \* the fit scores Claude and the grading may produce
          Ops,          \* the handlers clients call in this instance
          NoNotice,     \* the notice of an idle slot
          MaxCrashes,   \* bound: how often the API process dies
          MaxSent       \* bound: where the count of Teams messages saturates

\* Handlers that read the row first and write it later.
OpNames == {"analyze", "notify", "grade", "autofill", "documents", "fetch",
            "spec", "patch_spec", "put_fields", "compose", "proposal", "edit", "review"}

ASSUME RequestAssumption == /\ NoNotice \notin Notices
                            /\ FitScores \subseteq 0..100
                            /\ Ops \subseteq OpNames
                            /\ MaxCrashes \in Nat
                            /\ MaxSent \in Nat \ {0}

\* The parts of bid_pipeline.analysis, each named for the handler output it
\* holds; all but the first three live under document_automation ("docs").
Sections == {"claude", "grade", "elec_spec", "docs", "bid_form",
             "uploads", "exports", "hwp_jobs", "proposal"}

\* Child tables of a notice whose rows later handlers look for.
Tables == {"notice_spec_items", "hwp_generation_jobs"}

VARIABLES row,        \* the bid_pipeline row (and its child tables) of each notice
          req,        \* what each slot of the thread pool is doing
          overtaken,  \* history: requests whose notice another one wrote since their read
          sent,       \* history: Teams messages posted about a notice
          crashes     \* how often the process died

vars == <<row, req, overtaken, sent, crashes>>

Row == [status   : Statuses \cup {NoStatus},
        fit      : 0..100,
        graded   : BOOLEAN,
        sections : SUBSET Sections,
        tables   : SUBSET Tables]

NoRow == [status |-> NoStatus, fit |-> 0, graded |-> FALSE,
          sections |-> {}, tables |-> {}]

\* The row upsert inserts: the server default of status, and an empty analysis.
NewRow == [status |-> "collected", fit |-> 0, graded |-> FALSE,
           sections |-> {}, tables |-> {}]

\* What a request keeps of the row it read: the status, the sections of the
\* analysis document, and what its guard decided (the final status notify
\* will write, or whether the pre-compose checks passed).
Plans == FINAL_STATUSES \cup {"none", "open", "blocked"}

Request == [op       : OpNames \cup {"idle"},
            notice   : Notices \cup {NoNotice},
            status   : Statuses \cup {NoStatus},
            sections : SUBSET Sections,
            plan     : Plans,
            told     : BOOLEAN]

Idle == [op |-> "idle", notice |-> NoNotice, status |-> NoStatus,
         sections |-> {}, plan |-> "none", told |-> FALSE]

Init == /\ row = [n \in Notices |-> NoRow]
        /\ req = [r \in Requests |-> Idle]
        /\ overtaken = {}
        /\ sent = [n \in Notices |-> 0]
        /\ crashes = 0

-----------------------------------------------------------------------------
(* The guards, evaluated on the row as read. *)

\* grading_runner._GRADEABLE_STATUSES
GradeableStatuses == {"analyzed"} \cup {"form_filled"} \cup FINAL_STATUSES

\* documents/analyze: every processing status from "analyzed" on.
DocumentStatuses == PROCESSING_STATUSES \ {"collected"}

\* The handlers that go through _load_document_automation answer 409 until
\* some handler has created document_automation.
NeedsDocs == {"put_fields", "compose", "proposal", "edit", "review"}

Accepts(op, old) ==
  /\ old.status # NoStatus
  /\ op = "analyze"    => can_transition(old.status, "analyzed")
  /\ op = "notify"     => can_transition(old.status, compute_notify_status(old.fit))
  /\ op = "grade"      => old.status \in GradeableStatuses
  /\ op = "autofill"   => can_transition(old.status, "form_filled")
  /\ op = "documents"  => old.status \in DocumentStatuses
  /\ op \in NeedsDocs  => "docs" \in old.sections
  /\ op = "review"     => "hwp_generation_jobs" \in old.tables
  /\ op = "patch_spec" => "notice_spec_items" \in old.tables

\* hwp-compose and proposal-compose run validate_pre_compose on what they
\* read: without spec items it fails, with them it still may (a required
\* document or value is missing).
Plan(op, old) ==
  CASE op = "notify" -> {compute_notify_status(old.fit)}
    [] op \in {"compose", "proposal"}
         -> IF "notice_spec_items" \in old.tables THEN {"open", "blocked"} ELSE {"blocked"}
    [] OTHER -> {"none"}

Begin(r, n, op) ==
  /\ req[r] = Idle
  /\ Accepts(op, row[n])
  /\ \E plan \in Plan(op, row[n]) :
       req' = [req EXCEPT ![r] = [op |-> op, notice |-> n, status |-> row[n].status,
                                  sections |-> row[n].sections,
                                  plan |-> plan, told |-> FALSE]]
  /\ UNCHANGED <<row, overtaken, sent, crashes>>

-----------------------------------------------------------------------------
(* The end of a request. *)

\* The UPDATE and the COMMIT of request r: the row becomes "new", and every
\* other request that has already read this notice now works on a stale copy.
Finish(r, new) ==
  /\ row' = [row EXCEPT ![req[r].notice] = new]
  /\ req' = [req EXCEPT ![r] = Idle]
  /\ overtaken' = (overtaken \cup {q \in Requests : req[q].notice = req[r].notice}) \ {r}
  /\ UNCHANGED <<sent, crashes>>

Running(r, op) == req[r].op = op

Current(r) == row[req[r].notice]

\* analyze: category, fit_score, assignee and the WHOLE analysis are replaced.
CommitAnalyze(r) ==
  /\ Running(r, "analyze")
  /\ \E fit \in FitScores :
       Finish(r, [Current(r) EXCEPT !.status = "analyzed", !.fit = fit,
                                    !.sections = {"claude"}])

\* notify posts to Teams first; the message may get through or not.
DeliverNotify(r) ==
  /\ Running(r, "notify")
  /\ ~ req[r].told
  /\ req' = [req EXCEPT ![r].told = TRUE]
  /\ \E delivered \in BOOLEAN :
       sent' = IF delivered /\ sent[req[r].notice] < MaxSent
                 THEN [sent EXCEPT ![req[r].notice] = @ + 1] ELSE sent
  /\ UNCHANGED <<row, overtaken, crashes>>

\* ... and the final status is written whatever the delivery's outcome.
Bug_NotifyForgetsStatus(r) ==
  /\ Running(r, "notify")
  /\ req[r].told
  /\ Finish(r, Current(r))

Bug_NotifyAlwaysNotified(r) ==
  /\ Running(r, "notify")
  /\ req[r].told
  /\ Finish(r, [Current(r) EXCEPT !.status = "notified"])

CommitNotify(r) ==
  /\ Running(r, "notify")
  /\ req[r].told
  /\ Finish(r, [Current(r) EXCEPT !.status = req[r].plan])

Bug_GradeScaledTwice(r) ==
  /\ Running(r, "grade")
  /\ \E fit \in FitScores :
       Finish(r, [Current(r) EXCEPT !.fit = 100 * fit, !.graded = TRUE,
                                    !.sections = req[r].sections \cup {"grade"}])

\* grade: the scores and analysis.grade; the status column is not written.
CommitGrade(r) ==
  /\ Running(r, "grade")
  /\ \E fit \in FitScores :
       Finish(r, [Current(r) EXCEPT !.fit = fit, !.graded = TRUE,
                                    !.sections = req[r].sections \cup {"grade"}])

\* autofill-form, the agent having answered; attach_bid_form_result creates
\* document_automation when there is none.
CommitAutofill(r) ==
  /\ Running(r, "autofill")
  /\ Finish(r, [Current(r) EXCEPT !.status = "form_filled",
                                  !.sections = req[r].sections \cup {"docs", "bid_form"}])

\* analyze_document_requirements builds a new document_automation: uploads,
\* exports and the bid form draft are carried over, the HWP jobs and the
\* proposal draft are not.
Bug_RebuildLosesUploads(sections) ==
  (sections \cup {"docs"}) \ {"hwp_jobs", "proposal", "uploads"}

Rebuilt(sections) == (sections \cup {"docs"}) \ {"hwp_jobs", "proposal"}

CommitDocuments(r) ==
  /\ Running(r, "documents")
  /\ Finish(r, [Current(r) EXCEPT
                  !.status = advance_status(req[r].status, "documents_analyzed"),
                  !.sections = Rebuilt(req[r].sections)])

\* attachments/fetch: uploads appear, stay, or (a broken one could not be
\* downloaded again) disappear; the checklist is re-evaluated afterwards.
CommitFetch(r) ==
  /\ Running(r, "fetch")
  /\ \E uploads \in {req[r].sections, req[r].sections \cup {"uploads"},
                     req[r].sections \ {"uploads"}} :
       Finish(r, [Current(r) EXCEPT
                    !.status = advance_status(req[r].status, "attachments_fetched"),
                    !.sections = Rebuilt(uploads)])

Bug_SpecKeepsStatus(r) ==
  /\ Running(r, "spec")
  /\ Finish(r, [Current(r) EXCEPT
                  !.sections = req[r].sections \cup {"elec_spec"},
                  !.tables = @ \cup {"notice_spec_items"}])

\* spec-items/extract: notice_spec_items and their mirror in elec_spec.
CommitSpec(r) ==
  /\ Running(r, "spec")
  /\ Finish(r, [Current(r) EXCEPT
                  !.status = advance_status(req[r].status, "spec_extracted"),
                  !.sections = req[r].sections \cup {"elec_spec"},
                  !.tables = @ \cup {"notice_spec_items"}])

-----------------------------------------------------------------------------
(* The HWP handlers. *)

\* _execute_hwp_put_fields with the agent failing: the job row and its mirror
\* are kept, the status column is not written.
CommitPutFieldsFailed(r) ==
  /\ Running(r, "put_fields")
  /\ Finish(r, [Current(r) EXCEPT !.sections = req[r].sections \cup {"hwp_jobs"},
                                  !.tables = @ \cup {"hwp_generation_jobs"}])

\* ... and with the agent answering: the export is recorded; a bid form with
\* no error, no missing value and no remaining placeholder is form_filled.
CommitPutFields(r) ==
  /\ Running(r, "put_fields")
  /\ \E template \in {"bid_form", "proposal"}, clean \in BOOLEAN :
       LET composed == advance_status(req[r].status, "hwp_composed")
           drafts   == IF template = "proposal" THEN {"proposal"} ELSE {}
       IN  Finish(r, [Current(r) EXCEPT
                        !.status = IF template = "bid_form" /\ clean
                                     THEN advance_status(composed, "form_filled")
                                     ELSE composed,
                        !.sections = req[r].sections \cup {"exports", "hwp_jobs"} \cup drafts,
                        !.tables = @ \cup {"hwp_generation_jobs"}])

\* hwp-compose, proposal-compose: the pre-compose errors are appended to the
\* analysis document as it was read and committed; then the answer is 409.
CommitBlocked(r) ==
  /\ Running(r, "compose") \/ Running(r, "proposal")
  /\ req[r].plan = "blocked"
  /\ Finish(r, [Current(r) EXCEPT !.sections = req[r].sections])

Bug_ComposeForcesStatus(r) ==
  /\ Running(r, "compose")
  /\ req[r].plan = "open"
  /\ \E bid \in {"off", "clean"} :
       Finish(r, [Current(r) EXCEPT
                    !.status = IF bid = "clean" THEN "form_filled" ELSE "hwp_composed",
                    !.sections = req[r].sections \cup {"exports"}])

\* hwp-compose.  The bid form goes through _execute_hwp_put_fields, whose own
\* UPDATE is overwritten by the handler's: only the compliance table moves the
\* status to hwp_composed, whatever the bid form did.
CommitCompose(r) ==
  /\ Running(r, "compose")
  /\ req[r].plan = "open"
  /\ \E bid \in {"off", "failed", "remaining", "clean"}, tech \in {"off", "failed", "made"} :
       LET composed == IF tech = "made" THEN advance_status(req[r].status, "hwp_composed")
                                        ELSE req[r].status
           exported == IF tech = "made" \/ bid \in {"remaining", "clean"}
                         THEN {"exports"} ELSE {}
           jobs     == IF bid # "off" THEN {"hwp_jobs"} ELSE {}
       IN  Finish(r, [Current(r) EXCEPT
                        !.status = IF bid = "clean" /\ tech # "failed"
                                     THEN advance_status(composed, "form_filled")
                                     ELSE composed,
                        !.sections = req[r].sections \cup exported \cup jobs,
                        !.tables = IF bid # "off" THEN @ \cup {"hwp_generation_jobs"} ELSE @])

\* proposal-compose: the draft and the job are always kept, the export only
\* when the agent produced the file.
CommitProposal(r) ==
  /\ Running(r, "proposal")
  /\ req[r].plan = "open"
  /\ \E made \in BOOLEAN :
       Finish(r, [Current(r) EXCEPT
                    !.status = IF made THEN advance_status(req[r].status, "hwp_composed")
                                       ELSE req[r].status,
                    !.sections = req[r].sections \cup {"proposal", "hwp_jobs"}
                                   \cup (IF made THEN {"exports"} ELSE {}),
                    !.tables = @ \cup {"hwp_generation_jobs"}])

-----------------------------------------------------------------------------
(* Handlers that rewrite the analysis document and leave the status alone. *)

\* The checklist is patched or validated.
ChecklistEdits(sections) == {sections}

\* A file is uploaded, imported from the common library or deleted; the last
\* deletion empties the uploads.
UploadEdits(sections) == {sections \cup {"uploads"}, sections \ {"uploads"}}

\* An Excel or HWP export is recorded, or refused by the pre-compose checks.
ExportEdits(sections) == {sections, sections \cup {"exports"}}

CommitEdit(r) ==
  /\ Running(r, "edit")
  /\ \E sections \in ChecklistEdits(req[r].sections) \cup UploadEdits(req[r].sections)
                        \cup ExportEdits(req[r].sections) :
       Finish(r, [Current(r) EXCEPT !.sections = sections])

\* The correction of one spec item refreshes the mirror in elec_spec.
CommitPatchSpec(r) ==
  /\ Running(r, "patch_spec")
  /\ Finish(r, [Current(r) EXCEPT !.sections = req[r].sections \cup {"elec_spec"}])

\* The review of a HWP job: its mirror is put (back) into document_automation.
CommitReview(r) ==
  /\ Running(r, "review")
  /\ Finish(r, [Current(r) EXCEPT !.sections = req[r].sections \cup {"hwp_jobs"}])

-----------------------------------------------------------------------------
(* Requests that end without a trace, and the insertion of notices. *)

\* An HTTPException raised inside "with engine.begin()" rolls everything back:
\* the agent failing in autofill-form and in the exports, a transform that
\* rejects a value (_resolve_hwp_context), a file that is refused, an
\* unexpected exception while grading.
FailingOps == {"autofill", "grade", "put_fields", "compose", "proposal", "edit"}

Fail(r) ==
  /\ req[r].op \in FailingOps
  /\ req' = [req EXCEPT ![r] = Idle]
  /\ overtaken' = overtaken \ {r}
  /\ UNCHANGED <<row, sent, crashes>>

\* The API process dies: PostgreSQL rolls back every open transaction.
Crash ==
  /\ crashes < MaxCrashes
  /\ crashes' = crashes + 1
  /\ req' = [r \in Requests |-> Idle]
  /\ overtaken' = {}
  /\ UNCHANGED <<row, sent>>

\* upsert: a new notice starts as "collected" with an empty analysis; an
\* existing one keeps its status and only gets a new title, source and raw.
Bug_UpsertResetsStatus(n) ==
  /\ row' = [row EXCEPT ![n].status = "collected"]
  /\ UNCHANGED <<req, overtaken, sent, crashes>>

Upsert(n) ==
  /\ row' = IF row[n].status = NoStatus
              THEN [row EXCEPT ![n] = NewRow]
              ELSE row
  /\ UNCHANGED <<req, overtaken, sent, crashes>>

Next == \/ \E n \in Notices : Upsert(n)
        \/ \E r \in Requests, n \in Notices, op \in Ops : Begin(r, n, op)
        \/ \E r \in Requests : \/ CommitAnalyze(r)
                               \/ DeliverNotify(r)
                               \/ CommitNotify(r)
                               \/ CommitGrade(r)
                               \/ CommitAutofill(r)
                               \/ CommitDocuments(r)
                               \/ CommitFetch(r)
                               \/ CommitSpec(r)
                               \/ CommitPatchSpec(r)
                               \/ CommitPutFieldsFailed(r)
                               \/ CommitPutFields(r)
                               \/ CommitBlocked(r)
                               \/ CommitCompose(r)
                               \/ CommitProposal(r)
                               \/ CommitEdit(r)
                               \/ CommitReview(r)
                               \/ Fail(r)
        \/ Crash

Spec == Init /\ [][Next]_vars

-----------------------------------------------------------------------------
(* Properties *)

TypeOK == /\ row \in [Notices -> Row]
          /\ req \in [Requests -> Request]
          /\ overtaken \subseteq Requests
          /\ sent \in [Notices -> 0..MaxSent]
          /\ crashes \in 0..MaxCrashes

\* Request r ends in this step while another request had already written the
\* notice r had read: what r writes was computed from a stale row.
StaleEnd(r, n) == r \in overtaken /\ req[r].notice = n /\ req'[r] = Idle

\* A collected notice carries nothing: no analysis section, no child row, no
\* grade.  However the handlers interleave, none of those that keep or enrich
\* a document may write one under a notice that still (or again) waits for
\* its analysis.
CollectedIsPristine ==
  \A n \in Notices :
    row[n].status \in {NoStatus, "collected"} =>
      /\ row[n].sections = {}
      /\ row[n].tables = {}
      /\ ~ row[n].graded

\* Status never falls, and a final status never changes, except when a request
\* that had been overtaken commits (README section 4, no downgrade): the
\* handlers are monotone, and a stale commit is the only way back.
OnlyStaleCommitsDowngrade ==
  [][\A n \in Notices :
       ~ Forward(row[n].status, row'[n].status) => \E r \in Requests : StaleEnd(r, n)]_vars

\* What a handler may drop from the analysis document of a notice on purpose.
MayDrop(op) == CASE op = "analyze"   -> Sections
                 [] op = "documents" -> {"hwp_jobs", "proposal"}
                 [] op = "fetch"     -> {"hwp_jobs", "proposal", "uploads"}
                 [] op = "edit"      -> {"uploads"}
                 [] OTHER            -> {}

\* A section of the analysis document disappears only when the handler that
\* commits drops it by design, or when it had been overtaken (the lost
\* update).  In particular uploads, exports and the bid form draft survive a
\* new document analysis (document_automation.py:24).
SectionsLostOnlyByDesign ==
  [][\A n \in Notices :
       LET lost == row[n].sections \ row'[n].sections
       IN  lost # {} => \E r \in Requests : \/ StaleEnd(r, n)
                                           \/ /\ req[r].notice = n /\ req'[r] = Idle
                                              /\ lost \subseteq MayDrop(req[r].op)]_vars

\* A notice becomes final with the status its fit score asks for at that very
\* moment, not the score it had when notify read it, unless notify was
\* overtaken (by a grade, say) while it waited for Teams.
FinalFitsScore ==
  [][\A n \in Notices :
       /\ row[n].status \notin FINAL_STATUSES
       /\ row'[n].status \in FINAL_STATUSES
       => \/ row'[n].status = compute_notify_status(row[n].fit)
          \/ \E r \in Requests : StaleEnd(r, n)]_vars

\* Teams hears about a notice that is already final only from a notify that
\* was overtaken.
MessageBeforeFinal ==
  [][\A n \in Notices :
       sent'[n] # sent[n] =>
         \/ row[n].status \notin FINAL_STATUSES
         \/ \E r \in overtaken : Running(r, "notify") /\ req[r].notice = n]_vars

\* With one request at a time a notice is announced once, plus at most once
\* for every crash between the message and the commit of the final status.
OneMessagePerCrash == \A n \in Notices : sent[n] <= 1 + crashes

-----------------------------------------------------------------------------
(* The documented life cycle, and the one the handlers implement.          *)

StatusOf == [n \in Notices |-> row[n].status]

\* README section 4, the table of allowed transitions; it is can_transition.
DocumentedEdges ==
  {e \in (Statuses \cup {NoStatus}) \X Statuses : can_transition(e[1], e[2])}

\* attachments/fetch and spec-items/extract have no status guard and use
\* advance_status, which lets them skip "analyzed".
ImplementedEdges ==
  DocumentedEdges \cup ({"collected"} \X {"attachments_fetched", "spec_extracted"})

Documented == INSTANCE NoticeLifecycle WITH status <- StatusOf, Edges <- DocumentedEdges
Implemented == INSTANCE NoticeLifecycle WITH status <- StatusOf, Edges <- ImplementedEdges

\* One request at a time: the pipeline implements the life cycle with the two
\* extra edges.
ImplementsLifecycle == Implemented!Spec

\* The life cycle of the README, to the letter.
FollowsDocumentedLifecycle == Documented!Spec

\* README section 4: "FINAL (no transition)".
FinalIsFinal ==
  [][\A n \in Notices :
       row[n].status \in FINAL_STATUSES => row'[n].status = row[n].status]_vars

\* grading_runner.grade_notice_impl: grade can be called again anywhere after
\* "analyzed" (here, for a notice that has been analyzed).
GradeableAfterAnalyzed ==
  \A n \in Notices :
    /\ row[n].status \in Statuses \ {"collected"}
    /\ "claude" \in row[n].sections
    => Accepts("grade", row[n])

\* docs/api-spec-v0.2.md, the route table: hwp-compose moves the notice to
\* hwp_composed or form_filled; here, whenever it has recorded a new export.
ComposeAdvances ==
  [][\A n \in Notices, r \in Requests :
       /\ req[r].op = "compose" /\ req[r].notice = n /\ req'[r] = Idle
       /\ "exports" \in row'[n].sections \ row[n].sections
       => Rank(row'[n].status) >= Rank("hwp_composed")]_vars
=============================================================================
