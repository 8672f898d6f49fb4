------------------------- MODULE DocumentWorkspace -------------------------
(***************************************************************************)
(* The document workspace of one notice: the checklist and the uploads     *)
(* under analysis.document_automation, the files behind the uploads, the   *)
(* attachment jobs, and the common library that every notice imports from. *)
(*                                                                         *)
(* A handler is one action: it reads the document, computes the new one    *)
(* and writes it in the same transaction.  How transactions of the same    *)
(* notice overlap is NoticePipeline's subject.  Files are not part of the  *)
(* transaction, so a handler that touches the disk may have its effect     *)
(* there and then lose the database write to a crash.                      *)
(***************************************************************************)
EXTENDS Naturals, FiniteSets

CONSTANTS RuleItems,        \* checklist items the rules always list
          Conditional,      \* those the rules require only when the text mentions them
          LlmItems,         \* items only the LLM may add
          Attachments,      \* supported attachments of the notice's raw data
          HwpFiles,         \* those whose text only the HWP agent can extract
          Pointed,          \* items the text of a file may point to
          LlmAnswers,       \* what Claude may answer: for some items, whether they are required
          PatchStatuses,    \* bound: the statuses a PATCH sets
          MaxFiles,         \* bound: files that exist at the same time
          MaxCrashes,       \* bound: how often the API process dies
          NoItem            \* an upload that is mapped to no item

Items == RuleItems \cup LlmItems
Ids == 1..MaxFiles

ASSUME WorkspaceAssumption == /\ "bid_form" \in RuleItems \ Conditional
                              /\ Conditional \subseteq RuleItems
                              /\ HwpFiles \subseteq Attachments
                              /\ Pointed \subseteq Items
                              /\ \A answer \in LlmAnswers : /\ DOMAIN answer \subseteq Items
                                                            /\ answer \in [DOMAIN answer -> BOOLEAN]
                              /\ PatchStatuses \subseteq {"needed", "ready", "generated",
                                                          "not_applicable", "blocked"}
                              /\ MaxFiles \in Nat \ {0}
                              /\ MaxCrashes \in Nat
                              /\ NoItem \notin Items

ItemStatuses == {"needed", "ready", "generated", "not_applicable", "blocked"}
READY_STATUSES == {"ready", "generated"}

\* A checklist item; "manual" stands for the "manual" part of its source.
Item == [required : BOOLEAN, status : ItemStatuses, manual : BOOLEAN]

Checklists == UNION {[listed -> Item] : listed \in SUBSET Items}

\* An entry of uploads[].  An imported entry shares the file of the library.
\* text: an excerpt was extracted; empty: there was none; error: it failed.
Upload == [id   : Ids,
           file : Ids,
           item : Items \cup {NoItem},
           from : Attachments \cup {"uploaded", "common_library"},
           text : {"text", "empty", "error"}]

Stages == {"g2b_attachment_fetch", "g2b_attachment_analysis"}
FileStatuses == {"none", "success", "failed", "skipped"}

VARIABLES docs,      \* analysis.document_automation
          bidForm,   \* analysis.bid_form exists
          disk,      \* files in the upload directories
          job,       \* the last attachment job and the rows of its files
          open,      \* unresolved notice_errors of the attachment stages
          library,   \* the entries common/metadata.json reads as
          saver,     \* saves of the library that have truncated the file
          crashes    \* how often the process died

vars == <<docs, bidForm, disk, job, open, library, saver, crashes>>

NoDocs == [present |-> FALSE, checklist |-> <<>>, uploads |-> {}, ready |-> FALSE,
           errors |-> {}]

Init == /\ docs = NoDocs
        /\ bidForm = FALSE
        /\ disk = {}
        /\ job = [status |-> "none", files |-> [a \in Attachments |-> "none"]]
        /\ open = {}
        /\ library = {}
        /\ saver = {}
        /\ crashes = 0

-----------------------------------------------------------------------------
(* The checklist. *)

Missing(checklist) ==
  {i \in DOMAIN checklist : checklist[i].required /\ checklist[i].status \notin READY_STATUSES}

\* _refresh_validation: every writer of the checklist that computes the flag.
Validated(doc) == [doc EXCEPT !.ready = Missing(doc.checklist) = {}]

\* The rules: an item is required unless it is conditional and the notice and
\* its attachments do not mention it.
RuleChecklist(mentioned, filled) ==
  [i \in RuleItems |->
     [required |-> i \notin Conditional \/ i \in mentioned,
      status   |-> CASE i = "bid_form" /\ filled              -> "generated"
                     [] i \in Conditional /\ i \notin mentioned -> "not_applicable"
                     [] OTHER                                   -> "needed",
      manual   |-> FALSE]]

Suggested(item, required) ==
  [item EXCEPT !.required = required,
               !.status = CASE required /\ @ = "not_applicable"          -> "needed"
                            [] ~ required /\ @ \in {"needed", "blocked"} -> "not_applicable"
                            [] OTHER                                     -> @]

MergeChecklist(base, suggestion) ==
  [i \in DOMAIN base \cup DOMAIN suggestion |->
     IF i \notin DOMAIN suggestion THEN base[i]
     ELSE IF i \in DOMAIN base THEN Suggested(base[i], suggestion[i])
     ELSE [required |-> suggestion[i], manual |-> FALSE,
           status |-> IF suggestion[i] THEN "needed" ELSE "not_applicable"]]

Bug_PreserveNothing(fresh, previous) == fresh

PreserveManual(fresh, previous) ==
  [i \in DOMAIN fresh |->
     IF i \in DOMAIN previous /\ previous[i].manual
       THEN [fresh[i] EXCEPT !.status = previous[i].status, !.manual = TRUE]
       ELSE fresh[i]]

Mapped(uploads) == {u.item : u \in uploads}

Promoted(item) ==
  IF item.status \in {"needed", "blocked"} THEN [item EXCEPT !.status = "ready"] ELSE item

ApplyUploads(checklist, uploads) ==
  [i \in DOMAIN checklist |->
     IF i \in Mapped(uploads) THEN Promoted(checklist[i]) ELSE checklist[i]]

Bug_AnalysisForgetsUploads(doc, mentioned, suggestion) ==
  LET fresh == PreserveManual(MergeChecklist(RuleChecklist(mentioned, bidForm), suggestion),
                              doc.checklist)
  IN Validated([present |-> TRUE, checklist |-> ApplyUploads(fresh, doc.uploads),
                uploads |-> {}, ready |-> FALSE, errors |-> {}])

\* analyze_document_requirements: uploads are kept, errors start anew.
Analyzed(doc, mentioned, suggestion) ==
  LET fresh == PreserveManual(MergeChecklist(RuleChecklist(mentioned, bidForm), suggestion),
                              doc.checklist)
  IN Validated([present |-> TRUE, checklist |-> ApplyUploads(fresh, doc.uploads),
                uploads |-> doc.uploads, ready |-> FALSE, errors |-> {}])

AnalyzeDocuments ==
  /\ \E mentioned \in SUBSET Conditional, suggestion \in LlmAnswers :
       docs' = Analyzed(docs, mentioned, suggestion)
  /\ UNCHANGED <<bidForm, disk, job, open, library, saver, crashes>>

Bug_PatchSkipsValidation(doc, i, item) == [doc EXCEPT !.checklist[i] = item]

WithItem(doc, i, item) == Validated([doc EXCEPT !.checklist[i] = item])

\* PATCH checklist: the user sets the status, or only the owner or the note.
PatchItem(i) ==
  /\ docs.present
  /\ i \in DOMAIN docs.checklist
  /\ \E status \in PatchStatuses \cup {docs.checklist[i].status} :
       docs' = WithItem(docs, i, [docs.checklist[i] EXCEPT !.status = status, !.manual = TRUE])
  /\ UNCHANGED <<bidForm, disk, job, open, library, saver, crashes>>

ValidateDocuments ==
  /\ docs.present
  /\ docs' = Validated(docs)
  /\ UNCHANGED <<bidForm, disk, job, open, library, saver, crashes>>

\* autofill-form succeeded: attach_bid_form_result creates the document when
\* there is none, with an empty checklist.
AutofillForm ==
  /\ bidForm' = TRUE
  /\ docs' = Validated([docs EXCEPT !.present = TRUE,
                          !.checklist = [i \in DOMAIN @ |->
                            IF i = "bid_form" THEN [@[i] EXCEPT !.status = "generated"] ELSE @[i]]])
  /\ UNCHANGED <<disk, job, open, library, saver, crashes>>

-----------------------------------------------------------------------------
(* Uploads and their files. *)

UsedIds == disk \cup {u.id : u \in docs.uploads} \cup {u.file : u \in docs.uploads}
                \cup {u.id : u \in library \cup UNION saver}

\* uuid4().hex: k ids that name nothing else; which ones does not matter.
Fresh(k) == {ids \in SUBSET (Ids \ UsedIds) : /\ Cardinality(ids) = k
                                              /\ \A i \in ids, j \in (Ids \ UsedIds) \ ids : i < j}

\* analyze_upload maps a file to the item the client names, or to the item of
\* the checklist its text points to (of any item when there is no checklist).
Mappings(checklist) ==
  {NoItem} \cup (IF checklist = <<>> THEN Pointed ELSE Pointed \cap DOMAIN checklist)

\* The database write of a handler that has already touched the disk: it is
\* committed, or the process dies and nothing of it is.
CommitOrDie(newDocs) ==
  \/ /\ docs' = newDocs
     /\ UNCHANGED <<saver, crashes>>
  \/ /\ crashes < MaxCrashes
     /\ crashes' = crashes + 1
     /\ saver' = {}
     /\ UNCHANGED docs

\* merge_into_document_automation; the ready flag is left as it was.
Merged(doc, u) ==
  [doc EXCEPT !.uploads = @ \cup {u},
              !.checklist = [i \in DOMAIN @ |-> IF i = u.item THEN Promoted(@[i]) ELSE @[i]]]

UploadDocument ==
  /\ docs.present
  /\ saver = {}
  /\ \E id \in UNION Fresh(1), item \in Pointed \cup {NoItem} :
       /\ disk' = disk \cup {id}
       /\ CommitOrDie(Merged(docs, [id |-> id, file |-> id, item |-> item,
                                    from |-> "uploaded", text |-> "text"]))
  /\ UNCHANGED <<bidForm, job, open, library>>

\* A torn metadata file reads as an empty library: 404.
ImportCommon ==
  /\ docs.present
  /\ \E common \in library, id \in UNION Fresh(1) :
       docs' = Merged(docs, [common EXCEPT !.id = id, !.from = "common_library"])
  /\ UNCHANGED <<bidForm, disk, job, open, library, saver, crashes>>

Bug_DeleteSharedFile(u) == disk \ {u.file}

WithoutFileOf(u) == IF u.from = "common_library" THEN disk ELSE disk \ {u.file}

\* The file goes before the transaction commits; the checklist stays.
DeleteUpload(u) ==
  /\ u \in docs.uploads
  /\ disk' = WithoutFileOf(u)
  /\ CommitOrDie([docs EXCEPT !.uploads = @ \ {u}])
  /\ UNCHANGED <<bidForm, job, open, library>>

\* Read-only: listing the uploads, and downloading one whose file exists.
Downloadable == {u \in docs.uploads : u.file \in disk}

-----------------------------------------------------------------------------
(* attachments/fetch. *)

\* existing_by_name: the entries of earlier fetches, by attachment.
Existing(a) == {u \in docs.uploads : u.from = a}

Healthy(u) == u.text = "text" /\ u.file \in disk

\* An attachment whose stored copy is healthy is skipped.
Skipped == {a \in Attachments : \E u \in Existing(a) : Healthy(u)}

\* What happens to a file that has to be fetched: the download fails, or it
\* is stored, with its text extracted, empty, or an extraction error.
Outcomes == {"failed", "text", "empty", "error"}

Error(stage, about) == [stage |-> stage, about |-> about]

\* Errors of one run.  Files the unreachable agent could not read are
\* reported once, for all of them.
RunErrors(outcome, agentUp) ==
  LET broken == {a \in DOMAIN outcome : outcome[a] = "error"}
      silent == IF agentUp THEN {} ELSE broken \cap HwpFiles
  IN {Error("g2b_attachment_fetch", a) : a \in {b \in DOMAIN outcome : outcome[b] = "failed"}}
     \cup {Error("g2b_attachment_analysis", a) : a \in broken \ silent}
     \cup (IF silent = {} THEN {} ELSE {Error("g2b_attachment_analysis", "agent")})
     \cup (IF Attachments = {} THEN {Error("g2b_attachment_fetch", "none")} ELSE {})

Bug_ErrorsPileUp(doc, errors) == doc.errors \cup errors

\* The errors of earlier runs are replaced; those of other stages are not
\* among "errors" here.
ErrorsOfRun(doc, errors) == errors

Bug_WarningsDoNotCount(errors) ==
  IF \E e \in errors : e.stage = "g2b_attachment_fetch"
    THEN "completed_with_errors" ELSE "completed"

JobStatus(errors) == IF errors = {} THEN "completed" ELSE "completed_with_errors"

FetchAttachments ==
  \E agentUp \in BOOLEAN, outcome \in [Attachments \ Skipped -> Outcomes] :
    LET stored  == {a \in DOMAIN outcome : outcome[a] # "failed"}
        errors  == RunErrors(outcome, agentUp)
        base    == IF docs.present THEN docs ELSE Analyzed(docs, {}, <<>>)
        kept    == {u \in base.uploads : u.from \notin DOMAIN outcome}
    IN /\ \A a \in stored \cap HwpFiles : ~ agentUp => outcome[a] = "error"
       /\ \E ids \in Fresh(Cardinality(stored)) :
          \E id \in {f \in [stored -> ids] : \A a, b \in stored : f[a] = f[b] => a = b},
             item \in [stored -> Mappings(base.checklist)] :
            LET new  == {[id |-> id[a], file |-> id[a], item |-> item[a], from |-> a,
                          text |-> outcome[a]] : a \in stored}
                seen == [base EXCEPT !.uploads = kept \cup new,
                           !.checklist = ApplyUploads(@, new)]
            IN /\ disk' = disk \cup ids
               /\ \E mentioned \in SUBSET Conditional, suggestion \in LlmAnswers :
                    CommitOrDie([Analyzed(seen, mentioned, suggestion) EXCEPT
                                   !.errors = ErrorsOfRun(docs, errors)])
       /\ IF crashes' = crashes
            THEN /\ open' = errors
                 /\ job' = [status |-> JobStatus(errors),
                            files  |-> [a \in Attachments |->
                               CASE a \notin DOMAIN outcome -> "skipped"
                                 [] a \in stored            -> "success"
                                 [] OTHER                   -> "failed"]]
            ELSE UNCHANGED <<open, job>>
       /\ UNCHANGED <<bidForm, library>>

-----------------------------------------------------------------------------
(* The common library.  upload_common_document is async and never awaits   *)
(* between reading and writing metadata.json: the event loop runs one at a *)
(* time, and no upload_document in between.  write_text truncates the file *)
(* and then fills it; a torn file reads as an empty library.               *)

Bug_SaversOverlap == TRUE

LibraryIdle == saver = {}

SaveCommonTruncate ==
  /\ LibraryIdle
  /\ \E id \in UNION Fresh(1), item \in Mappings(<<>>) :
       LET new == [id |-> id, file |-> id, item |-> item, from |-> "uploaded", text |-> "text"]
       IN /\ disk' = disk \cup {id}
          /\ saver' = saver \cup {library \cup {new}}
  /\ library' = {}
  /\ UNCHANGED <<docs, bidForm, job, open, crashes>>

SaveCommonWrite(save) ==
  /\ library' = save
  /\ saver' = saver \ {save}
  /\ UNCHANGED <<docs, bidForm, disk, job, open, crashes>>

\* The process dies between two handlers, or in the middle of a save.
Crash ==
  /\ crashes < MaxCrashes
  /\ crashes' = crashes + 1
  /\ saver' = {}
  /\ UNCHANGED <<docs, bidForm, disk, job, open, library>>

-----------------------------------------------------------------------------

Next == \/ AnalyzeDocuments
        \/ \E i \in Items : PatchItem(i)
        \/ ValidateDocuments
        \/ AutofillForm
        \/ UploadDocument
        \/ ImportCommon
        \/ \E u \in docs.uploads : DeleteUpload(u)
        \/ FetchAttachments
        \/ SaveCommonTruncate
        \/ \E save \in saver : SaveCommonWrite(save)
        \/ Crash

Spec == Init /\ [][Next]_vars

-----------------------------------------------------------------------------
(* Properties. *)

\* Every variable has its type: above all, no path through rules, LLM, uploads
\* and PATCHes gives an item a status the models do not know.
TypeOK == /\ docs \in [present : BOOLEAN, checklist : Checklists, uploads : SUBSET Upload,
                       ready : BOOLEAN,
                       errors : SUBSET [stage : Stages, about : Attachments \cup {"agent", "none"}]]
          /\ bidForm \in BOOLEAN
          /\ disk \subseteq Ids
          /\ job \in [status : {"none", "completed", "completed_with_errors"},
                     files  : [Attachments -> FileStatuses]]
          /\ open \subseteq [stage : Stages, about : Attachments \cup {"agent", "none"}]
          /\ library \in SUBSET Upload
          /\ saver \in SUBSET (SUBSET Upload)
          /\ crashes \in 0..MaxCrashes

\* ready_for_submission, which lists and filters read without computing it
\* anew, is never true while a required item is neither ready nor generated,
\* though uploads, fetches and the autofill change items without a full
\* validation of their own.
ReadyNeverOverclaims == docs.ready => Missing(docs.checklist) = {}

\* The file of a common upload outlives every import and every deletion of
\* an imported copy; and only a crash between the deletion of a file and the
\* commit leaves an entry of the notice without its file.
FilesSurvive == /\ \A u \in library : u.file \in disk
                /\ crashes = 0 => Downloadable = docs.uploads

\* While the process lives, the library forgets nothing it has accepted: the
\* rewrite of metadata.json without a lock is safe because the event loop
\* runs one upload at a time.
LibraryKeeps ==
  [][crashes' = crashes =>
       library \cup UNION saver \subseteq library' \cup UNION saver']_vars

\* The work of the user survives rules, LLM and fetches.  A status the user
\* chose, on an item that stays in the checklist, changes by the user's PATCH,
\* by an upload that answers the need, or by the autofill that produced the
\* bid form; what the user uploaded or imported leaves by a DELETE only.
UserWorkSurvives ==
  /\ [][\A i \in DOMAIN docs.checklist \cap DOMAIN docs'.checklist :
          LET before == docs.checklist[i]
              after  == docs'.checklist[i]
          IN before.manual /\ before.status # after.status =>
               \/ PatchItem(i)
               \/ /\ before.status \in {"needed", "blocked"}
                  /\ after.status = "ready" /\ i \in Mapped(docs'.uploads)
               \/ i = "bid_form" /\ after.status = "generated" /\ bidForm']_vars
  /\ [][\A u \in docs.uploads :
          u.from \notin Attachments /\ u \notin docs'.uploads => DeleteUpload(u)]_vars

\* A job that ends "completed" leaves a stored copy of every attachment
\* whose text did not fail to extract, whatever earlier runs left behind.
CompletedMeansFetched ==
  [][job' # job /\ job'.status = "completed" =>
       \A a \in Attachments : \E u \in docs'.uploads :
         u.from = a /\ u.file \in disk' /\ u.text # "error"]_vars

\* Every attachment error the panel shows is an unresolved row of
\* notice_errors: a retry that succeeds clears both.
ShownErrorsAreOpen == docs.errors \subseteq open
=============================================================================
