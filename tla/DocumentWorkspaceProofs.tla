---------------------- MODULE DocumentWorkspaceProofs ----------------------
(***************************************************************************)
(* Proofs about DocumentWorkspace, for any rules, attachments, answers of  *)
(* the LLM, number of files and number of crashes.  Beside the properties  *)
(* themselves the invariant needs to know who shares a file with whom      *)
(* (FilesApart) and that one save of the library is under way at most      *)
(* (OneSaver).                                                             *)
(***************************************************************************)
EXTENDS DocumentWorkspace, TLAPS

Errors == [stage : Stages, about : Attachments \cup {"agent", "none"}]

Document == [present : BOOLEAN, checklist : Checklists, uploads : SUBSET Upload,
             ready : BOOLEAN, errors : SUBSET Errors]

\* All entries of the common library, those being saved included.
Common == library \cup UNION saver

\* Only an imported entry shares its file, with the library and with other
\* imports.
FilesApart ==
  /\ \A u \in Common : u.file = u.id /\ u.file \in disk
  /\ \A u, w \in docs.uploads : u.file = w.file /\ u.from # "common_library" => u = w
  /\ \A u \in docs.uploads, w \in Common : u.file = w.file => u.from = "common_library"
  /\ crashes = 0 => \A u \in docs.uploads : u.file \in disk

\* The metadata file is being rewritten by one upload at most, and is torn
\* meanwhile.
OneSaver == saver # {} => library = {} /\ \E save : saver = {save}

NothingBefore == ~ docs.present => DOMAIN docs.checklist = {}

IInv == /\ TypeOK /\ ReadyNeverOverclaims /\ ShownErrorsAreOpen
        /\ FilesApart /\ OneSaver /\ NothingBefore
-----------------------------------------------------------------------------
(* The checklist. *)

\* A checklist is a function on some of the items.
LEMMA ChecklistFacts ==
  ASSUME NEW c
  PROVE  c \in Checklists <=> DOMAIN c \subseteq Items /\ c \in [DOMAIN c -> Item]
<1>1. ASSUME c \in Checklists PROVE DOMAIN c \subseteq Items /\ c \in [DOMAIN c -> Item]
  <2>1. PICK listed \in SUBSET Items : c \in [listed -> Item]
    BY <1>1 DEF Checklists
  <2>. QED BY <2>1
<1>2. ASSUME DOMAIN c \subseteq Items, c \in [DOMAIN c -> Item] PROVE c \in Checklists
  BY <1>2 DEF Checklists
<1>. QED BY <1>1, <1>2

\* No checklist yet.
LEMMA EmptyChecklist == <<>> \in Checklists /\ DOMAIN <<>> = {}
<1>1. DOMAIN <<>> = {} /\ <<>> \in [{} -> Item]
  OBVIOUS
<1>. QED BY <1>1 DEF Checklists

\* What becomes of the items: each keeps its mark and its status, unless an
\* upload of the set answers the need.
Answered(before, after, uploads) ==
  \A i \in DOMAIN before \cap DOMAIN after :
    before[i].manual =>
      /\ after[i].manual
      /\ \/ after[i].status = before[i].status
         \/ /\ before[i].status \in {"needed", "blocked"}
            /\ after[i].status = "ready" /\ i \in Mapped(uploads)

\* Uploads promote items and do nothing else to a checklist.
LEMMA UploadsPromote ==
  ASSUME NEW c \in Checklists, NEW uploads
  PROVE  /\ ApplyUploads(c, uploads) \in Checklists
         /\ DOMAIN ApplyUploads(c, uploads) = DOMAIN c
         /\ Answered(c, ApplyUploads(c, uploads), uploads)
         /\ Missing(ApplyUploads(c, uploads)) \subseteq Missing(c)
         /\ \A i \in DOMAIN c : ApplyUploads(c, uploads)[i].manual = c[i].manual
<1>. DEFINE d == ApplyUploads(c, uploads)
<1>1. DOMAIN c \subseteq Items /\ \A i \in DOMAIN c : c[i] \in Item
  BY ChecklistFacts
<1>2. ASSUME NEW item \in Item
      PROVE  /\ Promoted(item) \in Item /\ Promoted(item).manual = item.manual
             /\ Promoted(item).required = item.required
             /\ \/ Promoted(item).status = item.status
                \/ item.status \in {"needed", "blocked"} /\ Promoted(item).status = "ready"
  BY DEF Promoted, Item, ItemStatuses
<1>3. /\ DOMAIN d = DOMAIN c
      /\ \A i \in DOMAIN c : d[i] = IF i \in Mapped(uploads) THEN Promoted(c[i]) ELSE c[i]
      /\ d = [i \in DOMAIN d |-> d[i]]
  BY DEF ApplyUploads
<1>. HIDE DEF d
<1>4. \A i \in DOMAIN c : /\ d[i] \in Item /\ d[i].manual = c[i].manual
                          /\ d[i].required = c[i].required
                          /\ \/ d[i].status = c[i].status
                             \/ /\ c[i].status \in {"needed", "blocked"}
                                /\ d[i].status = "ready" /\ i \in Mapped(uploads)
  BY <1>1, <1>2, <1>3
<1>5. d \in [DOMAIN c -> Item]
  BY <1>3, <1>4
<1>6. d \in Checklists
  BY <1>1, <1>3, <1>5, ChecklistFacts
<1>7. Answered(c, d, uploads)
  BY <1>3, <1>4 DEF Answered
<1>8. Missing(d) \subseteq Missing(c)
  BY <1>3, <1>4 DEF Missing, READY_STATUSES
<1>. QED BY <1>3, <1>4, <1>6, <1>7, <1>8 DEF d

\* The rules and the LLM make a checklist, whatever the LLM answers.
LEMMA FreshChecklist ==
  ASSUME NEW mentioned, NEW filled, NEW suggestion \in LlmAnswers \cup {<<>>}
  PROVE  MergeChecklist(RuleChecklist(mentioned, filled), suggestion) \in Checklists
<1>. DEFINE base == RuleChecklist(mentioned, filled)
            merged == MergeChecklist(base, suggestion)
<1>1. DOMAIN base = RuleItems /\ \A i \in RuleItems : base[i] \in Item
  BY DEF RuleChecklist, Item, ItemStatuses
<1>2. DOMAIN suggestion \subseteq Items /\ \A i \in DOMAIN suggestion : suggestion[i] \in BOOLEAN
  <2>1. CASE suggestion \in LlmAnswers
    BY <2>1, WorkspaceAssumption
  <2>2. CASE suggestion = <<>>
    BY <2>2, EmptyChecklist
  <2>. QED BY <2>1, <2>2
<1>3. ASSUME NEW item \in Item, NEW required \in BOOLEAN
      PROVE  /\ Suggested(item, required) \in Item
             /\ [required |-> required, manual |-> FALSE,
                 status |-> IF required THEN "needed" ELSE "not_applicable"] \in Item
  BY DEF Suggested, Item, ItemStatuses
<1>. HIDE DEF base
<1>4. /\ DOMAIN merged = DOMAIN base \cup DOMAIN suggestion
      /\ \A i \in DOMAIN merged :
           merged[i] = IF i \notin DOMAIN suggestion THEN base[i]
                       ELSE IF i \in DOMAIN base THEN Suggested(base[i], suggestion[i])
                       ELSE [required |-> suggestion[i], manual |-> FALSE,
                             status |-> IF suggestion[i] THEN "needed" ELSE "not_applicable"]
      /\ merged = [i \in DOMAIN merged |-> merged[i]]
  BY DEF MergeChecklist
<1>. HIDE DEF merged
<1>5. ASSUME NEW i \in DOMAIN merged PROVE merged[i] \in Item
  <2>1. CASE i \notin DOMAIN suggestion
    <3>1. merged[i] = base[i] /\ i \in RuleItems
      BY <1>1, <1>4, <2>1
    <3>. QED BY <1>1, <3>1
  <2>2. CASE i \in DOMAIN suggestion /\ i \in DOMAIN base
    <3>1. base[i] \in Item /\ suggestion[i] \in BOOLEAN
      BY <1>1, <1>2, <2>2
    <3>2. Suggested(base[i], suggestion[i]) \in Item
      BY <1>3, <3>1
    <3>3. merged[i] = Suggested(base[i], suggestion[i])
      BY <1>4, <2>2
    <3>. QED BY <3>2, <3>3
  <2>3. CASE i \in DOMAIN suggestion /\ i \notin DOMAIN base
    <3>1. suggestion[i] \in BOOLEAN
      BY <1>2, <2>3
    <3>2. merged[i] = [required |-> suggestion[i], manual |-> FALSE,
                       status |-> IF suggestion[i] THEN "needed" ELSE "not_applicable"]
      BY <1>4, <2>3
    <3>. QED BY <3>1, <3>2 DEF Item, ItemStatuses
  <2>. QED BY <2>1, <2>2, <2>3
<1>6. merged \in [DOMAIN merged -> Item] /\ DOMAIN merged \subseteq Items
  BY <1>1, <1>2, <1>4, <1>5 DEF Items
<1>. QED BY <1>6, ChecklistFacts DEF merged, base

\* What the user has set survives a new checklist.
LEMMA ManualPreserved ==
  ASSUME NEW fresh \in Checklists, NEW previous \in Checklists
  PROVE  /\ PreserveManual(fresh, previous) \in Checklists
         /\ DOMAIN PreserveManual(fresh, previous) = DOMAIN fresh
         /\ \A i \in DOMAIN fresh \cap DOMAIN previous :
              previous[i].manual =>
                /\ PreserveManual(fresh, previous)[i].manual
                /\ PreserveManual(fresh, previous)[i].status = previous[i].status
<1>. DEFINE d == PreserveManual(fresh, previous)
<1>1. /\ DOMAIN fresh \subseteq Items /\ \A i \in DOMAIN fresh : fresh[i] \in Item
      /\ \A i \in DOMAIN previous : previous[i] \in Item
  BY ChecklistFacts
<1>2. ASSUME NEW item \in Item, NEW old \in Item
      PROVE  /\ [item EXCEPT !.status = old.status, !.manual = TRUE] \in Item
             /\ [item EXCEPT !.status = old.status, !.manual = TRUE].manual
             /\ [item EXCEPT !.status = old.status, !.manual = TRUE].status = old.status
  BY DEF Item
<1>3. /\ DOMAIN d = DOMAIN fresh /\ d = [i \in DOMAIN d |-> d[i]]
      /\ \A i \in DOMAIN fresh :
           d[i] = IF i \in DOMAIN previous /\ previous[i].manual
                    THEN [fresh[i] EXCEPT !.status = previous[i].status, !.manual = TRUE]
                    ELSE fresh[i]
  BY DEF PreserveManual
<1>. HIDE DEF d
<1>4. ASSUME NEW i \in DOMAIN fresh
      PROVE  /\ d[i] \in Item
             /\ i \in DOMAIN previous /\ previous[i].manual =>
                  d[i].manual /\ d[i].status = previous[i].status
  <2>1. CASE i \in DOMAIN previous /\ previous[i].manual
    <3>1. fresh[i] \in Item /\ previous[i] \in Item
      BY <1>1, <2>1
    <3>2. d[i] = [fresh[i] EXCEPT !.status = previous[i].status, !.manual = TRUE]
      BY <1>3, <2>1
    <3>3. d[i] \in Item /\ d[i].manual /\ d[i].status = previous[i].status
      BY Zenon, <1>2, <3>1, <3>2
    <3>. QED BY Zenon, <3>3
  <2>2. CASE ~ (i \in DOMAIN previous /\ previous[i].manual)
    <3>1. d[i] = fresh[i]
      BY <1>3, <2>2
    <3>2. d[i] \in Item
      BY <1>1, <3>1
    <3>. QED BY <2>2, <3>2
  <2>. QED BY <2>1, <2>2
<1>5. d \in [DOMAIN d -> Item]
  BY <1>3, <1>4
<1>. QED BY <1>1, <1>3, <1>4, <1>5, ChecklistFacts DEF d
-----------------------------------------------------------------------------
(* The document. *)

Ready(doc) == doc.ready => Missing(doc.checklist) = {}

\* The validation sets the flag and nothing else.
LEMMA ValidatedFacts ==
  ASSUME NEW doc \in Document
  PROVE  LET new == Validated(doc)
         IN  /\ new \in Document /\ Ready(new)
             /\ new.present = doc.present /\ new.checklist = doc.checklist
             /\ new.uploads = doc.uploads /\ new.errors = doc.errors
BY DEF Validated, Document, Ready

\* An analysis starts a checklist, keeps uploads and what the user has set,
\* and leaves no errors.
LEMMA AnalyzedFacts ==
  ASSUME NEW doc \in Document, NEW mentioned, NEW suggestion \in LlmAnswers \cup {<<>>},
         NEW new, new = Analyzed(doc, mentioned, suggestion)
  PROVE  /\ new \in Document /\ Ready(new) /\ new.present
         /\ new.uploads = doc.uploads /\ new.errors = {}
         /\ Answered(doc.checklist, new.checklist, doc.uploads)
<1>. DEFINE fresh == MergeChecklist(RuleChecklist(mentioned, bidForm), suggestion)
            kept == PreserveManual(fresh, doc.checklist)
            list == ApplyUploads(kept, doc.uploads)
            plain == [present |-> TRUE, checklist |-> list, uploads |-> doc.uploads,
                      ready |-> FALSE, errors |-> {}]
<1>1. doc.checklist \in Checklists /\ doc.uploads \in SUBSET Upload
  BY DEF Document
<1>2. fresh \in Checklists
  BY FreshChecklist
<1>. HIDE DEF fresh
<1>3. /\ kept \in Checklists /\ DOMAIN kept = DOMAIN fresh
      /\ \A i \in DOMAIN fresh \cap DOMAIN doc.checklist :
           doc.checklist[i].manual =>
             kept[i].manual /\ kept[i].status = doc.checklist[i].status
  BY <1>1, <1>2, ManualPreserved
<1>. HIDE DEF kept
<1>4. /\ list \in Checklists /\ DOMAIN list = DOMAIN kept /\ Answered(kept, list, doc.uploads)
  BY <1>3, UploadsPromote
<1>5. new = Validated(plain)
  BY DEF Analyzed, fresh, kept
<1>. HIDE DEF list
<1>6. plain \in Document /\ plain.checklist = list /\ plain.uploads = doc.uploads
      /\ plain.errors = {} /\ plain.present
  BY <1>1, <1>4 DEF Document
<1>. HIDE DEF plain
<1>7. /\ new \in Document /\ Ready(new) /\ new.present
      /\ new.uploads = doc.uploads /\ new.errors = {} /\ new.checklist = list
  BY <1>5, <1>6, ValidatedFacts
<1>8. Answered(doc.checklist, list, doc.uploads)
  BY <1>3, <1>4 DEF Answered
<1>. QED BY <1>7, <1>8

\* A merge adds an upload, promotes its item and leaves the flag.
LEMMA MergedFacts ==
  ASSUME NEW doc \in Document, Ready(doc), NEW u \in Upload, NEW new, new = Merged(doc, u)
  PROVE  /\ new \in Document /\ Ready(new) /\ new.present = doc.present
         /\ new.uploads = doc.uploads \cup {u} /\ new.errors = doc.errors
         /\ DOMAIN new.checklist = DOMAIN doc.checklist
         /\ Answered(doc.checklist, new.checklist, new.uploads)
<1>. DEFINE list == [i \in DOMAIN doc.checklist |->
                       IF i = u.item THEN Promoted(doc.checklist[i]) ELSE doc.checklist[i]]
<1>1. doc.checklist \in Checklists /\ doc.uploads \cup {u} \in SUBSET Upload
  BY DEF Document
<1>2. list = ApplyUploads(doc.checklist, {u})
  <2>1. \A i : i \in Mapped({u}) <=> i = u.item
    BY DEF Mapped
  <2>. QED BY <2>1 DEF ApplyUploads
<1>3. /\ list \in Checklists /\ DOMAIN list = DOMAIN doc.checklist
      /\ Answered(doc.checklist, list, {u}) /\ Missing(list) \subseteq Missing(doc.checklist)
  BY <1>1, <1>2, UploadsPromote
<1>4. new = [doc EXCEPT !.uploads = doc.uploads \cup {u}, !.checklist = list]
  BY DEF Merged
<1>. HIDE DEF list
<1>5. /\ new \in Document /\ new.present = doc.present /\ new.ready = doc.ready
      /\ new.uploads = doc.uploads \cup {u} /\ new.errors = doc.errors
      /\ new.checklist = list
  BY <1>1, <1>3, <1>4 DEF Document
<1>6. Ready(new)
  BY <1>3, <1>5 DEF Ready
<1>7. Answered(doc.checklist, new.checklist, new.uploads)
  BY <1>3, <1>5 DEF Answered, Mapped
<1>. QED BY <1>3, <1>5, <1>6, <1>7
\* A PATCH sets one item, and its mark.
LEMMA WithItemFacts ==
  ASSUME NEW doc \in Document, NEW i \in DOMAIN doc.checklist, NEW item \in Item,
         NEW new, new = WithItem(doc, i, item)
  PROVE  /\ new \in Document /\ Ready(new)
         /\ new.present = doc.present /\ new.uploads = doc.uploads /\ new.errors = doc.errors
         /\ DOMAIN new.checklist = DOMAIN doc.checklist
         /\ \A j \in DOMAIN doc.checklist \ {i} : new.checklist[j] = doc.checklist[j]
<1>. DEFINE list == [doc.checklist EXCEPT ![i] = item]
            plain == [doc EXCEPT !.checklist = list]
<1>1. doc.checklist \in Checklists
  BY DEF Document
<1>2. PICK old : old = doc.checklist
  OBVIOUS
<1>3. list \in [DOMAIN old -> Item] /\ DOMAIN list = DOMAIN old
  BY <1>1, <1>2, ChecklistFacts
<1>4. list \in Checklists
  BY <1>1, <1>2, <1>3, ChecklistFacts
<1>5. \A j \in DOMAIN doc.checklist \ {i} : list[j] = doc.checklist[j]
  BY <1>2, <1>3
<1>6. new = Validated(plain)
  BY DEF WithItem
<1>. HIDE DEF list
<1>7. /\ plain \in Document /\ plain.checklist = list /\ plain.present = doc.present
      /\ plain.uploads = doc.uploads /\ plain.errors = doc.errors
  BY <1>4 DEF Document
<1>. HIDE DEF plain
<1>8. /\ new \in Document /\ Ready(new) /\ new.checklist = list /\ new.present = doc.present
      /\ new.uploads = doc.uploads /\ new.errors = doc.errors
  BY <1>6, <1>7, ValidatedFacts
<1>. QED BY <1>2, <1>3, <1>5, <1>8

\* The autofill generates the bid form, in the checklist that is there.
Autofilled(doc) ==
  Validated([doc EXCEPT !.present = TRUE,
               !.checklist = [i \in DOMAIN @ |->
                 IF i = "bid_form" THEN [@[i] EXCEPT !.status = "generated"] ELSE @[i]]])

\* The autofill validates what it leaves, and changes the bid form only.
LEMMA AutofillFacts ==
  ASSUME NEW doc \in Document, NEW new, new = Autofilled(doc)
  PROVE  /\ new \in Document /\ Ready(new) /\ new.present
         /\ new.uploads = doc.uploads /\ new.errors = doc.errors
         /\ DOMAIN new.checklist = DOMAIN doc.checklist
         /\ \A i \in DOMAIN doc.checklist :
              \/ new.checklist[i] = doc.checklist[i]
              \/ i = "bid_form" /\ new.checklist[i].status = "generated"
<1>. DEFINE old == doc.checklist
            list == [i \in DOMAIN old |->
                       IF i = "bid_form" THEN [old[i] EXCEPT !.status = "generated"] ELSE old[i]]
            plain == [doc EXCEPT !.present = TRUE, !.checklist = list]
<1>1. old \in Checklists /\ new = Validated(plain)
  BY DEF Document, Autofilled
<1>. HIDE DEF old
<1>2. DOMAIN old \subseteq Items /\ \A i \in DOMAIN old : old[i] \in Item
  BY <1>1, ChecklistFacts
<1>3. ASSUME NEW item \in Item
      PROVE  /\ [item EXCEPT !.status = "generated"] \in Item
             /\ [item EXCEPT !.status = "generated"].status = "generated"
  BY DEF Item, ItemStatuses
<1>4. /\ DOMAIN list = DOMAIN old
      /\ \A i \in DOMAIN old : /\ list[i] \in Item
                               /\ \/ list[i] = old[i]
                                  \/ i = "bid_form" /\ list[i].status = "generated"
  BY <1>2, <1>3
<1>5. list \in [DOMAIN old -> Item]
  BY <1>4
<1>6. list \in Checklists
  BY <1>2, <1>4, <1>5, ChecklistFacts
<1>. HIDE DEF list
<1>7. /\ plain \in Document /\ plain.checklist = list /\ plain.present
      /\ plain.uploads = doc.uploads /\ plain.errors = doc.errors
  BY <1>6 DEF Document
<1>. HIDE DEF plain
<1>8. /\ new \in Document /\ Ready(new) /\ new.checklist = list /\ new.present
      /\ new.uploads = doc.uploads /\ new.errors = doc.errors
  BY <1>1, <1>7, ValidatedFacts
<1>. QED BY <1>4, <1>8 DEF old
-----------------------------------------------------------------------------
(* The files. *)

\* What a fresh id is not.
LEMMA FreshIds ==
  ASSUME NEW k, NEW ids \in Fresh(k)
  PROVE  ids \in SUBSET (Ids \ UsedIds)
BY DEF Fresh

\* One fresh id is a set of unused ids.
LEMMA FreshId ==
  ASSUME NEW id \in UNION Fresh(1)
  PROVE  {id} \in SUBSET (Ids \ UsedIds)
BY DEF Fresh

\* New entries with files of their own, or with those of the library.
LEMMA FilesStayApart ==
  ASSUME FilesApart, NEW ids \in SUBSET (Ids \ UsedIds), disk' = disk \cup ids,
         UNCHANGED <<library, saver, crashes>>,
         \A u \in docs'.uploads \ docs.uploads :
           \/ u.file \in ids
           \/ u.from = "common_library" /\ \E w \in Common : u.file = w.file,
         \A u, w \in docs'.uploads \ docs.uploads :
           u.file \in ids /\ u.file = w.file => u = w
  PROVE  FilesApart'
<1>1. /\ \A u \in docs.uploads : u.file \notin ids
      /\ \A u \in Common : u.file \notin ids
  BY DEF UsedIds, FilesApart, Common
<1>2. Common' = Common
  BY DEF Common
<1>3. \A u \in Common' : u.file = u.id /\ u.file \in disk'
  BY <1>2 DEF FilesApart
<1>4. ASSUME NEW u \in docs'.uploads, NEW w \in docs'.uploads,
             u.file = w.file, u.from # "common_library"
      PROVE  u = w
  <2>1. CASE u \in docs.uploads /\ w \in docs.uploads
    BY <1>4, <2>1 DEF FilesApart
  <2>2. CASE u \in docs.uploads /\ w \notin docs.uploads
    BY <1>1, <1>4, <2>2 DEF FilesApart
  <2>3. CASE u \notin docs.uploads /\ w \in docs.uploads
    BY <1>1, <1>4, <2>3
  <2>4. CASE u \notin docs.uploads /\ w \notin docs.uploads
    BY <1>4, <2>4
  <2>. QED BY <2>1, <2>2, <2>3, <2>4
<1>5. ASSUME NEW u \in docs'.uploads, NEW w \in Common', u.file = w.file
      PROVE  u.from = "common_library"
  BY <1>1, <1>2, <1>5 DEF FilesApart
<1>6. ASSUME crashes' = 0, NEW u \in docs'.uploads PROVE u.file \in disk'
  BY <1>6 DEF FilesApart
<1>. QED BY <1>3, <1>4, <1>5, <1>6 DEF FilesApart

\* The process dies after it has touched the disk.
LEMMA FilesAfterDeath ==
  ASSUME IInv, UNCHANGED <<docs, library>>, saver' = {}, crashes' = crashes + 1,
         \A w \in Common : w.file \in disk'
  PROVE  FilesApart'
<1>1. Common' \subseteq Common
  BY DEF Common
<1>2. crashes' # 0
  BY DEF IInv, TypeOK
<1>. QED BY <1>1, <1>2 DEF IInv, FilesApart

\* The deletion of an upload takes its file away, unless the library has it.
LEMMA FilesAfterDeletion ==
  ASSUME FilesApart, NEW u \in docs.uploads, disk' = WithoutFileOf(u),
         UNCHANGED <<library, saver, crashes>>, docs'.uploads = docs.uploads \ {u}
  PROVE  FilesApart'
<1>1. \A w \in Common : w.file \in disk'
  BY DEF FilesApart, WithoutFileOf
<1>2. \A w \in docs.uploads \ {u} : w.file \in disk => w.file \in disk'
  BY DEF FilesApart, WithoutFileOf
<1>3. Common' = Common
  BY DEF Common
<1>. QED BY <1>1, <1>2, <1>3 DEF FilesApart
-----------------------------------------------------------------------------
(* A fetch. *)

Jobs == [status : {"none", "completed", "completed_with_errors"},
         files  : [Attachments -> FileStatuses]]

\* Every attachment has a stored copy whose text did not fail to extract.
Stored == \A a \in Attachments : \E u \in docs'.uploads :
            u.from = a /\ u.file \in disk' /\ u.text # "error"

\* The errors of a run are of its kind, and none is missed.
LEMMA RunErrorsFacts ==
  ASSUME NEW D \in SUBSET Attachments, NEW outcome \in [D -> Outcomes], NEW agentUp \in BOOLEAN
  PROVE  /\ RunErrors(outcome, agentUp) \subseteq Errors
         /\ RunErrors(outcome, agentUp) = {} =>
              \A a \in D : outcome[a] # "failed" /\ outcome[a] # "error"
<1>. DEFINE broken == {a \in DOMAIN outcome : outcome[a] = "error"}
            silent == IF agentUp THEN {} ELSE broken \cap HwpFiles
            failed == {a \in DOMAIN outcome : outcome[a] = "failed"}
<1>1. RunErrors(outcome, agentUp) =
        {Error("g2b_attachment_fetch", a) : a \in failed}
        \cup {Error("g2b_attachment_analysis", a) : a \in broken \ silent}
        \cup (IF silent = {} THEN {} ELSE {Error("g2b_attachment_analysis", "agent")})
        \cup (IF Attachments = {} THEN {Error("g2b_attachment_fetch", "none")} ELSE {})
  BY DEF RunErrors
<1>2. failed \subseteq Attachments /\ broken \subseteq Attachments
  OBVIOUS
<1>3. /\ \A a \in failed : a \in D /\ outcome[a] = "failed"
      /\ \A a \in D : outcome[a] = "failed" => a \in failed
      /\ \A a \in D : outcome[a] = "error" => a \in broken
  OBVIOUS
<1>. HIDE DEF failed, broken, silent
<1>4. \A a \in Attachments \cup {"agent", "none"}, s \in Stages : Error(s, a) \in Errors
  BY DEF Error, Errors
<1>5. RunErrors(outcome, agentUp) \subseteq Errors
  BY <1>1, <1>2, <1>4 DEF Stages
<1>6. RunErrors(outcome, agentUp) = {} => failed = {} /\ silent = {} /\ broken = {}
  BY <1>1
<1>. QED BY <1>3, <1>5, <1>6

\* What a fetch does, whatever was skipped, downloaded or read: it dies after
\* having stored files, or it commits entries for them.
LEMMA FetchFacts ==
  ASSUME IInv, FetchAttachments
  PROVE  \E ids \in SUBSET (Ids \ UsedIds) :
           /\ disk' = disk \cup ids /\ UNCHANGED <<bidForm, library>>
           /\ \/ /\ crashes < MaxCrashes /\ crashes' = crashes + 1 /\ saver' = {}
                 /\ UNCHANGED <<docs, open, job>>
              \/ /\ UNCHANGED <<saver, crashes>>
                 /\ docs' \in Document /\ Ready(docs') /\ docs'.present
                 /\ docs'.errors = open' /\ open' \subseteq Errors /\ job' \in Jobs
                 /\ \A u \in docs'.uploads \ docs.uploads : u.file \in ids
                 /\ \A u, w \in docs'.uploads \ docs.uploads : u.file = w.file => u = w
                 /\ \A u \in docs.uploads : u.from \notin Attachments => u \in docs'.uploads
                 /\ Answered(docs.checklist, docs'.checklist, docs'.uploads)
                 /\ job'.status = "completed" => Stored
<1>1. /\ docs \in Document /\ crashes \in Nat /\ docs.uploads \subseteq Upload
      /\ ~ docs.present => DOMAIN docs.checklist = {}
  BY DEF IInv, TypeOK, NothingBefore, Document, Errors
<1>2. PICK agentUp \in BOOLEAN, outcome \in [Attachments \ Skipped -> Outcomes] :
        LET stored  == {a \in DOMAIN outcome : outcome[a] # "failed"}
            errors  == RunErrors(outcome, agentUp)
            base    == IF docs.present THEN docs ELSE Analyzed(docs, {}, <<>>)
            kept    == {u \in base.uploads : u.from \notin DOMAIN outcome}
        IN /\ \E ids \in Fresh(Cardinality(stored)) :
              \E id \in {f \in [stored -> ids] : \A a, b \in stored : f[a] = f[b] => a = b},
                 item \in [stored -> Mappings(base.checklist)] :
                LET new  == {[id |-> id[a], file |-> id[a], item |-> item[a], from |-> a,
                              text |-> outcome[a]] : a \in stored}
                    seen == [base EXCEPT !.uploads = kept \cup new,
                               !.checklist = ApplyUploads(@, new)]
                IN /\ disk' = disk \cup ids
                   /\ \E mentioned \in SUBSET Conditional, suggestion \in LlmAnswers :
                        CommitOrDie([Analyzed(seen, mentioned, suggestion) EXCEPT
                                       !.errors = ErrorsOfRun(docs, errors)])
           /\ IF crashes' = crashes
                THEN /\ open' = errors
                     /\ job' = [status |-> JobStatus(errors),
                                files  |-> [a \in Attachments |->
                                   CASE a \notin DOMAIN outcome -> "skipped"
                                     [] a \in stored            -> "success"
                                     [] OTHER                   -> "failed"]]
                ELSE UNCHANGED <<open, job>>
           /\ UNCHANGED <<bidForm, library>>
  BY DEF FetchAttachments
<1>. DEFINE stored  == {a \in DOMAIN outcome : outcome[a] # "failed"}
            errors  == RunErrors(outcome, agentUp)
            base    == IF docs.present THEN docs ELSE Analyzed(docs, {}, <<>>)
            kept    == {u \in base.uploads : u.from \notin DOMAIN outcome}
            New(id, item) == {[id |-> id[a], file |-> id[a], item |-> item[a], from |-> a,
                               text |-> outcome[a]] : a \in stored}
<1>3. PICK ids \in Fresh(Cardinality(stored)) :
        \E id \in {f \in [stored -> ids] : \A a, b \in stored : f[a] = f[b] => a = b},
           item \in [stored -> Mappings(base.checklist)] :
          /\ disk' = disk \cup ids
          /\ \E mentioned \in SUBSET Conditional, suggestion \in LlmAnswers :
               CommitOrDie([Analyzed([base EXCEPT !.uploads = kept \cup New(id, item),
                                        !.checklist = ApplyUploads(@, New(id, item))],
                                     mentioned, suggestion) EXCEPT
                              !.errors = ErrorsOfRun(docs, errors)])
  BY <1>2
<1>4. PICK id \in {f \in [stored -> ids] : \A a, b \in stored : f[a] = f[b] => a = b},
           item \in [stored -> Mappings(base.checklist)] :
          /\ disk' = disk \cup ids
          /\ \E mentioned \in SUBSET Conditional, suggestion \in LlmAnswers :
               CommitOrDie([Analyzed([base EXCEPT !.uploads = kept \cup New(id, item),
                                        !.checklist = ApplyUploads(@, New(id, item))],
                                     mentioned, suggestion) EXCEPT
                              !.errors = ErrorsOfRun(docs, errors)])
  BY <1>3
<1>. DEFINE new  == New(id, item)
            list == ApplyUploads(base.checklist, new)
            seen == [base EXCEPT !.uploads = kept \cup new, !.checklist = list]
<1>5. PICK mentioned \in SUBSET Conditional, suggestion \in LlmAnswers :
        CommitOrDie([Analyzed(seen, mentioned, suggestion) EXCEPT
                       !.errors = ErrorsOfRun(docs, errors)])
  BY <1>4
<1>6. ids \in SUBSET (Ids \ UsedIds) /\ disk' = disk \cup ids /\ UNCHANGED <<bidForm, library>>
  BY <1>2, <1>4, FreshIds
<1>7. CASE /\ crashes < MaxCrashes /\ crashes' = crashes + 1 /\ saver' = {}
           /\ UNCHANGED docs
  <2>1. UNCHANGED <<open, job>>
    <3>1. crashes' # crashes
      BY <1>1, <1>7
    <3>. QED BY Zenon, <1>2, <3>1
  <2>. QED BY <1>6, <1>7, <2>1
<1>8. CASE /\ docs' = [Analyzed(seen, mentioned, suggestion) EXCEPT
                         !.errors = ErrorsOfRun(docs, errors)]
           /\ UNCHANGED <<saver, crashes>>
  <2>1. /\ open' = errors
        /\ job' = [status |-> JobStatus(errors),
                   files  |-> [a \in Attachments |->
                      CASE a \notin DOMAIN outcome -> "skipped"
                        [] a \in stored            -> "success"
                        [] OTHER                   -> "failed"]]
    BY <1>2, <1>8
  <2>2. /\ DOMAIN outcome = Attachments \ Skipped /\ stored \subseteq DOMAIN outcome
        /\ DOMAIN outcome \subseteq Attachments
        /\ \A a \in DOMAIN outcome : outcome[a] \in Outcomes
    OBVIOUS
  <2>3. /\ errors \subseteq Errors
        /\ errors = {} => \A a \in DOMAIN outcome : outcome[a] # "failed" /\ outcome[a] # "error"
    BY <2>2, RunErrorsFacts
  <2>4. /\ base \in Document /\ base.uploads = docs.uploads /\ base.present
        /\ Answered(docs.checklist, base.checklist, {})
        /\ DOMAIN docs.checklist \subseteq DOMAIN base.checklist
    <3>1. CASE docs.present
      BY <1>1, <3>1 DEF Answered
    <3>2. CASE ~ docs.present
      <4>1. base = Analyzed(docs, {}, <<>>)
        BY <3>2
      <4>. HIDE DEF base
      <4>2. base \in Document /\ base.uploads = docs.uploads /\ base.present
        BY <1>1, <4>1, AnalyzedFacts
      <4>. QED BY <1>1, <3>2, <4>2 DEF Answered
    <3>. QED BY <3>1, <3>2
  <2>5. /\ \A a \in stored : /\ id[a] \in ids /\ outcome[a] \in {"text", "empty", "error"}
                             /\ a \in Attachments /\ item[a] \in Items \cup {NoItem}
        /\ \A a, b \in stored : id[a] = id[b] => a = b
    BY <2>2, WorkspaceAssumption DEF Mappings, Outcomes
  <2>6. new \subseteq Upload /\ \A u \in new : u.file \in ids
    <3>1. ids \subseteq Ids
      BY <1>6
    <3>. QED BY <2>5, <3>1 DEF Upload
  <2>7. \A u, w \in new : u.file = w.file => u = w
    BY <2>5
  <2>8. \A a \in stored : \E u \in new :
          u.from = a /\ u.file \in ids /\ u.text = outcome[a]
    <3>1. ASSUME NEW a \in stored
          PROVE  \E u \in new : u.from = a /\ u.file \in ids /\ u.text = outcome[a]
      <4>. DEFINE u == [id |-> id[a], file |-> id[a], item |-> item[a], from |-> a,
                       text |-> outcome[a]]
      <4>1. u \in new
        OBVIOUS
      <4>2. u.from = a /\ u.file \in ids /\ u.text = outcome[a]
        BY <2>5
      <4>. QED BY <4>1, <4>2
    <3>. QED BY <3>1
  <2>9. /\ kept \subseteq docs.uploads
        /\ \A u \in docs.uploads : u.from \notin DOMAIN outcome => u \in kept
    BY <2>4
  <2>. HIDE DEF new, kept, errors, stored, base
  <2>10. base.checklist \in Checklists
    BY <2>4 DEF Document
  <2>11. /\ list \in Checklists /\ DOMAIN list = DOMAIN base.checklist
         /\ Answered(base.checklist, list, new)
    BY <2>10, UploadsPromote
  <2>. HIDE DEF list
  <2>12. kept \cup new \in SUBSET Upload
    BY <1>1, <2>6, <2>9
  <2>13. /\ seen \in Document /\ seen.checklist = list /\ seen.uploads = kept \cup new
    BY <2>4, <2>11, <2>12 DEF Document
  <2>. HIDE DEF seen
  <2>14. PICK full : full = Analyzed(seen, mentioned, suggestion)
    OBVIOUS
  <2>15. /\ full \in Document /\ Ready(full) /\ full.present
         /\ full.uploads = kept \cup new
         /\ Answered(list, full.checklist, kept \cup new)
    <3>1. /\ full \in Document /\ Ready(full) /\ full.present
          /\ full.uploads = seen.uploads
          /\ Answered(seen.checklist, full.checklist, seen.uploads)
      <4>1. seen \in Document /\ suggestion \in LlmAnswers \cup {<<>>}
        BY <2>13
      <4>. QED BY <2>14, <4>1, AnalyzedFacts
    <3>. QED BY <2>13, <3>1
  <2>16. docs' = [full EXCEPT !.errors = errors]
    BY <1>8, <2>14 DEF ErrorsOfRun
  <2>17. /\ docs' \in Document /\ docs'.present /\ docs'.ready = full.ready
         /\ docs'.checklist = full.checklist /\ docs'.uploads = kept \cup new
         /\ docs'.errors = errors
    BY <2>3, <2>15, <2>16 DEF Document
  <2>18. Ready(docs')
    BY <2>15, <2>17 DEF Ready
  <2>19. Answered(docs.checklist, docs'.checklist, docs'.uploads)
    <3>1. Mapped(new) \subseteq Mapped(kept \cup new) /\ Mapped({}) = {}
      BY DEF Mapped
    <3>2. Answered(docs.checklist, list, new)
      BY <2>4, <2>11, <3>1 DEF Answered
    <3>3. DOMAIN docs.checklist \subseteq DOMAIN list
      BY <2>4, <2>11
    <3>4. Answered(docs.checklist, full.checklist, kept \cup new)
      BY <2>15, <3>1, <3>2, <3>3 DEF Answered
    <3>. QED BY <2>17, <3>4
  <2>20. /\ \A u \in docs'.uploads \ docs.uploads : u \in new
         /\ \A u \in docs.uploads : u.from \notin Attachments => u \in docs'.uploads
    BY <2>2, <2>9, <2>17
  <2>21. job' \in Jobs
    BY <2>1 DEF Jobs, JobStatus, FileStatuses
  <2>22. ASSUME job'.status = "completed" PROVE Stored
    <3>1. errors = {}
      BY <2>1, <2>22 DEF JobStatus
    <3>2. ASSUME NEW a \in Attachments
          PROVE  \E u \in docs'.uploads : u.from = a /\ u.file \in disk' /\ u.text # "error"
      <4>1. CASE a \in DOMAIN outcome
        <5>1. a \in stored /\ outcome[a] # "error"
          BY <2>3, <3>1, <4>1 DEF stored
        <5>. QED BY <1>6, <2>8, <2>17, <5>1
      <4>2. CASE a \notin DOMAIN outcome
        <5>1. PICK u \in Existing(a) : Healthy(u)
          BY <2>2, <4>2 DEF Skipped
        <5>2. u \in kept /\ u.from = a
          BY <2>9, <4>2, <5>1 DEF Existing
        <5>. QED BY <1>6, <2>17, <5>1, <5>2 DEF Healthy
      <4>. QED BY <4>1, <4>2
    <3>. QED BY <3>2 DEF Stored
  <2>23. /\ \A u \in docs'.uploads \ docs.uploads : u.file \in ids
         /\ \A u, w \in docs'.uploads \ docs.uploads : u.file = w.file => u = w
    BY <2>6, <2>7, <2>20
  <2>24. docs'.errors = open' /\ open' \subseteq Errors
    BY <2>1, <2>3, <2>17
  <2>. QED BY <1>6, <1>8, <2>17, <2>18, <2>19, <2>20, <2>21, <2>22, <2>23, <2>24
<1>. QED BY <1>5, <1>7, <1>8 DEF CommitOrDie
-----------------------------------------------------------------------------
(* The steps. *)

\* The invariant, conjunct by conjunct, with the names used here.
LEMMA IInvFacts ==
  IInv <=> /\ docs \in Document /\ bidForm \in BOOLEAN /\ disk \subseteq Ids /\ job \in Jobs
           /\ open \subseteq Errors /\ library \in SUBSET Upload
           /\ saver \in SUBSET (SUBSET Upload) /\ crashes \in 0..MaxCrashes
           /\ Ready(docs) /\ docs.errors \subseteq open /\ FilesApart /\ OneSaver
           /\ NothingBefore
BY DEF IInv, TypeOK, ReadyNeverOverclaims, ShownErrorsAreOpen, Document, Errors, Jobs, Ready

\* The same of the next state.
LEMMA IInvNext ==
  ASSUME docs' \in Document, bidForm' \in BOOLEAN, disk' \subseteq Ids, job' \in Jobs,
         open' \subseteq Errors, library' \in SUBSET Upload,
         saver' \in SUBSET (SUBSET Upload), crashes' \in 0..MaxCrashes,
         Ready(docs'), docs'.errors \subseteq open', FilesApart', OneSaver', NothingBefore'
  PROVE  IInv'
BY DEF IInv, TypeOK, ReadyNeverOverclaims, ShownErrorsAreOpen, Document, Errors, Jobs, Ready

\* A handler that writes the checklist only.
LEMMA ChecklistSteps ==
  ASSUME IInv, docs' \in Document, Ready(docs'), docs'.uploads = docs.uploads,
         docs'.errors \subseteq docs.errors, docs'.present, bidForm' \in BOOLEAN,
         UNCHANGED <<disk, job, open, library, saver, crashes>>
  PROVE  IInv'
<1>1. FilesApart'
  <2>1. disk' = disk \cup {} /\ docs'.uploads \ docs.uploads = {} /\ FilesApart
    BY DEF IInv
  <2>2. {} \in SUBSET (Ids \ UsedIds)
    OBVIOUS
  <2>. QED BY <2>1, <2>2, FilesStayApart
<1>2. OneSaver' /\ NothingBefore'
  BY DEF IInv, OneSaver, NothingBefore
<1>. QED BY <1>1, <1>2, IInvFacts, IInvNext

\* A handler that adds an entry and the files ids, and commits it.
LEMMA EntrySteps ==
  ASSUME IInv, NEW ids \in SUBSET (Ids \ UsedIds), disk' = disk \cup ids,
         NEW u \in Upload, docs.present, docs' = Merged(docs, u),
         \/ ids = {u.file}
         \/ ids = {} /\ u.from = "common_library" /\ \E w \in Common : u.file = w.file,
         UNCHANGED <<bidForm, job, open, library, saver, crashes>>
  PROVE  IInv' /\ Answered(docs.checklist, docs'.checklist, docs'.uploads)
         /\ docs.uploads \subseteq docs'.uploads
<1>1. docs \in Document /\ Ready(docs)
  BY IInvFacts
<1>2. /\ docs' \in Document /\ Ready(docs') /\ docs'.present
      /\ docs'.uploads = docs.uploads \cup {u} /\ docs'.errors = docs.errors
      /\ Answered(docs.checklist, docs'.checklist, docs'.uploads)
  BY <1>1, MergedFacts
<1>3. FilesApart'
  <2>1. \A w \in docs'.uploads \ docs.uploads : w = u
    BY <1>2
  <2>2. FilesApart /\ UNCHANGED <<library, saver, crashes>>
    BY DEF IInv
  <2>3. \A w \in docs'.uploads \ docs.uploads :
          \/ w.file \in ids
          \/ w.from = "common_library" /\ \E x \in Common : w.file = x.file
    BY <2>1
  <2>4. \A w, x \in docs'.uploads \ docs.uploads : w.file \in ids /\ w.file = x.file => w = x
    BY <2>1
  <2>. QED BY <2>2, <2>3, <2>4, FilesStayApart
<1>4. OneSaver' /\ NothingBefore' /\ disk' \subseteq Ids
  BY <1>2, IInvFacts DEF OneSaver, NothingBefore
<1>5. IInv'
  BY <1>2, <1>3, <1>4, IInvFacts, IInvNext
<1>. QED BY <1>2, <1>5

\* A step in which the process dies, after it has touched the disk.
LEMMA DeathSteps ==
  ASSUME IInv, UNCHANGED <<docs, bidForm, job, open, library>>, saver' = {},
         crashes < MaxCrashes, crashes' = crashes + 1,
         disk' \subseteq Ids, \A w \in Common : w.file \in disk'
  PROVE  IInv'
<1>1. FilesApart'
  BY FilesAfterDeath
<1>2. OneSaver' /\ NothingBefore'
  BY DEF IInv, OneSaver, NothingBefore
<1>3. crashes' \in 0..MaxCrashes /\ saver' \in SUBSET (SUBSET Upload)
  BY IInvFacts, WorkspaceAssumption
<1>. QED BY <1>1, <1>2, <1>3, IInvFacts, IInvNext

\* What the user has done is there after the step.
WorkKept == /\ Answered(docs.checklist, docs'.checklist, docs'.uploads)
            /\ \A u \in docs.uploads : u.from \notin Attachments => u \in docs'.uploads

\* Nothing changes in the workspace.
LEMMA SameIsKept ==
  ASSUME docs' = docs
  PROVE  WorkKept
BY DEF WorkKept, Answered

\* analyze keeps the invariant and the work of the user.
LEMMA AnalyzeSteps ==
  ASSUME IInv, AnalyzeDocuments
  PROVE  IInv' /\ WorkKept
<1>1. PICK mentioned \in SUBSET Conditional, suggestion \in LlmAnswers :
        docs' = Analyzed(docs, mentioned, suggestion)
  BY DEF AnalyzeDocuments
<1>2. docs \in Document /\ bidForm \in BOOLEAN
  BY IInvFacts
<1>3. /\ docs' \in Document /\ Ready(docs') /\ docs'.present
      /\ docs'.uploads = docs.uploads /\ docs'.errors = {}
      /\ Answered(docs.checklist, docs'.checklist, docs.uploads)
  <2>1. suggestion \in LlmAnswers \cup {<<>>}
    OBVIOUS
  <2>. QED BY <1>1, <1>2, <2>1, AnalyzedFacts
<1>4. UNCHANGED <<bidForm, disk, job, open, library, saver, crashes>>
  BY DEF AnalyzeDocuments
<1>5. IInv'
  BY <1>2, <1>3, <1>4, ChecklistSteps
<1>6. WorkKept
  BY <1>3 DEF WorkKept
<1>. QED BY <1>5, <1>6

\* A PATCH keeps the invariant and changes no item but its own.
LEMMA PatchSteps ==
  ASSUME IInv, NEW i \in Items, PatchItem(i)
  PROVE  /\ IInv' /\ docs'.uploads = docs.uploads
         /\ \A j \in DOMAIN docs.checklist \ {i} : docs'.checklist[j] = docs.checklist[j]
<1>1. docs.present /\ i \in DOMAIN docs.checklist
  BY DEF PatchItem
<1>2. docs \in Document /\ bidForm \in BOOLEAN
  BY IInvFacts
<1>3. PICK status \in PatchStatuses \cup {docs.checklist[i].status} :
        docs' = WithItem(docs, i,
                         [docs.checklist[i] EXCEPT !.status = status, !.manual = TRUE])
  BY DEF PatchItem
<1>4. PICK item : item = docs.checklist[i]
  OBVIOUS
<1>5. item \in Item
  <2>1. docs.checklist \in Checklists
    BY <1>2 DEF Document
  <2>. QED BY <1>1, <1>4, <2>1, ChecklistFacts
<1>6. status \in ItemStatuses
  BY <1>3, <1>4, <1>5, WorkspaceAssumption DEF Item, ItemStatuses
<1>7. [item EXCEPT !.status = status, !.manual = TRUE] \in Item
  BY <1>5, <1>6 DEF Item
<1>8. /\ docs' \in Document /\ Ready(docs') /\ docs'.present = docs.present
      /\ docs'.uploads = docs.uploads /\ docs'.errors = docs.errors
      /\ \A j \in DOMAIN docs.checklist \ {i} : docs'.checklist[j] = docs.checklist[j]
  <2>. DEFINE set == [item EXCEPT !.status = status, !.manual = TRUE]
  <2>1. docs' = WithItem(docs, i, set) /\ set \in Item
    BY <1>3, <1>4, <1>7
  <2>. HIDE DEF set
  <2>2. i \in DOMAIN docs.checklist
    BY <1>1
  <2>. QED BY <1>2, <2>1, <2>2, WithItemFacts
<1>9. UNCHANGED <<bidForm, disk, job, open, library, saver, crashes>>
  BY DEF PatchItem
<1>10. IInv'
  BY <1>1, <1>2, <1>8, <1>9, ChecklistSteps
<1>. QED BY <1>8, <1>10

\* validate keeps the invariant and the work of the user.
LEMMA ValidateSteps ==
  ASSUME IInv, ValidateDocuments
  PROVE  IInv' /\ WorkKept
<1>1. docs \in Document /\ bidForm \in BOOLEAN
  BY IInvFacts
<1>2. /\ docs' = Validated(docs) /\ docs.present
      /\ UNCHANGED <<bidForm, disk, job, open, library, saver, crashes>>
  BY DEF ValidateDocuments
<1>3. /\ docs' \in Document /\ Ready(docs') /\ docs'.present
      /\ docs'.checklist = docs.checklist
      /\ docs'.uploads = docs.uploads /\ docs'.errors = docs.errors
  BY <1>1, <1>2, ValidatedFacts
<1>4. IInv'
  BY <1>1, <1>2, <1>3, ChecklistSteps
<1>5. WorkKept
  BY <1>3 DEF WorkKept, Answered
<1>. QED BY <1>4, <1>5

\* The autofill keeps the invariant and touches the bid form only.
LEMMA AutofillSteps ==
  ASSUME IInv, AutofillForm
  PROVE  /\ IInv' /\ docs'.uploads = docs.uploads /\ bidForm'
         /\ \A i \in DOMAIN docs.checklist :
              \/ docs'.checklist[i] = docs.checklist[i]
              \/ i = "bid_form" /\ docs'.checklist[i].status = "generated"
<1>1. docs \in Document
  BY IInvFacts
<1>2. /\ bidForm' = TRUE /\ UNCHANGED <<disk, job, open, library, saver, crashes>>
      /\ docs' = Validated([docs EXCEPT !.present = TRUE,
                   !.checklist = [i \in DOMAIN @ |->
                     IF i = "bid_form" THEN [@[i] EXCEPT !.status = "generated"] ELSE @[i]]])
  BY DEF AutofillForm
<1>3. /\ docs' \in Document /\ Ready(docs') /\ docs'.present
      /\ docs'.uploads = docs.uploads /\ docs'.errors = docs.errors
      /\ \A i \in DOMAIN docs.checklist :
           \/ docs'.checklist[i] = docs.checklist[i]
           \/ i = "bid_form" /\ docs'.checklist[i].status = "generated"
  <2>1. docs' = Autofilled(docs)
    BY <1>2 DEF Autofilled
  <2>. QED BY <1>1, <2>1, AutofillFacts
<1>4. bidForm' \in BOOLEAN
  BY <1>2
<1>5. IInv'
  BY <1>2, <1>3, <1>4, ChecklistSteps
<1>. QED BY <1>2, <1>3, <1>5

\* An upload writes a file nobody has, whether or not its commit follows.
LEMMA UploadSteps ==
  ASSUME IInv, UploadDocument
  PROVE  IInv' /\ WorkKept
<1>1. PICK id \in UNION Fresh(1), item \in Pointed \cup {NoItem} :
        /\ disk' = disk \cup {id}
        /\ CommitOrDie(Merged(docs, [id |-> id, file |-> id, item |-> item,
                                     from |-> "uploaded", text |-> "text"]))
  BY DEF UploadDocument
<1>. DEFINE u == [id |-> id, file |-> id, item |-> item,
                  from |-> "uploaded", text |-> "text"]
<1>2. {id} \in SUBSET (Ids \ UsedIds)
  BY FreshId
<1>3. u \in Upload /\ u.file = id
  BY <1>2, WorkspaceAssumption DEF Upload
<1>. HIDE DEF u
<1>4. docs.present /\ UNCHANGED <<bidForm, job, open, library>>
  BY DEF UploadDocument
<1>5. CASE docs' = Merged(docs, u) /\ UNCHANGED <<saver, crashes>>
  <2>1. UNCHANGED <<bidForm, job, open, library, saver, crashes>> /\ {id} = {u.file}
    BY <1>3, <1>4, <1>5
  <2>2. IInv' /\ Answered(docs.checklist, docs'.checklist, docs'.uploads)
        /\ docs.uploads \subseteq docs'.uploads
    BY <1>1, <1>2, <1>3, <1>4, <1>5, <2>1, EntrySteps
  <2>. QED BY <2>2 DEF WorkKept
<1>6. CASE crashes < MaxCrashes /\ crashes' = crashes + 1 /\ saver' = {} /\ UNCHANGED docs
  <2>1. disk' \subseteq Ids /\ \A w \in Common : w.file \in disk'
    BY <1>1, <1>2, IInvFacts DEF FilesApart
  <2>2. UNCHANGED <<docs, bidForm, job, open, library>>
    BY <1>4, <1>6
  <2>3. IInv'
    BY <1>6, <2>1, <2>2, DeathSteps
  <2>. QED BY <1>6, <2>3, SameIsKept
<1>. QED BY <1>1, <1>5, <1>6 DEF CommitOrDie, u

\* An import shares the file of its library entry.
LEMMA ImportSteps ==
  ASSUME IInv, ImportCommon
  PROVE  IInv' /\ WorkKept
<1>1. PICK common \in library, id \in UNION Fresh(1) :
        docs' = Merged(docs, [common EXCEPT !.id = id, !.from = "common_library"])
  BY DEF ImportCommon
<1>2. /\ docs.present /\ UNCHANGED <<bidForm, disk, job, open, library, saver, crashes>>
  BY DEF ImportCommon
<1>. DEFINE u == [common EXCEPT !.id = id, !.from = "common_library"]
<1>3. {id} \in SUBSET (Ids \ UsedIds) /\ {} \in SUBSET (Ids \ UsedIds)
  BY FreshId
<1>4. common \in Upload /\ common \in Common
  BY IInvFacts DEF Common
<1>5. u \in Upload /\ u.file = common.file /\ u.from = "common_library"
  BY <1>3, <1>4 DEF Upload
<1>. HIDE DEF u
<1>6. docs' = Merged(docs, u)
  BY <1>1 DEF u
<1>7. \E w \in Common : u.file = w.file
  BY <1>4, <1>5
<1>8. disk' = disk \cup {} /\ UNCHANGED <<bidForm, job, open, library, saver, crashes>>
  BY <1>2
<1>9. IInv' /\ Answered(docs.checklist, docs'.checklist, docs'.uploads)
      /\ docs.uploads \subseteq docs'.uploads
  BY <1>2, <1>3, <1>5, <1>6, <1>7, <1>8, EntrySteps
<1>. QED BY <1>9 DEF WorkKept

\* A deletion takes the file of a private upload only; the entry goes with it
\* unless the process dies in between.
LEMMA DeleteSteps ==
  ASSUME IInv, NEW u \in docs.uploads, DeleteUpload(u)
  PROVE  /\ IInv' /\ Answered(docs.checklist, docs'.checklist, docs'.uploads)
         /\ \A w \in docs.uploads : w \notin docs'.uploads => w = u
<1>1. /\ disk' = WithoutFileOf(u) /\ UNCHANGED <<bidForm, job, open, library>>
      /\ CommitOrDie([docs EXCEPT !.uploads = docs.uploads \ {u}])
  BY DEF DeleteUpload
<1>2. docs \in Document /\ Ready(docs) /\ FilesApart /\ disk \subseteq Ids
  BY IInvFacts
<1>3. CASE docs' = [docs EXCEPT !.uploads = docs.uploads \ {u}] /\ UNCHANGED <<saver, crashes>>
  <2>1. /\ docs' \in Document /\ docs'.uploads = docs.uploads \ {u}
        /\ docs'.checklist = docs.checklist /\ docs'.errors = docs.errors
        /\ docs'.ready = docs.ready /\ docs'.present = docs.present
    BY <1>2, <1>3 DEF Document
  <2>2. FilesApart'
    <3>1. UNCHANGED <<library, saver, crashes>>
      BY <1>1, <1>3
    <3>. QED BY <1>1, <1>2, <2>1, <3>1, FilesAfterDeletion
  <2>3. /\ Ready(docs') /\ OneSaver' /\ NothingBefore' /\ disk' \subseteq Ids
        /\ docs'.errors \subseteq open'
    BY <1>1, <1>2, <1>3, <2>1, IInvFacts DEF Ready, OneSaver, NothingBefore, WithoutFileOf
  <2>4. IInv'
    BY <1>1, <1>3, <2>1, <2>2, <2>3, IInvFacts, IInvNext
  <2>. QED BY <2>1, <2>4 DEF Answered
<1>4. CASE crashes < MaxCrashes /\ crashes' = crashes + 1 /\ saver' = {} /\ UNCHANGED docs
  <2>1. disk' \subseteq Ids /\ \A w \in Common : w.file \in disk'
    BY <1>1, <1>2 DEF FilesApart, WithoutFileOf
  <2>2. UNCHANGED <<docs, bidForm, job, open, library>>
    BY <1>1, <1>4
  <2>3. IInv'
    BY <1>4, <2>1, <2>2, DeathSteps
  <2>. QED BY <1>4, <2>3 DEF Answered
<1>. QED BY <1>1, <1>3, <1>4 DEF CommitOrDie

\* A fetch keeps the invariant and the work of the user, with each outcome of
\* its loop and with a crash before its commit.
LEMMA FetchSteps ==
  ASSUME IInv, FetchAttachments
  PROVE  /\ IInv' /\ WorkKept
         /\ job' # job /\ job'.status = "completed" => Stored
         /\ crashes' = crashes => UNCHANGED <<library, saver>>
<1>1. PICK ids \in SUBSET (Ids \ UsedIds) :
        /\ disk' = disk \cup ids /\ UNCHANGED <<bidForm, library>>
        /\ \/ /\ crashes < MaxCrashes /\ crashes' = crashes + 1 /\ saver' = {}
              /\ UNCHANGED <<docs, open, job>>
           \/ /\ UNCHANGED <<saver, crashes>>
              /\ docs' \in Document /\ Ready(docs') /\ docs'.present
              /\ docs'.errors = open' /\ open' \subseteq Errors /\ job' \in Jobs
              /\ \A u \in docs'.uploads \ docs.uploads : u.file \in ids
              /\ \A u, w \in docs'.uploads \ docs.uploads : u.file = w.file => u = w
              /\ \A u \in docs.uploads : u.from \notin Attachments => u \in docs'.uploads
              /\ Answered(docs.checklist, docs'.checklist, docs'.uploads)
              /\ job'.status = "completed" => Stored
  BY FetchFacts
<1>2. disk' \subseteq Ids
  BY <1>1, IInvFacts
<1>3. CASE /\ crashes < MaxCrashes /\ crashes' = crashes + 1 /\ saver' = {}
           /\ UNCHANGED <<docs, open, job>>
  <2>1. \A w \in Common : w.file \in disk'
    BY <1>1, IInvFacts DEF FilesApart
  <2>2. UNCHANGED <<docs, bidForm, job, open, library>>
    BY <1>1, <1>3
  <2>3. IInv'
    BY <1>2, <1>3, <2>1, <2>2, DeathSteps
  <2>4. crashes' # crashes
    BY <1>3, IInvFacts
  <2>. QED BY <1>3, <2>3, <2>4, SameIsKept
<1>4. CASE /\ UNCHANGED <<saver, crashes>>
           /\ docs' \in Document /\ Ready(docs') /\ docs'.present
           /\ docs'.errors = open' /\ open' \subseteq Errors /\ job' \in Jobs
           /\ \A u \in docs'.uploads \ docs.uploads : u.file \in ids
           /\ \A u, w \in docs'.uploads \ docs.uploads : u.file = w.file => u = w
           /\ \A u \in docs.uploads : u.from \notin Attachments => u \in docs'.uploads
           /\ Answered(docs.checklist, docs'.checklist, docs'.uploads)
           /\ job'.status = "completed" => Stored
  <2>1. FilesApart'
    <3>1. FilesApart /\ disk' = disk \cup ids /\ UNCHANGED <<library, saver, crashes>>
      BY <1>1, <1>4, IInvFacts
    <3>2. /\ \A u \in docs'.uploads \ docs.uploads :
               \/ u.file \in ids
               \/ u.from = "common_library" /\ \E w \in Common : u.file = w.file
          /\ \A u, w \in docs'.uploads \ docs.uploads :
               u.file \in ids /\ u.file = w.file => u = w
      BY <1>4
    <3>. QED BY <3>1, <3>2, FilesStayApart
  <2>2. OneSaver' /\ NothingBefore' /\ docs'.errors \subseteq open'
    BY <1>1, <1>4, IInvFacts DEF OneSaver, NothingBefore
  <2>3. bidForm' \in BOOLEAN /\ library' \in SUBSET Upload
        /\ saver' \in SUBSET (SUBSET Upload) /\ crashes' \in 0..MaxCrashes
    BY <1>1, <1>4, IInvFacts
  <2>4. IInv'
    BY <1>2, <1>4, <2>1, <2>2, <2>3, IInvNext
  <2>5. WorkKept
    BY <1>4 DEF WorkKept
  <2>. QED BY <1>1, <1>4, <2>4, <2>5
<1>. QED BY <1>1, <1>3, <1>4

\* The first half of a save: what the file held is in the hands of the saver.
LEMMA TruncateSteps ==
  ASSUME IInv, SaveCommonTruncate
  PROVE  IInv' /\ Common \subseteq Common'
<1>1. /\ saver = {} /\ library' = {} /\ UNCHANGED <<docs, bidForm, job, open, crashes>>
  BY DEF SaveCommonTruncate, LibraryIdle
<1>2. PICK id \in UNION Fresh(1), item \in Mappings(<<>>) :
        /\ disk' = disk \cup {id}
        /\ saver' = saver \cup {library \cup {[id |-> id, file |-> id, item |-> item,
                                               from |-> "uploaded", text |-> "text"]}}
  BY DEF SaveCommonTruncate
<1>. DEFINE new == [id |-> id, file |-> id, item |-> item, from |-> "uploaded", text |-> "text"]
<1>3. {id} \in SUBSET (Ids \ UsedIds)
  BY FreshId
<1>4. new \in Upload /\ new.file = id /\ new.id = id
  <2>1. item \in Items \cup {NoItem}
    BY WorkspaceAssumption DEF Mappings
  <2>. QED BY <1>3, <2>1 DEF Upload
<1>5. saver' = {library \cup {new}}
  BY <1>1, <1>2
<1>. HIDE DEF new
<1>6. Common' = library \cup {new} /\ Common = library
  BY <1>1, <1>5 DEF Common
<1>7. FilesApart'
  <2>1. \A u \in docs.uploads : u.file # id
    BY <1>3 DEF UsedIds
  <2>2. /\ \A u \in Common' : u.file = u.id /\ u.file \in disk'
    BY <1>2, <1>4, <1>6, IInvFacts DEF FilesApart
  <2>3. /\ \A u \in docs.uploads, w \in Common' : u.file = w.file => u.from = "common_library"
    BY <1>4, <1>6, <2>1, IInvFacts DEF FilesApart
  <2>4. crashes' = 0 => \A u \in docs.uploads : u.file \in disk'
    BY <1>1, <1>2, IInvFacts DEF FilesApart
  <2>. QED BY <1>1, <2>2, <2>3, <2>4, IInvFacts DEF FilesApart
<1>8. OneSaver' /\ NothingBefore' /\ disk' \subseteq Ids
  BY <1>1, <1>2, <1>3, <1>5, IInvFacts DEF OneSaver, NothingBefore
<1>9. library' \in SUBSET Upload /\ saver' \in SUBSET (SUBSET Upload)
  BY <1>1, <1>4, <1>5, IInvFacts
<1>10. IInv'
  BY <1>1, <1>7, <1>8, <1>9, IInvFacts, IInvNext
<1>. QED BY <1>6, <1>10

\* The second half: everything is back.
LEMMA WriteSteps ==
  ASSUME IInv, NEW save \in saver, SaveCommonWrite(save)
  PROVE  IInv' /\ Common' = Common
<1>1. /\ library' = save /\ saver' = saver \ {save}
      /\ UNCHANGED <<docs, bidForm, disk, job, open, crashes>>
  BY DEF SaveCommonWrite
<1>2. library = {} /\ saver = {save}
  BY IInvFacts DEF OneSaver
<1>3. saver' = {} /\ Common' = Common
  BY <1>1, <1>2 DEF Common
<1>4. FilesApart' /\ OneSaver' /\ NothingBefore'
  BY <1>1, <1>3, IInvFacts DEF FilesApart, OneSaver, NothingBefore
<1>5. library' \in SUBSET Upload /\ saver' \in SUBSET (SUBSET Upload)
  BY <1>1, <1>3, IInvFacts
<1>. QED BY <1>1, <1>3, <1>4, <1>5, IInvFacts, IInvNext

\* A crash loses the save under way and no file.
LEMMA CrashSteps ==
  ASSUME IInv, Crash
  PROVE  IInv'
<1>1. /\ crashes < MaxCrashes /\ crashes' = crashes + 1 /\ saver' = {}
      /\ UNCHANGED <<docs, bidForm, job, open, library>> /\ disk' = disk
  BY DEF Crash
<1>2. disk' \subseteq Ids /\ \A w \in Common : w.file \in disk'
  BY <1>1, IInvFacts DEF FilesApart
<1>. QED BY <1>1, <1>2, DeathSteps
-----------------------------------------------------------------------------
(* The theorems. *)

\* The workspace of a notice that nobody has looked at.
LEMMA InitIInv == Init => IInv
<1>. SUFFICES ASSUME Init PROVE IInv
  OBVIOUS
<1>1. docs \in Document /\ Ready(docs) /\ docs.errors = {} /\ docs.uploads = {}
      /\ DOMAIN docs.checklist = {}
  <2>1. Missing(<<>>) = {}
    BY EmptyChecklist DEF Missing
  <2>. QED BY <2>1, EmptyChecklist DEF Init, NoDocs, Document, Ready
<1>2. bidForm \in BOOLEAN /\ disk \subseteq Ids /\ open \subseteq Errors
      /\ library \in SUBSET Upload /\ saver \in SUBSET (SUBSET Upload)
      /\ crashes \in 0..MaxCrashes
  <2>1. MaxCrashes \in Nat /\ crashes = 0
    BY WorkspaceAssumption DEF Init
  <2>2. crashes \in 0..MaxCrashes
    BY <2>1
  <2>. QED BY <2>2 DEF Init
<1>3. job \in Jobs
  BY DEF Init, Jobs, FileStatuses
<1>4. FilesApart
  <2>1. Common = {}
    BY DEF Common, Init
  <2>. QED BY <1>1, <2>1 DEF FilesApart
<1>5. OneSaver /\ NothingBefore
  BY <1>1 DEF Init, OneSaver, NothingBefore
<1>. QED BY <1>1, <1>2, <1>3, <1>4, <1>5, IInvFacts

\* Nothing moves.
LEMMA StutterIInv ==
  ASSUME IInv, UNCHANGED vars
  PROVE  IInv'
BY DEF vars, IInv, TypeOK, ReadyNeverOverclaims, ShownErrorsAreOpen,
       FilesApart, OneSaver, NothingBefore, Common

\* Every step keeps the invariant.
LEMMA NextIInv ==
  ASSUME IInv, [Next]_vars
  PROVE  IInv'
<1>1. CASE AnalyzeDocuments
  BY <1>1, AnalyzeSteps
<1>2. CASE \E i \in Items : PatchItem(i)
  BY <1>2, PatchSteps
<1>3. CASE ValidateDocuments
  BY <1>3, ValidateSteps
<1>4. CASE AutofillForm
  BY <1>4, AutofillSteps
<1>5. CASE UploadDocument
  BY <1>5, UploadSteps
<1>6. CASE ImportCommon
  BY <1>6, ImportSteps
<1>7. CASE \E u \in docs.uploads : DeleteUpload(u)
  BY <1>7, DeleteSteps
<1>8. CASE FetchAttachments
  BY <1>8, FetchSteps
<1>9. CASE SaveCommonTruncate
  BY <1>9, TruncateSteps
<1>10. CASE \E save \in saver : SaveCommonWrite(save)
  BY <1>10, WriteSteps
<1>11. CASE Crash
  BY <1>11, CrashSteps
<1>12. CASE UNCHANGED vars
  BY <1>12, StutterIInv
<1>. QED BY <1>1, <1>2, <1>3, <1>4, <1>5, <1>6, <1>7, <1>8, <1>9, <1>10, <1>11, <1>12
         DEF Next

\* The invariant of the workspace holds in every state: checklist and flag,
\* errors and their rows, entries and the files they share.
THEOREM Invariance == Spec => []IInv
<1>1. Init => IInv
  BY InitIInv
<1>2. IInv /\ [Next]_vars => IInv'
  BY NextIInv
<1>. QED BY <1>1, <1>2, PTL DEF Spec

\* The flag that lists and filters read, ready_for_submission, never claims
\* more than the checklist, whatever mix of rules, LLM answers, uploads,
\* imports, fetches, autofills and PATCHes has written either of them.
THEOREM ReadyNeverOverclaimsThm == Spec => []ReadyNeverOverclaims
<1>1. IInv => ReadyNeverOverclaims
  BY DEF IInv
<1>. QED BY <1>1, Invariance, PTL

\* Every attachment error the document panel shows has its unresolved row.
THEOREM ShownErrorsAreOpenThm == Spec => []ShownErrorsAreOpen
<1>1. IInv => ShownErrorsAreOpen
  BY DEF IInv
<1>. QED BY <1>1, Invariance, PTL

\* No import, deletion or fetch takes the file of a common upload away; the
\* entries of the notice have their files until a crash between a deletion
\* and its commit.
THEOREM FilesSurviveThm == Spec => []FilesSurvive
<1>1. IInv => FilesSurvive
  <2>. SUFFICES ASSUME IInv PROVE FilesSurvive
    OBVIOUS
  <2>1. FilesApart
    BY DEF IInv
  <2>2. \A u \in library : u.file \in disk
    BY <2>1 DEF FilesApart, Common
  <2>3. crashes = 0 => Downloadable = docs.uploads
    BY <2>1 DEF FilesApart, Downloadable
  <2>. QED BY <2>2, <2>3 DEF FilesSurvive
<1>. QED BY <1>1, Invariance, PTL

\* What a step leaves of the common library: all of it, while the process
\* lives.
LEMMA CommonGrows ==
  ASSUME IInv, [Next]_vars, crashes' = crashes
  PROVE  Common \subseteq Common'
<1>1. CASE UNCHANGED <<library, saver>>
  BY <1>1 DEF Common
<1>2. crashes \in Nat
  BY IInvFacts
<1>3. CASE AnalyzeDocuments \/ ValidateDocuments \/ AutofillForm \/ ImportCommon
  BY <1>1, <1>3 DEF AnalyzeDocuments, ValidateDocuments, AutofillForm, ImportCommon
<1>4. CASE \E i \in Items : PatchItem(i)
  BY <1>1, <1>4 DEF PatchItem
<1>5. ASSUME NEW new, CommitOrDie(new) PROVE UNCHANGED saver
  BY <1>2, <1>5 DEF CommitOrDie
<1>6. CASE UploadDocument
  <2>1. UNCHANGED library /\ \E new : CommitOrDie(new)
    BY <1>6 DEF UploadDocument
  <2>. QED BY <1>1, <1>5, <2>1
<1>7. CASE \E u \in docs.uploads : DeleteUpload(u)
  <2>1. UNCHANGED library /\ \E new : CommitOrDie(new)
    BY <1>7 DEF DeleteUpload
  <2>. QED BY <1>1, <1>5, <2>1
<1>8. CASE FetchAttachments
  BY <1>1, <1>8, FetchSteps
<1>9. CASE SaveCommonTruncate
  BY <1>9, TruncateSteps
<1>10. CASE \E save \in saver : SaveCommonWrite(save)
  BY <1>10, WriteSteps
<1>11. CASE Crash
  BY <1>2, <1>11 DEF Crash
<1>12. CASE UNCHANGED vars
  BY <1>1, <1>12 DEF vars
<1>. QED BY <1>3, <1>4, <1>6, <1>7, <1>8, <1>9, <1>10, <1>11, <1>12 DEF Next

\* While the process lives the common library loses nothing it has accepted,
\* though its metadata file is rewritten without a lock.
THEOREM LibraryKeepsThm == Spec => LibraryKeeps
<1>1. IInv /\ [Next]_vars =>
        [crashes' = crashes => library \cup UNION saver \subseteq library' \cup UNION saver']_vars
  <2>. SUFFICES ASSUME IInv, [Next]_vars, crashes' = crashes
                PROVE  library \cup UNION saver \subseteq library' \cup UNION saver'
    OBVIOUS
  <2>. QED BY CommonGrows DEF Common
<1>. QED BY <1>1, Invariance, PTL DEF Spec, LibraryKeeps

\* A fetch that ends "completed" has a stored copy of every attachment.
THEOREM CompletedMeansFetchedThm == Spec => CompletedMeansFetched
<1>1. IInv /\ [Next]_vars =>
        [job' # job /\ job'.status = "completed" =>
           \A a \in Attachments : \E u \in docs'.uploads :
             u.from = a /\ u.file \in disk' /\ u.text # "error"]_vars
  <2>. SUFFICES ASSUME IInv, [Next]_vars, job' # job, job'.status = "completed"
                PROVE  Stored
    BY DEF Stored
  <2>1. FetchAttachments
    BY DEF Next, vars, AnalyzeDocuments, PatchItem, ValidateDocuments, AutofillForm,
           UploadDocument, ImportCommon, DeleteUpload, SaveCommonTruncate, SaveCommonWrite,
           Crash
  <2>. QED BY <2>1, FetchSteps
<1>. QED BY <1>1, Invariance, PTL DEF Spec, CompletedMeansFetched

\* What WorkKept says in the terms of the property.
LEMMA KeptIsSurvived ==
  ASSUME Answered(docs.checklist, docs'.checklist, docs'.uploads),
         NEW i \in DOMAIN docs.checklist \cap DOMAIN docs'.checklist,
         docs.checklist[i].manual, docs.checklist[i].status # docs'.checklist[i].status
  PROVE  /\ docs.checklist[i].status \in {"needed", "blocked"}
         /\ docs'.checklist[i].status = "ready" /\ i \in Mapped(docs'.uploads)
BY DEF Answered

\* What a step does to the user's work.
LEMMA StepSurvives ==
  ASSUME IInv, [Next]_vars
  PROVE  /\ \A i \in DOMAIN docs.checklist \cap DOMAIN docs'.checklist :
              docs.checklist[i].manual
              /\ docs.checklist[i].status # docs'.checklist[i].status =>
                \/ PatchItem(i)
                \/ /\ docs.checklist[i].status \in {"needed", "blocked"}
                   /\ docs'.checklist[i].status = "ready" /\ i \in Mapped(docs'.uploads)
                \/ i = "bid_form" /\ docs'.checklist[i].status = "generated" /\ bidForm'
         /\ \A u \in docs.uploads :
              u.from \notin Attachments /\ u \notin docs'.uploads => DeleteUpload(u)
<1>1. CASE WorkKept
  BY <1>1, KeptIsSurvived DEF WorkKept
<1>2. CASE UNCHANGED docs
  BY <1>1, <1>2, SameIsKept
<1>3. CASE AnalyzeDocuments
  BY <1>1, <1>3, AnalyzeSteps
<1>4. CASE \E i \in Items : PatchItem(i)
  <2>1. PICK i \in Items : PatchItem(i)
    BY <1>4
  <2>2. /\ docs'.uploads = docs.uploads
        /\ \A j \in DOMAIN docs.checklist \ {i} : docs'.checklist[j] = docs.checklist[j]
    BY <2>1, PatchSteps
  <2>. QED BY <2>1, <2>2
<1>5. CASE ValidateDocuments
  BY <1>1, <1>5, ValidateSteps
<1>6. CASE AutofillForm
  BY <1>6, AutofillSteps
<1>7. CASE UploadDocument
  BY <1>1, <1>7, UploadSteps
<1>8. CASE ImportCommon
  BY <1>1, <1>8, ImportSteps
<1>9. CASE \E u \in docs.uploads : DeleteUpload(u)
  <2>1. PICK u \in docs.uploads : DeleteUpload(u)
    BY <1>9
  <2>2. /\ Answered(docs.checklist, docs'.checklist, docs'.uploads)
        /\ \A w \in docs.uploads : w \notin docs'.uploads => w = u
    BY <2>1, DeleteSteps
  <2>. QED BY <2>1, <2>2, KeptIsSurvived
<1>10. CASE FetchAttachments
  BY <1>1, <1>10, FetchSteps
<1>11. CASE SaveCommonTruncate \/ Crash \/ UNCHANGED vars
  BY <1>2, <1>11 DEF SaveCommonTruncate, Crash, vars
<1>12. CASE \E save \in saver : SaveCommonWrite(save)
  BY <1>2, <1>12 DEF SaveCommonWrite
<1>. QED BY <1>3, <1>4, <1>5, <1>6, <1>7, <1>8, <1>9, <1>10, <1>11, <1>12 DEF Next

\* Rules, LLM answers and fetches leave the user's statuses and the user's
\* own uploads alone.
THEOREM UserWorkSurvivesThm == Spec => UserWorkSurvives
<1>. DEFINE Marks == \A i \in DOMAIN docs.checklist \cap DOMAIN docs'.checklist :
               LET before == docs.checklist[i]
                   after  == docs'.checklist[i]
               IN before.manual /\ before.status # after.status =>
                    \/ PatchItem(i)
                    \/ /\ before.status \in {"needed", "blocked"}
                       /\ after.status = "ready" /\ i \in Mapped(docs'.uploads)
                    \/ i = "bid_form" /\ after.status = "generated" /\ bidForm'
            Own == \A u \in docs.uploads :
               u.from \notin Attachments /\ u \notin docs'.uploads => DeleteUpload(u)
<1>1. IInv /\ [Next]_vars => Marks /\ Own
  <2>. SUFFICES ASSUME IInv, [Next]_vars PROVE Marks /\ Own
    OBVIOUS
  <2>. QED BY StepSurvives
<1>2. UserWorkSurvives <=> [][Marks]_vars /\ [][Own]_vars
  BY DEF UserWorkSurvives
<1>. HIDE DEF Marks, Own
<1>. QED BY <1>1, <1>2, Invariance, PTL DEF Spec
=============================================================================
