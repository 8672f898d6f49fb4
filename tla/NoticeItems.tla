---------------------------- MODULE NoticeItems ----------------------------
(***************************************************************************)
(* Two lists of a notice that the program extracts and people correct: the *)
(* spec items, rebuilt from analysis.elec_spec and written back to it, and *)
(* the required documents, classified by the LLM from the attachments.     *)
(* An extraction works for a while on what it read; people edit meanwhile. *)
(*                                                                         *)
(* A required value is a number in words, a text that is no number, or     *)
(* nothing.  Locked stands for locked_fields = ["required_value"], checked *)
(* for the three marks checked, owner and note of a required document.     *)
(***************************************************************************)
EXTENDS Naturals, FiniteSets

CONSTANTS Workers,        \* slots of the thread pool, numbered
          Items,          \* spec items whose value is a number
          DocNames,       \* names of required documents
          MaxItemCalls    \* bound: how many calls are ever made

Numbers == {"22.9", "25.8"}
NoNumber == "see drawing"
ItemStatuses == {"candidate", "reviewed", "matched", "gap", "ignored"}
Stages == {"bid", "contract"}

ASSUME ItemsAssumption == MaxItemCalls \in Nat

VARIABLES specs,   \* notice_spec_items: the row of each item
          elec,    \* analysis.elec_spec
          docs,    \* notice_required_documents: the row of each (doc_name, submit_stage)
          work,    \* the extraction of each slot
          drift,   \* history: analyze has replaced elec_spec since an item was written
          itemCalls   \* calls so far

itemVars == <<specs, elec, docs, work, drift, itemCalls>>

NoRow == [status |-> "none"]
Row == [required : Numbers \cup {NoNumber, ""}, proposed : {"", "ours"},
        status : ItemStatuses, by : {"", "manual"}, locked : BOOLEAN]

DocKeys == DocNames \X Stages
NoDoc == [type |-> "none"]
Doc == [type : {"required", "conditional"}, checked : BOOLEAN]

NoWork == [op |-> "idle", specs |-> << >>, elec |-> << >>, found |-> << >>, new |-> {}]

Working == {r \in Workers : work[r].op # "idle"}

ItemsInit ==
  /\ specs = [i \in Items |-> NoRow]
  /\ elec \in [Items -> Numbers \cup {""}]
  /\ docs = [k \in DocKeys |-> NoDoc]
  /\ work = [r \in Workers |-> NoWork]
  /\ itemCalls = 0 /\ drift = FALSE

Count == itemCalls < MaxItemCalls /\ itemCalls' = itemCalls + 1

Start(r, w) ==
  /\ work[r] = NoWork
  /\ \A q \in Workers \ Working : r <= q          \* the slots are alike: take the first
  /\ Count
  /\ work' = [work EXCEPT ![r] = w]
  /\ UNCHANGED <<specs, elec, docs, drift>>

-----------------------------------------------------------------------------
(* Spec items. *)

Bug_MatchedIsNotProtected == {"reviewed"}

Protected == {"reviewed", "matched"}

Candidate(i, e) ==
  [required |-> e[i], proposed |-> "", status |-> "candidate", by |-> "", locked |-> FALSE]

\* A locked field keeps its value once; the lock itself, and what a reviewer
\* has written, stay only while the item is reviewed or matched.
Merge(c, old) ==
  IF old = NoRow THEN c
  ELSE LET value == IF old.locked THEN old.required ELSE c.required
       IN  IF old.status \in Protected THEN [old EXCEPT !.required = value]
                                       ELSE [c EXCEPT !.required = value]

\* A slip: an entry that is never written again.
Bug_KeepsBrokenNumber(e, rows) ==
  [i \in Items |-> IF rows[i] = NoRow \/ e[i] # "" THEN e[i] ELSE rows[i].required]

\* elec_spec after the rows: an empty value leaves the entry alone, one that
\* is no number removes it.
ElecFrom(e, rows) ==
  [i \in Items |-> CASE rows[i] = NoRow \/ rows[i].required = "" -> e[i]
                     [] rows[i].required = NoNumber             -> ""
                     [] OTHER                                   -> rows[i].required]

ExtractSpecItems(r) ==
  Start(r, [NoWork EXCEPT !.op = "specs", !.specs = specs, !.elec = elec])

Merged(w) == [i \in Items |-> Merge(Candidate(i, w.elec), w.specs[i])]

\* Rows it knew are updated by id, the others inserted; (notice, item) is
\* unique, so a row somebody else has inserted meanwhile undoes everything.
SpecItemsExtracted(r) ==
  /\ work[r].op = "specs"
  /\ IF \E i \in Items : work[r].specs[i] = NoRow /\ specs[i] # NoRow
       THEN UNCHANGED <<specs, elec, drift>>
       ELSE /\ specs' = Merged(work[r])
            /\ elec' = ElecFrom(work[r].elec, specs')
            /\ drift' = FALSE
  /\ work' = [work EXCEPT ![r] = NoWork]
  /\ UNCHANGED <<docs, itemCalls>>

\* The fields a PATCH can set, one at a time; None is skipped.
Patches(row) ==
  {[row EXCEPT !.required = v] : v \in Numbers \cup {NoNumber}}
    \cup {[row EXCEPT !.status = s] : s \in ItemStatuses}
    \cup {[row EXCEPT !.proposed = "ours"], [row EXCEPT !.locked = TRUE]}

Signed(row) == IF row.status \in Protected THEN [row EXCEPT !.by = "manual"] ELSE row

PatchSpecItem(i) ==
  /\ Count
  /\ specs[i] # NoRow
  /\ \E row \in Patches(specs[i]) : specs' = [specs EXCEPT ![i] = Signed(row)]
  /\ elec' = ElecFrom(elec, specs')
  /\ drift' = FALSE
  /\ UNCHANGED <<docs, work>>

\* analyze reads the notice again with the LLM and replaces elec_spec.
Reanalyzed ==
  /\ Count
  /\ elec' \in [Items -> Numbers \cup {""}] \ {elec}
  /\ drift' = TRUE
  /\ UNCHANGED <<specs, docs, work>>

-----------------------------------------------------------------------------
(* Required documents. *)

AnalyzeDocuments(r) == Start(r, [NoWork EXCEPT !.op = "documents"])

Touched(r) == IF work[r].found = << >> THEN {} ELSE {k \in DocKeys : work[r].found[k] # "none"}

\* The LLM has answered: documents by name and stage, the surest of each; or
\* nothing, if it failed or there is no key.  Each is looked up now, and its
\* row locked if it is there.
Classified(r) ==
  /\ work[r].op = "documents" /\ work[r].found = << >>
  /\ \E found \in [DocKeys -> {"none", "required", "conditional"}] :
       /\ \A q \in Workers \ {r}, k \in DocKeys :
            k \in Touched(q) \ work[q].new => found[k] = "none"
       /\ work' = [work EXCEPT ![r].found = found,
                               ![r].new = {k \in DocKeys : found[k] # "none" /\ docs[k] = NoDoc}]
  /\ UNCHANGED <<specs, elec, docs, drift, itemCalls>>

\* A slip: the whole row is written, as for a new document.
Bug_RewritesTheRow(old, type) == [type |-> type, checked |-> FALSE]

\* Only what was extracted is refreshed; people's marks stay.
Refreshed(old, type) ==
  IF old = NoDoc THEN [type |-> type, checked |-> FALSE] ELSE [old EXCEPT !.type = type]

\* (notice, doc_name, stage) is unique: an insert that comes second undoes all.
DocumentsAnalyzed(r) ==
  /\ work[r].op = "documents" /\ work[r].found # << >>
  /\ IF \E k \in work[r].new : docs[k] # NoDoc
       THEN UNCHANGED docs
       ELSE docs' = [k \in DocKeys |->
                       IF k \in Touched(r) THEN Refreshed(docs[k], work[r].found[k]) ELSE docs[k]]
  /\ work' = [work EXCEPT ![r] = NoWork]
  /\ UNCHANGED <<specs, elec, itemCalls, drift>>

\* The call fails, deadlocks with another, or dies with the process.
Abandoned(r) ==
  /\ r \in Working
  /\ work' = [work EXCEPT ![r] = NoWork]
  /\ UNCHANGED <<specs, elec, docs, drift, itemCalls>>

\* A person marks a document, or corrects its type or its stage; a stage
\* that is taken is refused by the unique key.
PatchDocument(k) ==
  /\ Count
  /\ docs[k] # NoDoc
  /\ \A r \in Workers, s \in Stages : <<k[1], s>> \notin Touched(r)     \* row locks
  /\ \/ docs' = [docs EXCEPT ![k].checked = ~ @]
     \/ docs' = [docs EXCEPT ![k].type = IF @ = "required" THEN "conditional" ELSE "required"]
     \/ \E s \in Stages : /\ docs[<<k[1], s>>] = NoDoc
                          /\ docs' = [docs EXCEPT ![k] = NoDoc, ![<<k[1], s>>] = docs[k]]
  /\ UNCHANGED <<specs, elec, work, drift>>

-----------------------------------------------------------------------------
ItemsNext ==
  \/ \E r \in Workers : \/ ExtractSpecItems(r) \/ SpecItemsExtracted(r)
                         \/ AnalyzeDocuments(r) \/ Classified(r) \/ DocumentsAnalyzed(r)
                         \/ Abandoned(r)
  \/ \E i \in Items : PatchSpecItem(i)
  \/ \E k \in DocKeys : PatchDocument(k)
  \/ Reanalyzed

-----------------------------------------------------------------------------
(* Properties *)

\* Rows, entries and extractions have their types.
ItemsTypeOK ==
  /\ \A i \in Items : specs[i] \in Row \cup {NoRow}
  /\ \A i \in Items : elec[i] \in Numbers \cup {""}
  /\ \A k \in DocKeys : docs[k] \in Doc \cup {NoDoc}
  /\ \A r \in Workers : work[r].op \in {"idle", "specs", "documents"} /\ work[r].new \subseteq DocKeys
  /\ drift \in BOOLEAN

\* api-spec: the manual values of reviewed and matched items go before a new
\* extraction.  What a reviewer wrote (proposal, decision, name, lock) is
\* lost only to an extraction that had read the item before he did.
ReviewsSurvive ==
  [][\A r \in Workers, i \in Items :
       /\ work[r].op = "specs" /\ work'[r] = NoWork
       /\ specs[i] # NoRow /\ work[r].specs[i] = specs[i]
       /\ specs[i].status \in {"reviewed", "matched"}
       => specs'[i] = [specs[i] EXCEPT !.required = specs'[i].required]]_itemVars

\* The two copies of a required value agree, however extractions and PATCHes
\* overlap, unless analyze has replaced elec_spec since an item was written: a
\* corrected number therefore outlives the next extraction although no rule
\* protects it.
ElecMirrorsItems ==
  ~ drift => \A i \in Items :
               specs[i] # NoRow /\ specs[i].required \in Numbers => elec[i] = specs[i].required

\* notices.py: only extracted fields are refreshed, what people touched is
\* kept.  No analysis takes a document or a mark away, however late it ends.
MarksSurvive ==
  [][\A r \in Workers, k \in DocKeys :
       work[r].op = "documents" /\ work'[r] = NoWork /\ docs[k] # NoDoc =>
         docs'[k] # NoDoc /\ docs'[k].checked = docs[k].checked]_itemVars
=============================================================================
