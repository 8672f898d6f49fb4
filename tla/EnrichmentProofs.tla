-------------------------- MODULE EnrichmentProofs --------------------------
(***************************************************************************)
(* Proofs about Enrichment, for any number of calls, any slots, any        *)
(* optional requirement types, items and documents.                        *)
(*                                                                         *)
(* The proposal workspace.  A call that rebuilds a table claims it once it *)
(* has deleted rows of it or inserted its own; the argument is that a      *)
(* claim is exclusive and covers the whole table, although neither a lock  *)
(* on the table nor one on the notice is ever taken.  The row "documents", *)
(* which every generation has, is what two calls collide on.  That one of  *)
(* the calls can always go on needs little of this: a finite set of calls  *)
(* each of which waits for another holds a circle.                         *)
(***************************************************************************)
EXTENDS Enrichment, FiniteSetTheorems, TLAPS

RequirementRows == {RequirementRow(g, t) : g \in Gens, t \in Types}
EvidenceRows    == {EvidenceRow(g, q) : g \in Gens, q \in RequirementRows}
SectionRows     == {SectionRow(g, t) : g \in Gens, t \in Types}

AllRows == RequirementRows \cup EvidenceRows \cup SectionRows

Call == [op : {"idle", "analyze", "retrieve", "generate", "verify"},
         todo : {"none", "read", "delete", "lock", "cascade", "insert", "commit"},
         gen : 0..MaxCalls,
         found : SUBSET (Types \cup RequirementRows), seen : SUBSET AllRows,
         evidence : SUBSET EvidenceRows, targets : SUBSET AllRows,
         deleted : SUBSET AllRows, updated : SUBSET AllRows, inserted : SUBSET AllRows,
         overlapped : BOOLEAN]

Text == [refs : SUBSET EvidenceRows, mark : BOOLEAN, check : Verdicts]

WorkspaceTypes ==
  /\ rows \subseteq AllRows
  /\ text \in [Table("section") -> Text]
  /\ library \in BOOLEAN
  /\ call \in [Requests -> Call]
  /\ calls \in 0..MaxCalls

\* What a call has in hand, by what it does and how far it is.
Analyzing(c) ==
  /\ c.todo \in {"lock", "cascade", "insert", "commit"}
  /\ c.found \subseteq Types /\ "documents" \in c.found
  /\ c.deleted \subseteq RequirementRows \cup EvidenceRows
  /\ c.todo = "lock" => c.targets \subseteq IF c.deleted = {} THEN RequirementRows
                                                              ELSE EvidenceRows
  /\ c.todo = "cascade" => c.deleted # {}
  /\ c.todo \in {"lock", "cascade"} => c.deleted \subseteq RequirementRows

Retrieving(c) ==
  /\ c.todo \in {"delete", "lock", "insert", "commit"}
  /\ c.seen \subseteq RequirementRows
  /\ c.todo \in {"insert", "commit"} => c.found \subseteq c.seen
  /\ c.targets \subseteq EvidenceRows /\ c.deleted \subseteq EvidenceRows

Generating(c) ==
  /\ c.todo \in {"read", "delete", "lock", "insert", "commit"}
  /\ c.seen \subseteq RequirementRows /\ \E q \in c.seen : q[3] = "documents"
  /\ c.targets \subseteq SectionRows /\ c.deleted \subseteq SectionRows
  /\ c.todo \in {"read", "delete", "lock"} => c.deleted = {}

Verifying(c) == /\ c.todo \in {"read", "lock", "commit"}
                /\ c.seen \subseteq SectionRows /\ c.targets \subseteq SectionRows
                /\ c.deleted = {}

\* RowsOf, of a call that is not in a slot.
RowsIn(c) ==
  CASE c.op = "analyze"  -> {RequirementRow(c.gen, t) : t \in c.found}
    [] c.op = "retrieve" -> {EvidenceRow(c.gen, q) : q \in c.found}
    [] c.op = "generate" -> {SectionRow(c.gen, q[3]) : q \in c.seen}
    [] OTHER             -> {}

Shape(c) == /\ c.op = "idle"     => c = Idle
            /\ c.op = "analyze"  => Analyzing(c)
            /\ c.op = "retrieve" => Retrieving(c)
            /\ c.op = "generate" => Generating(c)
            /\ c.op = "verify"   => Verifying(c)
            /\ c.inserted = IF c.todo = "commit" THEN RowsIn(c) ELSE {}

Shapes == \A r \in Requests : Shape(call[r])

Known(c) == c.targets \cup c.seen

\* No row a call has seen, and none that is committed, is of a call that is
\* still under way.
Generations ==
  \A r \in Busy :
    /\ call[r].gen \in 1..calls
    /\ \A q \in Busy : call[q].gen = call[r].gen => q = r
    /\ \A x \in rows : x[2] # call[r].gen
    /\ \A q \in Requests : \A x \in Known(call[q]) : x[2] # call[r].gen

Committed ==
  /\ \A x \in rows : x[2] \in 1..calls
  /\ \A r \in Requests : \A x \in Known(call[r]) : x[2] \in 1..calls

\* The table a call rebuilds under a unique key.
Rebuilt == {"requirement", "section"}
Rebuilds(c, t) == \/ c.op = "analyze" /\ t = "requirement"
                  \/ c.op = "generate" /\ t = "section"

Gone(c, t) == {x \in c.deleted : x[1] = t}

Claims(c, t) == Gone(c, t) # {} \/ \E x \in c.inserted : x[1] = t

\* At most one call claims a table, and it has deleted all that is in it.
Exclusive ==
  \A t \in Rebuilt, r \in Requests : Claims(call[r], t) =>
    /\ Gone(call[r], t) = Table(t)
    /\ \A q \in Requests : Claims(call[q], t) => q = r

\* What a rebuilding call saw when its DELETE started is the whole table, or
\* none of it is left.
Sighted ==
  \A t \in Rebuilt, r \in Requests :
    Rebuilds(call[r], t) /\ call[r].todo = "lock" /\ call[r].deleted = {} =>
      call[r].targets \cap rows = {} \/ call[r].targets = Table(t)

\* Every generation has the row of the documents.
HasDocuments == \A t \in Rebuilt : Table(t) # {} => \E x \in Table(t) : x[3] = "documents"

\* Evidence about to be committed refers to a requirement nobody has deleted.
Anchored ==
  \A r \in Requests : \A y \in call[r].inserted : y[1] = "evidence" =>
    y[3] \in rows /\ \A p \in Requests : y[3] \notin call[p].deleted

\* Of the evidence that falls with deleted requirements none is forgotten.
Swept ==
  \A r \in Requests : call[r].op = "analyze" =>
    \A x \in Table("evidence") : x[3] \in call[r].deleted =>
      /\ call[r].todo = "lock" => x \in call[r].targets
      /\ call[r].todo \in {"insert", "commit"} => x \in call[r].deleted

\* The mark says that there is no evidence; what passes has some.
Marked == \A x \in DOMAIN text : /\ text[x].mark <=> text[x].refs = {}
                                 /\ text[x].check = "pass" => ~ text[x].mark

\* A call that nothing overlapped is the only one, and a verification that
\* ran alone knows all sections and all evidence.
Knows(c) == /\ c.seen = Table("section")
            /\ c.todo \in {"lock", "commit"} => c.evidence = Table("evidence")
            /\ c.todo = "lock" => c.targets = Table("section")
            /\ c.todo = "commit" => c.updated = Table("section")

Undisturbed ==
  \A r \in Busy : ~ call[r].overlapped =>
    /\ Busy = {r}
    /\ call[r].op = "verify" => Knows(call[r])

WInv == /\ WorkspaceTypes /\ Shapes /\ Generations /\ Committed
        /\ Exclusive /\ Sighted /\ HasDocuments
        /\ Anchored /\ Swept /\ Marked /\ Undisturbed /\ OneGeneration
-----------------------------------------------------------------------------
(* Spec items and required documents. *)

\* A step of the composition is a step of one of its parts.
LEMMA OnePart ==
  ASSUME [EnrichmentNext]_allVars
  PROVE  \/ WorkspaceNext(Mentioned) /\ UNCHANGED itemVars
         \/ ItemsNext /\ UNCHANGED vars
         \/ UNCHANGED vars /\ UNCHANGED itemVars
BY DEF EnrichmentNext, allVars

\* What a reviewer's row and a document's row are.
LEMMA RowFacts ==
  /\ \A old \in Row : old # NoRow
  /\ \A old \in Doc : old # NoDoc
<1>1. \A old \in Row : old.status # "none"
  BY DEF Row, ItemStatuses
<1>2. \A old \in Doc : old.type # "none"
  BY DEF Doc
<1>3. NoRow.status = "none" /\ NoDoc.type = "none"
  BY DEF NoRow, NoDoc
<1>. QED BY <1>1, <1>2, <1>3

\* A merge makes a row, and elec_spec takes the numbers over.
LEMMA MergeFacts ==
  ASSUME NEW i \in Items, NEW e, e[i] \in Numbers \cup {""}, NEW old \in Row \cup {NoRow}
  PROVE  Merge(Candidate(i, e), old) \in Row
<1>1. Candidate(i, e) \in Row
  BY DEF Candidate, Row, ItemStatuses
<1>. DEFINE c == Candidate(i, e)
<1>. HIDE DEF c
<1>2. CASE old = NoRow
  BY <1>1, <1>2 DEF Merge, c
<1>3. CASE old \in Row /\ old # NoRow
  <2>1. \A v \in Numbers \cup {NoNumber, ""} :
          [old EXCEPT !.required = v] \in Row /\ [c EXCEPT !.required = v] \in Row
    BY <1>1, <1>3 DEF Row, c
  <2>2. old.required \in Numbers \cup {NoNumber, ""}
        /\ c.required \in Numbers \cup {NoNumber, ""}
    BY <1>1, <1>3 DEF Row, c
  <2>. QED BY <1>3, <2>1, <2>2 DEF Merge, c
<1>. QED BY <1>2, <1>3

\* elec_spec gets the number of every item that has one.
LEMMA ElecFacts ==
  ASSUME NEW e \in [Items -> Numbers \cup {""}], NEW new \in [Items -> Row \cup {NoRow}]
  PROVE  /\ ElecFrom(e, new) \in [Items -> Numbers \cup {""}]
         /\ \A i \in Items : new[i] # NoRow /\ new[i].required \in Numbers =>
              ElecFrom(e, new)[i] = new[i].required
<1>1. \A i \in Items : new[i] # NoRow => new[i].required \in Numbers \cup {NoNumber, ""}
  BY DEF Row
<1>2. NoNumber \notin Numbers /\ "" \notin Numbers
  BY DEF NoNumber, Numbers
<1>. DEFINE Entry(i) == CASE new[i] = NoRow \/ new[i].required = "" -> e[i]
                          [] new[i].required = NoNumber              -> ""
                          [] OTHER                                   -> new[i].required
<1>3. ASSUME NEW i \in Items
      PROVE  /\ Entry(i) \in Numbers \cup {""}
             /\ new[i] # NoRow /\ new[i].required \in Numbers => Entry(i) = new[i].required
  <2>1. CASE new[i] = NoRow \/ new[i].required = ""
    BY <1>2, <2>1
  <2>2. CASE new[i] # NoRow /\ new[i].required = NoNumber
    BY <1>2, <2>2
  <2>3. CASE new[i] # NoRow /\ new[i].required \in Numbers
    BY <1>2, <2>3
  <2>. QED BY <1>1, <2>1, <2>2, <2>3
<1>4. ElecFrom(e, new) = [i \in Items |-> Entry(i)]
  BY DEF ElecFrom
<1>. HIDE DEF Entry
<1>. QED BY <1>3, <1>4

\* The parts of the items' invariant.
ItemTypes ==
  /\ specs \in [Items -> Row \cup {NoRow}]
  /\ elec \in [Items -> Numbers \cup {""}]
  /\ docs \in [DocKeys -> Doc \cup {NoDoc}]
  /\ drift \in BOOLEAN

\* The extraction of a slot: what it read, or what the LLM has answered.
Work == [op : {"idle", "specs", "documents"},
         specs : {<< >>} \cup [Items -> Row \cup {NoRow}],
         elec : {<< >>} \cup [Items -> Numbers \cup {""}],
         found : {<< >>} \cup [DocKeys -> {"none", "required", "conditional"}],
         new : SUBSET DocKeys]

WorkTypes ==
  /\ work \in [Workers -> Work]
  /\ \A r \in Workers : work[r].op = "specs" =>
       /\ work[r].specs \in [Items -> Row \cup {NoRow}]
       /\ work[r].elec \in [Items -> Numbers \cup {""}]
  /\ \A r \in Workers : work[r].op = "documents" /\ work[r].found # << >> =>
       work[r].found \in [DocKeys -> {"none", "required", "conditional"}]

JInv == ItemTypes /\ WorkTypes /\ ElecMirrorsItems
\* The parts of a call that is at work on a list.
LEMMA WorkFacts ==
  ASSUME NEW r \in Workers
  PROVE  /\ NoWork \in Work
         /\ specs \in [Items -> Row \cup {NoRow}] /\ elec \in [Items -> Numbers \cup {""}] =>
              [NoWork EXCEPT !.op = "specs", !.specs = specs, !.elec = elec] \in Work
         /\ [NoWork EXCEPT !.op = "documents"] \in Work
BY DEF NoWork, Work

\* An extraction or a patch of the items.
LEMMA ItemWrites ==
  ASSUME JInv, NEW e \in [Items -> Numbers \cup {""}],
         specs' \in [Items -> Row \cup {NoRow}], elec' = ElecFrom(e, specs')
  PROVE  elec' \in [Items -> Numbers \cup {""}] /\ ElecMirrorsItems'
<1>1. /\ elec' \in [Items -> Numbers \cup {""}]
      /\ \A i \in Items : specs'[i] # NoRow /\ specs'[i].required \in Numbers =>
           elec'[i] = specs'[i].required
  BY ElecFacts
<1>. QED BY <1>1 DEF ElecMirrorsItems

\* A slot is set or cleared.
LEMMA SlotSet ==
  ASSUME WorkTypes, NEW r \in Workers, NEW w \in Work, work' = [work EXCEPT ![r] = w],
         w.op = "specs" => /\ w.specs \in [Items -> Row \cup {NoRow}]
                           /\ w.elec \in [Items -> Numbers \cup {""}],
         w.op = "documents" /\ w.found # << >> =>
           w.found \in [DocKeys -> {"none", "required", "conditional"}]
  PROVE  WorkTypes'
BY DEF WorkTypes

\* What the extraction of the spec items writes.
LEMMA MergedFacts ==
  ASSUME JInv, NEW r \in Workers, work[r].op = "specs"
  PROVE  Merged(work[r]) \in [Items -> Row \cup {NoRow}]
<1>1. PICK w : w = work[r]
  OBVIOUS
<1>2. w.specs \in [Items -> Row \cup {NoRow}] /\ w.elec \in [Items -> Numbers \cup {""}]
  BY <1>1 DEF JInv, WorkTypes
<1>3. \A i \in Items : Merge(Candidate(i, w.elec), w.specs[i]) \in Row
  BY <1>2, MergeFacts
<1>. QED BY <1>1, <1>3 DEF Merged

\* Every step on items and documents keeps their invariant.
LEMMA ItemsSteps ==
  ASSUME JInv, ItemsNext
  PROVE  JInv'
<1>1. /\ specs \in [Items -> Row \cup {NoRow}] /\ elec \in [Items -> Numbers \cup {""}]
      /\ docs \in [DocKeys -> Doc \cup {NoDoc}] /\ drift \in BOOLEAN
      /\ work \in [Workers -> Work] /\ WorkTypes /\ ElecMirrorsItems
  BY DEF JInv, ItemTypes, WorkTypes
<1>2. ASSUME UNCHANGED <<specs, elec, drift>>
      PROVE  ElecMirrorsItems'
  BY <1>1, <1>2 DEF ElecMirrorsItems
<1>3. ASSUME NEW r \in Workers, ExtractSpecItems(r)
      PROVE  JInv'
  <2>. DEFINE w == [NoWork EXCEPT !.op = "specs", !.specs = specs, !.elec = elec]
  <2>1. work' = [work EXCEPT ![r] = w] /\ UNCHANGED <<specs, elec, docs, drift>>
    BY <1>3 DEF ExtractSpecItems, Start
  <2>2. w \in Work /\ w.op = "specs" /\ w.specs = specs /\ w.elec = elec
    BY <1>1, WorkFacts DEF NoWork
  <2>. HIDE DEF w
  <2>3. WorkTypes'
    BY <1>1, <2>1, <2>2, SlotSet
  <2>. QED BY <1>1, <1>2, <2>1, <2>3 DEF JInv, ItemTypes
<1>4. ASSUME NEW r \in Workers, AnalyzeDocuments(r)
      PROVE  JInv'
  <2>. DEFINE w == [NoWork EXCEPT !.op = "documents"]
  <2>1. work' = [work EXCEPT ![r] = w] /\ UNCHANGED <<specs, elec, docs, drift>>
    BY <1>4 DEF AnalyzeDocuments, Start
  <2>2. w \in Work /\ w.op = "documents" /\ w.found = << >>
    BY WorkFacts DEF NoWork
  <2>. HIDE DEF w
  <2>3. WorkTypes'
    BY <1>1, <2>1, <2>2, SlotSet
  <2>. QED BY <1>1, <1>2, <2>1, <2>3 DEF JInv, ItemTypes
<1>5. ASSUME NEW r \in Workers, work' = [work EXCEPT ![r] = NoWork]
      PROVE  WorkTypes'
  <2>1. NoWork \in Work /\ NoWork.op = "idle"
    BY WorkFacts DEF NoWork
  <2>. QED BY <1>1, <1>5, <2>1, SlotSet
<1>6. ASSUME NEW r \in Workers, SpecItemsExtracted(r)
      PROVE  JInv'
  <2>1. /\ work[r].op = "specs" /\ work' = [work EXCEPT ![r] = NoWork] /\ UNCHANGED docs
        /\ \/ UNCHANGED <<specs, elec, drift>>
           \/ /\ specs' = Merged(work[r]) /\ elec' = ElecFrom(work[r].elec, specs')
              /\ drift' = FALSE
    BY <1>6 DEF SpecItemsExtracted
  <2>2. WorkTypes'
    BY <1>5, <2>1
  <2>3. CASE UNCHANGED <<specs, elec, drift>>
    BY <1>1, <1>2, <2>1, <2>2, <2>3 DEF JInv, ItemTypes
  <2>4. CASE /\ specs' = Merged(work[r]) /\ elec' = ElecFrom(work[r].elec, specs')
             /\ drift' = FALSE
    <3>1. specs' \in [Items -> Row \cup {NoRow}]
      BY <2>1, <2>4, MergedFacts
    <3>2. work[r].elec \in [Items -> Numbers \cup {""}]
      BY <1>1, <2>1 DEF WorkTypes
    <3>3. elec' \in [Items -> Numbers \cup {""}] /\ ElecMirrorsItems'
      BY <2>4, <3>1, <3>2, ItemWrites
    <3>. QED BY <1>1, <2>1, <2>2, <2>4, <3>1, <3>3 DEF JInv, ItemTypes
  <2>. QED BY <2>1, <2>3, <2>4
<1>7. ASSUME NEW r \in Workers, Classified(r)
      PROVE  JInv'
  <2>1. PICK found \in [DocKeys -> {"none", "required", "conditional"}] :
          work' = [work EXCEPT ![r].found = found,
                      ![r].new = {k \in DocKeys : found[k] # "none" /\ docs[k] = NoDoc}]
    BY <1>7 DEF Classified
  <2>2. work[r].op = "documents" /\ UNCHANGED <<specs, elec, docs, drift>>
    BY <1>7 DEF Classified
  <2>. DEFINE new == {k \in DocKeys : found[k] # "none" /\ docs[k] = NoDoc}
              w == [work[r] EXCEPT !.found = found, !.new = new]
  <2>3. work' = [work EXCEPT ![r] = w]
    BY <1>1, <2>1
  <2>4. work[r] \in Work /\ new \in SUBSET DocKeys
    BY <1>1
  <2>. HIDE DEF new
  <2>5. w \in Work /\ w.op = "documents" /\ w.found = found
    BY <2>2, <2>4 DEF Work
  <2>. HIDE DEF w
  <2>6. WorkTypes'
    BY <1>1, <2>3, <2>5, SlotSet
  <2>. QED BY <1>1, <1>2, <2>2, <2>6 DEF JInv, ItemTypes
<1>8. ASSUME NEW r \in Workers, DocumentsAnalyzed(r)
      PROVE  JInv'
  <2>1. /\ work[r].op = "documents" /\ work[r].found # << >>
        /\ work' = [work EXCEPT ![r] = NoWork] /\ UNCHANGED <<specs, elec, drift>>
        /\ \/ UNCHANGED docs
           \/ docs' = [k \in DocKeys |->
                IF k \in Touched(r) THEN Refreshed(docs[k], work[r].found[k]) ELSE docs[k]]
    BY <1>8 DEF DocumentsAnalyzed
  <2>2. WorkTypes'
    BY <1>5, <2>1
  <2>3. work[r].found \in [DocKeys -> {"none", "required", "conditional"}]
    BY <1>1, <2>1 DEF WorkTypes
  <2>4. ASSUME NEW k \in Touched(r)
        PROVE  work[r].found[k] \in {"required", "conditional"} /\ k \in DocKeys
    BY <2>1, <2>3 DEF Touched
  <2>5. ASSUME NEW old \in Doc \cup {NoDoc}, NEW type \in {"required", "conditional"}
        PROVE  Refreshed(old, type) \in Doc
    BY DEF Refreshed, Doc
  <2>6. ASSUME NEW k \in Touched(r)
        PROVE  k \in DocKeys /\ Refreshed(docs[k], work[r].found[k]) \in Doc
    <3>1. k \in DocKeys /\ docs[k] \in Doc \cup {NoDoc}
      BY <1>1, <2>4
    <3>. QED BY <2>4, <2>5, <3>1
  <2>7. docs' \in [DocKeys -> Doc \cup {NoDoc}]
    <3>. DEFINE new(k) == IF k \in Touched(r) THEN Refreshed(docs[k], work[r].found[k])
                                              ELSE docs[k]
    <3>1. \A k \in DocKeys : new(k) \in Doc \cup {NoDoc}
      BY <1>1, <2>6
    <3>2. UNCHANGED docs \/ docs' = [k \in DocKeys |-> new(k)]
      BY <2>1
    <3>. HIDE DEF new
    <3>. QED BY <1>1, <3>1, <3>2
  <2>. QED BY <1>1, <1>2, <2>1, <2>2, <2>7 DEF JInv, ItemTypes
<1>9. ASSUME NEW r \in Workers, Abandoned(r)
      PROVE  JInv'
  <2>1. work' = [work EXCEPT ![r] = NoWork] /\ UNCHANGED <<specs, elec, docs, drift>>
    BY <1>9 DEF Abandoned
  <2>2. WorkTypes'
    BY <1>5, <2>1
  <2>. QED BY <1>1, <1>2, <2>1, <2>2 DEF JInv, ItemTypes
<1>10. ASSUME NEW i \in Items, PatchSpecItem(i)
       PROVE  JInv'
  <2>1. PICK row \in Patches(specs[i]) : specs' = [specs EXCEPT ![i] = Signed(row)]
    BY <1>10 DEF PatchSpecItem
  <2>2. /\ specs[i] # NoRow /\ elec' = ElecFrom(elec, specs') /\ drift' = FALSE
        /\ UNCHANGED <<docs, work>>
    BY <1>10 DEF PatchSpecItem
  <2>3. PICK old : old = specs[i]
    OBVIOUS
  <2>4. old \in Row
    BY <1>1, <2>2, <2>3
  <2>5. row \in Row
    <3>1. /\ \A v \in Numbers \cup {NoNumber} : [old EXCEPT !.required = v] \in Row
          /\ \A s \in ItemStatuses : [old EXCEPT !.status = s] \in Row
          /\ [old EXCEPT !.proposed = "ours"] \in Row /\ [old EXCEPT !.locked = TRUE] \in Row
      BY <2>4 DEF Row
    <3>. QED BY <2>1, <2>3, <3>1 DEF Patches
  <2>6. Signed(row) \in Row
    BY <2>5 DEF Signed, Row
  <2>7. specs' \in [Items -> Row \cup {NoRow}]
    BY <1>1, <2>1, <2>6
  <2>8. elec' \in [Items -> Numbers \cup {""}] /\ ElecMirrorsItems'
    BY <1>1, <2>2, <2>7, ItemWrites
  <2>9. WorkTypes'
    BY <1>1, <2>2 DEF WorkTypes
  <2>. QED BY <1>1, <2>2, <2>7, <2>8, <2>9 DEF JInv, ItemTypes
<1>11. ASSUME NEW k \in DocKeys, PatchDocument(k)
       PROVE  JInv'
  <2>1. docs[k] # NoDoc /\ UNCHANGED <<specs, elec, work, drift>>
    BY <1>11 DEF PatchDocument
  <2>2. docs[k] \in Doc
    BY <1>1, <2>1
  <2>3. PICK old : old = docs[k]
    OBVIOUS
  <2>4. /\ [old EXCEPT !.checked = ~ @] \in Doc
        /\ [old EXCEPT !.type = IF @ = "required" THEN "conditional" ELSE "required"] \in Doc
    BY <2>2, <2>3 DEF Doc
  <2>5. \/ docs' = [docs EXCEPT ![k] = [old EXCEPT !.checked = ~ @]]
        \/ docs' = [docs EXCEPT ![k] =
                      [old EXCEPT !.type = IF @ = "required" THEN "conditional" ELSE "required"]]
        \/ \E s \in Stages : docs' = [docs EXCEPT ![k] = NoDoc, ![<<k[1], s>>] = docs[k]]
    BY <1>1, <1>11, <2>3 DEF PatchDocument
  <2>6. docs' \in [DocKeys -> Doc \cup {NoDoc}]
    <3>1. ASSUME NEW new \in Doc \cup {NoDoc}
          PROVE  [docs EXCEPT ![k] = new] \in [DocKeys -> Doc \cup {NoDoc}]
      BY <1>1
    <3>2. ASSUME NEW s \in Stages
          PROVE  [docs EXCEPT ![k] = NoDoc, ![<<k[1], s>>] = docs[k]]
                   \in [DocKeys -> Doc \cup {NoDoc}]
      <4>. DEFINE without == [docs EXCEPT ![k] = NoDoc]
      <4>1. without \in [DocKeys -> Doc \cup {NoDoc}]
        BY <3>1
      <4>. HIDE DEF without
      <4>2. [without EXCEPT ![<<k[1], s>>] = docs[k]] \in [DocKeys -> Doc \cup {NoDoc}]
        BY <2>2, <4>1
      <4>. QED BY <4>2 DEF without
    <3>. QED BY <2>4, <2>5, <3>1, <3>2
  <2>7. WorkTypes'
    BY <1>1, <2>1 DEF WorkTypes
  <2>. QED BY <1>1, <1>2, <2>1, <2>6, <2>7 DEF JInv, ItemTypes
<1>12. ASSUME Reanalyzed
       PROVE  JInv'
  <2>1. /\ elec' \in [Items -> Numbers \cup {""}] /\ drift' = TRUE
        /\ UNCHANGED <<specs, docs, work>>
    BY <1>12 DEF Reanalyzed
  <2>2. WorkTypes'
    BY <1>1, <2>1 DEF WorkTypes
  <2>. QED BY <1>1, <2>1, <2>2 DEF JInv, ItemTypes, ElecMirrorsItems
<1>. QED BY <1>3, <1>4, <1>6, <1>7, <1>8, <1>9, <1>10, <1>11, <1>12 DEF ItemsNext
-----------------------------------------------------------------------------
(* Rows and calls. *)

\* The three kinds of rows can be told apart.
LEMMA Kinds ==
  /\ \A x \in RequirementRows : x[1] = "requirement" /\ x[2] \in Gens /\ x[3] \in Types
  /\ \A x \in EvidenceRows : x[1] = "evidence" /\ x[2] \in Gens /\ x[3] \in RequirementRows
  /\ \A x \in SectionRows : x[1] = "section" /\ x[2] \in Gens /\ x[3] \in Types
<1>1. \A x \in RequirementRows : x[1] = "requirement" /\ x[2] \in Gens /\ x[3] \in Types
  BY DEF RequirementRows, RequirementRow
<1>2. \A x \in EvidenceRows : x[1] = "evidence" /\ x[2] \in Gens /\ x[3] \in RequirementRows
  BY DEF EvidenceRows, EvidenceRow
<1>3. \A x \in SectionRows : x[1] = "section" /\ x[2] \in Gens /\ x[3] \in Types
  BY DEF SectionRows, SectionRow
<1>. QED BY <1>1, <1>2, <1>3

\* The tables.
LEMMA Tables ==
  ASSUME WorkspaceTypes
  PROVE  /\ Table("requirement") = rows \cap RequirementRows
         /\ Table("evidence") = rows \cap EvidenceRows
         /\ Table("section") = rows \cap SectionRows
<1>1. \A x \in rows : \/ x \in RequirementRows /\ x[1] = "requirement"
                      \/ x \in EvidenceRows /\ x[1] = "evidence"
                      \/ x \in SectionRows /\ x[1] = "section"
  BY Kinds DEF WorkspaceTypes, AllRows
<1>. QED BY <1>1, Kinds DEF Table

\* The number of a call under way is one that a row may carry.
LEMMA GenFacts ==
  ASSUME WorkspaceTypes, Generations, NEW r \in Busy
  PROVE  call[r].gen \in Gens
<1>1. calls \in Nat /\ MaxCalls \in Nat /\ calls <= MaxCalls
  BY WorkspaceAssumption DEF WorkspaceTypes
<1>. QED BY <1>1 DEF Generations, Gens

\* What a call is about to insert.
LEMMA RowsInFacts ==
  ASSUME NEW c \in Call, Shape(c), c.gen \in Gens, c.todo \in {"insert", "commit"}
  PROVE  /\ \A x \in RowsIn(c) :
              /\ x \in AllRows /\ x[2] = c.gen
              /\ \/ c.op = "analyze" /\ x[1] = "requirement"
                 \/ c.op = "retrieve" /\ x[1] = "evidence" /\ x[3] \in c.seen
                                      /\ x[3] \in RequirementRows
                 \/ c.op = "generate" /\ x[1] = "section"
         /\ \A t \in Rebuilt : Rebuilds(c, t) =>
              \E x \in RowsIn(c) : x[1] = t /\ x[3] = "documents"
<1>1. CASE c.op = "analyze"
  <2>1. /\ RowsIn(c) = {RequirementRow(c.gen, t) : t \in c.found}
        /\ c.found \subseteq Types /\ "documents" \in c.found
    BY <1>1 DEF RowsIn, Shape, Analyzing
  <2>2. ASSUME NEW x \in RowsIn(c)
        PROVE  x \in RequirementRows /\ x[2] = c.gen /\ x[1] = "requirement"
    BY <2>1 DEF RequirementRow, RequirementRows
  <2>3. \E x \in RowsIn(c) : x[1] = "requirement" /\ x[3] = "documents"
    <3>. DEFINE x == RequirementRow(c.gen, "documents")
    <3>1. x \in RowsIn(c) /\ x[1] = "requirement" /\ x[3] = "documents"
      BY <2>1 DEF RequirementRow
    <3>. QED BY <3>1
  <2>. QED BY <1>1, <2>2, <2>3 DEF AllRows, Rebuilds, Rebuilt
<1>2. CASE c.op = "retrieve"
  <2>1. /\ RowsIn(c) = {EvidenceRow(c.gen, q) : q \in c.found}
        /\ c.found \subseteq c.seen /\ c.seen \subseteq RequirementRows
    BY <1>2 DEF RowsIn, Shape, Retrieving
  <2>2. ASSUME NEW x \in RowsIn(c)
        PROVE  x \in EvidenceRows /\ x[2] = c.gen /\ x[1] = "evidence" /\ x[3] \in c.seen
    BY <2>1 DEF EvidenceRow, EvidenceRows
  <2>. QED BY <1>2, <2>1, <2>2 DEF AllRows, Rebuilds, Rebuilt
<1>3. CASE c.op = "generate"
  <2>1. /\ RowsIn(c) = {SectionRow(c.gen, q[3]) : q \in c.seen}
        /\ c.seen \subseteq RequirementRows /\ \E q \in c.seen : q[3] = "documents"
    BY <1>3 DEF RowsIn, Shape, Generating
  <2>2. ASSUME NEW x \in RowsIn(c)
        PROVE  x \in SectionRows /\ x[2] = c.gen /\ x[1] = "section"
    BY <2>1, Kinds DEF SectionRow, SectionRows
  <2>3. \E x \in RowsIn(c) : x[1] = "section" /\ x[3] = "documents"
    <3>1. PICK q \in c.seen : q[3] = "documents"
      BY <2>1
    <3>. DEFINE x == SectionRow(c.gen, q[3])
    <3>2. x \in RowsIn(c) /\ x[1] = "section" /\ x[3] = "documents"
      BY <2>1, <3>1 DEF SectionRow
    <3>. QED BY <3>2
  <2>. QED BY <1>3, <2>2, <2>3 DEF AllRows, Rebuilds, Rebuilt
<1>4. CASE c.op \in {"idle", "verify"}
  BY <1>4 DEF RowsIn, Rebuilds
<1>. QED BY <1>1, <1>2, <1>3, <1>4 DEF Call

\* The rows a slot is to insert depend on its call alone.
LEMMA RowsOfIsRowsIn == \A r : RowsOf(r) = RowsIn(call[r])
BY DEF RowsOf, RowsIn

\* What the deletes of a call can be.
LEMMA GoneFacts ==
  ASSUME NEW c \in Call, Shape(c), NEW t \in Rebuilt, Claims(c, t), c.gen \in Gens
  PROVE  Rebuilds(c, t)
<1>1. CASE Gone(c, t) # {}
  <2>1. PICK x \in c.deleted : x[1] = t
    BY <1>1 DEF Gone
  <2>. QED BY <2>1, Kinds DEF Call, Shape, Analyzing, Retrieving, Generating, Verifying, Idle,
                              Rebuilds, Rebuilt
<1>2. CASE \E x \in c.inserted : x[1] = t
  <2>1. c.todo = "commit" /\ c.inserted = RowsIn(c)
    BY <1>2 DEF Shape
  <2>. QED BY <1>2, <2>1, RowsInFacts DEF Rebuilds, Rebuilt
<1>. QED BY <1>1, <1>2 DEF Claims

\* Only a call that rebuilds a table claims it.
LEMMA ClaimFacts ==
  ASSUME WInv, NEW r \in Requests, NEW t \in Rebuilt, Claims(call[r], t)
  PROVE  r \in Busy /\ Rebuilds(call[r], t)
<1>1. call[r] \in Call /\ Shape(call[r])
  BY DEF WInv, WorkspaceTypes, Shapes
<1>2. r \in Busy
  <2>1. ASSUME call[r].op = "idle" PROVE FALSE
    BY <1>1, <2>1 DEF Shape, Idle, Claims, Gone
  <2>. QED BY <2>1 DEF Busy
<1>3. call[r].gen \in Gens
  BY <1>2, GenFacts DEF WInv
<1>. QED BY <1>1, <1>2, <1>3, GoneFacts

\* Calls end without a trace: aborted, refused, or with the process.
LEMMA IdleFacts ==
  /\ Idle \in Call /\ Shape(Idle) /\ Idle.op = "idle"
  /\ Idle.targets = {} /\ Known(Idle) = {} /\ Idle.deleted = {} /\ Idle.inserted = {}
<1>1. MaxCalls \in Nat
  BY WorkspaceAssumption
<1>2. 0 \in 0..MaxCalls
  BY <1>1
<1>. QED BY <1>2 DEF Idle, Call, Shape, Known

\* Calls that end without a commit keep the invariant.
LEMMA GiveUpSteps ==
  ASSUME WInv, UNCHANGED Rest, call' \in [Requests -> Call],
         \A r \in Requests : call'[r] \in {call[r], Idle}
  PROVE  WInv'
<1>1. /\ UNCHANGED <<rows, text, library, calls>> /\ WorkspaceTypes /\ Shapes
      /\ \A t : Table(t)' = Table(t)
  BY DEF WInv, Rest, Table
<1>2. \A r \in Requests : call'[r] = call[r] \/ call'[r] = Idle
  OBVIOUS
<1>3. /\ Idle.op = "idle" /\ Idle.targets = {} /\ Idle.deleted = {} /\ Idle.inserted = {}
      /\ Known(Idle) = {} /\ Shape(Idle)
  BY IdleFacts
<1>4. \A r \in Busy' : r \in Busy /\ call'[r] = call[r]
  BY <1>2, <1>3 DEF Busy
<1>5. WorkspaceTypes' /\ Shapes' /\ Committed' /\ HasDocuments' /\ Marked' /\ OneGeneration'
  BY <1>1, <1>2, <1>3 DEF WInv, WorkspaceTypes, Shapes, Committed, HasDocuments, Marked,
                          OneGeneration
<1>6. Generations'
  BY <1>1, <1>2, <1>3, <1>4 DEF WInv, Generations, Busy
<1>7. Exclusive'
  <2>1. ASSUME NEW t \in Rebuilt, NEW r \in Requests, Claims(call'[r], t)
        PROVE  call'[r] = call[r] /\ Claims(call[r], t)
    BY <1>2, <1>3, <2>1 DEF Claims, Gone
  <2>. QED BY <1>1, <2>1 DEF WInv, Exclusive
<1>8. Sighted'
  BY <1>1, <1>2, <1>3 DEF WInv, Sighted, Rebuilds
<1>9. Anchored' /\ Swept'
  BY <1>1, <1>2, <1>3 DEF WInv, Anchored, Swept
<1>10. Undisturbed'
  <2>1. ASSUME NEW r \in Busy', ~ call'[r].overlapped
        PROVE  /\ Busy' = {r}
               /\ (call[r].op = "verify" => Knows(call[r]))'
    <3>1. r \in Busy /\ call'[r] = call[r] /\ Busy = {r}
      BY <1>4, <2>1 DEF WInv, Undisturbed
    <3>2. Busy' = {r}
      BY <1>4, <3>1
    <3>. QED BY <1>1, <2>1, <3>1, <3>2 DEF WInv, Undisturbed, Knows
  <2>. QED BY <2>1 DEF Undisturbed
<1>. QED BY <1>5, <1>6, <1>7, <1>8, <1>9, <1>10 DEF WInv

\* Something is put on file.
LEMMA RegisterSteps ==
  ASSUME WInv, Register
  PROVE  WInv'
BY DEF Register, WInv, WorkspaceTypes, Shapes, Generations, Committed, Exclusive, Sighted,
       HasDocuments, Anchored, Swept, Marked, Undisturbed, OneGeneration, Table, Busy, Knows

\* A call begins: the others only learn that they are not alone.
Alike(c, d) ==
  /\ d.op = c.op /\ d.todo = c.todo /\ d.gen = c.gen /\ d.found = c.found /\ d.seen = c.seen
  /\ d.evidence = c.evidence /\ d.targets = c.targets /\ d.deleted = c.deleted
  /\ d.updated = c.updated /\ d.inserted = c.inserted

\* A call that begins has seen committed rows only and claims nothing.
LEMMA BeginSteps ==
  ASSUME WInv, NEW r \in Requests, NEW op \in {"analyze", "retrieve", "generate", "verify"},
         NEW c \in Call, Begin(r, op, c),
         Shape([c EXCEPT !.op = op]), c.inserted = {}, c.deleted = {},
         c.todo # "commit", c.targets \subseteq rows, c.seen \subseteq rows,
         \A t \in Rebuilt : Rebuilds([c EXCEPT !.op = op], t) /\ c.todo = "lock" =>
           c.targets = Table(t),
         op = "verify" => c.todo = "read" /\ c.seen = Table("section")
  PROVE  WInv'
<1>. DEFINE d == [c EXCEPT !.op = op, !.gen = calls + 1, !.overlapped = Busy # {}]
<1>1. /\ call[r] = Idle /\ calls < MaxCalls /\ calls' = calls + 1
      /\ UNCHANGED <<rows, text, library>> /\ \A t : Table(t)' = Table(t)
      /\ call' = [q \in Requests |->
                    CASE q = r      -> d
                      [] q \in Busy -> [call[q] EXCEPT !.overlapped = TRUE]
                      [] OTHER      -> Idle]
  BY DEF Begin, Table
<1>2. /\ call \in [Requests -> Call] /\ calls \in 0..MaxCalls /\ MaxCalls \in Nat
      /\ \A q \in Requests : Shape(call[q]) /\ call[q] \in Call
  BY WorkspaceAssumption DEF WInv, WorkspaceTypes, Shapes
<1>3. calls' \in 0..MaxCalls /\ calls' \in Gens
  <2>1. calls < MaxCalls /\ calls' = calls + 1
    BY <1>1
  <2>. QED BY <1>2, <2>1 DEF Gens
<1>4. /\ d \in Call /\ d.op = op /\ d.gen = calls' /\ d.overlapped = (Busy # {})
      /\ d.todo = c.todo /\ d.seen = c.seen /\ d.targets = c.targets /\ d.deleted = {}
      /\ d.inserted = {} /\ d.found = c.found
  BY <1>1, <1>3 DEF Call
<1>5. Shape(d)
  <2>1. PICK e : e = [c EXCEPT !.op = op]
    OBVIOUS
  <2>2. /\ e.op = op /\ e.todo = c.todo /\ e.found = c.found /\ e.seen = c.seen
        /\ e.targets = c.targets /\ e.deleted = c.deleted
    BY <2>1 DEF Call
  <2>3. Shape(e)
    BY <2>1
  <2>. QED BY <1>4, <2>2, <2>3 DEF Shape, Analyzing, Retrieving, Generating, Verifying
<1>. HIDE DEF d
<1>6. ASSUME NEW q \in Requests, q # r
      PROVE  /\ call'[q] \in Call /\ Alike(call[q], call'[q])
             /\ q \in Busy => call'[q].overlapped
  <2>1. CASE q \in Busy
    <3>1. call'[q] = [call[q] EXCEPT !.overlapped = TRUE]
      BY <1>1, <1>6, <2>1
    <3>2. call[q] \in Call
      BY <1>2
    <3>. QED BY <3>1, <3>2 DEF Call, Alike
  <2>2. CASE q \notin Busy
    <3>1. call'[q] = Idle /\ call[q] = Idle
      BY <1>1, <1>2, <1>6, <2>2 DEF Busy, Shape
    <3>. QED BY <2>2, <3>1, IdleFacts DEF Alike
  <2>. QED BY <2>1, <2>2
<1>7. call'[r] = d /\ DOMAIN call' = Requests /\ r \notin Busy
  BY <1>1 DEF Busy, Idle
<1>8. /\ r \in Busy' /\ \A q \in Requests \ {r} : q \in Busy' <=> q \in Busy
  BY <1>4, <1>6, <1>7 DEF Busy, Alike
<1>9. WorkspaceTypes'
  <2>1. call' \in [Requests -> Call]
    BY <1>1, <1>4, <1>6, <1>7
  <2>. QED BY <1>1, <1>3, <2>1 DEF WInv, WorkspaceTypes
<1>10. Shapes'
  <2>1. ASSUME NEW q \in Requests, q # r PROVE Shape(call'[q])
    <3>1. Shape(call[q]) /\ Alike(call[q], call'[q]) /\ call[q] \in Call /\ call'[q] \in Call
      BY <1>2, <1>6, <2>1
    <3>2. CASE call[q].op = "idle"
      <4>1. q \notin Busy
        BY <3>2 DEF Busy
      <4>2. call'[q] = Idle
        BY <1>1, <2>1, <4>1
      <4>. QED BY <4>2, IdleFacts
    <3>3. CASE call[q].op # "idle"
      <4>1. RowsIn(call'[q]) = RowsIn(call[q])
        BY <3>1 DEF RowsIn, Alike
      <4>. QED BY <3>1, <3>3, <4>1 DEF Shape, Alike, Analyzing, Retrieving, Generating, Verifying
    <3>. QED BY <3>2, <3>3
  <2>. QED BY <1>5, <1>7, <2>1 DEF Shapes
<1>11. Generations'
  <2>1. ASSUME NEW q \in Busy
        PROVE  call[q].gen \in 1..calls /\ call[q].gen # calls + 1 /\ q # r /\ q \in Requests
    BY <1>2, <1>7 DEF WInv, Generations, Busy
  <2>2. \A x \in rows : x[2] # calls + 1
    BY <1>2 DEF WInv, Committed
  <2>3. ASSUME NEW q \in Requests, NEW x \in Known(call[q])
        PROVE  x[2] # calls + 1
    BY <1>2 DEF WInv, Committed
  <2>4. ASSUME NEW q \in Requests
        PROVE  Known(call'[q]) \subseteq Known(call[q]) \cup rows
    BY <1>4, <1>6, <1>7 DEF Alike, Known
  <2>5. ASSUME NEW q \in Busy'
        PROVE  /\ call'[q].gen \in 1..calls'
               /\ \A p \in Busy' : call'[p].gen = call'[q].gen => p = q
               /\ \A x \in rows : x[2] # call'[q].gen
               /\ \A p \in Requests : \A x \in Known(call[p]) : x[2] # call'[q].gen
    <3>1. CASE q = r
      <4>1. call'[q].gen = calls + 1
        BY <1>1, <1>4, <1>7, <3>1
      <4>2. \A p \in Busy' : p = r \/ call'[p].gen # calls + 1
        <5>1. ASSUME NEW p \in Busy', p # r PROVE call'[p].gen # calls + 1
          <6>1. p \in Busy /\ call'[p].gen = call[p].gen
            BY <1>6, <1>8, <5>1 DEF Alike, Busy
          <6>. QED BY <2>1, <6>1
        <5>. QED BY <5>1
      <4>3. call'[q].gen \in 1..calls'
        BY <1>1, <1>2, <4>1
      <4>. QED BY <2>2, <2>3, <3>1, <4>1, <4>2, <4>3
    <3>2. CASE q # r
      <4>1. q \in Busy /\ call'[q].gen = call[q].gen
        BY <1>6, <1>8, <3>2 DEF Alike, Busy
      <4>2. \A p \in Busy' : call'[p].gen = call'[q].gen => p = q
        <5>1. ASSUME NEW p \in Busy', call'[p].gen = call'[q].gen PROVE p = q
          <6>1. p # r
            BY <1>1, <1>4, <1>7, <2>1, <4>1, <5>1
          <6>2. p \in Busy /\ call'[p].gen = call[p].gen
            BY <1>6, <1>8, <5>1, <6>1 DEF Alike, Busy
          <6>. QED BY <4>1, <5>1, <6>2 DEF WInv, Generations
        <5>. QED BY <5>1
      <4>3. call[q].gen \in 1..calls'
        BY <1>1, <1>2, <4>1 DEF WInv, Generations
      <4>. QED BY <4>1, <4>2, <4>3 DEF WInv, Generations
    <3>. QED BY <3>1, <3>2
  <2>6. \A q \in Requests : \A x \in Known(call'[q]) :
          \A p \in Busy' : x[2] # call'[p].gen
    BY <2>4, <2>5
  <2>. QED BY <1>1, <2>5, <2>6 DEF Generations
<1>12. Committed'
  <2>1. \A x : x[2] \in 1..calls => x[2] \in 1..calls'
    BY <1>1, <1>2
  <2>2. \A q \in Requests : Known(call'[q]) \subseteq Known(call[q]) \cup rows
    BY <1>4, <1>6, <1>7 DEF Alike, Known
  <2>. QED BY <1>1, <2>1, <2>2 DEF WInv, Committed
<1>13. Exclusive'
  <2>1. ASSUME NEW t \in Rebuilt, NEW q \in Requests, Claims(call'[q], t)
        PROVE  Claims(call[q], t) /\ Gone(call'[q], t) = Gone(call[q], t)
    BY <1>4, <1>6, <1>7, <2>1 DEF Claims, Gone, Alike
  <2>. QED BY <1>1, <2>1 DEF WInv, Exclusive
<1>14. Sighted'
  <2>1. ASSUME NEW t \in Rebuilt, NEW q \in Requests, Rebuilds(call'[q], t),
               call'[q].todo = "lock", call'[q].deleted = {}
        PROVE  call'[q].targets \cap rows = {} \/ call'[q].targets = Table(t)
    <3>1. CASE q = r
      <4>1. Rebuilds([c EXCEPT !.op = op], t) /\ c.todo = "lock"
        BY <1>4, <1>7, <2>1, <3>1 DEF Rebuilds, Call
      <4>. QED BY <1>4, <1>7, <3>1, <4>1
    <3>2. CASE q # r
      BY <1>6, <2>1, <3>2 DEF WInv, Sighted, Alike, Rebuilds
    <3>. QED BY <3>1, <3>2
  <2>. QED BY <1>1, <2>1 DEF Sighted
<1>15. Anchored'
  <2>1. \A q \in Requests : /\ call'[q].inserted \subseteq call[q].inserted
                           /\ call'[q].deleted \subseteq call[q].deleted
    BY <1>4, <1>6, <1>7 DEF Alike
  <2>. QED BY <1>1, <2>1 DEF WInv, Anchored
<1>16. Swept'
  <2>1. ASSUME NEW q \in Requests, q # r
        PROVE  /\ call'[q].op = call[q].op /\ call'[q].todo = call[q].todo
               /\ call'[q].deleted = call[q].deleted /\ call'[q].targets = call[q].targets
    BY <1>6, <2>1 DEF Alike
  <2>. QED BY <1>1, <1>4, <1>7, <2>1 DEF WInv, Swept
<1>17. Undisturbed'
  <2>1. ASSUME NEW q \in Busy', ~ call'[q].overlapped
        PROVE  Busy' = {q} /\ (call[q].op = "verify" => Knows(call[q]))'
    <3>1. q = r
      BY <1>6, <1>8, <2>1 DEF Busy
    <3>2. Busy = {}
      BY <1>4, <1>7, <2>1, <3>1
    <3>3. Busy' = {r}
      BY <1>8, <3>2 DEF Busy
    <3>4. /\ call'[q].op = op
          /\ op = "verify" => call'[q].todo = "read" /\ call'[q].seen = Table("section")'
      BY <1>1, <1>4, <1>7, <3>1
    <3>. QED BY <3>1, <3>3, <3>4 DEF Knows
  <2>. QED BY <2>1 DEF Undisturbed
<1>18. HasDocuments' /\ Marked' /\ OneGeneration'
  BY <1>1 DEF WInv, HasDocuments, Marked, OneGeneration
<1>. QED BY <1>9, <1>10, <1>11, <1>12, <1>13, <1>14, <1>15, <1>16, <1>17, <1>18 DEF WInv
-----------------------------------------------------------------------------
(* The statements of a call. *)

\* A statement that commits nothing: what it must be careful about.
LEMMA LocalSteps ==
  ASSUME WInv, NEW r \in Busy, NEW c \in Call, Shape(c),
         call' = [call EXCEPT ![r] = c], UNCHANGED Rest,
         c.op = call[r].op, c.gen = call[r].gen, c.overlapped = call[r].overlapped,
         Known(c) \subseteq rows \cup Known(call[r]),
         \A t \in Rebuilt : Rebuilds(c, t) /\ c.todo = "lock" /\ c.deleted = {} =>
           c.targets \cap rows = {} \/ c.targets = Table(t),
         c.op = "analyze" =>
           \A x \in Table("evidence") : x[3] \in c.deleted =>
             /\ c.todo = "lock" => x \in c.targets
             /\ c.todo \in {"insert", "commit"} => x \in c.deleted,
         c.op = "verify" /\ ~ c.overlapped => Knows(c)
  PROVE  /\ WorkspaceTypes' /\ Shapes' /\ Generations' /\ Committed' /\ HasDocuments'
         /\ Marked' /\ OneGeneration' /\ Sighted' /\ Swept' /\ Undisturbed'
<1>1. /\ UNCHANGED <<rows, text, library, calls>> /\ WorkspaceTypes /\ Shapes
      /\ \A t : Table(t)' = Table(t)
  BY DEF WInv, Rest, Table
<1>2. /\ call \in [Requests -> Call] /\ r \in Requests
      /\ call'[r] = c /\ \A q \in Requests : q # r => call'[q] = call[q]
  BY <1>1 DEF WorkspaceTypes, Busy
<1>3. Busy' = Busy
  BY <1>2 DEF Busy
<1>4. WorkspaceTypes'
  BY <1>1, <1>2 DEF WorkspaceTypes
<1>5. Shapes'
  BY <1>1, <1>2 DEF Shapes
<1>6. /\ \A q \in Requests : /\ call'[q].gen = call[q].gen /\ call'[q].op = call[q].op
                             /\ call'[q].overlapped = call[q].overlapped
      /\ \A q \in Requests : Known(call'[q]) \subseteq rows \cup Known(call[q])
  BY <1>2
<1>7. Generations'
  <2>1. ASSUME NEW q \in Busy
        PROVE  /\ call'[q].gen \in 1..calls
               /\ \A p \in Busy : call'[p].gen = call'[q].gen => p = q
               /\ \A x \in rows : x[2] # call'[q].gen
    BY <1>6 DEF WInv, Generations, Busy
  <2>2. ASSUME NEW q \in Busy, NEW p \in Requests, NEW x \in Known(call'[p])
        PROVE  x[2] # call'[q].gen
    BY <1>6 DEF WInv, Generations, Busy
  <2>. QED BY <1>1, <1>3, <2>1, <2>2 DEF Generations
<1>8. Committed'
  BY <1>1, <1>6 DEF WInv, Committed
<1>9. HasDocuments' /\ Marked' /\ OneGeneration'
  BY <1>1 DEF WInv, HasDocuments, Marked, OneGeneration
<1>10. Sighted'
  BY <1>1, <1>2 DEF WInv, Sighted
<1>11. Swept'
  BY <1>1, <1>2 DEF WInv, Swept
<1>12. Undisturbed'
  <2>1. ASSUME NEW q \in Busy, ~ call'[q].overlapped
        PROVE  Busy = {q} /\ (call'[q].op = "verify" => q = r)
    BY <1>6, <2>1 DEF WInv, Undisturbed, Busy
  <2>. QED BY <1>1, <1>2, <1>3, <2>1 DEF Undisturbed, Knows
<1>. QED BY <1>4, <1>5, <1>7, <1>8, <1>9, <1>10, <1>11, <1>12

\* A statement that neither deletes nor inserts.
LEMMA QuietSteps ==
  ASSUME WInv, NEW r \in Busy, NEW c \in Call, call' = [call EXCEPT ![r] = c], UNCHANGED Rest,
         c.deleted = call[r].deleted, c.inserted = call[r].inserted
  PROVE  Exclusive' /\ Anchored'
<1>1. /\ rows' = rows /\ \A t : Table(t)' = Table(t) /\ call \in [Requests -> Call]
      /\ r \in Requests
  BY DEF WInv, Rest, Table, WorkspaceTypes, Busy
<1>2. \A q \in Requests : /\ call'[q].deleted = call[q].deleted
                          /\ call'[q].inserted = call[q].inserted
  BY <1>1
<1>3. Exclusive'
  <2>1. \A q \in Requests, t \in Rebuilt : /\ Claims(call'[q], t) <=> Claims(call[q], t)
                                           /\ Gone(call'[q], t) = Gone(call[q], t)
    BY <1>2 DEF Claims, Gone
  <2>. QED BY <1>1, <2>1 DEF WInv, Exclusive
<1>4. Anchored'
  BY <1>1, <1>2 DEF WInv, Anchored
<1>. QED BY <1>3, <1>4

\* What is known of a call that is about to make a step.
LEMMA CallFacts ==
  ASSUME WInv, NEW r \in Requests
  PROVE  /\ call[r] \in Call /\ Shape(call[r]) /\ call \in [Requests -> Call]
         /\ call[r].todo # "none" => r \in Busy
<1>1. call[r] \in Call /\ Shape(call[r]) /\ call \in [Requests -> Call]
  BY DEF WInv, WorkspaceTypes, Shapes
<1>2. ASSUME call[r].op = "idle" PROVE call[r].todo = "none"
  BY <1>1, <1>2 DEF Shape, Idle
<1>. QED BY <1>1, <1>2 DEF Busy

\* Reading the evidence keeps the invariant.
LEMMA ReadSteps ==
  ASSUME WInv, NEW r \in Requests, ReadEvidence(r)
  PROVE  WInv'
<1>1. /\ call[r].todo = "read" /\ UNCHANGED Rest
      /\ call[r] \in Call /\ Shape(call[r]) /\ call \in [Requests -> Call] /\ r \in Busy
  BY CallFacts DEF ReadEvidence
<1>. DEFINE seen == {x \in Table("evidence") : x[3] \in Table("requirement")}
            verify == call[r].op = "verify"
            c == [call[r] EXCEPT !.evidence = seen,
                                 !.targets = IF verify THEN call[r].seen ELSE {},
                                 !.todo = IF verify THEN "lock" ELSE "delete"]
<1>2. call' = [call EXCEPT ![r] = c]
  BY <1>1 DEF ReadEvidence
<1>3. seen = Table("evidence") /\ seen \subseteq EvidenceRows
  <2>1. /\ Table("evidence") = rows \cap EvidenceRows
        /\ Table("requirement") = rows \cap RequirementRows
    BY Tables DEF WInv
  <2>2. \A x \in Table("evidence") : x[3] \in rows /\ x[3] \in RequirementRows
    BY <2>1, Kinds DEF WInv, OneGeneration
  <2>. QED BY <2>1, <2>2
<1>. HIDE DEF seen
<1>4. /\ c \in Call /\ c.op = call[r].op /\ c.gen = call[r].gen /\ c.seen = call[r].seen
      /\ c.overlapped = call[r].overlapped /\ c.evidence = seen
      /\ c.targets = (IF verify THEN call[r].seen ELSE {})
      /\ c.todo = (IF verify THEN "lock" ELSE "delete")
      /\ c.deleted = call[r].deleted /\ c.inserted = call[r].inserted
  BY <1>1, <1>3 DEF Call
<1>. HIDE DEF c
<1>5. call[r].op \in {"generate", "verify"} /\ c.inserted = {}
  BY <1>1, <1>4 DEF Shape, Analyzing, Retrieving, Idle, Call
<1>6. Shape(c)
  BY <1>1, <1>4, <1>5 DEF Shape, Generating, Verifying
<1>7. Known(c) \subseteq rows \cup Known(call[r])
  BY <1>4 DEF Known
<1>8. \A t \in Rebuilt : ~ (Rebuilds(c, t) /\ c.todo = "lock")
  BY <1>4 DEF Rebuilds
<1>9. c.op = "verify" /\ ~ c.overlapped => Knows(c)
  BY <1>1, <1>3, <1>4 DEF WInv, Undisturbed, Knows
<1>10. Exclusive' /\ Anchored'
  BY <1>1, <1>2, <1>4, QuietSteps
<1>11. c.op # "analyze"
  BY <1>4, <1>5
<1>12. /\ WorkspaceTypes' /\ Shapes' /\ Generations' /\ Committed' /\ HasDocuments'
       /\ Marked' /\ OneGeneration' /\ Sighted' /\ Swept' /\ Undisturbed'
  BY <1>1, <1>2, <1>4, <1>6, <1>7, <1>8, <1>9, <1>11, LocalSteps
<1>. QED BY <1>10, <1>12 DEF WInv

\* The DELETE that starts a retrieve or a generate keeps the invariant: what
\* it sees is the whole table, or belongs to the requirements it has read.
LEMMA DeleteStepsOfCalls ==
  ASSUME WInv, NEW r \in Requests, Delete(r)
  PROVE  WInv'
<1>1. /\ call[r].todo = "delete" /\ UNCHANGED Rest
      /\ call[r] \in Call /\ Shape(call[r]) /\ call \in [Requests -> Call] /\ r \in Busy
  BY CallFacts DEF Delete
<1>. DEFINE found == IF call[r].op = "retrieve"
                       THEN {x \in Table("evidence") : x[3] \in call[r].seen}
                       ELSE Table("section")
            c == [call[r] EXCEPT !.todo = "lock", !.targets = found]
<1>2. call' = [call EXCEPT ![r] = c]
  BY <1>1 DEF Delete
<1>3. /\ found \subseteq rows /\ rows \subseteq AllRows
      /\ call[r].op = "retrieve" => found \subseteq EvidenceRows
      /\ call[r].op # "retrieve" => found \subseteq SectionRows /\ found = Table("section")
  BY Tables DEF WInv, WorkspaceTypes, Table
<1>. HIDE DEF found
<1>4. /\ c \in Call /\ c.op = call[r].op /\ c.gen = call[r].gen /\ c.seen = call[r].seen
      /\ c.overlapped = call[r].overlapped /\ c.targets = found /\ c.todo = "lock"
      /\ c.deleted = call[r].deleted /\ c.inserted = call[r].inserted
  BY <1>1, <1>3 DEF Call
<1>. HIDE DEF c
<1>5. call[r].op \in {"generate", "retrieve"} /\ c.inserted = {}
  BY <1>1, <1>4 DEF Shape, Analyzing, Verifying, Idle, Call
<1>6. Shape(c)
  BY <1>1, <1>3, <1>4, <1>5 DEF Shape, Generating, Retrieving
<1>7. Known(c) \subseteq rows \cup Known(call[r])
  BY <1>3, <1>4 DEF Known
<1>8. \A t \in Rebuilt : Rebuilds(c, t) => c.targets = Table(t)
  BY <1>3, <1>4, <1>5 DEF Rebuilds
<1>9. c.op # "verify" /\ c.op # "analyze"
  BY <1>4, <1>5
<1>10. Exclusive' /\ Anchored'
  BY <1>1, <1>2, <1>4, QuietSteps
<1>11. /\ WorkspaceTypes' /\ Shapes' /\ Generations' /\ Committed' /\ HasDocuments'
       /\ Marked' /\ OneGeneration' /\ Sighted' /\ Swept' /\ Undisturbed'
  BY <1>1, <1>2, <1>4, <1>6, <1>7, <1>8, <1>9, LocalSteps
<1>. QED BY <1>10, <1>11 DEF WInv

\* The requirements are gone; the evidence that falls with them is next.
LEMMA CascadeSteps ==
  ASSUME WInv, NEW r \in Requests, Cascade(r)
  PROVE  WInv'
<1>1. /\ call[r].todo = "cascade" /\ UNCHANGED Rest
      /\ call[r] \in Call /\ Shape(call[r]) /\ call \in [Requests -> Call] /\ r \in Busy
  BY CallFacts DEF Cascade
<1>. DEFINE c == [call[r] EXCEPT !.targets = Falling(r), !.todo = "lock"]
<1>2. call' = [call EXCEPT ![r] = c]
  BY <1>1 DEF Cascade
<1>3. Falling(r) \subseteq EvidenceRows /\ Falling(r) \subseteq rows
  BY Tables DEF WInv, Falling, Table
<1>4. /\ c \in Call /\ c.op = call[r].op /\ c.gen = call[r].gen /\ c.seen = call[r].seen
      /\ c.found = call[r].found
      /\ c.overlapped = call[r].overlapped /\ c.targets = Falling(r) /\ c.todo = "lock"
      /\ c.deleted = call[r].deleted /\ c.inserted = call[r].inserted
  BY <1>1, <1>3 DEF Call, AllRows
<1>. HIDE DEF c
<1>5. call[r].op = "analyze" /\ c.inserted = {} /\ c.deleted # {}
  BY <1>1, <1>4 DEF Shape, Analyzing, Retrieving, Generating, Verifying, Idle, Call
<1>6. Shape(c)
  BY <1>1, <1>3, <1>4, <1>5 DEF Shape, Analyzing
<1>7. Known(c) \subseteq rows \cup Known(call[r])
  BY <1>3, <1>4 DEF Known
<1>8. \A x \in Table("evidence") : x[3] \in c.deleted => x \in c.targets
  <2>1. c.deleted \subseteq RequirementRows
    BY <1>4, <1>5, <1>6 DEF Shape, Analyzing
  <2>2. \A x \in Table("evidence") : x \notin c.deleted
    BY <2>1, Kinds DEF Table
  <2>. QED BY <1>4, <2>2 DEF Falling
<1>9. c.op # "verify"
  BY <1>4, <1>5
<1>10. Exclusive' /\ Anchored'
  BY <1>1, <1>2, <1>4, QuietSteps
<1>11. /\ WorkspaceTypes' /\ Shapes' /\ Generations' /\ Committed' /\ HasDocuments'
       /\ Marked' /\ OneGeneration' /\ Sighted' /\ Swept' /\ Undisturbed'
  BY <1>1, <1>2, <1>4, <1>5, <1>6, <1>7, <1>8, <1>9, LocalSteps
<1>. QED BY <1>10, <1>11 DEF WInv
\* A statement that deletes evidence.
LEMMA DeletesEvidence ==
  ASSUME WInv, NEW r \in Busy, NEW c \in Call, call' = [call EXCEPT ![r] = c], UNCHANGED Rest,
         NEW got, got \subseteq EvidenceRows, c.deleted = call[r].deleted \cup got,
         c.inserted = call[r].inserted
  PROVE  Exclusive' /\ Anchored'
<1>1. /\ rows' = rows /\ \A t : Table(t)' = Table(t) /\ call \in [Requests -> Call]
      /\ r \in Requests
  BY DEF WInv, Rest, Table, WorkspaceTypes, Busy
<1>2. \A q \in Requests : /\ call'[q].deleted \subseteq call[q].deleted \cup got
                          /\ call[q].deleted \subseteq call'[q].deleted
                          /\ call'[q].inserted = call[q].inserted
  BY <1>1
<1>3. \A x \in got : x[1] = "evidence"
  BY Kinds
<1>4. Exclusive'
  <2>1. ASSUME NEW q \in Requests, NEW t \in Rebuilt
        PROVE  Gone(call'[q], t) = Gone(call[q], t)
    <3>1. t # "evidence"
      BY DEF Rebuilt
    <3>. QED BY <1>2, <1>3, <3>1 DEF Gone
  <2>2. \A q \in Requests, t \in Rebuilt : Claims(call'[q], t) <=> Claims(call[q], t)
    BY <1>2, <2>1 DEF Claims
  <2>. QED BY <1>1, <2>1, <2>2 DEF WInv, Exclusive
<1>5. Anchored'
  <2>1. ASSUME NEW q \in Requests, NEW y \in call'[q].inserted, y[1] = "evidence"
        PROVE  y[3] \notin got
    <3>1. y \in AllRows
      BY <1>1, <1>2, <2>1 DEF Call
    <3>2. y[3] \in RequirementRows
      BY <2>1, <3>1, Kinds DEF AllRows
    <3>. QED BY <1>3, <3>2, Kinds
  <2>. QED BY <1>1, <1>2, <2>1 DEF WInv, Anchored
<1>. QED BY <1>4, <1>5

\* A statement that deletes a whole table: had another call claimed it, or
\* inserted evidence that refers to it, the statement would still wait.
LEMMA DeletesTable ==
  ASSUME WInv, NEW r \in Busy, NEW c \in Call, call' = [call EXCEPT ![r] = c], UNCHANGED Rest,
         NEW t \in Rebuilt, Table(t) # {}, call[r].targets = Table(t), call[r].todo = "lock",
         ~ Waits(r), c.deleted = Table(t), call[r].deleted = {}, call[r].inserted = {},
         c.inserted = {}
  PROVE  Exclusive' /\ Anchored'
<1>1. /\ rows' = rows /\ \A u : Table(u)' = Table(u) /\ call \in [Requests -> Call]
      /\ r \in Requests
  BY DEF WInv, Rest, Table, WorkspaceTypes, Busy
<1>2. /\ call'[r] = c
      /\ \A q \in Requests : q # r => call'[q] = call[q]
  BY <1>1
<1>3. \A q \in Requests : q # r => \A x \in Table(t) : ~ Holds(q, x)
  <2>1. ASSUME NEW q \in Requests, q # r, NEW x \in Table(t), Holds(q, x) PROVE FALSE
    <3>1. WaitsFor(r, q)
      BY <2>1 DEF WaitsFor
    <3>. QED BY <3>1 DEF Waits
  <2>. QED BY <2>1
<1>4. ASSUME NEW q \in Requests, q # r
      PROVE  ~ Claims(call[q], t)
  <2>1. ASSUME Claims(call[q], t) PROVE FALSE
    <3>1. Gone(call[q], t) = Table(t)
      BY <2>1 DEF WInv, Exclusive
    <3>2. PICK x \in Table(t) : x \in call[q].deleted
      BY <3>1 DEF Gone
    <3>. QED BY <1>3, <1>4, <3>2 DEF Holds
  <2>. QED BY <2>1
<1>5. Exclusive'
  <2>1. ASSUME NEW u \in Rebuilt, NEW q \in Requests, Claims(call'[q], u)
        PROVE  /\ Gone(call'[q], u) = Table(u)
               /\ \A p \in Requests : Claims(call'[p], u) => p = q
    <3>1. CASE u = t
      <4>1. q = r
        BY <1>2, <1>4, <2>1, <3>1
      <4>2. Gone(c, t) = Table(t)
        BY DEF Gone, Table
      <4>. QED BY <1>2, <1>4, <3>1, <4>1, <4>2
    <3>2. CASE u # t
      <4>1. ~ Claims(c, u)
        BY <3>2 DEF Claims, Gone, Table
      <4>2. Claims(call[q], u) /\ call'[q] = call[q] /\ q # r
        BY <1>2, <2>1, <4>1
      <4>3. \A p \in Requests : Claims(call'[p], u) => Claims(call[p], u)
        BY <1>2, <4>1
      <4>. QED BY <4>2, <4>3 DEF WInv, Exclusive
    <3>. QED BY <3>1, <3>2
  <2>. QED BY <1>1, <2>1 DEF Exclusive
<1>6. Anchored'
  <2>1. ASSUME NEW q \in Requests, NEW y \in call'[q].inserted, y[1] = "evidence"
        PROVE  q # r /\ y \in call[q].inserted /\ y[3] \notin Table(t)
    <3>1. q # r /\ y \in call[q].inserted
      BY <1>2, <2>1
    <3>2. y[3] \in Table(t) => Holds(q, y[3])
      BY <2>1, <3>1 DEF Holds
    <3>. QED BY <1>3, <3>1, <3>2
  <2>2. \A p \in Requests : call'[p].deleted \subseteq call[p].deleted \cup Table(t)
    BY <1>2
  <2>. QED BY <1>1, <2>1, <2>2 DEF WInv, Anchored
<1>. QED BY <1>5, <1>6

\* A lock that is granted keeps the invariant: what is left of the targets is
\* still all of the table, or nothing of it.
LEMMA LockSteps ==
  ASSUME WInv, NEW r \in Requests, Lock(r)
  PROVE  WInv'
<1>1. /\ call[r].todo = "lock" /\ UNCHANGED Rest /\ ~ Waits(r)
      /\ call[r] \in Call /\ Shape(call[r]) /\ call \in [Requests -> Call] /\ r \in Busy
  BY CallFacts DEF Lock
<1>. DEFINE got == call[r].targets \cap rows
            verify == call[r].op = "verify"
            next == CASE verify -> "commit"
                      [] call[r].op = "analyze" /\ call[r].deleted = {} /\ got # {} -> "cascade"
                      [] OTHER -> "insert"
            updated == IF verify THEN got ELSE {}
            deleted == IF verify THEN {} ELSE call[r].deleted \cup got
<1>2. PICK found \in SUBSET call[r].seen \cup {call[r].found} :
        /\ Hits(r, found)
        /\ call' = [call EXCEPT ![r].targets = {}, ![r].found = found, ![r].updated = updated,
                                ![r].deleted = deleted, ![r].todo = next]
  BY <1>1 DEF Lock
<1>. DEFINE c == [call[r] EXCEPT !.targets = {}, !.found = found, !.updated = updated,
                                 !.deleted = deleted, !.todo = next]
<1>3. call' = [call EXCEPT ![r] = c]
  BY <1>1, <1>2
<1>4. /\ call[r].op \in {"analyze", "retrieve", "generate", "verify"}
      /\ call[r].inserted = {}
  BY <1>1 DEF Shape, Idle, Call
<1>5. /\ call[r].op # "retrieve" => found = call[r].found
      /\ call[r].op = "retrieve" => found \subseteq call[r].seen
                                    /\ call[r].seen \subseteq RequirementRows
  <2>1. CASE call[r].op # "retrieve"
    BY <1>2, <2>1 DEF Hits
  <2>2. CASE call[r].op = "retrieve"
    <3>1. call[r].seen \subseteq RequirementRows
      BY <1>1, <2>2 DEF Shape, Retrieving
    <3>2. found \subseteq call[r].seen
      <4>1. CASE library
        BY <1>2, <2>2, <4>1 DEF Hits
      <4>2. CASE ~ library
        BY <1>2, <2>2, <4>2 DEF Hits
      <4>. QED BY <4>1, <4>2
    <3>. QED BY <2>2, <3>1, <3>2
  <2>. QED BY <2>1, <2>2
<1>6. /\ found \in SUBSET (Types \cup RequirementRows)
      /\ got \in SUBSET AllRows /\ updated \in SUBSET AllRows /\ deleted \in SUBSET AllRows
      /\ next \in {"cascade", "insert", "commit"}
  BY <1>1, <1>5 DEF Call
<1>7. /\ verify => next = "commit"
      /\ ~ verify /\ next # "insert" => next = "cascade" /\ call[r].op = "analyze"
                                        /\ call[r].deleted = {} /\ got # {}
      /\ call[r].op = "analyze" /\ call[r].deleted = {} /\ got # {} => next = "cascade"
      /\ ~ verify => next # "commit"
  OBVIOUS
<1>. HIDE DEF next, updated, deleted
<1>8. /\ c \in Call /\ c.op = call[r].op /\ c.gen = call[r].gen /\ c.seen = call[r].seen
      /\ c.overlapped = call[r].overlapped /\ c.evidence = call[r].evidence
      /\ c.targets = {} /\ c.found = found /\ c.updated = updated /\ c.deleted = deleted
      /\ c.todo = next /\ c.inserted = {}
  BY <1>1, <1>4, <1>6 DEF Call
<1>. HIDE DEF c
<1>9. deleted = (IF verify THEN {} ELSE call[r].deleted \cup got)
      /\ updated = (IF verify THEN got ELSE {})
  BY DEF deleted, updated
<1>10. Known(c) \subseteq rows \cup Known(call[r])
  BY <1>8 DEF Known
<1>11. c.todo # "lock"
  BY <1>6, <1>8
<1>12. CASE verify
  <2>1. call[r].deleted = {} /\ Verifying(call[r])
    BY <1>1, <1>12 DEF Shape, Verifying
  <2>2. Shape(c)
    BY <1>7, <1>8, <1>9, <1>12, <2>1 DEF Shape, Verifying, RowsIn
  <2>3. ~ c.overlapped => Knows(c)
    <3>1. ~ c.overlapped => /\ call[r].seen = Table("section")
                            /\ call[r].evidence = Table("evidence")
                            /\ call[r].targets = Table("section")
      BY <1>1, <1>8, <1>12 DEF WInv, Undisturbed, Knows
    <3>2. ~ c.overlapped => got = Table("section")
      BY <3>1 DEF Table
    <3>. QED BY <1>7, <1>8, <1>9, <1>12, <3>1, <3>2 DEF Knows
  <2>3a. c.deleted = call[r].deleted /\ c.inserted = call[r].inserted
    BY <1>4, <1>8, <1>9, <1>12, <2>1
  <2>4. Exclusive' /\ Anchored'
    BY <1>1, <1>3, <1>8, <2>3a, QuietSteps
  <2>5. c.op # "analyze"
    BY <1>8, <1>12
  <2>6. /\ WorkspaceTypes' /\ Shapes' /\ Generations' /\ Committed' /\ HasDocuments'
        /\ Marked' /\ OneGeneration' /\ Sighted' /\ Swept' /\ Undisturbed'
    BY <1>1, <1>3, <1>8, <1>10, <1>11, <2>2, <2>3, <2>5, LocalSteps
  <2>. QED BY <2>4, <2>6 DEF WInv
<1>13. CASE ~ verify
  <2>1. /\ c.deleted = call[r].deleted \cup got /\ c.op # "verify"
        /\ c.todo \in {"cascade", "insert"}
    BY <1>6, <1>7, <1>8, <1>9, <1>13
  <2>2. Shape(c)
    <3>1. CASE call[r].op = "analyze"
      <4>1. Analyzing(call[r])
        BY <1>1, <3>1 DEF Shape
      <4>2. Analyzing(c)
        BY <1>1, <1>5, <1>7, <1>8, <2>1, <3>1, <4>1 DEF Analyzing
      <4>. QED BY <1>8, <2>1, <3>1, <4>2 DEF Shape
    <3>2. CASE call[r].op = "retrieve"
      <4>1. Retrieving(call[r]) /\ c.todo = "insert"
        BY <1>1, <1>7, <1>8, <2>1, <3>2 DEF Shape
      <4>2. Retrieving(c)
        BY <1>1, <1>5, <1>8, <2>1, <4>1, <3>2 DEF Retrieving
      <4>. QED BY <1>8, <2>1, <3>2, <4>2 DEF Shape
    <3>3. CASE call[r].op = "generate"
      <4>1. Generating(call[r]) /\ c.todo = "insert"
        BY <1>1, <1>7, <1>8, <2>1, <3>3 DEF Shape
      <4>2. Generating(c)
        BY <1>1, <1>8, <2>1, <4>1 DEF Generating
      <4>. QED BY <1>8, <2>1, <3>3, <4>2 DEF Shape
    <3>. QED BY <1>4, <1>13, <3>1, <3>2, <3>3
  <2>3. c.op = "analyze" => \A x \in Table("evidence") :
          x[3] \in c.deleted /\ c.todo = "insert" => x \in c.deleted
    <3>1. ASSUME c.op = "analyze", c.todo = "insert", NEW x \in Table("evidence"),
                 x[3] \in c.deleted
          PROVE  x \in c.deleted
      <4>1. x \in EvidenceRows /\ x[3] \in RequirementRows /\ x \in rows
        BY <3>1, Tables, Kinds DEF WInv
      <4>2. Analyzing(call[r])
        BY <1>1, <1>8, <3>1 DEF Shape
      <4>3. CASE call[r].deleted = {}
        <5>1. got = {}
          BY <1>7, <1>8, <3>1, <4>3
        <5>. QED BY <2>1, <3>1, <4>3, <5>1
      <4>4. CASE call[r].deleted # {}
        <5>1. got \subseteq EvidenceRows
          BY <1>1, <4>2, <4>4 DEF Analyzing
        <5>2. x[3] \in call[r].deleted
          BY <2>1, <3>1, <4>1, <5>1, Kinds
        <5>3. x \in call[r].targets
          BY <1>1, <1>8, <3>1, <5>2 DEF WInv, Swept
        <5>. QED BY <2>1, <4>1, <5>3
      <4>. QED BY <4>3, <4>4
    <3>. QED BY <3>1
  <2>4. /\ WorkspaceTypes' /\ Shapes' /\ Generations' /\ Committed' /\ HasDocuments'
        /\ Marked' /\ OneGeneration' /\ Sighted' /\ Swept' /\ Undisturbed'
    <3>1. c.op = "analyze" =>
            \A x \in Table("evidence") : x[3] \in c.deleted =>
              /\ c.todo = "lock" => x \in c.targets
              /\ c.todo \in {"insert", "commit"} => x \in c.deleted
      BY <2>1, <2>3
    <3>. HIDE DEF got
    <3>. QED BY <1>1, <1>3, <1>8, <1>10, <1>11, <2>1, <2>2, <3>1, LocalSteps
  <2>5. Exclusive' /\ Anchored'
    <3>1. CASE got \subseteq EvidenceRows
      BY <1>1, <1>3, <1>4, <1>8, <2>1, <3>1, DeletesEvidence
    <3>2. CASE ~ got \subseteq EvidenceRows
      <4>1. PICK t \in Rebuilt : Rebuilds(call[r], t) /\ call[r].deleted = {}
        BY <1>1, <1>4, <1>13, <3>2 DEF Shape, Analyzing, Retrieving, Generating, Rebuilds, Rebuilt
      <4>2. got # {}
        BY <3>2
      <4>3. call[r].targets = Table(t)
        BY <1>1, <4>1, <4>2 DEF WInv, Sighted
      <4>4. got = Table(t)
        BY <4>3 DEF Table
      <4>5. c.deleted = Table(t)
        BY <2>1, <4>1, <4>4
      <4>6. Table(t) # {}
        BY <4>2, <4>4
      <4>. QED BY <1>1, <1>3, <1>4, <1>8, <4>1, <4>3, <4>5, <4>6, DeletesTable
    <3>. QED BY <3>1, <3>2
  <2>. QED BY <2>4, <2>5 DEF WInv
<1>. QED BY <1>12, <1>13
\* The inserted rows collide with nothing: the call has deleted what was in
\* the table, and no other call claims it.
LEMMA InsertSteps ==
  ASSUME WInv, NEW r \in Requests, Insert(r)
  PROVE  WInv'
<1>1. /\ call[r].todo = "insert" /\ UNCHANGED Rest /\ ~ Waits(r)
      /\ \A x \in RowsOf(r) : ~ Violates(r, x)
      /\ call' = [call EXCEPT ![r].inserted = RowsOf(r), ![r].todo = "commit"]
      /\ call[r] \in Call /\ Shape(call[r]) /\ call \in [Requests -> Call] /\ r \in Busy
  BY CallFacts DEF Insert
<1>. DEFINE c == [call[r] EXCEPT !.inserted = RowsOf(r), !.todo = "commit"]
<1>2. call' = [call EXCEPT ![r] = c]
  BY <1>1
<1>3. /\ RowsOf(r) = RowsIn(call[r]) /\ call[r].gen \in Gens /\ call[r].inserted = {}
      /\ call[r].op \in {"analyze", "retrieve", "generate"}
  BY <1>1, RowsOfIsRowsIn, GenFacts DEF WInv, Shape, Idle, Verifying, Call
<1>4. RowsOf(r) \in SUBSET AllRows
  BY <1>1, <1>3, RowsInFacts
<1>5. /\ c \in Call /\ c.op = call[r].op /\ c.gen = call[r].gen /\ c.seen = call[r].seen
      /\ c.overlapped = call[r].overlapped /\ c.evidence = call[r].evidence
      /\ c.targets = call[r].targets /\ c.found = call[r].found
      /\ c.deleted = call[r].deleted /\ c.inserted = RowsOf(r) /\ c.todo = "commit"
  BY <1>1, <1>4 DEF Call
<1>. HIDE DEF c
<1>6. RowsIn(c) = RowsOf(r)
  BY <1>3, <1>5 DEF RowsIn
<1>7. Shape(c)
  BY <1>1, <1>3, <1>5, <1>6 DEF Shape, Analyzing, Retrieving, Generating
<1>8. Known(c) \subseteq rows \cup Known(call[r])
  BY <1>5 DEF Known
<1>9. /\ c.todo # "lock" /\ c.op # "verify"
      /\ c.op = "analyze" => \A x \in Table("evidence") : x[3] \in c.deleted => x \in c.deleted
  BY <1>1, <1>3, <1>5 DEF WInv, Swept
<1>10. /\ WorkspaceTypes' /\ Shapes' /\ Generations' /\ Committed' /\ HasDocuments'
       /\ Marked' /\ OneGeneration' /\ Sighted' /\ Swept' /\ Undisturbed'
  BY <1>1, <1>2, <1>5, <1>7, <1>8, <1>9, LocalSteps
<1>11. /\ call'[r] = c /\ \A q \in Requests : q # r => call'[q] = call[q]
       /\ rows' = rows /\ \A t : Table(t)' = Table(t)
  BY <1>1, <1>2 DEF Rest, Table
<1>12. ASSUME NEW t \in Rebuilt, Rebuilds(c, t)
       PROVE  /\ Gone(c, t) = Table(t)
              /\ \A q \in Requests : q # r => ~ Claims(call[q], t)
  <2>1. Rebuilds(call[r], t) /\ t # "evidence"
    BY <1>5, <1>12 DEF Rebuilds, Rebuilt
  <2>2. PICK y \in RowsOf(r) : y[1] = t /\ y[3] = "documents"
    BY <1>1, <1>3, <2>1, RowsInFacts
  <2>3. ASSUME NEW x \in Table(t), x[3] = "documents"
        PROVE  x \in call[r].deleted
    BY <1>1, <2>1, <2>2, <2>3 DEF Violates, Sees, SameKey, Table
  <2>4. ASSUME Table(t) # {}
        PROVE  Gone(call[r], t) # {}
    <3>1. PICK x \in Table(t) : x[3] = "documents"
      BY <2>4 DEF WInv, HasDocuments
    <3>. QED BY <2>3, <3>1 DEF Gone, Table
  <2>5. Gone(call[r], t) = Table(t)
    <3>1. Gone(call[r], t) # {} => Gone(call[r], t) = Table(t)
      BY DEF WInv, Exclusive, Claims
    <3>. QED BY <2>4, <3>1
  <2>6. ASSUME NEW q \in Requests, q # r, Claims(call[q], t)
        PROVE  FALSE
    <3>1. CASE Gone(call[q], t) # {}
      <4>1. Gone(call[q], t) = Table(t)
        BY <2>6 DEF WInv, Exclusive
      <4>2. Claims(call[r], t)
        BY <2>4, <3>1, <4>1 DEF Claims
      <4>. QED BY <2>6, <4>2 DEF WInv, Exclusive
    <3>2. CASE \E x \in call[q].inserted : x[1] = t
      <4>1. call[q] \in Call /\ Shape(call[q])
        BY CallFacts
      <4>2. /\ call[q].todo = "commit" /\ call[q].inserted = RowsIn(call[q])
        BY <3>2, <4>1 DEF Shape
      <4>3. Rebuilds(call[q], t) /\ call[q].gen \in Gens
        BY <2>6, ClaimFacts, GenFacts DEF WInv
      <4>4. PICK z \in call[q].inserted : z[1] = t /\ z[3] = "documents"
        BY <4>1, <4>2, <4>3, RowsInFacts
      <4>5. SameKey(y, z)
        BY <2>1, <2>2, <4>4 DEF SameKey
      <4>6. WaitsFor(r, q)
        BY <1>1, <2>2, <2>6, <4>4, <4>5 DEF WaitsFor
      <4>. QED BY <1>1, <4>6 DEF Waits
    <3>. QED BY <2>6, <3>1, <3>2 DEF Claims
  <2>. QED BY <1>5, <2>5, <2>6 DEF Gone
<1>13. Exclusive'
  <2>1. ASSUME NEW t \in Rebuilt, NEW q \in Requests, Claims(call'[q], t)
        PROVE  /\ Gone(call'[q], t) = Table(t)
               /\ \A p \in Requests : Claims(call'[p], t) => p = q
    <3>1. Claims(c, t) => Rebuilds(c, t)
      BY <1>3, <1>5, <1>7, GoneFacts
    <3>2. CASE Rebuilds(c, t)
      BY <1>11, <1>12, <2>1, <3>2
    <3>3. CASE ~ Rebuilds(c, t)
      BY <1>11, <2>1, <3>1, <3>3 DEF WInv, Exclusive
    <3>. QED BY <3>2, <3>3
  <2>. QED BY <1>11, <2>1 DEF Exclusive
<1>14. Anchored'
  <2>1. \A p \in Requests : call'[p].deleted = call[p].deleted
    BY <1>5, <1>11
  <2>2. ASSUME NEW y \in c.inserted, y[1] = "evidence"
        PROVE  y[3] \in rows /\ \A p \in Requests : y[3] \notin call[p].deleted
    <3>1. y \in RowsOf(r)
      BY <1>5, <2>2
    <3>2. y[3] \in rows /\ y[3] \notin call[r].deleted
      BY <1>1, <1>3, <2>2, <3>1 DEF Violates, Sees
    <3>3. ASSUME NEW p \in Requests, p # r, y[3] \in call[p].deleted PROVE FALSE
      <4>1. WaitsFor(r, p)
        BY <1>1, <2>2, <3>1, <3>3 DEF WaitsFor
      <4>. QED BY <1>1, <4>1 DEF Waits
    <3>. QED BY <3>2, <3>3
  <2>. QED BY <1>11, <2>1, <2>2 DEF WInv, Anchored
<1>. QED BY <1>10, <1>13, <1>14 DEF WInv
-----------------------------------------------------------------------------
(* The commit. *)

\* What a commit makes of a rebuilt table.
LEMMA CommittedTables ==
  ASSUME WInv, NEW r \in Requests, Commit(r)
  PROVE  /\ rows' = (rows \ call[r].deleted) \cup call[r].inserted
         /\ \A x \in call[r].inserted : x \in AllRows /\ x[2] = call[r].gen
         /\ \A t \in Rebuilt :
              IF Rebuilds(call[r], t)
                THEN /\ Claims(call[r], t)
                     /\ \A x \in Table(t)' : x \in call[r].inserted
                     /\ \E x \in Table(t)' : x[3] = "documents"
                ELSE ~ Claims(call[r], t) /\ Table(t)' = Table(t)
<1>1. /\ rows' = (rows \ call[r].deleted) \cup call[r].inserted /\ call[r].todo = "commit"
      /\ call[r] \in Call /\ Shape(call[r]) /\ r \in Busy
  BY CallFacts DEF Commit, Sees
<1>2. call[r].inserted = RowsIn(call[r]) /\ call[r].gen \in Gens
  BY <1>1, GenFacts DEF WInv, Shape
<1>3. \A x \in call[r].inserted : x \in AllRows /\ x[2] = call[r].gen
  BY <1>1, <1>2, RowsInFacts
<1>4. \A t : Table(t)' = {x \in (rows \ call[r].deleted) \cup call[r].inserted : x[1] = t}
  BY <1>1 DEF Table
<1>5. ASSUME NEW t \in Rebuilt, Rebuilds(call[r], t)
      PROVE  /\ Claims(call[r], t)
             /\ \A x \in Table(t)' : x \in call[r].inserted
             /\ \E x \in Table(t)' : x[3] = "documents"
  <2>1. PICK z \in call[r].inserted : z[1] = t /\ z[3] = "documents"
    BY <1>1, <1>2, <1>5, RowsInFacts
  <2>2. Claims(call[r], t)
    BY <2>1 DEF Claims
  <2>3. Gone(call[r], t) = Table(t)
    BY <2>2 DEF WInv, Exclusive
  <2>4. \A x \in rows : x[1] = t => x \in call[r].deleted
    BY <2>3 DEF Gone, Table
  <2>. QED BY <1>4, <2>1, <2>2, <2>4
<1>6. ASSUME NEW t \in Rebuilt, ~ Rebuilds(call[r], t)
      PROVE  ~ Claims(call[r], t) /\ Table(t)' = Table(t)
  <2>1. ~ Claims(call[r], t)
    BY <1>6, ClaimFacts
  <2>2. /\ \A x \in call[r].deleted : x[1] # t
        /\ \A x \in call[r].inserted : x[1] # t
    BY <2>1 DEF Claims, Gone
  <2>. QED BY <1>4, <2>1, <2>2 DEF Table
<1>. QED BY <1>1, <1>3, <1>5, <1>6

\* What the sections say afterwards.
LEMMA CommittedTexts ==
  ASSUME WInv, NEW r \in Requests, Commit(r)
  PROVE  /\ text' \in [Table("section")' -> Text]
         /\ Marked'
<1>1. /\ text' = TextAfter(r) /\ rows' = Sees(r) /\ call[r] \in Call
      /\ text \in [Table("section") -> Text] /\ call[r].inserted \subseteq AllRows
  BY CallFacts DEF Commit, WInv, WorkspaceTypes, Call
<1>2. Table("section")' = {y \in Sees(r) : y[1] = "section"}
  BY <1>1 DEF Table
<1>3. ASSUME NEW x \in Table("section")', x \notin call[r].inserted
      PROVE  x \in Table("section")
  BY <1>2, <1>3 DEF Sees, Table
<1>. DEFINE Says(x) == IF x \in call[r].inserted THEN Draft(r, x)
                       ELSE IF x \in call[r].updated
                              THEN [text[x] EXCEPT !.check = Verdict(text[x], call[r].evidence)]
                              ELSE text[x]
            Fine(d) == (d.mark <=> d.refs = {}) /\ (d.check = "pass" => ~ d.mark)
<1>4. text' = [x \in Table("section")' |-> Says(x)]
  BY <1>1, <1>2 DEF TextAfter
<1>5. ASSUME NEW x
      PROVE  Draft(r, x) \in Text /\ Fine(Draft(r, x))
  <2>. DEFINE refs == {e \in call[r].evidence : e[3] \in call[r].seen /\ e[3][3] = x[3]}
  <2>1. refs \in SUBSET EvidenceRows
    BY <1>1 DEF Call
  <2>2. Draft(r, x) = [refs |-> refs, mark |-> refs = {}, check |-> "pending"]
    BY DEF Draft
  <2>. HIDE DEF refs
  <2>3. Draft(r, x) \in Text
    BY <2>1, <2>2 DEF Text, Verdicts
  <2>4. /\ Draft(r, x).refs = refs /\ Draft(r, x).mark = (refs = {})
        /\ Draft(r, x).check = "pending"
    BY <2>2
  <2>. QED BY <2>3, <2>4
<1>6. ASSUME NEW x \in Table("section")
      PROVE  /\ text[x] \in Text /\ Fine(text[x])
             /\ [text[x] EXCEPT !.check = Verdict(text[x], call[r].evidence)] \in Text
             /\ Fine([text[x] EXCEPT !.check = Verdict(text[x], call[r].evidence)])
  <2>1. PICK d : d = text[x]
    OBVIOUS
  <2>2. d \in Text /\ Fine(d)
    BY <1>1, <1>6, <2>1 DEF WInv, Marked
  <2>. DEFINE v == Verdict(d, call[r].evidence)
              e == [d EXCEPT !.check = v]
  <2>3. v \in Verdicts /\ (v = "pass" => ~ d.mark)
    BY <2>2 DEF Verdict, Verdicts, Text
  <2>. HIDE DEF v
  <2>4. e \in Text /\ e.refs = d.refs /\ e.mark = d.mark /\ e.check = v
    BY <2>2, <2>3 DEF Text
  <2>. HIDE DEF e
  <2>5. Fine(e)
    BY <2>2, <2>3, <2>4
  <2>. QED BY <2>1, <2>2, <2>4, <2>5 DEF e, v
<1>. HIDE DEF Fine
<1>7. ASSUME NEW x \in Table("section")'
      PROVE  Says(x) \in Text /\ Fine(Says(x))
  BY <1>3, <1>5, <1>6
<1>. HIDE DEF Says
<1>8. text' \in [Table("section")' -> Text]
  BY <1>4, <1>7
<1>9. \A x \in DOMAIN text' : Fine(text'[x])
  BY <1>4, <1>7
<1>. QED BY <1>8, <1>9 DEF Marked, Fine

\* A commit keeps the invariant: the table it rebuilds holds its generation
\* and no other.
LEMMA CommitSteps ==
  ASSUME WInv, NEW r \in Requests, Commit(r)
  PROVE  WInv'
<1>1. /\ call[r].todo = "commit" /\ call' = [call EXCEPT ![r] = Idle]
      /\ UNCHANGED <<library, calls>>
      /\ call[r] \in Call /\ Shape(call[r]) /\ call \in [Requests -> Call] /\ r \in Busy
  BY CallFacts DEF Commit
<1>. DEFINE D == call[r].deleted
            I == call[r].inserted
<1>2. /\ rows' = (rows \ D) \cup I
      /\ \A x \in I : x \in AllRows /\ x[2] = call[r].gen
  BY CommittedTables
<1>3. ASSUME NEW t \in Rebuilt, Rebuilds(call[r], t)
      PROVE  /\ Claims(call[r], t) /\ \A x \in Table(t)' : x \in I
             /\ \E x \in Table(t)' : x[3] = "documents"
  BY <1>3, CommittedTables
<1>4. ASSUME NEW t \in Rebuilt, ~ Rebuilds(call[r], t)
      PROVE  Table(t)' = Table(t)
  BY <1>4, CommittedTables
<1>5. /\ call'[r] = Idle /\ Idle \in Call /\ Shape(Idle) /\ Known(Idle) = {}
      /\ Idle.deleted = {} /\ Idle.inserted = {} /\ Idle.op = "idle" /\ Idle.targets = {}
      /\ \A q \in Requests : q # r => call'[q] = call[q]
      /\ \A q \in Busy' : q \in Busy /\ q # r /\ call'[q] = call[q]
  <2>1. call'[r] = Idle /\ \A q \in Requests : q # r => call'[q] = call[q]
    BY <1>1
  <2>. QED BY <2>1, IdleFacts DEF Busy
<1>6. \A q \in Requests : q # r => /\ \A x \in Known(call[q]) : x[2] # call[r].gen
                                   /\ q \in Busy => call[q].gen # call[r].gen
  BY <1>1 DEF WInv, Generations
<1>7. WorkspaceTypes'
  <2>1. rows' \subseteq AllRows
    BY <1>2 DEF WInv, WorkspaceTypes
  <2>2. text' \in [Table("section")' -> Text]
    BY CommittedTexts
  <2>3. call' \in [Requests -> Call]
    BY <1>1, <1>5
  <2>. QED BY <1>1, <2>1, <2>2, <2>3 DEF WInv, WorkspaceTypes
<1>8. Shapes'
  BY <1>5 DEF WInv, Shapes
<1>9. Generations'
  <2>1. ASSUME NEW q \in Busy'
        PROVE  /\ call'[q].gen \in 1..calls'
               /\ \A p \in Busy' : call'[p].gen = call'[q].gen => p = q
               /\ \A x \in rows' : x[2] # call'[q].gen
               /\ \A p \in Requests : \A x \in Known(call'[p]) : x[2] # call'[q].gen
    <3>1. q \in Busy /\ q # r /\ call'[q] = call[q] /\ q \in Requests
      BY <1>5 DEF Busy
    <3>2. \A x \in rows' : x[2] # call'[q].gen
      BY <1>2, <1>6, <3>1 DEF WInv, Generations
    <3>3. \A p \in Requests : \A x \in Known(call'[p]) : x[2] # call'[q].gen
      BY <1>5, <3>1 DEF WInv, Generations
    <3>. QED BY <1>1, <1>5, <3>1, <3>2, <3>3 DEF WInv, Generations
  <2>. QED BY <2>1 DEF Generations
<1>10. Committed'
  <2>1. call[r].gen \in 1..calls
    BY <1>1 DEF WInv, Generations
  <2>2. \A x \in rows' : x[2] \in 1..calls'
    BY <1>1, <1>2, <2>1 DEF WInv, Committed
  <2>3. \A q \in Requests : \A x \in Known(call'[q]) : x[2] \in 1..calls'
    BY <1>1, <1>5 DEF WInv, Committed
  <2>. QED BY <2>2, <2>3 DEF Committed
<1>11. Exclusive'
  <2>1. ASSUME NEW t \in Rebuilt, NEW q \in Requests, Claims(call'[q], t)
        PROVE  /\ Gone(call'[q], t) = Table(t)'
               /\ \A p \in Requests : Claims(call'[p], t) => p = q
    <3>1. q # r
      BY <1>5, <2>1 DEF Claims, Gone
    <3>2. call'[q] = call[q] /\ Claims(call[q], t)
      BY <1>5, <2>1, <3>1
    <3>3. ~ Rebuilds(call[r], t)
      BY <1>3, <3>1, <3>2 DEF WInv, Exclusive
    <3>4. Table(t)' = Table(t)
      BY <1>4, <3>3
    <3>5. \A p \in Requests : Claims(call'[p], t) => Claims(call[p], t)
      BY <1>5 DEF Claims, Gone
    <3>. QED BY <3>2, <3>4, <3>5 DEF WInv, Exclusive
  <2>. QED BY <2>1 DEF Exclusive
<1>12. Sighted'
  <2>1. ASSUME NEW t \in Rebuilt, NEW q \in Requests, Rebuilds(call'[q], t),
               call'[q].todo = "lock", call'[q].deleted = {}
        PROVE  call'[q].targets \cap rows' = {} \/ call'[q].targets = Table(t)'
    <3>1. q # r
      BY <1>5, <2>1 DEF Rebuilds
    <3>2. /\ call'[q] = call[q] /\ Rebuilds(call[q], t) /\ call[q].todo = "lock"
          /\ call[q].deleted = {} /\ call[q] \in Call /\ Shape(call[q])
      BY <1>5, <2>1, <3>1, CallFacts
    <3>3. \A x \in call[q].targets : x \notin I
      BY <1>2, <1>6, <3>1 DEF Known
    <3>4. CASE Rebuilds(call[r], t)
      <4>1. \A x \in call[q].targets : x[1] = t
        BY <3>2, Kinds DEF Shape, Analyzing, Generating, Rebuilds
      <4>2. \A x \in call[q].targets : x \notin rows'
        <5>1. \A x \in rows' : x[1] = t => x \in I
          BY <1>3, <3>4 DEF Table
        <5>. QED BY <3>3, <4>1, <5>1
      <4>. QED BY <3>2, <4>2
    <3>5. CASE ~ Rebuilds(call[r], t)
      <4>1. Table(t)' = Table(t)
        BY <1>4, <3>5
      <4>2. call[q].targets \cap rows = {} \/ call[q].targets = Table(t)
        BY <3>2 DEF WInv, Sighted
      <4>. QED BY <1>2, <3>2, <3>3, <4>1, <4>2
    <3>. QED BY <3>4, <3>5
  <2>. QED BY <2>1 DEF Sighted
<1>13. HasDocuments'
  <2>1. ASSUME NEW t \in Rebuilt, Table(t)' # {}
        PROVE  \E x \in Table(t)' : x[3] = "documents"
    BY <1>3, <1>4, <2>1 DEF WInv, HasDocuments
  <2>. QED BY <2>1 DEF HasDocuments
<1>14. Anchored'
  <2>1. \A q \in Requests : /\ call'[q].inserted \subseteq call[q].inserted
                            /\ call'[q].deleted \subseteq call[q].deleted
    BY <1>5
  <2>. QED BY <1>1, <1>2, <2>1 DEF WInv, Anchored, Busy
<1>15. Swept'
  <2>1. ASSUME NEW q \in Requests, call'[q].op = "analyze",
               NEW x \in Table("evidence")', x[3] \in call'[q].deleted
        PROVE  /\ call'[q].todo = "lock" => x \in call'[q].targets
               /\ call'[q].todo \in {"insert", "commit"} => x \in call'[q].deleted
    <3>1. q # r /\ call'[q] = call[q]
      BY <1>5, <2>1
    <3>2. x \notin I
      BY <1>1, <2>1, <3>1 DEF WInv, Anchored, Table, Busy
    <3>3. x \in Table("evidence")
      BY <1>2, <2>1, <3>2 DEF Table
    <3>. QED BY <2>1, <3>1, <3>3 DEF WInv, Swept
  <2>. QED BY <2>1 DEF Swept
<1>16. Marked'
  BY CommittedTexts
<1>17. Undisturbed'
  <2>1. ASSUME NEW q \in Busy', ~ call'[q].overlapped PROVE FALSE
    BY <1>1, <1>5, <2>1 DEF WInv, Undisturbed
  <2>. QED BY <2>1 DEF Undisturbed
<1>18. OneGeneration'
  <2>1. ASSUME NEW x \in rows', NEW y \in rows', x[1] = y[1], x[1] # "evidence"
        PROVE  x[2] = y[2]
    <3>1. x[1] \in Rebuilt
      BY <1>7, <2>1, Kinds DEF WorkspaceTypes, AllRows, Rebuilt
    <3>2. PICK t : t = x[1]
      OBVIOUS
    <3>3. x \in Table(t)' /\ y \in Table(t)' /\ t \in Rebuilt
      BY <2>1, <3>1, <3>2 DEF Table
    <3>4. CASE Rebuilds(call[r], t)
      BY <1>2, <1>3, <3>3, <3>4
    <3>5. CASE ~ Rebuilds(call[r], t)
      BY <1>4, <2>1, <3>3, <3>5 DEF WInv, OneGeneration, Table
    <3>. QED BY <3>4, <3>5
  <2>2. ASSUME NEW x \in Table("evidence")'
        PROVE  x[3] \in rows'
    <3>1. CASE x \in I
      BY <1>1, <1>2, <2>2, <3>1 DEF WInv, Anchored, Table, Busy
    <3>2. CASE x \in rows /\ x \notin D
      <4>1. x \in Table("evidence") /\ x[3] \in rows
        BY <2>2, <3>2 DEF WInv, OneGeneration, Table
      <4>2. x[3] \in RequirementRows
        BY <4>1, Tables, Kinds DEF WInv
      <4>3. x[3] \in D => call[r].op = "analyze"
        BY <1>1, <4>2, Kinds DEF Shape, Retrieving, Generating, Verifying, Idle, Call
      <4>4. x[3] \notin D
        BY <1>1, <3>2, <4>1, <4>3 DEF WInv, Swept
      <4>. QED BY <1>2, <4>1, <4>4
    <3>. QED BY <1>2, <2>2, <3>1, <3>2 DEF Table
  <2>. QED BY <2>1, <2>2 DEF OneGeneration
<1>. QED BY <1>7, <1>8, <1>9, <1>10, <1>11, <1>12, <1>13, <1>14, <1>15, <1>16, <1>17, <1>18
         DEF WInv
-----------------------------------------------------------------------------
(* The composition. *)

\* Every statement of a call keeps the invariant.
LEMMA StepsOfCalls ==
  ASSUME WInv, NEW r \in Requests, Step(r)
  PROVE  WInv'
<1>1. ASSUME RollBack(r) PROVE WInv'
  <2>1. call' = [call EXCEPT ![r] = Idle] /\ UNCHANGED Rest
    BY <1>1 DEF RollBack
  <2>2. call' \in [Requests -> Call] /\ \A q \in Requests : call'[q] \in {call[q], Idle}
    BY <2>1, CallFacts, IdleFacts DEF WInv, WorkspaceTypes
  <2>. QED BY <2>1, <2>2, GiveUpSteps
<1>2. InsertFails(r) \/ DeadlockDetected(r) => WInv'
  BY <1>1 DEF InsertFails, DeadlockDetected
<1>. QED BY <1>2, ReadSteps, DeleteStepsOfCalls, LockSteps, CascadeSteps, InsertSteps,
            CommitSteps DEF Step

\* A call of analyze begins.
LEMMA AnalyzeSteps ==
  ASSUME WInv, NEW r \in Requests, NEW mentioned \in SUBSET Optional, Analyze(r, mentioned)
  PROVE  WInv'
<1>. DEFINE found == RequirementTypes(mentioned)
            targets == Table("requirement")
            c == [Idle EXCEPT !.todo = "lock", !.found = found, !.targets = targets]
            d == [c EXCEPT !.op = "analyze"]
<1>1. Begin(r, "analyze", c)
  BY DEF Analyze
<1>2. found \subseteq Types /\ "documents" \in found
  BY DEF RequirementTypes, Types, Always
<1>3. targets \subseteq rows /\ targets \subseteq RequirementRows
  BY Tables DEF WInv
<1>. HIDE DEF found, targets
<1>4. /\ c \in Call /\ c.inserted = {} /\ c.deleted = {} /\ c.todo = "lock" /\ c.found = found
      /\ c.targets = targets /\ c.seen = {}
  BY <1>2, <1>3, IdleFacts DEF Call, Idle, AllRows
<1>. HIDE DEF c
<1>5. /\ d.op = "analyze" /\ d.inserted = {} /\ d.deleted = {} /\ d.todo = "lock"
      /\ d.found = found /\ d.targets = targets
  BY <1>4 DEF Call
<1>. HIDE DEF d
<1>6. Shape(d)
  BY <1>2, <1>3, <1>5 DEF Shape, Analyzing
<1>7. \A t \in Rebuilt : Rebuilds(d, t) => c.targets = Table(t)
  BY <1>4, <1>5 DEF Rebuilds, targets
<1>8. c.todo # "commit" /\ c.targets \subseteq rows /\ c.seen \subseteq rows
  BY <1>3, <1>4
<1>. QED BY <1>1, <1>4, <1>6, <1>7, <1>8, BeginSteps DEF d

\* A call of retrieve begins.
LEMMA RetrieveSteps ==
  ASSUME WInv, NEW r \in Requests, Retrieve(r)
  PROVE  WInv'
<1>. DEFINE seen == Table("requirement")
            c == [Idle EXCEPT !.todo = "delete", !.seen = seen]
            d == [c EXCEPT !.op = "retrieve"]
<1>1. Begin(r, "retrieve", c)
  BY DEF Retrieve
<1>2. seen \subseteq rows /\ seen \subseteq RequirementRows
  BY Tables DEF WInv
<1>. HIDE DEF seen
<1>3. /\ c \in Call /\ c.inserted = {} /\ c.deleted = {} /\ c.todo = "delete"
      /\ c.targets = {} /\ c.seen = seen
  BY <1>2, IdleFacts DEF Call, Idle, AllRows
<1>. HIDE DEF c
<1>4. /\ d.op = "retrieve" /\ d.inserted = {} /\ d.deleted = {} /\ d.todo = "delete"
      /\ d.seen = seen /\ d.targets = {}
  BY <1>3 DEF Call
<1>. HIDE DEF d
<1>5. Shape(d)
  BY <1>2, <1>4 DEF Shape, Retrieving
<1>6. c.todo # "commit" /\ c.todo # "lock" /\ c.targets \subseteq rows /\ c.seen \subseteq rows
  BY <1>2, <1>3
<1>. QED BY <1>1, <1>3, <1>5, <1>6, BeginSteps DEF d

\* A call of generate begins.
LEMMA GenerateSteps ==
  ASSUME WInv, NEW r \in Requests, Generate(r)
  PROVE  WInv'
<1>. DEFINE seen == Table("requirement")
            c == [Idle EXCEPT !.todo = "read", !.seen = seen]
            d == [c EXCEPT !.op = "generate"]
<1>1. Begin(r, "generate", c)
  BY DEF Generate
<1>2. /\ seen \subseteq rows /\ seen \subseteq RequirementRows
      /\ \E q \in seen : q[3] = "documents"
  BY Tables DEF WInv, HasDocuments, Rebuilt, Generate
<1>. HIDE DEF seen
<1>3. /\ c \in Call /\ c.inserted = {} /\ c.deleted = {} /\ c.todo = "read"
      /\ c.targets = {} /\ c.seen = seen
  BY <1>2, IdleFacts DEF Call, Idle, AllRows
<1>. HIDE DEF c
<1>4. /\ d.op = "generate" /\ d.inserted = {} /\ d.deleted = {} /\ d.todo = "read"
      /\ d.seen = seen /\ d.targets = {}
  BY <1>3 DEF Call
<1>. HIDE DEF d
<1>5. Shape(d)
  BY <1>2, <1>4 DEF Shape, Generating
<1>6. c.todo # "commit" /\ c.todo # "lock" /\ c.targets \subseteq rows /\ c.seen \subseteq rows
  BY <1>2, <1>3
<1>. QED BY <1>1, <1>3, <1>5, <1>6, BeginSteps DEF d

\* A call of verify begins.
LEMMA VerifySteps ==
  ASSUME WInv, NEW r \in Requests, Verify(r)
  PROVE  WInv'
<1>. DEFINE seen == Table("section")
            c == [Idle EXCEPT !.todo = "read", !.seen = seen]
            d == [c EXCEPT !.op = "verify"]
<1>1. Begin(r, "verify", c)
  BY DEF Verify
<1>2. seen \subseteq rows /\ seen \subseteq SectionRows
  BY Tables DEF WInv
<1>. HIDE DEF seen
<1>3. /\ c \in Call /\ c.inserted = {} /\ c.deleted = {} /\ c.todo = "read"
      /\ c.targets = {} /\ c.seen = seen
  BY <1>2, IdleFacts DEF Call, Idle, AllRows
<1>. HIDE DEF c
<1>4. /\ d.op = "verify" /\ d.inserted = {} /\ d.deleted = {} /\ d.todo = "read"
      /\ d.seen = seen /\ d.targets = {}
  BY <1>3 DEF Call
<1>. HIDE DEF d
<1>5. Shape(d)
  BY <1>2, <1>4 DEF Shape, Verifying
<1>6. c.todo # "commit" /\ c.todo # "lock" /\ c.targets \subseteq rows /\ c.seen \subseteq rows
  BY <1>2, <1>3
<1>7. c.seen = Table("section")
  BY <1>3 DEF seen
<1>. QED BY <1>1, <1>3, <1>5, <1>6, <1>7, BeginSteps DEF d

\* Every step of the proposal workspace keeps its invariant.
LEMMA WorkspaceSteps ==
  ASSUME WInv, NEW mentioned \in SUBSET Optional, WorkspaceNext(mentioned)
  PROVE  WInv'
<1>1. CASE Crash
  <2>1. call' = [r \in Requests |-> Idle] /\ UNCHANGED Rest
    BY <1>1 DEF Crash
  <2>2. call' \in [Requests -> Call] /\ \A r \in Requests : call'[r] \in {call[r], Idle}
    BY <2>1, IdleFacts
  <2>. QED BY <2>1, <2>2, GiveUpSteps
<1>. QED BY <1>1, RegisterSteps, AnalyzeSteps, RetrieveSteps, GenerateSteps, VerifySteps,
            StepsOfCalls DEF WorkspaceNext

\* Both invariants hold while the tables are empty.
LEMMA InitFacts == EnrichmentInit => WInv /\ JInv
<1>. SUFFICES ASSUME EnrichmentInit PROVE WInv /\ JInv
  OBVIOUS
<1>1. /\ rows = {} /\ text = << >> /\ library = FALSE /\ calls = 0
      /\ \A t : Table(t) = {}
  BY DEF EnrichmentInit, Init, Table
<1>2. /\ call \in [Requests -> Call] /\ \A r \in Requests : call[r] = Idle
  BY IdleFacts DEF EnrichmentInit, Init
<1>3. Busy = {}
  BY <1>2 DEF Busy, Idle
<1>4. WorkspaceTypes
  <2>1. text \in [Table("section") -> Text] /\ DOMAIN text = {}
    BY <1>1
  <2>2. calls \in 0..MaxCalls
    BY <1>1, WorkspaceAssumption
  <2>3. rows \subseteq AllRows /\ library \in BOOLEAN
    BY <1>1
  <2>. QED BY <1>2, <2>1, <2>2, <2>3 DEF WorkspaceTypes
<1>5. Shapes /\ Generations /\ Committed
  BY <1>1, <1>2, <1>3, IdleFacts DEF Shapes, Generations, Committed
<1>6. Exclusive /\ Sighted /\ Anchored /\ Swept
  BY <1>1, <1>2, IdleFacts
     DEF Exclusive, Sighted, Anchored, Swept, Claims, Gone, Rebuilds
<1>7. HasDocuments /\ Marked /\ Undisturbed /\ OneGeneration
  BY <1>1, <1>3 DEF HasDocuments, Marked, Undisturbed, OneGeneration
<1>8. ItemTypes /\ ElecMirrorsItems
  BY DEF EnrichmentInit, ItemsInit, ItemTypes, ElecMirrorsItems
<1>9. WorkTypes
  BY WorkFacts DEF EnrichmentInit, ItemsInit, WorkTypes, NoWork
<1>. QED BY <1>4, <1>5, <1>6, <1>7, <1>8, <1>9 DEF WInv, JInv

\* Every step of the composition keeps both.
LEMMA StepFacts ==
  ASSUME WInv, JInv, [EnrichmentNext]_allVars
  PROVE  WInv' /\ JInv'
<1>1. ASSUME UNCHANGED vars PROVE WInv'
  BY <1>1 DEF vars, WInv, WorkspaceTypes, Shapes, Generations, Committed, Exclusive, Sighted,
              HasDocuments, Anchored, Swept, Marked, Undisturbed, OneGeneration, Table, Busy,
              Knows
<1>2. ASSUME UNCHANGED itemVars PROVE JInv'
  BY <1>2 DEF itemVars, JInv, ItemTypes, WorkTypes, ElecMirrorsItems
<1>3. Mentioned \in SUBSET Optional
  BY DEF Mentioned
<1>. QED BY <1>1, <1>2, <1>3, OnePart, WorkspaceSteps, ItemsSteps

\* The invariants of both parts.
THEOREM Invariance == EnrichmentSpec => [](WInv /\ JInv)
<1>. QED BY InitFacts, StepFacts, PTL DEF EnrichmentSpec

\* No analysis is mixed with another, no draft with another, and no evidence
\* outlives its requirement (the four calls of proposals.py).
THEOREM OneGenerationThm == EnrichmentSpec => []OneGeneration
<1>1. WInv => OneGeneration
  BY DEF WInv
<1>. QED BY <1>1, Invariance, PTL

\* The required values of the items and elec_spec agree, however extractions
\* and PATCHes overlap (extract and PATCH of spec-items in notices.py).
THEOREM ElecMirrorsItemsThm == EnrichmentSpec => []ElecMirrorsItems
<1>1. JInv => ElecMirrorsItems
  BY DEF JInv
<1>. QED BY <1>1, Invariance, PTL

\* How the work of a slot ends.
LEMMA Endings ==
  ASSUME JInv, [ItemsNext]_itemVars, NEW r \in Workers, work[r].op # "idle", work'[r] = NoWork
  PROVE  SpecItemsExtracted(r) \/ DocumentsAnalyzed(r) \/ Abandoned(r)
<1>1. work \in [Workers -> Work] /\ work[r] # NoWork
  <2>1. NoWork.op = "idle"
    BY DEF NoWork
  <2>. QED BY <2>1 DEF JInv, WorkTypes
<1>2. work' # work
  BY <1>1
<1>3. ASSUME NEW q \in Workers, q # r, NEW w, work' = [work EXCEPT ![q] = w] PROVE FALSE
  BY <1>1, <1>3
<1>4. ASSUME NEW q \in Workers,
             \/ ExtractSpecItems(q) \/ SpecItemsExtracted(q) \/ AnalyzeDocuments(q)
             \/ Classified(q) \/ DocumentsAnalyzed(q) \/ Abandoned(q)
      PROVE  q = r
  <2>1. CASE ExtractSpecItems(q) \/ AnalyzeDocuments(q)
    BY <1>3, <2>1 DEF ExtractSpecItems, AnalyzeDocuments, Start
  <2>2. CASE SpecItemsExtracted(q) \/ DocumentsAnalyzed(q) \/ Abandoned(q)
    BY <1>3, <2>2 DEF SpecItemsExtracted, DocumentsAnalyzed, Abandoned
  <2>3. CASE Classified(q)
    <3>1. \E w : work' = [work EXCEPT ![q] = w]
      BY <1>1, <2>3 DEF Classified
    <3>. QED BY <1>3, <3>1
  <2>. QED BY <1>4, <2>1, <2>2, <2>3
<1>5. ~ ExtractSpecItems(r) /\ ~ AnalyzeDocuments(r)
  BY <1>1 DEF ExtractSpecItems, AnalyzeDocuments, Start
<1>6. ~ Classified(r)
  <2>1. ASSUME Classified(r) PROVE FALSE
    <3>1. PICK found, new : work' = [work EXCEPT ![r].found = found, ![r].new = new]
      BY <2>1 DEF Classified
    <3>2. work'[r].op = work[r].op
      BY <1>1, <3>1 DEF Work
    <3>. QED BY <3>2 DEF NoWork
  <2>. QED BY <2>1
<1>7. \A i \in Items : ~ PatchSpecItem(i)
  BY <1>2 DEF PatchSpecItem
<1>8. \A k \in DocKeys : ~ PatchDocument(k)
  BY <1>2 DEF PatchDocument
<1>9. ~ Reanalyzed /\ ~ UNCHANGED itemVars
  BY <1>2 DEF Reanalyzed, itemVars
<1>. QED BY <1>4, <1>5, <1>6, <1>7, <1>8, <1>9 DEF ItemsNext

\* Seen from the items, a step of a call is a step of the items or none.
LEMMA ItemsPart ==
  ASSUME [EnrichmentNext]_allVars
  PROVE  [ItemsNext]_itemVars
BY OnePart

\* What a reviewer wrote before the extraction read the item outlives it
\* (merge_candidate_with_existing).
THEOREM ReviewsSurviveThm == EnrichmentSpec => ReviewsSurvive
<1>1. ASSUME JInv, [EnrichmentNext]_allVars,
             NEW r \in Workers, NEW i \in Items, work[r].op = "specs", work'[r] = NoWork,
             specs[i] # NoRow, work[r].specs[i] = specs[i], specs[i].status \in Protected
      PROVE  specs'[i] = [specs[i] EXCEPT !.required = specs'[i].required]
  <2>1. SpecItemsExtracted(r) \/ Abandoned(r)
    BY <1>1, ItemsPart, Endings DEF DocumentsAnalyzed
  <2>2. PICK old : old = specs[i]
    OBVIOUS
  <2>3. old \in Row
    BY <1>1, <2>2 DEF JInv, ItemTypes
  <2>4. CASE UNCHANGED specs
    <3>1. old = [old EXCEPT !.required = old.required]
      BY <2>3 DEF Row
    <3>. QED BY <2>2, <2>4, <3>1
  <2>5. CASE specs' = Merged(work[r])
    <3>1. specs'[i] = Merge(Candidate(i, work[r].elec), old)
      BY <1>1, <2>2, <2>5 DEF Merged
    <3>2. \E v : specs'[i] = [old EXCEPT !.required = v]
      BY <1>1, <2>2, <3>1 DEF Merge
    <3>3. PICK v : specs'[i] = [old EXCEPT !.required = v]
      BY <3>2
    <3>4. specs'[i].required = v
      BY <2>3, <3>3 DEF Row
    <3>. QED BY <2>2, <3>3, <3>4
  <2>. QED BY <2>1, <2>4, <2>5 DEF SpecItemsExtracted, Abandoned
<1>2. JInv /\ [EnrichmentNext]_allVars =>
        [\A r \in Workers, i \in Items :
           /\ work[r].op = "specs" /\ work'[r] = NoWork
           /\ specs[i] # NoRow /\ work[r].specs[i] = specs[i]
           /\ specs[i].status \in {"reviewed", "matched"}
           => specs'[i] = [specs[i] EXCEPT !.required = specs'[i].required]]_itemVars
  BY <1>1 DEF Protected
<1>. QED BY <1>2, Invariance, PTL DEF EnrichmentSpec, ReviewsSurvive

\* No analysis takes a document or a mark away, however late it ends
\* (analyze_required_documents).
THEOREM MarksSurviveThm == EnrichmentSpec => MarksSurvive
<1>1. ASSUME JInv, [EnrichmentNext]_allVars,
             NEW r \in Workers, NEW k \in DocKeys, work[r].op = "documents",
             work'[r] = NoWork, docs[k] # NoDoc
      PROVE  docs'[k] # NoDoc /\ docs'[k].checked = docs[k].checked
  <2>1. DocumentsAnalyzed(r) \/ Abandoned(r)
    BY <1>1, ItemsPart, Endings DEF SpecItemsExtracted
  <2>2. PICK old : old = docs[k]
    OBVIOUS
  <2>3. old \in Doc
    BY <1>1, <2>2 DEF JInv, ItemTypes
  <2>4. CASE UNCHANGED docs
    BY <1>1, <2>4
  <2>5. CASE docs' = [n \in DocKeys |->
                        IF n \in Touched(r) THEN Refreshed(docs[n], work[r].found[n]) ELSE docs[n]]
    <3>1. CASE k \notin Touched(r)
      BY <1>1, <2>5, <3>1
    <3>2. CASE k \in Touched(r)
      <4>1. PICK type : type = work[r].found[k]
        OBVIOUS
      <4>2. type # "none" /\ work[r].found # << >>
        BY <3>2, <4>1 DEF Touched
      <4>3. type \in {"required", "conditional"}
        BY <1>1, <4>1, <4>2 DEF JInv, WorkTypes
      <4>4. docs'[k] = [old EXCEPT !.type = type]
        BY <1>1, <2>2, <2>5, <3>2, <4>1 DEF Refreshed
      <4>5. docs'[k] \in Doc /\ docs'[k].checked = old.checked
        BY <2>3, <4>3, <4>4 DEF Doc
      <4>. QED BY <2>2, <4>5, RowFacts
    <3>. QED BY <3>1, <3>2
  <2>. QED BY <2>1, <2>4, <2>5 DEF DocumentsAnalyzed, Abandoned
<1>2. JInv /\ [EnrichmentNext]_allVars =>
        [\A r \in Workers, k \in DocKeys :
           work[r].op = "documents" /\ work'[r] = NoWork /\ docs[k] # NoDoc =>
             docs'[k] # NoDoc /\ docs'[k].checked = docs[k].checked]_itemVars
  BY <1>1
<1>. QED BY <1>2, Invariance, PTL DEF EnrichmentSpec, MarksSurvive

\* Texts change only when a call commits.
LEMMA OnlyCommits ==
  ASSUME [EnrichmentNext]_allVars, text' # text
  PROVE  \E r \in Requests : Commit(r)
<1>1. WorkspaceNext(Mentioned)
  BY OnePart DEF vars
<1>2. \A r \in Requests : ~ RollBack(r)
  BY DEF RollBack, Rest
<1>3. ~ Register /\ ~ Crash
  BY DEF Register, Crash, Rest
<1>4. \A r \in Requests : \A op, c : ~ Begin(r, op, c)
  BY DEF Begin
<1>5. \A r \in Requests : /\ ~ Analyze(r, Mentioned) /\ ~ Retrieve(r)
                          /\ ~ Generate(r) /\ ~ Verify(r)
  BY <1>4 DEF Analyze, Retrieve, Generate, Verify
<1>6. \A r \in Requests : Step(r) => Commit(r)
  BY <1>2 DEF Step, ReadEvidence, Delete, Lock, Cascade, Insert, InsertFails,
              DeadlockDetected, Rest
<1>. QED BY <1>1, <1>3, <1>5, <1>6 DEF WorkspaceNext

\* A verification that ran alone commits verdicts that are true of what is
\* committed then.
LEMMA VerifiedAlone ==
  ASSUME WInv, NEW r \in Busy, Commit(r), call[r].op = "verify", ~ call[r].overlapped
  PROVE  \A x \in DOMAIN text' :
           text'[x].check = "pass" <=> text'[x].refs \subseteq rows' /\ ~ text'[x].mark
<1>1. /\ r \in Requests /\ call[r] \in Call /\ Shape(call[r]) /\ call[r].todo = "commit"
      /\ text' = TextAfter(r) /\ rows' = Sees(r)
      /\ text \in [Table("section") -> Text]
  BY CallFacts DEF Busy, Commit, WInv, WorkspaceTypes
<1>2. /\ call[r].updated = Table("section") /\ call[r].evidence = Table("evidence")
      /\ call[r].deleted = {} /\ call[r].inserted = {}
  BY <1>1 DEF WInv, Undisturbed, Knows, Shape, Verifying, RowsIn
<1>3. rows' = rows
  BY <1>1, <1>2 DEF Sees
<1>4. text' = [x \in Table("section") |->
                 [text[x] EXCEPT !.check = Verdict(text[x], Table("evidence"))]]
  BY <1>1, <1>2 DEF TextAfter, Sees, Table
<1>5. ASSUME NEW x \in Table("section")
      PROVE  text'[x].check = "pass" <=> text'[x].refs \subseteq rows' /\ ~ text'[x].mark
  <2>1. PICK d : d = text[x]
    OBVIOUS
  <2>2. d \in Text
    BY <1>1, <2>1
  <2>3. PICK v : v = Verdict(d, Table("evidence"))
    OBVIOUS
  <2>4. text'[x] = [d EXCEPT !.check = v]
    BY <1>4, <2>1, <2>3
  <2>5. text'[x].check = v /\ text'[x].refs = d.refs /\ text'[x].mark = d.mark
    BY <2>2, <2>4 DEF Text
  <2>6. d.refs \subseteq Table("evidence") <=> d.refs \subseteq rows
    BY <2>2, Tables DEF WInv, Text
  <2>7. v = "pass" <=> d.refs \subseteq Table("evidence") /\ ~ d.mark
    BY <2>3 DEF Verdict
  <2>. QED BY <1>3, <2>5, <2>6, <2>7
<1>. QED BY <1>4, <1>5

\* What passes its fact check cites evidence, and a verification that ran
\* alone tells the truth about every section (verify_proposal_sections).
THEOREM VerifyTellsTheTruthThm == EnrichmentSpec => VerifyTellsTheTruth
<1>1. WInv => \A x \in DOMAIN text :
                text[x].check = "pass" => text[x].refs # {} /\ ~ text[x].mark
  BY DEF WInv, Marked
<1>2. ASSUME WInv, [EnrichmentNext]_allVars, NEW r \in Busy,
             call[r].op = "verify", ~ call[r].overlapped, text' # text
      PROVE  \A x \in DOMAIN text' :
               text'[x].check = "pass" <=> text'[x].refs \subseteq rows' /\ ~ text'[x].mark
  <2>1. PICK q \in Requests : Commit(q)
    BY <1>2, OnlyCommits
  <2>2. q \in Busy
    BY <1>2, <2>1, CallFacts DEF Commit
  <2>3. q = r
    BY <1>2, <2>2 DEF WInv, Undisturbed
  <2>. QED BY <1>2, <2>1, <2>3, VerifiedAlone
<1>3. WInv /\ [EnrichmentNext]_allVars =>
        [\A r \in Busy :
          call[r].op = "verify" /\ ~ call[r].overlapped /\ text' # text =>
            \A x \in DOMAIN text' :
              text'[x].check = "pass" <=> text'[x].refs \subseteq rows' /\ ~ text'[x].mark]_vars
  BY <1>2
<1>. QED BY <1>1, <1>3, Invariance, PTL DEF EnrichmentSpec, VerifyTellsTheTruth

-----------------------------------------------------------------------------
(* The calls never stand still. *)

\* A call that the others, by their locks, do not keep from going on, or one
\* that waits in a circle and is aborted.
CanGo(r) ==
  \/ call[r].todo \in {"read", "delete", "cascade", "commit"}
  \/ call[r].todo \in {"lock", "insert"} /\ ~ Waits(r)
  \/ \E S \in SUBSET Requests : r \in S /\ Cycle(S)

\* Each of a set of calls waits for another of the set.
Knot(S) == \A r \in S : \E q \in S : WaitsFor(r, q)

\* The calls under way are finitely many: their numbers differ.
LEMMA BusyIsFinite ==
  ASSUME WInv
  PROVE  IsFiniteSet(Busy)
<1>. DEFINE f == [r \in Busy |-> call[r].gen]
<1>1. calls \in Nat /\ 1 \in Int /\ calls \in Int
  BY WorkspaceAssumption DEF WInv, WorkspaceTypes
<1>2. IsFiniteSet(1..calls)
  BY <1>1, FS_Interval
<1>3. f \in Injection(Busy, 1..calls)
  <2>1. f \in [Busy -> 1..calls]
    BY DEF WInv, Generations
  <2>2. \A r, q \in Busy : f[r] = f[q] => r = q
    BY DEF WInv, Generations
  <2>. HIDE DEF f
  <2>. QED BY <2>1, <2>2 DEF Injection, IsInjective
<1>. HIDE DEF f
<1>. QED BY <1>2, <1>3, FS_Injection

\* Nobody waits for an idle slot, nor for itself.
LEMMA WaitsForTheBusy ==
  ASSUME WInv, NEW r, NEW q \in Requests, WaitsFor(r, q)
  PROVE  q \in Busy /\ q # r
<1>1. ASSUME call[q].op = "idle" PROVE FALSE
  <2>1. call[q] = Idle
    BY <1>1 DEF WInv, Shapes, Shape
  <2>2. call[q].deleted = {} /\ call[q].updated = {} /\ call[q].inserted = {}
    BY <2>1 DEF Idle
  <2>. QED BY <2>2 DEF WaitsFor, Holds
<1>. QED BY <1>1 DEF WaitsFor, Busy

\* A finite knot contains a smallest one.
LEMMA SmallestKnot ==
  ASSUME NEW K, IsFiniteSet(K), K # {}, Knot(K)
  PROVE  \E S \in SUBSET K : /\ S # {} /\ Knot(S)
                             /\ \A r \in S : S \ {r} = {} \/ ~ Knot(S \ {r})
<1>. DEFINE Knots == {S \in SUBSET K : S # {} /\ Knot(S)}
            T == {Cardinality(S) : S \in Knots}
<1>1. \A S \in SUBSET K : IsFiniteSet(S) /\ Cardinality(S) \in Nat
  BY FS_Subset, FS_CardinalityType
<1>2. T \in SUBSET Nat /\ T # {}
  BY <1>1
<1>3. PICK n \in T : \A m \in T : ~ (m < n)
  <2>. DEFINE R == OpToRel(<, Nat)
  <2>1. IsWellFoundedOn(R, Nat)
    BY NatLessThanWellFounded
  <2>. HIDE DEF T
  <2>2. \E n \in T : \A m \in T : <<m, n>> \notin R
    <3>. HIDE DEF R
    <3>. QED BY <1>2, <2>1, WFMin
  <2>3. PICK n \in T : \A m \in T : <<m, n>> \notin R
    BY <2>2
  <2>4. \A m \in T : m \in Nat /\ n \in Nat
    BY <1>2
  <2>. QED BY <2>3, <2>4, Zenon DEF OpToRel
<1>4. PICK S \in Knots : n = Cardinality(S)
  BY <1>3
<1>5. ASSUME NEW r \in S, S \ {r} # {}, Knot(S \ {r}) PROVE FALSE
  <2>1. S \ {r} \in Knots
    BY <1>5
  <2>2. IsFiniteSet(S) /\ Cardinality(S) \in Nat
    BY <1>1
  <2>3. Cardinality(S \ {r}) = n - 1 /\ n \in Nat
    BY <1>4, <2>2, FS_RemoveElement
  <2>4. n - 1 \in T /\ n - 1 < n
    BY <2>1, <2>3
  <2>. QED BY <1>3, <2>4
<1>. QED BY <1>5

\* Everybody waits only if some wait in a circle.
LEMMA KnotHasCycle ==
  ASSUME WInv, Busy # {}, Knot(Busy)
  PROVE  \E S \in SUBSET Busy : S # {} /\ Cycle(S)
<1>1. PICK S \in SUBSET Busy : /\ S # {} /\ Knot(S)
                               /\ \A r \in S : S \ {r} = {} \/ ~ Knot(S \ {r})
  BY BusyIsFinite, SmallestKnot
<1>2. \A r \in S : \E q \in S : WaitsFor(r, q)
  BY <1>1 DEF Knot
<1>3. \A r, q \in S : WaitsFor(r, q) => q # r
  BY WaitsForTheBusy DEF Busy
<1>4. ASSUME NEW r \in S, \A q \in S : ~ WaitsFor(q, r) PROVE FALSE
  <2>1. S \ {r} # {}
    BY <1>2, <1>3
  <2>2. Knot(S \ {r})
    BY <1>2, <1>4 DEF Knot
  <2>. QED BY <1>1, <2>1, <2>2
<1>5. Cycle(S)
  BY <1>1, <1>2, <1>4 DEF Cycle
<1>. QED BY <1>1, <1>5

\* While calls are under way, one of them can go on: it has work that waits
\* for no lock, or all the locks it needs, or it waits in a circle, which the
\* database breaks (the transactions of proposals.py).  This is NeverStuck,
\* with the guards of Step in the place of ENABLED.
THEOREM SomeoneCanGo == EnrichmentSpec => [](Busy # {} => \E r \in Busy : CanGo(r))
<1>1. ASSUME WInv, Busy # {} PROVE \E r \in Busy : CanGo(r)
  <2>1. ASSUME NEW r \in Busy, ~ CanGo(r) PROVE \E q \in Busy : WaitsFor(r, q)
    <3>1. call[r].todo \in {"read", "delete", "cascade", "commit", "lock", "insert"}
      <4>1. Shape(call[r]) /\ call[r].op \in {"analyze", "retrieve", "generate", "verify"}
        <5>1. call[r] \in Call /\ call[r].op # "idle" /\ Shape(call[r])
          BY <1>1 DEF WInv, WorkspaceTypes, Shapes, Busy
        <5>. QED BY <5>1 DEF Call
      <4>. QED BY <4>1 DEF Shape, Analyzing, Retrieving, Generating, Verifying
    <3>2. Waits(r)
      BY <2>1, <3>1 DEF CanGo
    <3>3. PICK q \in Requests : WaitsFor(r, q)
      BY <3>2 DEF Waits
    <3>4. q \in Busy
      BY <1>1, <3>3, WaitsForTheBusy
    <3>. QED BY <3>3, <3>4
  <2>2. CASE \A r \in Busy : ~ CanGo(r)
    <3>1. Knot(Busy)
      BY <2>1, <2>2 DEF Knot
    <3>2. PICK S \in SUBSET Busy : S # {} /\ Cycle(S)
      BY <1>1, <3>1, KnotHasCycle
    <3>3. S \in SUBSET Requests
      BY DEF Busy
    <3>. QED BY <2>2, <3>2, <3>3 DEF CanGo
  <2>. QED BY <2>2
<1>. QED BY <1>1, Invariance, PTL
=============================================================================
