------------------------ MODULE NoticePipelineProofs ------------------------
(***************************************************************************)
(* Proofs about NoticePipeline, for any number of notices and of requests  *)
(* in flight.  The inductive invariant IInv adds to TypeOK and             *)
(* CollectedIsPristine what a request knows about the row it read: what    *)
(* its guard established (Admitted), that a notice a later handler works   *)
(* on never returns to "collected" (PastCollected), and that the copy of a *)
(* request nobody overtook is the row (Fresh).  Every handler's commit is  *)
(* shown once to be a GoodWrite; the theorems follow from that.            *)
(***************************************************************************)
EXTENDS NoticePipeline, TLAPS

(* The functions of NoticeStatus. *)

\* The position of each status, for the provers.
LEMMA OrderValues ==
  /\ STATUS_ORDER["collected"] = 0
  /\ STATUS_ORDER["analyzed"] = 1
  /\ STATUS_ORDER["attachments_fetched"] = 2
  /\ STATUS_ORDER["documents_analyzed"] = 3
  /\ STATUS_ORDER["spec_extracted"] = 4
  /\ STATUS_ORDER["hwp_composed"] = 5
  /\ STATUS_ORDER["form_filled"] = 6
BY DEF STATUS_ORDER

\* A processing status stands where STATUS_ORDER puts it, and is not final.
LEMMA RankOfProcessing ==
  ASSUME NEW s \in PROCESSING_STATUSES
  PROVE  /\ Rank(s) = STATUS_ORDER[s]
         /\ STATUS_ORDER[s] \in 0..6
         /\ s \notin FINAL_STATUSES
         /\ s # NoStatus
<1>1. s \notin FINAL_STATUSES /\ s # NoStatus
  BY DEF PROCESSING_STATUSES, FINAL_STATUSES, NoStatus
<1>2. STATUS_ORDER[s] \in 0..6
  BY OrderValues DEF PROCESSING_STATUSES
<1>3. Rank(s) = STATUS_ORDER[s]
  BY <1>1 DEF Rank
<1>. QED BY <1>1, <1>2, <1>3

\* A final status stands after every processing status.
LEMMA RankOfFinal ==
  ASSUME NEW s \in FINAL_STATUSES
  PROVE  Rank(s) = 7 /\ s \notin PROCESSING_STATUSES /\ s # NoStatus
BY DEF Rank, PROCESSING_STATUSES, FINAL_STATUSES, NoStatus

\* A missing row stands before "collected".
LEMMA RankOfNone == Rank(NoStatus) = -1
BY DEF Rank, NoStatus, PROCESSING_STATUSES, FINAL_STATUSES

\* advance_status returns one of its two arguments.
LEMMA AdvanceTyped ==
  ASSUME NEW s \in Statuses, NEW t \in PROCESSING_STATUSES
  PROVE  /\ advance_status(s, t) \in Statuses
         /\ advance_status(s, t) = s \/ advance_status(s, t) = t
BY RankOfProcessing, RankOfFinal DEF advance_status, Statuses

\* advance_status never moves a status back (status.py:44, its docstring).
LEMMA AdvanceForward ==
  ASSUME NEW s \in Statuses, NEW t \in PROCESSING_STATUSES
  PROVE  Forward(s, advance_status(s, t))
BY RankOfProcessing, RankOfFinal DEF advance_status, Statuses, Forward

\* Whatever can_transition allows is a move forward.
LEMMA TransitionForward ==
  ASSUME NEW s \in Statuses \cup {NoStatus}, NEW t \in Statuses, can_transition(s, t)
  PROVE  Forward(s, t)
<1>1. CASE s = NoStatus
  BY <1>1, RankOfNone, RankOfProcessing, OrderValues DEF can_transition, Forward, PROCESSING_STATUSES
<1>2. CASE s # NoStatus
  BY <1>2, RankOfProcessing, RankOfFinal, OrderValues
     DEF can_transition, Forward, Statuses
<1>. QED BY <1>1, <1>2

\* Two moves forward are one: the HWP handlers advance twice in a commit.
LEMMA ForwardTransitive ==
  ASSUME NEW s \in Statuses \cup {NoStatus}, NEW t \in Statuses, NEW u \in Statuses,
         Forward(s, t), Forward(t, u)
  PROVE  Forward(s, u)
BY RankOfProcessing, RankOfFinal, RankOfNone DEF Forward, Statuses

\* notify only ever asks for a final status.
LEMMA NotifyStatusFinal ==
  ASSUME NEW fit \in 0..100
  PROVE  compute_notify_status(fit) \in FINAL_STATUSES
BY DEF compute_notify_status, FINAL_STATUSES

\* A status that was advanced is no longer "collected".
LEMMA AdvanceLeavesCollected ==
  ASSUME NEW s \in Statuses, NEW t \in PROCESSING_STATUSES \ {"collected"}
  PROVE  advance_status(s, t) # "collected"
<1>1. CASE s = "collected"
  BY <1>1, OrderValues DEF advance_status, PROCESSING_STATUSES, FINAL_STATUSES, NoStatus
<1>2. CASE s # "collected"
  BY <1>2, AdvanceTyped
<1>. QED BY <1>1, <1>2

-----------------------------------------------------------------------------
(* The inductive invariant. *)

\* What the guard of a request in flight established about the row it read.
Admitted(r) ==
  /\ req[r].notice \in Notices
  /\ req[r].status \in Statuses
  /\ req[r].op = "analyze" => can_transition(req[r].status, "analyzed")
  /\ req[r].op = "autofill" => can_transition(req[r].status, "form_filled")
  /\ req[r].op = "notify" => /\ req[r].plan \in FINAL_STATUSES
                            /\ can_transition(req[r].status, req[r].plan)

\* The handlers that accept a notice which is still "collected".
EarlyOps == {"analyze", "fetch", "spec"}

\* Every other handler read, and still finds, a notice past "collected".
PastCollected(r) ==
  req[r].op \notin EarlyOps => /\ req[r].status # "collected"
                              /\ row[req[r].notice].status # "collected"

\* A request nobody overtook works on the row as it is.
Fresh(r) ==
  r \notin overtaken =>
    /\ req[r].status = row[req[r].notice].status
    /\ req[r].sections = row[req[r].notice].sections
    /\ req[r].op = "notify" => req[r].plan = compute_notify_status(row[req[r].notice].fit)

InFlight(r) == req[r] # Idle

IInv == /\ TypeOK
        /\ CollectedIsPristine
        /\ \A r \in Requests :
             /\ req[r].op = "idle" => req[r] = Idle
             /\ InFlight(r) => /\ row[req[r].notice].status # NoStatus
                              /\ Admitted(r)
                              /\ PastCollected(r)
                              /\ Fresh(r)

\* The empty table satisfies the invariant.
LEMMA InitIInv == Init => IInv
BY RequestAssumption
   DEF Init, IInv, TypeOK, CollectedIsPristine, NoRow, Row, Idle, Request, InFlight,
       Statuses, Plans, OpNames

-----------------------------------------------------------------------------
(* What a commit writes. *)

\* The commit of request r replaces the row of its notice by "new"; unless r
\* has been overtaken, the status moves forward, only sections r may drop are
\* lost, and a notice that becomes final gets the status of its score.
GoodWrite(r, new) ==
  /\ InFlight(r)
  /\ Finish(r, new)
  /\ new \in Row
  /\ new.status \in Statuses \ {"collected"}
  /\ r \notin overtaken =>
       LET old == row[req[r].notice]
       IN  /\ Forward(old.status, new.status)
           /\ old.sections \ new.sections \subseteq MayDrop(req[r].op)
           /\ old.status \notin FINAL_STATUSES /\ new.status \in FINAL_STATUSES
                => new.status = compute_notify_status(old.fit)

Commit(r) == \/ CommitAnalyze(r) \/ CommitNotify(r) \/ CommitGrade(r) \/ CommitAutofill(r)
             \/ CommitDocuments(r) \/ CommitFetch(r) \/ CommitSpec(r) \/ CommitPatchSpec(r)
             \/ CommitPutFieldsFailed(r) \/ CommitPutFields(r) \/ CommitBlocked(r)
             \/ CommitCompose(r) \/ CommitProposal(r) \/ CommitEdit(r) \/ CommitReview(r)

\* analyze admits "collected" only, so "analyzed" is a move forward.
LEMMA CommitAnalyzeGood ==
  ASSUME IInv, NEW r \in Requests, CommitAnalyze(r)
  PROVE  \E new : GoodWrite(r, new)
<1>. DEFINE old == row[req[r].notice]
<1>1. PICK fit \in FitScores :
        Finish(r, [old EXCEPT !.status = "analyzed", !.fit = fit, !.sections = {"claude"}])
  BY DEF CommitAnalyze, Current
<1>. DEFINE new == [old EXCEPT !.status = "analyzed", !.fit = fit, !.sections = {"claude"}]
<1>2. req[r].op = "analyze" /\ InFlight(r)
  BY DEF CommitAnalyze, Running, InFlight, Idle
<1>3. old \in Row /\ fit \in 0..100 /\ Admitted(r) /\ Fresh(r)
  BY <1>2, RequestAssumption DEF IInv, TypeOK, Admitted
<1>4. /\ new \in Row
      /\ new.status = "analyzed"
  BY <1>3 DEF Row, Statuses, PROCESSING_STATUSES, Sections
<1>5. r \notin overtaken => Forward(old.status, "analyzed")
  BY <1>2, <1>3, TransitionForward DEF Admitted, Fresh, Statuses, PROCESSING_STATUSES
<1>6. old.sections \ new.sections \subseteq MayDrop(req[r].op)
  BY <1>2, <1>3 DEF MayDrop, Row
<1>7. GoodWrite(r, new)
  BY <1>1, <1>2, <1>4, <1>5, <1>6 DEF GoodWrite, Statuses, PROCESSING_STATUSES, FINAL_STATUSES
<1>. QED BY <1>7

\* What the invariant says of a request in flight, and of the row it read.
LEMMA InFlightFacts ==
  ASSUME IInv, NEW r \in Requests, InFlight(r)
  PROVE  /\ req[r] \in Request
         /\ req[r].notice \in Notices
         /\ row[req[r].notice] \in Row
         /\ row[req[r].notice].status \in Statuses
         /\ req[r].status \in Statuses
         /\ req[r].sections \subseteq Sections
         /\ Admitted(r) /\ PastCollected(r) /\ Fresh(r)
BY DEF IInv, TypeOK, Admitted, Row, Request

\* What the handlers write over the row they find: the document, the child
\* rows, the status, the score.
WithDocument(old, secs) == [old EXCEPT !.sections = secs]
WithTables(old, secs, tabs) == [old EXCEPT !.sections = secs, !.tables = tabs]
WithStatus(old, st, secs) == [old EXCEPT !.status = st, !.sections = secs]
WithAll(old, st, secs, tabs) == [old EXCEPT !.status = st, !.sections = secs, !.tables = tabs]
WithScore(old, fit, secs) == [old EXCEPT !.fit = fit, !.graded = TRUE, !.sections = secs]

\* A row with a new document is a row.
LEMMA DocumentWritten ==
  ASSUME NEW old \in Row, NEW secs \in SUBSET Sections
  PROVE  WithDocument(old, secs) \in Row /\ WithDocument(old, secs).status = old.status /\ WithDocument(old, secs).sections = secs
BY DEF Row, WithDocument

\* ... with a new document and child rows,
LEMMA TablesWritten ==
  ASSUME NEW old \in Row, NEW secs \in SUBSET Sections, NEW tabs \in SUBSET Tables
  PROVE  WithTables(old, secs, tabs) \in Row /\ WithTables(old, secs, tabs).status = old.status /\ WithTables(old, secs, tabs).sections = secs
BY DEF Row, WithTables

\* ... with a new document and status,
LEMMA StatusWritten ==
  ASSUME NEW old \in Row, NEW st \in Statuses, NEW secs \in SUBSET Sections
  PROVE  WithStatus(old, st, secs) \in Row /\ WithStatus(old, st, secs).status = st /\ WithStatus(old, st, secs).sections = secs
BY DEF Row, WithStatus

\* ... with a new document and score,
LEMMA ScoreWritten ==
  ASSUME NEW old \in Row, NEW fit \in FitScores, NEW secs \in SUBSET Sections
  PROVE  /\ WithScore(old, fit, secs) \in Row
         /\ WithScore(old, fit, secs).status = old.status
         /\ WithScore(old, fit, secs).sections = secs
BY RequestAssumption DEF Row, WithScore

\* ... with a final status and nothing else,
LEMMA FinalWritten ==
  ASSUME NEW old \in Row, NEW st \in FINAL_STATUSES
  PROVE  /\ [old EXCEPT !.status = st] \in Row
         /\ [old EXCEPT !.status = st].status = st
         /\ [old EXCEPT !.status = st].sections = old.sections
BY DEF Row, Statuses

\* ... and with a new document, child rows and status.
LEMMA AllWritten ==
  ASSUME NEW old \in Row, NEW st \in Statuses,
         NEW secs \in SUBSET Sections, NEW tabs \in SUBSET Tables
  PROVE  WithAll(old, st, secs, tabs) \in Row
         /\ WithAll(old, st, secs, tabs).status = st /\ WithAll(old, st, secs, tabs).sections = secs
BY DEF Row, WithAll

\* A handler that computes the new status with advance_status, from a status
\* it knows not to be final by itself, writes a good row.
LEMMA AdvanceGood ==
  ASSUME IInv, NEW r \in Requests, InFlight(r), req[r].op # "notify",
         NEW target \in PROCESSING_STATUSES \ {"collected"},
         NEW new \in Row, Finish(r, new),
         new.status = advance_status(req[r].status, target),
         req[r].sections \ new.sections \subseteq MayDrop(req[r].op)
  PROVE  GoodWrite(r, new)
<1>1. /\ new.status \in Statuses \ {"collected"}
      /\ new.status = req[r].status \/ new.status = target
  BY InFlightFacts, AdvanceTyped, AdvanceLeavesCollected
<1>2. r \notin overtaken => Forward(row[req[r].notice].status, new.status)
  BY InFlightFacts, AdvanceForward DEF Fresh
<1>3. r \notin overtaken => row[req[r].notice].sections \ new.sections \subseteq MayDrop(req[r].op)
  BY InFlightFacts DEF Fresh
<1>4. target \notin FINAL_STATUSES
  BY RankOfProcessing
<1>5. r \notin overtaken /\ row[req[r].notice].status \notin FINAL_STATUSES
        => new.status \notin FINAL_STATUSES
  BY <1>1, <1>4, InFlightFacts DEF Fresh
<1>. QED BY <1>1, <1>2, <1>3, <1>5 DEF GoodWrite

\* A handler past the early ones that leaves the status column alone.
LEMMA KeepGood ==
  ASSUME IInv, NEW r \in Requests, InFlight(r), req[r].op \notin EarlyOps,
         NEW new \in Row, Finish(r, new),
         new.status = row[req[r].notice].status,
         req[r].sections \ new.sections \subseteq MayDrop(req[r].op)
  PROVE  GoodWrite(r, new)
<1>1. new.status \in Statuses \ {"collected"}
  BY InFlightFacts DEF PastCollected
<1>2. r \notin overtaken => row[req[r].notice].sections \ new.sections \subseteq MayDrop(req[r].op)
  BY InFlightFacts DEF Fresh
<1>3. Forward(row[req[r].notice].status, new.status)
  BY DEF Forward
<1>. QED BY <1>1, <1>2, <1>3 DEF GoodWrite

\* notify writes the final status its guard found reachable.
LEMMA CommitNotifyGood ==
  ASSUME IInv, NEW r \in Requests, CommitNotify(r)
  PROVE  \E new : GoodWrite(r, new)
<1>. DEFINE old == row[req[r].notice]
            new == [old EXCEPT !.status = req[r].plan]
<1>1. req[r].op = "notify" /\ InFlight(r) /\ Finish(r, new)
  BY DEF CommitNotify, Running, InFlight, Idle, Current
<1>2. req[r].plan \in FINAL_STATUSES /\ can_transition(req[r].status, req[r].plan)
  BY <1>1, InFlightFacts DEF Admitted
<1>3. new \in Row /\ new.status = req[r].plan /\ new.sections = old.sections
  <2>1. old \in Row
    BY <1>1, InFlightFacts
  <2>. HIDE DEF old
  <2>. QED BY <1>2, <2>1, FinalWritten
<1>4. r \notin overtaken => Forward(old.status, new.status)
  BY <1>1, <1>2, <1>3, InFlightFacts, TransitionForward DEF Fresh, Statuses
<1>5. new.status \in Statuses \ {"collected"}
  BY <1>2, <1>3 DEF Statuses, FINAL_STATUSES
<1>6. r \notin overtaken => new.status = compute_notify_status(old.fit)
  BY <1>1, <1>3, InFlightFacts DEF Fresh
<1>7. GoodWrite(r, new)
  BY <1>1, <1>3, <1>4, <1>5, <1>6 DEF GoodWrite
<1>. QED BY <1>7

\* grade adds its section and leaves the status column alone.
LEMMA CommitGradeGood ==
  ASSUME IInv, NEW r \in Requests, CommitGrade(r)
  PROVE  \E new : GoodWrite(r, new)
<1>. DEFINE old == row[req[r].notice]
            newRow(fit) == WithScore(old, fit, req[r].sections \cup {"grade"})
<1>1. PICK fit \in FitScores : Finish(r, newRow(fit))
  BY DEF CommitGrade, Current, WithScore
<1>2. req[r].op = "grade" /\ InFlight(r)
  BY DEF CommitGrade, Running, InFlight, Idle
<1>3. /\ newRow(fit) \in Row /\ newRow(fit).status = old.status
      /\ req[r].sections \subseteq newRow(fit).sections
  <2>1. old \in Row /\ req[r].sections \cup {"grade"} \in SUBSET Sections
    BY <1>2, InFlightFacts DEF Sections
  <2>. QED BY <2>1, ScoreWritten
<1>4. GoodWrite(r, newRow(fit))
  BY <1>1, <1>2, <1>3, KeepGood DEF EarlyOps
<1>. QED BY <1>4

\* autofill-form writes "form_filled", which its guard found reachable.
LEMMA CommitAutofillGood ==
  ASSUME IInv, NEW r \in Requests, CommitAutofill(r)
  PROVE  \E new : GoodWrite(r, new)
<1>. DEFINE old == row[req[r].notice]
            new == WithStatus(old, "form_filled", req[r].sections \cup {"docs", "bid_form"})
<1>1. req[r].op = "autofill" /\ InFlight(r) /\ Finish(r, new)
  BY DEF CommitAutofill, Running, InFlight, Idle, Current, WithStatus
<1>2. "form_filled" \in Statuses /\ "form_filled" \notin FINAL_STATUSES
  BY DEF Statuses, PROCESSING_STATUSES, FINAL_STATUSES
<1>3. new \in Row /\ new.status = "form_filled" /\ req[r].sections \subseteq new.sections
  <2>1. old \in Row /\ req[r].sections \cup {"docs", "bid_form"} \in SUBSET Sections
    BY <1>1, InFlightFacts DEF Sections
  <2>. QED BY <1>2, <2>1, StatusWritten
<1>4. r \notin overtaken => Forward(old.status, "form_filled")
  BY <1>1, <1>2, InFlightFacts, TransitionForward DEF Fresh, Admitted
<1>5. r \notin overtaken => old.sections \ new.sections \subseteq MayDrop(req[r].op)
  BY <1>1, <1>3, InFlightFacts DEF Fresh
<1>6. GoodWrite(r, new)
  BY <1>1, <1>2, <1>3, <1>4, <1>5 DEF GoodWrite
<1>. QED BY <1>6

\* documents/analyze advances the status and drops the HWP jobs by design.
LEMMA CommitDocumentsGood ==
  ASSUME IInv, NEW r \in Requests, CommitDocuments(r)
  PROVE  \E new : GoodWrite(r, new)
<1>. DEFINE old == row[req[r].notice]
            new == WithStatus(old, advance_status(req[r].status, "documents_analyzed"),
                              Rebuilt(req[r].sections))
<1>1. req[r].op = "documents" /\ InFlight(r) /\ Finish(r, new)
  BY DEF CommitDocuments, Running, InFlight, Idle, Current, WithStatus
<1>2. "documents_analyzed" \in PROCESSING_STATUSES \ {"collected"}
  BY DEF PROCESSING_STATUSES
<1>3. advance_status(req[r].status, "documents_analyzed") \in Statuses
  BY <1>1, <1>2, InFlightFacts, AdvanceTyped
<1>4. /\ Rebuilt(req[r].sections) \in SUBSET Sections
      /\ req[r].sections \ Rebuilt(req[r].sections) \subseteq MayDrop(req[r].op)
  BY <1>1, InFlightFacts DEF Rebuilt, Sections, MayDrop
<1>5. /\ new \in Row
      /\ new.status = advance_status(req[r].status, "documents_analyzed")
      /\ new.sections = Rebuilt(req[r].sections)
  BY <1>1, <1>3, <1>4, InFlightFacts, StatusWritten
<1>6. GoodWrite(r, new)
  BY <1>1, <1>2, <1>4, <1>5, AdvanceGood
<1>. QED BY <1>6

\* attachments/fetch advances the status from any state of the notice.
LEMMA CommitFetchGood ==
  ASSUME IInv, NEW r \in Requests, CommitFetch(r)
  PROVE  \E new : GoodWrite(r, new)
<1>. DEFINE old == row[req[r].notice]
            fetched == advance_status(req[r].status, "attachments_fetched")
            newRow(uploads) == WithStatus(old, fetched, Rebuilt(uploads))
<1>1. PICK uploads \in {req[r].sections, req[r].sections \cup {"uploads"},
                        req[r].sections \ {"uploads"}} : Finish(r, newRow(uploads))
  BY DEF CommitFetch, Current, WithStatus
<1>2. req[r].op = "fetch" /\ InFlight(r)
  BY DEF CommitFetch, Running, InFlight, Idle
<1>3. "attachments_fetched" \in PROCESSING_STATUSES \ {"collected"}
  BY DEF PROCESSING_STATUSES
<1>4. fetched \in Statuses
  BY <1>2, <1>3, InFlightFacts, AdvanceTyped
<1>5. Rebuilt(uploads) \in SUBSET Sections /\ req[r].sections \ Rebuilt(uploads) \subseteq MayDrop(req[r].op)
  BY <1>2, InFlightFacts DEF Rebuilt, Sections, MayDrop
<1>6. /\ newRow(uploads) \in Row
      /\ newRow(uploads).status = fetched
      /\ newRow(uploads).sections = Rebuilt(uploads)
  BY <1>2, <1>4, <1>5, InFlightFacts, StatusWritten
<1>7. GoodWrite(r, newRow(uploads))
  BY <1>1, <1>2, <1>3, <1>5, <1>6, AdvanceGood
<1>. QED BY <1>7

\* spec-items/extract advances the status and only adds to the document.
LEMMA CommitSpecGood ==
  ASSUME IInv, NEW r \in Requests, CommitSpec(r)
  PROVE  \E new : GoodWrite(r, new)
<1>. DEFINE old == row[req[r].notice]
            extracted == advance_status(req[r].status, "spec_extracted")
            new == WithAll(old, extracted, req[r].sections \cup {"elec_spec"},
                           old.tables \cup {"notice_spec_items"})
<1>1. req[r].op = "spec" /\ InFlight(r) /\ Finish(r, new)
  BY DEF CommitSpec, Running, InFlight, Idle, Current, WithAll
<1>2. "spec_extracted" \in PROCESSING_STATUSES \ {"collected"}
  BY DEF PROCESSING_STATUSES
<1>3. extracted \in Statuses
  BY <1>1, <1>2, InFlightFacts, AdvanceTyped
<1>4. new \in Row /\ new.status = extracted /\ req[r].sections \subseteq new.sections
  <2>1. /\ old \in Row
        /\ req[r].sections \cup {"elec_spec"} \in SUBSET Sections
        /\ old.tables \cup {"notice_spec_items"} \in SUBSET Tables
    BY <1>1, InFlightFacts DEF Row, Sections, Tables
  <2>. QED BY <1>3, <2>1, AllWritten
<1>5. GoodWrite(r, new)
  BY <1>1, <1>2, <1>4, AdvanceGood
<1>. QED BY <1>5

\* The correction of a spec item leaves the status column alone.
LEMMA CommitPatchSpecGood ==
  ASSUME IInv, NEW r \in Requests, CommitPatchSpec(r)
  PROVE  \E new : GoodWrite(r, new)
<1>. DEFINE old == row[req[r].notice]
            new == WithDocument(old, req[r].sections \cup {"elec_spec"})
<1>1. req[r].op = "patch_spec" /\ InFlight(r) /\ Finish(r, new)
  BY DEF CommitPatchSpec, Running, InFlight, Idle, Current, WithDocument
<1>2. new \in Row /\ new.status = old.status /\ req[r].sections \subseteq new.sections
  <2>1. old \in Row /\ req[r].sections \cup {"elec_spec"} \in SUBSET Sections
    BY <1>1, InFlightFacts DEF Sections
  <2>. QED BY <2>1, DocumentWritten
<1>3. GoodWrite(r, new)
  BY <1>1, <1>2, KeepGood DEF EarlyOps
<1>. QED BY <1>3

\* A failed put-fields adds its job and leaves the status column alone.
LEMMA CommitPutFieldsFailedGood ==
  ASSUME IInv, NEW r \in Requests, CommitPutFieldsFailed(r)
  PROVE  \E new : GoodWrite(r, new)
<1>. DEFINE old == row[req[r].notice]
            new == WithTables(old, req[r].sections \cup {"hwp_jobs"},
                              old.tables \cup {"hwp_generation_jobs"})
<1>1. req[r].op = "put_fields" /\ InFlight(r) /\ Finish(r, new)
  BY DEF CommitPutFieldsFailed, Running, InFlight, Idle, Current, WithTables
<1>2. new \in Row /\ new.status = old.status /\ req[r].sections \subseteq new.sections
  <2>1. /\ old \in Row
        /\ req[r].sections \cup {"hwp_jobs"} \in SUBSET Sections
        /\ old.tables \cup {"hwp_generation_jobs"} \in SUBSET Tables
    BY <1>1, InFlightFacts DEF Row, Sections, Tables
  <2>. QED BY <2>1, TablesWritten
<1>3. GoodWrite(r, new)
  BY <1>1, <1>2, KeepGood DEF EarlyOps
<1>. QED BY <1>3

\* The review of a job adds its mirror and leaves the status column alone.
LEMMA CommitReviewGood ==
  ASSUME IInv, NEW r \in Requests, CommitReview(r)
  PROVE  \E new : GoodWrite(r, new)
<1>. DEFINE old == row[req[r].notice]
            new == WithDocument(old, req[r].sections \cup {"hwp_jobs"})
<1>1. req[r].op = "review" /\ InFlight(r) /\ Finish(r, new)
  BY DEF CommitReview, Running, InFlight, Idle, Current, WithDocument
<1>2. new \in Row /\ new.status = old.status /\ req[r].sections \subseteq new.sections
  <2>1. old \in Row /\ req[r].sections \cup {"hwp_jobs"} \in SUBSET Sections
    BY <1>1, InFlightFacts DEF Sections
  <2>. QED BY <2>1, DocumentWritten
<1>3. GoodWrite(r, new)
  BY <1>1, <1>2, KeepGood DEF EarlyOps
<1>. QED BY <1>3

\* A blocked composition writes back the document it read.
LEMMA CommitBlockedGood ==
  ASSUME IInv, NEW r \in Requests, CommitBlocked(r)
  PROVE  \E new : GoodWrite(r, new)
<1>. DEFINE old == row[req[r].notice]
            new == WithDocument(old, req[r].sections)
<1>1. req[r].op \in {"compose", "proposal"} /\ InFlight(r) /\ Finish(r, new)
  BY DEF CommitBlocked, Running, InFlight, Idle, Current, WithDocument
<1>2. new \in Row /\ new.status = old.status /\ req[r].sections \subseteq new.sections
  BY <1>1, InFlightFacts, DocumentWritten
<1>3. GoodWrite(r, new)
  BY <1>1, <1>2, KeepGood DEF EarlyOps
<1>. QED BY <1>3

\* The edits drop nothing but uploads.
LEMMA CommitEditGood ==
  ASSUME IInv, NEW r \in Requests, CommitEdit(r)
  PROVE  \E new : GoodWrite(r, new)
<1>. DEFINE old == row[req[r].notice]
<1>1. PICK sections \in {req[r].sections, req[r].sections \cup {"uploads"},
                         req[r].sections \ {"uploads"}, req[r].sections \cup {"exports"}} :
        Finish(r, WithDocument(old, sections))
  BY DEF CommitEdit, Current, ChecklistEdits, UploadEdits, ExportEdits, WithDocument
<1>2. req[r].op = "edit" /\ InFlight(r)
  BY DEF CommitEdit, Running, InFlight, Idle
<1>3. sections \in SUBSET Sections /\ req[r].sections \ sections \subseteq MayDrop(req[r].op)
  BY <1>2, InFlightFacts DEF Sections, MayDrop
<1>. DEFINE new == WithDocument(old, sections)
<1>4. new \in Row /\ new.status = old.status /\ new.sections = sections
  BY <1>2, <1>3, InFlightFacts, DocumentWritten
<1>5. GoodWrite(r, new)
  BY <1>1, <1>2, <1>3, <1>4, KeepGood DEF EarlyOps
<1>. QED BY <1>5

\* The HWP handlers chain at most two advances, so their status is one of
\* three, none of them "collected" or final by the handler's own doing.
LEMMA ChainGood ==
  ASSUME IInv, NEW r \in Requests, InFlight(r), req[r].op \notin EarlyOps \cup {"notify"},
         NEW composed \in {req[r].status, advance_status(req[r].status, "hwp_composed")},
         NEW new \in Row, Finish(r, new),
         new.status \in {composed, advance_status(composed, "form_filled")},
         req[r].sections \subseteq new.sections
  PROVE  GoodWrite(r, new)
<1>1. /\ "hwp_composed" \in PROCESSING_STATUSES \ {"collected"}
      /\ "form_filled" \in PROCESSING_STATUSES \ {"collected"}
  BY DEF PROCESSING_STATUSES
<1>2. req[r].status \in Statuses \ {"collected"}
  BY InFlightFacts DEF PastCollected
<1>3. /\ composed \in Statuses \ {"collected"}
      /\ Forward(req[r].status, composed)
      /\ composed \in {req[r].status, "hwp_composed"}
  BY <1>1, <1>2, AdvanceTyped, AdvanceLeavesCollected, AdvanceForward DEF Forward
<1>4. /\ new.status \in Statuses \ {"collected"}
      /\ Forward(composed, new.status)
      /\ new.status \in {req[r].status, "hwp_composed", "form_filled"}
  BY <1>1, <1>3, AdvanceTyped, AdvanceLeavesCollected, AdvanceForward DEF Forward
<1>5. Forward(req[r].status, new.status)
  BY <1>2, <1>3, <1>4, ForwardTransitive
<1>6. "hwp_composed" \notin FINAL_STATUSES /\ "form_filled" \notin FINAL_STATUSES
  BY DEF FINAL_STATUSES
<1>. QED BY <1>4, <1>5, <1>6, InFlightFacts DEF GoodWrite, Fresh

\* put-fields advances the status at most twice.
LEMMA CommitPutFieldsGood ==
  ASSUME IInv, NEW r \in Requests, CommitPutFields(r)
  PROVE  \E new : GoodWrite(r, new)
<1>. DEFINE old == row[req[r].notice]
            composed == advance_status(req[r].status, "hwp_composed")
            written(template, clean) ==
              IF template = "bid_form" /\ clean THEN advance_status(composed, "form_filled")
                                                ELSE composed
            kept(template) == req[r].sections \cup {"exports", "hwp_jobs"}
                                \cup (IF template = "proposal" THEN {"proposal"} ELSE {})
            newRow(template, clean) ==
              WithAll(old, written(template, clean), kept(template),
                      old.tables \cup {"hwp_generation_jobs"})
<1>1. PICK template \in {"bid_form", "proposal"}, clean \in BOOLEAN :
        Finish(r, newRow(template, clean))
  BY DEF CommitPutFields, Current, WithAll
<1>2. req[r].op = "put_fields" /\ InFlight(r)
  BY DEF CommitPutFields, Running, InFlight, Idle
<1>3. composed \in Statuses /\ written(template, clean) \in Statuses
  BY <1>2, InFlightFacts, AdvanceTyped DEF PROCESSING_STATUSES
<1>4. kept(template) \in SUBSET Sections /\ req[r].sections \subseteq kept(template)
  BY <1>2, InFlightFacts DEF Sections
<1>5. /\ newRow(template, clean) \in Row
      /\ newRow(template, clean).status = written(template, clean)
      /\ newRow(template, clean).sections = kept(template)
  <2>1. old \in Row /\ old.tables \cup {"hwp_generation_jobs"} \in SUBSET Tables
    BY <1>2, InFlightFacts DEF Row, Tables
  <2>. HIDE DEF written, kept
  <2>. QED BY <1>3, <1>4, <2>1, AllWritten
<1>6. GoodWrite(r, newRow(template, clean))
  BY <1>1, <1>2, <1>4, <1>5, ChainGood DEF EarlyOps
<1>. QED BY <1>6

\* hwp-compose advances the status at most twice.
LEMMA CommitComposeGood ==
  ASSUME IInv, NEW r \in Requests, CommitCompose(r)
  PROVE  \E new : GoodWrite(r, new)
<1>. DEFINE old == row[req[r].notice]
            composed(tech) == IF tech = "made" THEN advance_status(req[r].status, "hwp_composed")
                                               ELSE req[r].status
            written(bid, tech) == IF bid = "clean" /\ tech # "failed"
                                    THEN advance_status(composed(tech), "form_filled")
                                    ELSE composed(tech)
            kept(bid, tech) ==
              req[r].sections
                \cup (IF tech = "made" \/ bid \in {"remaining", "clean"} THEN {"exports"} ELSE {})
                \cup (IF bid # "off" THEN {"hwp_jobs"} ELSE {})
            newRow(bid, tech) ==
              WithAll(old, written(bid, tech), kept(bid, tech),
                      IF bid # "off" THEN old.tables \cup {"hwp_generation_jobs"} ELSE old.tables)
<1>1. PICK bid \in {"off", "failed", "remaining", "clean"}, tech \in {"off", "failed", "made"} :
        Finish(r, newRow(bid, tech))
  BY DEF CommitCompose, Current, WithAll
<1>2. req[r].op = "compose" /\ InFlight(r)
  BY DEF CommitCompose, Running, InFlight, Idle
<1>3. composed(tech) \in Statuses /\ written(bid, tech) \in Statuses
  BY <1>2, InFlightFacts, AdvanceTyped DEF PROCESSING_STATUSES
<1>4. kept(bid, tech) \in SUBSET Sections /\ req[r].sections \subseteq kept(bid, tech)
  BY <1>2, InFlightFacts DEF Sections
<1>5. /\ newRow(bid, tech) \in Row
      /\ newRow(bid, tech).status = written(bid, tech)
      /\ newRow(bid, tech).sections = kept(bid, tech)
  <2>1. old \in Row /\ old.tables \cup {"hwp_generation_jobs"} \in SUBSET Tables
    BY <1>2, InFlightFacts DEF Row, Tables
  <2>2. (IF bid # "off" THEN old.tables \cup {"hwp_generation_jobs"} ELSE old.tables)
          \in SUBSET Tables
    BY <2>1
  <2>. HIDE DEF written, kept
  <2>. QED BY <1>3, <1>4, <2>1, <2>2, AllWritten
<1>6. GoodWrite(r, newRow(bid, tech))
  BY <1>1, <1>2, <1>4, <1>5, ChainGood DEF EarlyOps
<1>. QED BY <1>6

\* proposal-compose advances the status at most once.
LEMMA CommitProposalGood ==
  ASSUME IInv, NEW r \in Requests, CommitProposal(r)
  PROVE  \E new : GoodWrite(r, new)
<1>. DEFINE old == row[req[r].notice]
            composed(made) == IF made THEN advance_status(req[r].status, "hwp_composed")
                                      ELSE req[r].status
            kept(made) == req[r].sections \cup {"proposal", "hwp_jobs"}
                            \cup (IF made THEN {"exports"} ELSE {})
            newRow(made) == WithAll(old, composed(made), kept(made),
                                    old.tables \cup {"hwp_generation_jobs"})
<1>1. PICK made \in BOOLEAN : Finish(r, newRow(made))
  BY DEF CommitProposal, Current, WithAll
<1>2. req[r].op = "proposal" /\ InFlight(r)
  BY DEF CommitProposal, Running, InFlight, Idle
<1>3. composed(made) \in Statuses
  BY <1>2, InFlightFacts, AdvanceTyped DEF PROCESSING_STATUSES
<1>4. kept(made) \in SUBSET Sections /\ req[r].sections \subseteq kept(made)
  BY <1>2, InFlightFacts DEF Sections
<1>5. /\ newRow(made) \in Row
      /\ newRow(made).status = composed(made)
      /\ newRow(made).sections = kept(made)
  <2>1. old \in Row /\ old.tables \cup {"hwp_generation_jobs"} \in SUBSET Tables
    BY <1>2, InFlightFacts DEF Row, Tables
  <2>. HIDE DEF composed, kept
  <2>. QED BY <1>3, <1>4, <2>1, AllWritten
<1>6. GoodWrite(r, newRow(made))
  BY <1>1, <1>2, <1>4, <1>5, ChainGood DEF EarlyOps
<1>. QED BY <1>6

\* Every commit of every handler is a good write.
LEMMA CommitGood ==
  ASSUME IInv, NEW r \in Requests, Commit(r)
  PROVE  \E new : GoodWrite(r, new)
BY CommitAnalyzeGood, CommitNotifyGood, CommitGradeGood, CommitAutofillGood, CommitDocumentsGood,
   CommitFetchGood, CommitSpecGood, CommitPatchSpecGood, CommitPutFieldsFailedGood,
   CommitPutFieldsGood, CommitBlockedGood, CommitComposeGood, CommitProposalGood, CommitEditGood,
   CommitReviewGood
   DEF Commit

-----------------------------------------------------------------------------
(* The invariant is inductive. *)

\* A good write keeps the invariant: the requests it overtakes lose the claim
\* to be fresh, everything else they rely on stays true.
LEMMA GoodWriteKeepsIInv ==
  ASSUME IInv, NEW r \in Requests, NEW new, GoodWrite(r, new)
  PROVE  IInv'
<1>. DEFINE n == req[r].notice
<1>1. n \in Notices /\ n # NoNotice
  BY InFlightFacts, RequestAssumption DEF GoodWrite
<1>2. /\ row' = [row EXCEPT ![n] = new]
      /\ req' = [req EXCEPT ![r] = Idle]
      /\ overtaken' = (overtaken \cup {q \in Requests : req[q].notice = n}) \ {r}
      /\ sent' = sent /\ crashes' = crashes
      /\ new \in Row /\ new.status \in Statuses \ {"collected"}
  BY DEF GoodWrite, Finish
<1>3. Idle \in Request
  BY DEF Idle, Request, Plans, OpNames
<1>4. TypeOK'
  BY <1>1, <1>2, <1>3 DEF IInv, TypeOK
<1>5. new.status # NoStatus
  BY <1>2 DEF Statuses, PROCESSING_STATUSES, FINAL_STATUSES, NoStatus
<1>6. CollectedIsPristine'
  BY <1>1, <1>2, <1>5 DEF IInv, TypeOK, CollectedIsPristine
<1>7. ASSUME NEW q \in Requests
      PROVE  /\ req'[q].op = "idle" => req'[q] = Idle
             /\ InFlight(q)' => /\ row'[req'[q].notice].status # NoStatus
                               /\ Admitted(q)' /\ PastCollected(q)' /\ Fresh(q)'
  <2>1. CASE q = r
    BY <1>2, <2>1 DEF IInv, TypeOK, InFlight
  <2>2. CASE q # r
    <3>1. req'[q] = req[q]
      BY <1>2, <2>2 DEF IInv, TypeOK
    <3>2. req'[q].op = "idle" => req'[q] = Idle
      BY <3>1 DEF IInv
    <3>3. ASSUME InFlight(q)'
          PROVE  /\ row'[req'[q].notice].status # NoStatus
                 /\ Admitted(q)' /\ PastCollected(q)' /\ Fresh(q)'
      <4>1. InFlight(q)
        BY <3>1, <3>3 DEF InFlight
      <4>2. /\ row[req[q].notice].status # NoStatus
            /\ req[q].notice \in Notices
            /\ Admitted(q) /\ PastCollected(q) /\ Fresh(q)
        BY <4>1, InFlightFacts DEF IInv
      <4>3. Admitted(q)'
        BY <3>1, <4>2 DEF Admitted
      <4>4. CASE req[q].notice = n
        <5>1. q \in overtaken' /\ row'[req'[q].notice] = new
          BY <1>1, <1>2, <2>2, <3>1, <4>4 DEF IInv, TypeOK
        <5>. QED BY <1>2, <1>5, <3>1, <4>2, <4>3, <5>1 DEF PastCollected, Fresh
      <4>5. CASE req[q].notice # n
        <5>1. /\ q \in overtaken' <=> q \in overtaken
              /\ row'[req'[q].notice] = row[req[q].notice]
          BY <1>1, <1>2, <2>2, <3>1, <4>2, <4>5 DEF IInv, TypeOK
        <5>. QED BY <3>1, <4>2, <4>3, <5>1 DEF PastCollected, Fresh
      <4>. QED BY <4>4, <4>5
    <3>. QED BY <3>2, <3>3
  <2>. QED BY <2>1, <2>2
<1>. QED BY <1>4, <1>6, <1>7 DEF IInv

\* A request that is admitted reads the row as it is.
LEMMA BeginKeepsIInv ==
  ASSUME IInv, NEW r \in Requests, NEW n \in Notices, NEW op \in Ops, Begin(r, n, op)
  PROVE  IInv'
<1>1. PICK plan \in Plan(op, row[n]) :
        req' = [req EXCEPT ![r] = [op |-> op, notice |-> n, status |-> row[n].status,
                                   sections |-> row[n].sections, plan |-> plan, told |-> FALSE]]
  BY DEF Begin
<1>2. /\ row' = row /\ overtaken' = overtaken /\ sent' = sent /\ crashes' = crashes
      /\ Accepts(op, row[n])
  BY DEF Begin
<1>3. row[n] \in Row /\ op \in OpNames /\ op # "idle"
  BY RequestAssumption DEF IInv, TypeOK, OpNames
<1>4. /\ plan \in Plans
      /\ op = "notify" => plan = compute_notify_status(row[n].fit) /\ plan \in FINAL_STATUSES
  BY <1>3, NotifyStatusFinal DEF Plan, Plans, Row
<1>5. row[n].status \in Statuses
  BY <1>2, <1>3 DEF Accepts, Row
<1>6. req'[r] \in Request
  BY <1>1, <1>3, <1>4, <1>5 DEF Request, IInv, TypeOK, Row
<1>7. TypeOK'
  BY <1>1, <1>2, <1>6 DEF IInv, TypeOK
<1>8. CollectedIsPristine'
  BY <1>2 DEF IInv, CollectedIsPristine
<1>9. op \notin EarlyOps => row[n].status # "collected"
  <2>1. op \in OpNames \ EarlyOps
          => op \in {"notify", "grade", "autofill", "documents", "patch_spec"} \cup NeedsDocs
    BY DEF OpNames, EarlyOps, NeedsDocs
  <2>2. CASE op \in {"notify", "autofill"}
    BY <1>2, <1>4, <2>2, RankOfFinal DEF Accepts, can_transition, PROCESSING_STATUSES, FINAL_STATUSES,
       STATUS_ORDER
  <2>3. CASE op \in {"grade", "documents"}
    BY <1>2, <2>3 DEF Accepts, GradeableStatuses, DocumentStatuses, FINAL_STATUSES
  <2>4. CASE op = "patch_spec" \/ op \in NeedsDocs
    BY <1>2, <2>4 DEF Accepts, IInv, CollectedIsPristine
  <2>. QED BY <1>3, <2>1, <2>2, <2>3, <2>4
<1>10. ASSUME NEW q \in Requests
       PROVE  /\ req'[q].op = "idle" => req'[q] = Idle
              /\ InFlight(q)' => /\ row'[req'[q].notice].status # NoStatus
                                /\ Admitted(q)' /\ PastCollected(q)' /\ Fresh(q)'
  <2>1. CASE q = r
    <3>1. req'[q] = [op |-> op, notice |-> n, status |-> row[n].status,
                     sections |-> row[n].sections, plan |-> plan, told |-> FALSE]
      BY <1>1, <2>1 DEF IInv, TypeOK
    <3>2. Admitted(q)'
      BY <1>2, <1>4, <1>5, <3>1 DEF Admitted, Accepts
    <3>3. PastCollected(q)' /\ Fresh(q)'
      BY <1>2, <1>4, <1>9, <3>1 DEF PastCollected, Fresh
    <3>. QED BY <1>2, <1>3, <3>1, <3>2, <3>3 DEF Accepts
  <2>2. CASE q # r
    <3>1. req'[q] = req[q]
      BY <1>1, <2>2 DEF IInv, TypeOK
    <3>. QED BY <1>2, <3>1 DEF IInv, InFlight, Admitted, PastCollected, Fresh
  <2>. QED BY <2>1, <2>2
<1>. QED BY <1>7, <1>8, <1>10 DEF IInv

\* Posting to Teams changes nothing a request relies on.
LEMMA DeliverKeepsIInv ==
  ASSUME IInv, NEW r \in Requests, DeliverNotify(r)
  PROVE  IInv'
<1>1. /\ row' = row /\ overtaken' = overtaken /\ crashes' = crashes
      /\ req' = [req EXCEPT ![r].told = TRUE]
      /\ req[r].op = "notify"
  BY DEF DeliverNotify, Running
<1>2. InFlight(r) /\ req[r].notice \in Notices
  BY <1>1, InFlightFacts DEF InFlight, Idle
<1>3. sent' \in [Notices -> 0..MaxSent]
  BY <1>2, RequestAssumption DEF DeliverNotify, IInv, TypeOK
<1>4. TypeOK'
  <2>1. req[r] \in Request /\ req \in [Requests -> Request]
    BY DEF IInv, TypeOK
  <2>2. [req[r] EXCEPT !.told = TRUE] \in Request
    BY <2>1 DEF Request
  <2>3. req' \in [Requests -> Request]
    BY <1>1, <2>1, <2>2
  <2>. QED BY <1>1, <1>3, <2>3 DEF IInv, TypeOK
<1>5. CollectedIsPristine'
  BY <1>1 DEF IInv, CollectedIsPristine
<1>6. ASSUME NEW q \in Requests
      PROVE  /\ req'[q].op = req[q].op /\ req'[q].notice = req[q].notice
             /\ req'[q].status = req[q].status /\ req'[q].sections = req[q].sections
             /\ req'[q].plan = req[q].plan
             /\ q # r => req'[q] = req[q]
  BY <1>1 DEF IInv, TypeOK, Request
<1>7. ASSUME NEW q \in Requests
      PROVE  /\ req'[q].op = "idle" => req'[q] = Idle
             /\ InFlight(q)' => /\ row'[req'[q].notice].status # NoStatus
                               /\ Admitted(q)' /\ PastCollected(q)' /\ Fresh(q)'
  <2>1. InFlight(q)' => InFlight(q)
    BY <1>2, <1>6 DEF InFlight
  <2>2. req'[q].op = "idle" => q # r
    BY <1>1, <1>6
  <2>3. req'[q].op = "idle" => req'[q] = Idle
    BY <1>6, <2>2 DEF IInv
  <2>4. InFlight(q)' => /\ row'[req'[q].notice].status # NoStatus
                        /\ Admitted(q)' /\ PastCollected(q)' /\ Fresh(q)'
    BY <1>1, <1>6, <2>1 DEF IInv, Admitted, PastCollected, Fresh
  <2>. QED BY <2>3, <2>4
<1>. QED BY <1>4, <1>5, <1>7 DEF IInv

\* A rolled back request leaves the table as it was.
LEMMA FailKeepsIInv ==
  ASSUME IInv, NEW r \in Requests, Fail(r)
  PROVE  IInv'
<1>1. /\ row' = row /\ sent' = sent /\ crashes' = crashes
      /\ req' = [req EXCEPT ![r] = Idle] /\ overtaken' = overtaken \ {r}
  BY DEF Fail
<1>2. TypeOK' /\ CollectedIsPristine'
  BY <1>1 DEF IInv, TypeOK, CollectedIsPristine, Idle, Request, Plans, OpNames
<1>3. ASSUME NEW q \in Requests
      PROVE  /\ req'[q].op = "idle" => req'[q] = Idle
             /\ InFlight(q)' => /\ row'[req'[q].notice].status # NoStatus
                               /\ Admitted(q)' /\ PastCollected(q)' /\ Fresh(q)'
  <2>1. CASE q = r
    BY <1>1, <2>1 DEF IInv, TypeOK, InFlight
  <2>2. CASE q # r
    <3>1. req'[q] = req[q]
      BY <1>1, <2>2 DEF IInv, TypeOK
    <3>. QED BY <1>1, <2>2, <3>1 DEF IInv, InFlight, Admitted, PastCollected, Fresh
  <2>. QED BY <2>1, <2>2
<1>. QED BY <1>2, <1>3 DEF IInv

\* After a crash no request is in flight.
LEMMA CrashKeepsIInv ==
  ASSUME IInv, Crash
  PROVE  IInv'
<1>1. /\ row' = row /\ sent' = sent /\ crashes' \in 0..MaxCrashes
      /\ req' = [r \in Requests |-> Idle] /\ overtaken' = {}
  BY RequestAssumption DEF Crash, IInv, TypeOK
<1>2. TypeOK' /\ CollectedIsPristine'
  BY <1>1 DEF IInv, TypeOK, CollectedIsPristine, Idle, Request, Plans, OpNames
<1>. QED BY <1>1, <1>2 DEF IInv, InFlight

\* upsert changes no row that a request could have read.
LEMMA UpsertKeepsIInv ==
  ASSUME IInv, NEW n \in Notices, Upsert(n)
  PROVE  IInv'
<1>1. /\ req' = req /\ sent' = sent /\ crashes' = crashes /\ overtaken' = overtaken
      /\ row' = IF row[n].status = NoStatus THEN [row EXCEPT ![n] = NewRow] ELSE row
  BY DEF Upsert
<1>2. /\ NewRow \in Row /\ NewRow.status # NoStatus
      /\ NewRow.sections = {} /\ NewRow.tables = {} /\ NewRow.graded = FALSE
  BY DEF NewRow, Row, Statuses, PROCESSING_STATUSES, NoStatus
<1>3. TypeOK' /\ CollectedIsPristine'
  BY <1>1, <1>2 DEF IInv, TypeOK, CollectedIsPristine
<1>4. ASSUME NEW q \in Requests, InFlight(q)
      PROVE  row'[req[q].notice] = row[req[q].notice]
  BY <1>1, <1>4, InFlightFacts DEF IInv, TypeOK
<1>5. ASSUME NEW q \in Requests
      PROVE  /\ req'[q].op = "idle" => req'[q] = Idle
             /\ InFlight(q)' => /\ row'[req'[q].notice].status # NoStatus
                               /\ Admitted(q)' /\ PastCollected(q)' /\ Fresh(q)'
  BY <1>1, <1>4 DEF IInv, InFlight, Admitted, PastCollected, Fresh
<1>. QED BY <1>3, <1>5 DEF IInv

\* The invariant is inductive.
LEMMA NextKeepsIInv ==
  ASSUME IInv, [Next]_vars
  PROVE  IInv'
<1>1. ASSUME NEW n \in Notices, Upsert(n) PROVE IInv'
  BY <1>1, UpsertKeepsIInv
<1>2. ASSUME NEW r \in Requests, NEW n \in Notices, NEW op \in Ops, Begin(r, n, op) PROVE IInv'
  BY <1>2, BeginKeepsIInv
<1>3. ASSUME NEW r \in Requests, Commit(r) PROVE IInv'
  BY <1>3, CommitGood, GoodWriteKeepsIInv
<1>4. ASSUME NEW r \in Requests, DeliverNotify(r) PROVE IInv'
  BY <1>4, DeliverKeepsIInv
<1>5. ASSUME NEW r \in Requests, Fail(r) PROVE IInv'
  BY <1>5, FailKeepsIInv
<1>6. CASE Crash
  BY <1>6, CrashKeepsIInv
<1>7. CASE UNCHANGED vars
  BY <1>7 DEF vars, IInv, TypeOK, CollectedIsPristine, InFlight, Admitted, PastCollected, Fresh
<1>. QED BY <1>1, <1>2, <1>3, <1>4, <1>5, <1>6, <1>7 DEF Next, Commit

\* Every reachable state satisfies the inductive invariant.
THEOREM Invariance == Spec => []IInv
<1>. QED BY InitIInv, NextKeepsIInv, PTL DEF Spec

\* Every variable keeps its type, for any number of notices and of concurrent
\* requests.
THEOREM TypeCorrect == Spec => []TypeOK
<1>1. IInv => TypeOK
  BY DEF IInv
<1>. QED BY <1>1, Invariance, PTL

\* A notice whose status is "collected" carries no analysis section, no child
\* row and no grade, however many handlers interleave: none of the handlers
\* that write the status they read ever writes "collected" back.
THEOREM CollectedStaysPristine == Spec => []CollectedIsPristine
<1>1. IInv => CollectedIsPristine
  BY DEF IInv
<1>. QED BY <1>1, Invariance, PTL

-----------------------------------------------------------------------------
(* The action properties. *)

\* Every step that changes the row of a notice is an upsert of a new notice or
\* the good write of a request on that notice.
LEMMA RowChanges ==
  ASSUME IInv, [Next]_vars, NEW n \in Notices, row'[n] # row[n]
  PROVE  \/ row[n].status = NoStatus /\ row'[n] = NewRow
         \/ \E r \in Requests : \E new :
              GoodWrite(r, new) /\ req[r].notice = n /\ row'[n] = new /\ req'[r] = Idle
<1>1. ASSUME NEW m \in Notices, Upsert(m)
      PROVE  row[n].status = NoStatus /\ row'[n] = NewRow
  BY <1>1 DEF Upsert, IInv, TypeOK
<1>2. ASSUME NEW r \in Requests, Commit(r)
      PROVE  \E new : GoodWrite(r, new) /\ req[r].notice = n /\ row'[n] = new /\ req'[r] = Idle
  <2>1. PICK new : GoodWrite(r, new)
    BY <1>2, CommitGood
  <2>2. row' = [row EXCEPT ![req[r].notice] = new] /\ req' = [req EXCEPT ![r] = Idle]
    BY <2>1 DEF GoodWrite, Finish
  <2>3. req[r].notice = n /\ row'[n] = new /\ req'[r] = Idle
    BY <2>2 DEF IInv, TypeOK
  <2>. QED BY <2>1, <2>3
<1>3. ASSUME NEW r \in Requests, DeliverNotify(r) \/ Fail(r) PROVE FALSE
  BY <1>3 DEF DeliverNotify, Fail
<1>4. ASSUME NEW r \in Requests, NEW m \in Notices, NEW op \in Ops, Begin(r, m, op) PROVE FALSE
  BY <1>4 DEF Begin
<1>5. ~ Crash /\ ~ UNCHANGED vars
  BY DEF Crash, vars
<1>. QED BY <1>1, <1>2, <1>3, <1>4, <1>5 DEF Next, Commit

\* A new notice moves forward.
LEMMA UpsertForward == Forward(NoStatus, NewRow.status)
<1>1. NewRow.status = "collected"
  BY DEF NewRow
<1>2. Rank("collected") = 0
  BY RankOfProcessing, OrderValues DEF PROCESSING_STATUSES
<1>. QED BY <1>1, <1>2, RankOfNone DEF Forward

\* Status never falls and final is final, unless the commit is that of a
\* request another one had overtaken: for any number of concurrent requests.
THEOREM OnlyStaleCommitsDowngradeThm == Spec => OnlyStaleCommitsDowngrade
<1>1. ASSUME IInv, [Next]_vars, NEW n \in Notices,
             ~ Forward(row[n].status, row'[n].status)
      PROVE  \E r \in Requests : StaleEnd(r, n)
  <2>1. row'[n] # row[n]
    BY <1>1 DEF Forward
  <2>2. PICK r \in Requests : \E new :
          GoodWrite(r, new) /\ req[r].notice = n /\ row'[n] = new /\ req'[r] = Idle
    BY <1>1, <2>1, RowChanges, UpsertForward
  <2>3. PICK new : GoodWrite(r, new) /\ req[r].notice = n /\ row'[n] = new /\ req'[r] = Idle
    BY <2>2
  <2>4. r \in overtaken
    BY <1>1, <2>3 DEF GoodWrite
  <2>. QED BY <2>3, <2>4 DEF StaleEnd
<1>2. IInv /\ [Next]_vars =>
        [\A n \in Notices : ~ Forward(row[n].status, row'[n].status)
                              => \E r \in Requests : StaleEnd(r, n)]_vars
  BY <1>1
<1>. QED BY <1>2, Invariance, PTL DEF Spec, OnlyStaleCommitsDowngrade

\* No section of an analysis document is lost except by a handler that drops
\* it by design or by a stale commit.
THEOREM SectionsLostOnlyByDesignThm == Spec => SectionsLostOnlyByDesign
<1>1. ASSUME IInv, [Next]_vars, NEW n \in Notices,
             row[n].sections \ row'[n].sections # {}
      PROVE  \E r \in Requests : \/ StaleEnd(r, n)
                                 \/ /\ req[r].notice = n /\ req'[r] = Idle
                                    /\ row[n].sections \ row'[n].sections
                                         \subseteq MayDrop(req[r].op)
  <2>1. row'[n] # row[n]
    BY <1>1
  <2>2. row[n].status # NoStatus
    BY <1>1 DEF IInv, CollectedIsPristine
  <2>3. PICK r \in Requests : \E new :
          GoodWrite(r, new) /\ req[r].notice = n /\ row'[n] = new /\ req'[r] = Idle
    BY <1>1, <2>1, <2>2, RowChanges
  <2>4. PICK new : GoodWrite(r, new) /\ req[r].notice = n /\ row'[n] = new /\ req'[r] = Idle
    BY <2>3
  <2>. QED BY <2>4 DEF GoodWrite, StaleEnd
<1>2. IInv /\ [Next]_vars =>
        [\A n \in Notices :
           LET lost == row[n].sections \ row'[n].sections
           IN  lost # {} => \E r \in Requests : \/ StaleEnd(r, n)
                                               \/ /\ req[r].notice = n /\ req'[r] = Idle
                                                  /\ lost \subseteq MayDrop(req[r].op)]_vars
  BY <1>1
<1>. QED BY <1>2, Invariance, PTL DEF Spec, SectionsLostOnlyByDesign

\* A notice becomes final with the status of its current score, unless the
\* notify that finalises it was overtaken.
THEOREM FinalFitsScoreThm == Spec => FinalFitsScore
<1>1. ASSUME IInv, [Next]_vars, NEW n \in Notices,
             row[n].status \notin FINAL_STATUSES, row'[n].status \in FINAL_STATUSES
      PROVE  \/ row'[n].status = compute_notify_status(row[n].fit)
             \/ \E r \in Requests : StaleEnd(r, n)
  <2>1. row'[n] # row[n]
    BY <1>1
  <2>2. NewRow.status \notin FINAL_STATUSES
    BY DEF NewRow, FINAL_STATUSES
  <2>3. PICK r \in Requests : \E new :
          GoodWrite(r, new) /\ req[r].notice = n /\ row'[n] = new /\ req'[r] = Idle
    BY <1>1, <2>1, <2>2, RowChanges
  <2>4. PICK new : GoodWrite(r, new) /\ req[r].notice = n /\ row'[n] = new /\ req'[r] = Idle
    BY <2>3
  <2>. QED BY <1>1, <2>4 DEF GoodWrite, StaleEnd
<1>2. IInv /\ [Next]_vars =>
        [\A n \in Notices :
           /\ row[n].status \notin FINAL_STATUSES
           /\ row'[n].status \in FINAL_STATUSES
           => \/ row'[n].status = compute_notify_status(row[n].fit)
              \/ \E r \in Requests : StaleEnd(r, n)]_vars
  BY <1>1
<1>. QED BY <1>2, Invariance, PTL DEF Spec, FinalFitsScore
\* Teams hears of a notice that is final already only from a notify that was
\* overtaken: a fresh one found, and still finds, a status its plan can follow.
THEOREM MessageBeforeFinalThm == Spec => MessageBeforeFinal
<1>1. ASSUME IInv, [Next]_vars, NEW n \in Notices, sent'[n] # sent[n],
             row[n].status \in FINAL_STATUSES
      PROVE  \E r \in overtaken : Running(r, "notify") /\ req[r].notice = n
  <2>1. PICK r \in Requests : DeliverNotify(r)
    <3>1. ASSUME NEW r \in Requests, Commit(r) PROVE FALSE
      <4>1. sent' = sent
        BY <1>1, <3>1, CommitGood DEF GoodWrite, Finish
      <4>. QED BY <1>1, <4>1
    <3>2. ~ UNCHANGED vars /\ ~ Crash /\ \A m \in Notices : ~ Upsert(m)
      BY <1>1 DEF vars, Crash, Upsert
    <3>3. \A r \in Requests : ~ Fail(r) /\ \A m \in Notices, op \in Ops : ~ Begin(r, m, op)
      BY <1>1 DEF Fail, Begin
    <3>. QED BY <1>1, <3>1, <3>2, <3>3 DEF Next, Commit
  <2>2. Running(r, "notify") /\ InFlight(r) /\ req[r].op = "notify"
    BY <2>1 DEF DeliverNotify, Running, InFlight, Idle
  <2>3. req[r].notice = n
    BY <1>1, <2>1, <2>2, InFlightFacts DEF DeliverNotify, IInv, TypeOK
  <2>4. can_transition(req[r].status, req[r].plan)
    BY <1>1, <2>2, InFlightFacts DEF Admitted
  <2>5. req[r].status \notin FINAL_STATUSES
    BY <2>4, RankOfFinal DEF can_transition
  <2>6. r \in overtaken
    BY <1>1, <2>2, <2>3, <2>5, InFlightFacts DEF Fresh
  <2>. QED BY <2>2, <2>3, <2>6
<1>2. IInv /\ [Next]_vars =>
        [\A n \in Notices :
           sent'[n] # sent[n] =>
             \/ row[n].status \notin FINAL_STATUSES
             \/ \E r \in overtaken : Running(r, "notify") /\ req[r].notice = n]_vars
  BY <1>1
<1>. QED BY <1>2, Invariance, PTL DEF Spec, MessageBeforeFinal

-----------------------------------------------------------------------------
(* One request at a time.  What the pipeline promises to a client that     *)
(* waits for each answer: it implements NoticeLifecycle over               *)
(* ImplementedEdges, and it announces a notice once, plus once for every   *)
(* crash.  Both are false for two slots (see the run final_is_final),      *)
(* hence the hypothesis OneSlot; what they rest on, GoodWrite and IInv,    *)
(* holds for any number of slots.                                          *)

OneSlot == \A q, r \in Requests : q = r

-----------------------------------------------------------------------------
(* One announcement for each crash, and one more.                          *)

\* A message not yet followed by a final status is that of the notify in
\* flight, or died with a crash.
Announced ==
  /\ overtaken = {}
  /\ \A r \in Requests : req[r].told => req[r].op = "notify"
  /\ \A n \in Notices :
       /\ sent[n] <= 1 + crashes
       /\ row[n].status \notin FINAL_STATUSES =>
            \/ sent[n] <= crashes
            \/ \E r \in Requests : req[r].told /\ req[r].notice = n
\* Nothing is announced in the empty table.
LEMMA InitAnnounced == Init => Announced
BY RequestAssumption DEF Init, Announced, Idle, NoRow

\* Only a notify finalises a notice it has announced: its commit writes a
\* final status.
LEMMA NotifyFinalises ==
  ASSUME IInv, NEW r \in Requests, Commit(r), req[r].op = "notify"
  PROVE  row'[req[r].notice].status \in FINAL_STATUSES
<1>1. CommitNotify(r)
  BY DEF Commit, CommitAnalyze, CommitGrade, CommitAutofill, CommitDocuments, CommitFetch,
         CommitSpec, CommitPatchSpec, CommitPutFieldsFailed, CommitPutFields, CommitBlocked,
         CommitCompose, CommitProposal, CommitEdit, CommitReview, Running
<1>2. InFlight(r)
  BY DEF InFlight, Idle
<1>3. req[r].notice \in Notices /\ req[r].plan \in FINAL_STATUSES /\ row[req[r].notice] \in Row
  BY <1>2, InFlightFacts DEF Admitted
<1>4. row' = [row EXCEPT ![req[r].notice] = [row[req[r].notice] EXCEPT !.status = req[r].plan]]
  BY <1>1 DEF CommitNotify, Finish, Current
<1>5. [row[req[r].notice] EXCEPT !.status = req[r].plan].status = req[r].plan
  BY <1>3, FinalWritten
<1>. QED BY <1>3, <1>4, <1>5 DEF IInv, TypeOK

\* With one slot no request is ever overtaken, and a commit leaves a final
\* status final.
LEMMA CommitAnnounced ==
  ASSUME OneSlot, IInv, Announced, NEW r \in Requests, Commit(r)
  PROVE  Announced'
<1>1. PICK new : GoodWrite(r, new)
  BY CommitGood
<1>2. /\ sent' = sent /\ crashes' = crashes
      /\ req' = [req EXCEPT ![r] = Idle]
      /\ row' = [row EXCEPT ![req[r].notice] = new]
      /\ overtaken' = (overtaken \cup {q \in Requests : req[q].notice = req[r].notice}) \ {r}
  BY <1>1 DEF GoodWrite, Finish
<1>3. overtaken' = {}
  BY <1>2 DEF Announced, OneSlot
<1>4. \A q \in Requests : req'[q].told = FALSE
  BY <1>2 DEF IInv, TypeOK, OneSlot, Idle
<1>5. ASSUME NEW n \in Notices, row'[n].status \notin FINAL_STATUSES
      PROVE  sent[n] <= crashes
  <2>1. row[n].status \notin FINAL_STATUSES
    <3>1. CASE n = req[r].notice
      <4>1. Forward(row[n].status, new.status) /\ new.status \in Statuses
        BY <1>1, <3>1 DEF GoodWrite, Announced
      <4>2. row'[n].status = new.status
        BY <1>2, <3>1 DEF IInv, TypeOK
      <4>. QED BY <1>5, <4>1, <4>2, RankOfFinal, RankOfProcessing DEF Forward, Statuses
    <3>2. CASE n # req[r].notice
      BY <1>2, <1>5, <3>2 DEF IInv, TypeOK
    <3>. QED BY <3>1, <3>2
  <2>2. ASSUME NEW q \in Requests, req[q].told, req[q].notice = n PROVE FALSE
    <3>1. q = r /\ req[r].op = "notify"
      BY <2>2 DEF OneSlot, Announced
    <3>. QED BY <1>5, <2>2, <3>1, NotifyFinalises
  <2>. QED BY <2>1, <2>2 DEF Announced
<1>. QED BY <1>2, <1>3, <1>4, <1>5 DEF Announced

\* The message of notify goes out while the status is not final.
LEMMA DeliverAnnounced ==
  ASSUME OneSlot, IInv, Announced, NEW r \in Requests, DeliverNotify(r)
  PROVE  Announced'
<1>1. /\ req[r].op = "notify" /\ ~ req[r].told
      /\ req' = [req EXCEPT ![r].told = TRUE]
      /\ row' = row /\ overtaken' = overtaken /\ crashes' = crashes
  BY DEF DeliverNotify, Running
<1>2. InFlight(r)
  BY <1>1 DEF InFlight, Idle
<1>3. req[r].notice \in Notices /\ req \in [Requests -> Request] /\ sent \in [Notices -> 0..MaxSent]
      /\ crashes \in Nat /\ MaxSent \in Nat
  BY <1>2, InFlightFacts, RequestAssumption DEF IInv, TypeOK
<1>4. row[req[r].notice].status \notin FINAL_STATUSES
  BY <1>1, <1>2, InFlightFacts, RankOfFinal DEF Admitted, Fresh, can_transition, Announced
<1>5. /\ req'[r].told /\ req'[r].notice = req[r].notice
      /\ \A q \in Requests : req'[q].op = req[q].op
      /\ \A q \in Requests : q = r
  BY <1>1, <1>3 DEF Request, OneSlot
<1>6. sent[req[r].notice] <= crashes
  BY <1>1, <1>3, <1>4, <1>5 DEF Announced
<1>7. /\ sent'[req[r].notice] <= 1 + crashes
      /\ \A n \in Notices \ {req[r].notice} : sent'[n] = sent[n]
  BY <1>3, <1>6 DEF DeliverNotify
<1>8. \A q \in Requests : ~ req[q].told
  BY <1>1, <1>5
<1>9. ASSUME NEW n \in Notices
      PROVE  /\ sent'[n] <= 1 + crashes'
             /\ row'[n].status \notin FINAL_STATUSES =>
                  \/ sent'[n] <= crashes'
                  \/ \E q \in Requests : req'[q].told /\ req'[q].notice = n
  <2>1. CASE n = req[r].notice
    BY <1>1, <1>5, <1>7, <2>1
  <2>2. CASE n # req[r].notice
    BY <1>1, <1>7, <1>8, <2>2 DEF Announced
  <2>. QED BY <2>1, <2>2
<1>10. overtaken' = {} /\ \A q \in Requests : req'[q].told => req'[q].op = "notify"
  BY <1>1, <1>5 DEF Announced
<1>. QED BY <1>9, <1>10 DEF Announced

\* Every step keeps count.
LEMMA NextAnnounced ==
  ASSUME OneSlot, IInv, Announced, [Next]_vars
  PROVE  Announced'
<1>1. ASSUME NEW m \in Notices, Upsert(m) PROVE Announced'
  <2>1. \A n \in Notices : row'[n].status \notin FINAL_STATUSES => row[n].status \notin FINAL_STATUSES
    BY <1>1 DEF Upsert, IInv, TypeOK, NoStatus, FINAL_STATUSES
  <2>. QED BY <1>1, <2>1 DEF Upsert, Announced
<1>2. ASSUME NEW r \in Requests, NEW n \in Notices, NEW op \in Ops, Begin(r, n, op) PROVE Announced'
  <2>1. /\ req[r] = Idle /\ \A q \in Requests : q = r
        /\ row' = row /\ overtaken' = overtaken /\ sent' = sent /\ crashes' = crashes
    BY <1>2 DEF Begin, OneSlot
  <2>2. ~ req'[r].told
    BY <1>2 DEF Begin, IInv, TypeOK
  <2>3. ~ req[r].told
    BY <2>1 DEF Idle
  <2>. QED BY <2>1, <2>2, <2>3 DEF Announced
<1>3. ASSUME NEW r \in Requests, Commit(r) PROVE Announced'
  BY <1>3, CommitAnnounced
<1>4. ASSUME NEW r \in Requests, DeliverNotify(r) PROVE Announced'
  BY <1>4, DeliverAnnounced
<1>5. ASSUME NEW r \in Requests, Fail(r) PROVE Announced'
  <2>1. /\ \A q \in Requests : q = r
        /\ req[r].op # "notify" /\ ~ req'[r].told
        /\ row' = row /\ sent' = sent /\ crashes' = crashes /\ overtaken' = overtaken \ {r}
    BY <1>5 DEF Fail, FailingOps, OneSlot, Idle, IInv, TypeOK
  <2>. QED BY <2>1 DEF Announced
<1>6. CASE Crash
  <2>1. /\ crashes \in Nat /\ crashes' = crashes + 1 /\ sent' = sent /\ row' = row
        /\ \A n \in Notices : sent[n] \in Nat
        /\ overtaken' = {} /\ \A q \in Requests : ~ req'[q].told
    BY <1>6, RequestAssumption DEF Crash, Idle, IInv, TypeOK
  <2>. QED BY <2>1 DEF Announced
<1>7. CASE UNCHANGED vars
  BY <1>7 DEF vars, Announced
<1>. QED BY <1>1, <1>2, <1>3, <1>4, <1>5, <1>6, <1>7 DEF Next, Commit

\* One request at a time: a notice is announced once, plus at most once for
\* every crash between the message and the commit of the final status.
THEOREM OneMessagePerCrashThm == OneSlot /\ Spec => []OneMessagePerCrash
<1>1. OneSlot /\ IInv /\ Announced /\ [Next]_vars => Announced'
  BY NextAnnounced
<1>2. Announced => OneMessagePerCrash
  BY DEF Announced, OneMessagePerCrash
<1>3. OneSlot => []OneSlot
  <2>1. OneSlot => OneSlot'
    BY DEF OneSlot
  <2>. QED BY <2>1, PTL
<1>. QED BY <1>1, <1>2, <1>3, InitAnnounced, Invariance, PTL DEF Spec
-----------------------------------------------------------------------------
(* The refinement of NoticeLifecycle. *)

\* Past "collected", every move forward is in the documented table.
LEMMA ForwardIsEdge ==
  ASSUME NEW s \in Statuses \ {"collected"}, NEW t \in Statuses, Forward(s, t), s # t
  PROVE  <<s, t>> \in DocumentedEdges
<1>1. Rank(s) < Rank(t) /\ s \in PROCESSING_STATUSES
  BY RankOfFinal, RankOfProcessing DEF Forward, Statuses
<1>2. STATUS_ORDER[s] >= STATUS_ORDER["analyzed"]
  BY <1>1, OrderValues DEF PROCESSING_STATUSES
<1>4. s # NoStatus
  BY <1>1, RankOfProcessing
<1>3. can_transition(s, t)
  BY <1>1, <1>2, <1>4, RankOfProcessing DEF can_transition, Statuses
<1>. QED BY <1>3 DEF DocumentedEdges

\* The abstract module has the vocabulary of the concrete one.
LEMMA SameVocabulary == Implemented!Statuses = Statuses /\ Implemented!NoStatus = NoStatus
BY DEF Implemented!Statuses, Implemented!PROCESSING_STATUSES, Implemented!FINAL_STATUSES,
       Implemented!NoStatus, Statuses, PROCESSING_STATUSES, FINAL_STATUSES, NoStatus

\* advance_status moves a collected notice to its target.
LEMMA AdvanceFromCollected ==
  ASSUME NEW t \in PROCESSING_STATUSES \ {"collected"}
  PROVE  advance_status("collected", t) = t
BY OrderValues DEF advance_status, PROCESSING_STATUSES, FINAL_STATUSES, NoStatus

\* The three handlers that accept a collected notice, and where they take it.
LEMMA CommitFromCollected ==
  ASSUME IInv, NEW r \in Requests, Commit(r), r \notin overtaken,
         row[req[r].notice].status = "collected"
  PROVE  row'[req[r].notice].status \in {"analyzed", "attachments_fetched", "spec_extracted"}
<1>1. InFlight(r)
  BY CommitGood DEF GoodWrite
<1>2. /\ req[r].notice \in Notices /\ row[req[r].notice] \in Row
      /\ req[r].status = "collected" /\ req[r].op \in EarlyOps
      /\ req[r].sections \subseteq Sections
  BY <1>1, InFlightFacts DEF Fresh, PastCollected
<1>3. row \in [Notices -> Row]
  BY DEF IInv, TypeOK
<1>4. CommitAnalyze(r) \/ CommitFetch(r) \/ CommitSpec(r)
  BY <1>2 DEF Commit, CommitNotify, CommitGrade, CommitAutofill, CommitDocuments,
         CommitPatchSpec, CommitPutFieldsFailed, CommitPutFields, CommitBlocked,
         CommitCompose, CommitProposal, CommitEdit, CommitReview, Running, EarlyOps
<1>5. CASE CommitAnalyze(r)
  <2>1. PICK fit \in FitScores :
          row' = [row EXCEPT ![req[r].notice] =
                    [row[req[r].notice] EXCEPT !.status = "analyzed", !.fit = fit, !.sections = {"claude"}]]
    BY <1>5 DEF CommitAnalyze, Finish, Current
  <2>. QED BY <1>2, <1>3, <2>1 DEF Row
<1>6. CASE CommitFetch(r)
  <2>1. PICK secs : row' = [row EXCEPT ![req[r].notice] =
          [row[req[r].notice] EXCEPT
             !.status = advance_status(req[r].status, "attachments_fetched"), !.sections = secs]]
    BY <1>6 DEF CommitFetch, Finish, Current
  <2>2. advance_status(req[r].status, "attachments_fetched") = "attachments_fetched"
    BY <1>2, AdvanceFromCollected DEF PROCESSING_STATUSES
  <2>. QED BY <1>2, <1>3, <2>1, <2>2 DEF Row
<1>7. CASE CommitSpec(r)
  <2>1. PICK secs, tabs : row' = [row EXCEPT ![req[r].notice] =
          [row[req[r].notice] EXCEPT
             !.status = advance_status(req[r].status, "spec_extracted"),
             !.sections = secs, !.tables = tabs]]
    BY <1>7 DEF CommitSpec, Finish, Current
  <2>2. advance_status(req[r].status, "spec_extracted") = "spec_extracted"
    BY <1>2, AdvanceFromCollected DEF PROCESSING_STATUSES
  <2>. QED BY <1>2, <1>3, <2>1, <2>2 DEF Row
<1>. QED BY <1>4, <1>5, <1>6, <1>7

\* From "collected" the documented table has "analyzed", and the implemented
\* one the two statuses of the handlers without a guard.
LEMMA CollectedEdges ==
  ASSUME NEW t \in {"analyzed", "attachments_fetched", "spec_extracted"}
  PROVE  <<"collected", t>> \in ImplementedEdges
<1>1. can_transition("collected", "analyzed")
  BY DEF can_transition, NoStatus, PROCESSING_STATUSES
<1>2. <<"collected", "analyzed">> \in DocumentedEdges
  BY <1>1 DEF DocumentedEdges, Statuses, PROCESSING_STATUSES
<1>. QED BY <1>2 DEF ImplementedEdges

\* A commit that nobody overtook takes its notice along an edge, or leaves its
\* status alone; no other notice moves.
LEMMA CommitMoves ==
  ASSUME IInv, NEW r \in Requests, Commit(r), r \notin overtaken
  PROVE  Implemented!Next \/ StatusOf' = StatusOf
<1>1. PICK new : GoodWrite(r, new)
  BY CommitGood
<1>. DEFINE n == req[r].notice
<1>2. /\ row' = [row EXCEPT ![n] = new] /\ n \in Notices /\ row \in [Notices -> Row]
      /\ new.status \in Statuses /\ Forward(row[n].status, new.status)
      /\ row[n].status \in Statuses
  BY <1>1, InFlightFacts DEF GoodWrite, Finish, IInv, TypeOK
<1>3. row'[n].status = new.status
  BY <1>2
<1>. HIDE DEF n
<1>4. StatusOf' = [StatusOf EXCEPT ![n] = new.status]
  BY <1>2 DEF StatusOf
<1>5. CASE row[n].status = new.status
  BY <1>2, <1>4, <1>5 DEF StatusOf
<1>6. CASE row[n].status # new.status
  <2>1. <<row[n].status, new.status>> \in ImplementedEdges
    <3>1. CASE row[n].status = "collected"
      BY <1>3, <3>1, CommitFromCollected, CollectedEdges DEF n
    <3>2. CASE row[n].status # "collected"
      BY <1>2, <1>6, <3>2, ForwardIsEdge DEF ImplementedEdges
    <3>. QED BY <3>1, <3>2
  <2>2. StatusOf[n] = row[n].status
    BY <1>2 DEF StatusOf
  <2>3. Implemented!Move(n)
    BY <1>2, <1>4, <2>1, <2>2, SameVocabulary DEF Implemented!Move
  <2>. QED BY <1>2, <2>3 DEF Implemented!Next
<1>. QED BY <1>5, <1>6

\* A notice enters as "collected" or stays what it is.
LEMMA UpsertMoves ==
  ASSUME IInv, NEW n \in Notices, Upsert(n)
  PROVE  Implemented!Next \/ StatusOf' = StatusOf
<1>1. row \in [Notices -> Row]
  BY DEF IInv, TypeOK
<1>2. CASE row[n].status # NoStatus
  BY <1>2 DEF Upsert, StatusOf
<1>3. CASE row[n].status = NoStatus
  <2>1. row' = [row EXCEPT ![n] = NewRow] /\ NewRow.status = "collected"
    BY <1>3 DEF Upsert, NewRow
  <2>2. StatusOf' = [StatusOf EXCEPT ![n] = "collected"] /\ StatusOf[n] = NoStatus
    BY <1>1, <1>3, <2>1 DEF StatusOf
  <2>3. <<NoStatus, "collected">> \in ImplementedEdges /\ "collected" \in Statuses
    BY DEF ImplementedEdges, DocumentedEdges, can_transition, Statuses, PROCESSING_STATUSES
  <2>4. Implemented!Move(n)
    BY <2>2, <2>3, SameVocabulary DEF Implemented!Move
  <2>. QED BY <2>4 DEF Implemented!Next
<1>. QED BY <1>2, <1>3

\* While no request is overtaken every step is a move along an edge or no move
\* at all; for any number of slots.
LEMMA StepMoves ==
  ASSUME IInv, [Next]_vars, overtaken = {}
  PROVE  Implemented!Next \/ StatusOf' = StatusOf
<1>1. ASSUME NEW n \in Notices, Upsert(n) PROVE Implemented!Next \/ StatusOf' = StatusOf
  BY <1>1, UpsertMoves
<1>2. ASSUME NEW r \in Requests, Commit(r) PROVE Implemented!Next \/ StatusOf' = StatusOf
  BY <1>2, CommitMoves
<1>3. ASSUME row' = row PROVE StatusOf' = StatusOf
  BY <1>3 DEF StatusOf
<1>4. ASSUME NEW r \in Requests,
             DeliverNotify(r) \/ Fail(r) \/ \E n \in Notices, op \in Ops : Begin(r, n, op)
      PROVE  row' = row
  BY <1>4 DEF DeliverNotify, Fail, Begin
<1>5. Crash \/ UNCHANGED vars => row' = row
  BY DEF Crash, vars
<1>. QED BY <1>1, <1>2, <1>3, <1>4, <1>5 DEF Next, Commit

\* One request at a time: the pipeline implements the life cycle with the
\* two edges of the handlers without a guard, for any number of notices.
THEOREM ImplementsLifecycleThm == OneSlot /\ Spec => ImplementsLifecycle
<1>1. Init => Implemented!Init
  BY SameVocabulary DEF Init, Implemented!Init, StatusOf, NoRow
<1>2. IInv /\ Announced /\ [Next]_vars => [Implemented!Next]_StatusOf
  BY StepMoves DEF Announced
<1>3. OneSlot /\ IInv /\ Announced /\ [Next]_vars => Announced'
  BY NextAnnounced
<1>4. OneSlot => []OneSlot
  <2>1. OneSlot => OneSlot'
    BY DEF OneSlot
  <2>. QED BY <2>1, PTL
<1>. QED BY <1>1, <1>2, <1>3, <1>4, InitAnnounced, Invariance, PTL
         DEF Spec, ImplementsLifecycle, Implemented!Spec
=============================================================================
