---------------------------- MODULE HwpJobsProofs ----------------------------
(***************************************************************************)
(* Proofs about HwpJobs, for any number of request slots, attempts, jobs,  *)
(* seconds, edits and crashes.  The inductive invariant IInv has one part  *)
(* for each question: which rows belong to a request (Slots), how rows and *)
(* exports correspond (Rows), what a form_filled status rests on (Clean),  *)
(* who may have written a file (Written) and how far the mirror and the    *)
(* copies requests hold of it may be from the table (Mirrored).            *)
(***************************************************************************)
EXTENDS HwpJobs, FiniteSetTheorems, FunctionTheorems, TLAPS

NoticeStatuses == {"analyzed", "hwp_composed", "form_filled"}
Export == [key : Keys, state : {"active", "deleted"}]
Entry == [id : Nat, job : Job]
Request == [phase : {"idle", "calling", "recording"}, job : Nat, left : 0..Retries,
            connectFailed : BOOLEAN, mirror : Seq(Entry), status : NoticeStatuses,
            retire : SUBSET Nat]

Types ==
  /\ template \in [Keys -> BOOLEAN] /\ mapping \in [Keys -> Mappings]
  /\ jobs \in Seq(Job) /\ Len(jobs) <= MaxJobs
  /\ exports \in Seq(Export)
  /\ mirror \in Seq(Entry)
  /\ status \in NoticeStatuses
  /\ files \in [Paths -> 0..Len(jobs)] /\ late \subseteq Ids
  /\ req \in [Requests -> Request]
  /\ seconds \in 0..MaxSeconds /\ edits \in Nat /\ crashes \in Nat
  /\ overlapped \in BOOLEAN

\* The running rows and the requests in progress are in bijection.
Slots ==
  /\ \A r \in Requests : req[r].phase = "idle" => req[r] = Idle
  /\ \A r \in Busy : req[r].job \in Ids /\ jobs[req[r].job].status = "running"
  /\ \A q, r \in Busy : req[q].job = req[r].job => q = r
  /\ \A j \in Ids : jobs[j].status = "running" => \E r \in Busy : req[r].job = j

Completed == {j \in Ids : jobs[j].status = "completed"}

\* A completed job names its export and nothing else does; a failed job says
\* how; a running or rolled back one says nothing.
Rows ==
  /\ \A j \in Ids : jobs[j].path = <<jobs[j].key, jobs[j].at>>
  /\ \A j \in Ids :
       CASE jobs[j].status = "completed" ->
              /\ jobs[j].export \in 1..Len(exports) /\ jobs[j].error = "none"
              /\ exports[jobs[j].export].key = jobs[j].key
         [] jobs[j].status = "failed" -> jobs[j].export = 0 /\ jobs[j].error # "none"
         [] OTHER                     -> jobs[j].export = 0 /\ jobs[j].error = "none"
  /\ \A i, j \in Completed : jobs[i].export = jobs[j].export => i = j
  /\ \A e \in 1..Len(exports) : \E j \in Completed : jobs[j].export = e
  /\ Len(exports) = Cardinality(Completed)

CleanJob == \E j \in Committed : /\ jobs[j].key = "bid_form" /\ jobs[j].status = "completed"
                                 /\ ~ jobs[j].missing /\ ~ jobs[j].remaining

\* The status as it is, and as requests have read it.
Clean == /\ status = "form_filled" => CleanJob
         /\ \A r \in Busy : req[r].status = "form_filled" => CleanJob

\* A file holds the values of a job with that path, and one whose agent has
\* answered is there.
Written ==
  /\ \A p \in Paths : files[p] # 0 => jobs[files[p]].path = p
  /\ \A j \in Completed : files[jobs[j].path] # 0
  /\ \A r \in Busy : req[r].phase = "recording" => files[jobs[req[r].job].path] # 0

\* No job is listed twice.
Unique(m) == \A i, k \in DOMAIN m : m[i].id = m[k].id => i = k

CommittedIn(table) == {j \in 1..Len(table) : table[j].status \in {"completed", "failed"}}

\* m is a mirror of the table, behind it by reviews at most.
MirrorOf(m, table) ==
  /\ Len(m) <= MirrorLimit /\ Unique(m)
  /\ \A i \in DOMAIN m :
       /\ m[i].id \in CommittedIn(table)
       /\ m[i].job \in {table[m[i].id], [table[m[i].id] EXCEPT !.review = "pending"]}

\* ... and up to date.
ExactMirror(m, table) ==
  /\ \A i \in DOMAIN m : m[i].job = table[m[i].id]
  /\ Len(m) < MirrorLimit => \A j \in CommittedIn(table) : \E i \in DOMAIN m : m[i].id = j

Mirrored ==
  /\ MirrorOf(mirror, jobs) /\ \A r \in Busy : MirrorOf(req[r].mirror, jobs)
  /\ ~ overlapped => /\ ExactMirror(mirror, jobs)
                     /\ \A r \in Busy : req[r].mirror = mirror
                     /\ \A q, r \in Busy : q = r

IInv == Types /\ Slots /\ Rows /\ Clean /\ Written /\ Mirrored
-----------------------------------------------------------------------------
(* The constants, and small facts about rows and requests. *)

\* The bounds are naturals.
LEMMA Bounds == /\ MaxJobs \in Nat /\ MaxSeconds \in Nat /\ MaxEdits \in Nat /\ MaxCrashes \in Nat
                /\ Retries \in Nat \ {0} /\ MirrorLimit \in Nat \ {0}
BY HwpAssumption

\* Updates keep a row a row.
LEMMA RowUpdates ==
  ASSUME NEW row \in Job
  PROVE  /\ [row EXCEPT !.review = "approved"] \in Job
         /\ [row EXCEPT !.review = "pending"] \in Job
         /\ [row EXCEPT !.status = "gone"] \in Job
         /\ \A b \in BOOLEAN : [row EXCEPT !.remaining = b] \in Job
         /\ \A e \in {"unreachable", "failed"} : [row EXCEPT !.status = "failed", !.error = e] \in Job
         /\ \A x \in 0..MaxJobs : [row EXCEPT !.status = "completed", !.export = x] \in Job
BY DEF Job, JobStates

\* An idle slot is a slot.
LEMMA IdleTyped == Idle \in Request
<1>1. <<>> \in Seq(Entry) /\ 0 \in 0..Retries /\ {} \in SUBSET Nat
  BY Bounds
<1>. QED BY <1>1 DEF Idle, Request, NoticeStatuses

\* A busy slot is calling or recording.
LEMMA BusyPhase ==
  ASSUME Types, Slots, NEW r \in Requests
  PROVE  r \in Busy <=> req[r].phase \in {"calling", "recording"}
<1>1. Idle.phase = "idle"
  BY DEF Idle
<1>2. req[r].phase \in {"idle", "calling", "recording"}
  BY DEF Types, Request
<1>. QED BY <1>1, <1>2 DEF Busy, Slots

\* What a step does to one slot, to the others nothing.
LEMMA OneSlotChanges ==
  ASSUME Types, NEW r \in Requests, NEW v, req' = [req EXCEPT ![r] = v]
  PROVE  req'[r] = v /\ \A q \in Requests \ {r} : req'[q] = req[q]
BY DEF Types

\* Jobs are numbered from one.
LEMMA IdsFacts ==
  ASSUME Types
  PROVE  /\ Len(jobs) \in Nat /\ Ids \subseteq Nat \ {0}
         /\ DOMAIN jobs = Ids /\ \A j \in Ids : jobs[j] \in Job
BY DEF Types, Ids
-----------------------------------------------------------------------------
(* What the steps do. *)

\* Row j of the table is replaced by row, every other row stays.
Replaced(j, row) == /\ Ids' = Ids
                    /\ jobs'[j] = row
                    /\ \A i \in Ids \ {j} : jobs'[i] = jobs[i]

\* A replaced row leaves a table of jobs.
LEMMA ReplaceJob ==
  ASSUME Types, NEW j \in Ids, NEW row \in Job, jobs' = [jobs EXCEPT ![j] = row]
  PROVE  Replaced(j, row) /\ jobs' \in Seq(Job) /\ Len(jobs') = Len(jobs)
BY DEF Types, Ids, Replaced

\* The row and the slot of a new request.
BeginRow(row, key) ==
  /\ row \in Job /\ row.key = key /\ row.status = "running" /\ row.path = <<row.key, row.at>>
  /\ row.export = 0 /\ row.error = "none"

BeginSlot(slot) ==
  /\ slot \in Request /\ slot.phase = "calling" /\ slot.job = Len(jobs) + 1
  /\ slot.mirror = mirror /\ slot.status = status

\* put-fields appends a running row and takes a copy of document and status.
LEMMA BeginEffect ==
  ASSUME Types, NEW r \in Requests, NEW key \in Keys, NEW override, Begin(r, key, override)
  PROVE  /\ \E row : BeginRow(row, key) /\ jobs' = Append(jobs, row)
         /\ \E slot : BeginSlot(slot) /\ req' = [req EXCEPT ![r] = slot]
         /\ req[r] = Idle /\ Len(jobs) < MaxJobs /\ seconds' \in 0..MaxSeconds
         /\ overlapped' = (overlapped \/ Busy # {})
         /\ UNCHANGED <<template, mapping, edits, crashes, exports, mirror, status, files, late>>
<1>1. seconds' \in 0..MaxSeconds /\ seconds \in Nat
  BY Bounds DEF Begin, Types
<1>2. RequiredMissing(mapping[key], override) \in BOOLEAN
  <2>1. mapping[key].required \in BOOLEAN
    BY HwpAssumption DEF Types, Mapping
  <2>. QED BY <2>1 DEF RequiredMissing
<1>. DEFINE row == [key |-> key, at |-> seconds', status |-> "running", path |-> DefaultPath(key),
                    missing |-> RequiredMissing(mapping[key], override),
                    remaining |-> FALSE, export |-> 0, error |-> "none", review |-> "pending"]
            slot == [Idle EXCEPT !.phase = "calling", !.job = Len(jobs) + 1, !.left = Retries,
                                 !.mirror = mirror, !.status = status]
<1>3. BeginRow(row, key)
  <2>1. <<key, seconds'>> \in Paths
    BY <1>1 DEF Paths
  <2>. QED BY <1>1, <1>2, <2>1, Bounds DEF BeginRow, Job, JobStates, DefaultPath
<1>4. BeginSlot(slot)
  <2>1. Len(jobs) + 1 \in Nat /\ Retries \in 0..Retries /\ mirror \in Seq(Entry)
        /\ status \in NoticeStatuses
    BY Bounds DEF Types
  <2>. QED BY <2>1, IdleTyped DEF BeginSlot, Request, Idle
<1>5. /\ jobs' = Append(jobs, row) /\ req' = [req EXCEPT ![r] = slot]
      /\ req[r] = Idle /\ Len(jobs) < MaxJobs
      /\ overlapped' = (overlapped \/ Busy # {})
      /\ UNCHANGED <<template, mapping, edits, crashes, exports, mirror, status, files, late>>
  BY DEF Begin, admin
<1>. HIDE DEF row, slot
<1>. QED BY <1>1, <1>3, <1>4, <1>5

\* An attempt that fails costs the request an attempt and may leave the agent
\* at work on the job.
Attempt(r) == AgentRefuses(r) \/ AgentError(r) \/ Unreachable(r) \/ ReadTimeout(r)

\* An attempt counts, and may leave the agent working; nothing else.
LEMMA AttemptEffect ==
  ASSUME Types, Slots, NEW r \in Requests, Attempt(r)
  PROVE  /\ r \in Busy /\ req[r].phase = "calling"
         /\ \E left \in 0..Retries, b \in BOOLEAN :
              req' = [req EXCEPT ![r] = [req[r] EXCEPT !.left = left, !.connectFailed = b]]
         /\ late' \subseteq late \cup {req[r].job}
         /\ UNCHANGED <<template, mapping, edits, seconds, crashes,
                        jobs, exports, mirror, status, files, overlapped>>
<1>1. /\ req[r] \in Request /\ req[r].phase = "calling" /\ req[r].left \in 1..Retries
      /\ r \in Busy /\ req \in [Requests -> Request]
  BY BusyPhase, Bounds DEF Types, Request, Attempt, AgentRefuses, AgentError, Unreachable,
     ReadTimeout, Calling
<1>2. /\ 0 \in 0..Retries /\ req[r].left - 1 \in 0..Retries /\ req[r].connectFailed \in BOOLEAN
      /\ req[r] = [req[r] EXCEPT !.connectFailed = @]
  BY <1>1, Bounds DEF Request
<1>3. \E left \in 0..Retries, b \in BOOLEAN :
        req' = [req EXCEPT ![r] = [req[r] EXCEPT !.left = left, !.connectFailed = b]]
  <2>1. CASE AgentRefuses(r)
    BY <1>1, <1>2, <2>1 DEF AgentRefuses
  <2>2. CASE AgentError(r)
    <3>1. req' = [req EXCEPT ![r] = [req[r] EXCEPT !.left = req[r].left - 1]]
      BY <2>2 DEF AgentError
    <3>2. [req[r] EXCEPT !.left = req[r].left - 1]
            = [req[r] EXCEPT !.left = req[r].left - 1, !.connectFailed = req[r].connectFailed]
      BY <1>1 DEF Request
    <3>. QED BY <1>2, <3>1, <3>2
  <2>3. CASE Unreachable(r)
    BY <1>1, <1>2, <2>3 DEF Unreachable
  <2>4. CASE ReadTimeout(r)
    BY <1>1, <1>2, <2>4 DEF ReadTimeout
  <2>. QED BY <2>1, <2>2, <2>3, <2>4 DEF Attempt
<1>4. /\ late' \subseteq late \cup {req[r].job}
      /\ UNCHANGED <<template, mapping, edits, seconds, crashes,
                     jobs, exports, mirror, status, files, overlapped>>
  BY DEF Attempt, AgentRefuses, AgentError, Unreachable, ReadTimeout, admin, bound
<1>. QED BY <1>1, <1>3, <1>4
\* The agent wrote the file: the job knows of placeholders left, the request
\* goes on to record.
LEMMA DoneEffect ==
  ASSUME Types, Slots, NEW r \in Requests, NEW remaining \in BOOLEAN, AgentDone(r, remaining)
  PROVE  /\ r \in Busy /\ req[r].job \in Ids
         /\ Replaced(req[r].job, [jobs[req[r].job] EXCEPT !.remaining = remaining])
         /\ jobs' \in Seq(Job) /\ Len(jobs') = Len(jobs)
         /\ files' = [files EXCEPT ![jobs[req[r].job].path] = req[r].job]
         /\ \E set \in SUBSET Nat :
              req' = [req EXCEPT ![r] = [req[r] EXCEPT !.phase = "recording", !.retire = set]]
         /\ UNCHANGED <<template, mapping, edits, seconds, crashes,
                        exports, mirror, status, late, overlapped>>
<1>1. /\ r \in Busy /\ req[r].job \in Ids /\ req \in [Requests -> Request]
      /\ jobs[req[r].job] \in Job /\ DOMAIN jobs = Ids
  BY BusyPhase, IdsFacts DEF AgentDone, Calling, Slots, Types
<1>2. jobs' = [jobs EXCEPT ![req[r].job] = [jobs[req[r].job] EXCEPT !.remaining = remaining]]
  BY <1>1 DEF AgentDone
<1>3. [jobs[req[r].job] EXCEPT !.remaining = remaining] \in Job
  BY <1>1, RowUpdates
<1>4. Active(jobs[req[r].job].key) \in SUBSET Nat
  BY DEF Active, Types
<1>5. req' = [req EXCEPT ![r] = [req[r] EXCEPT !.phase = "recording",
                                               !.retire = Active(jobs[req[r].job].key)]]
  BY <1>1 DEF AgentDone
<1>6. files' = [files EXCEPT ![jobs[req[r].job].path] = req[r].job]
      /\ UNCHANGED <<template, mapping, edits, seconds, crashes,
                     exports, mirror, status, late, overlapped>>
  BY DEF AgentDone, FileWritten, admin, bound
<1>. QED BY <1>1, <1>2, <1>3, <1>4, <1>5, <1>6, ReplaceJob

\* The job fails and the mirror hears of it.
FailedRow(r) == [jobs[req[r].job] EXCEPT
                   !.status = "failed",
                   !.error = IF req[r].connectFailed THEN "unreachable" ELSE "failed"]

\* What the end of a failed request writes.
LEMMA FailedEffect ==
  ASSUME Types, Slots, NEW r \in Requests, CommitFailed(r)
  PROVE  /\ r \in Busy /\ req[r].job \in Ids /\ FailedRow(r) \in Job
         /\ Replaced(req[r].job, FailedRow(r))
         /\ jobs' \in Seq(Job) /\ Len(jobs') = Len(jobs)
         /\ mirror' = MergeJob(req[r].mirror, req[r].job, FailedRow(r))
         /\ req' = [req EXCEPT ![r] = Idle]
         /\ UNCHANGED <<template, mapping, edits, seconds, crashes,
                        exports, status, files, late, overlapped>>
<1>1. /\ r \in Busy /\ req[r].job \in Ids
      /\ jobs[req[r].job] \in Job
  BY BusyPhase, IdsFacts DEF CommitFailed, Slots
<1>2. FailedRow(r) \in Job
  BY <1>1, RowUpdates DEF FailedRow
<1>3. /\ jobs' = [jobs EXCEPT ![req[r].job] = FailedRow(r)]
      /\ mirror' = MergeJob(req[r].mirror, req[r].job, FailedRow(r))
      /\ req' = [req EXCEPT ![r] = Idle]
      /\ UNCHANGED <<template, mapping, edits, seconds, crashes,
                     exports, status, files, late, overlapped>>
  BY DEF CommitFailed, FailedRow, admin, bound
<1>. QED BY <1>1, <1>2, <1>3, ReplaceJob

\* The job is completed by a new export, older ones are deleted, the status
\* follows the job.
DoneRow(r) == [jobs[req[r].job] EXCEPT !.status = "completed", !.export = Len(exports) + 1]

\* What the end of a completed request writes.
LEMMA CompletedEffect ==
  ASSUME Types, Slots, NEW r \in Requests, CommitDone(r), Len(exports) + 1 \in 0..MaxJobs
  PROVE  /\ r \in Busy /\ req[r].job \in Ids /\ DoneRow(r) \in Job
         /\ Replaced(req[r].job, DoneRow(r))
         /\ jobs' \in Seq(Job) /\ Len(jobs') = Len(jobs)
         /\ exports' \in Seq(Export) /\ Len(exports') = Len(exports) + 1
         /\ exports'[Len(exports) + 1].key = jobs[req[r].job].key
         /\ \A e \in 1..Len(exports) : exports'[e].key = exports[e].key
         /\ mirror' = MergeJob(req[r].mirror, req[r].job, DoneRow(r))
         /\ status' = StatusAfter(req[r].status, DoneRow(r))
         /\ req' = [req EXCEPT ![r] = Idle]
         /\ UNCHANGED <<template, mapping, edits, seconds, crashes, files, late, overlapped>>
<1>1. r \in Busy /\ req[r].job \in Ids /\ jobs[req[r].job] \in Job
  BY BusyPhase, IdsFacts DEF CommitDone, Slots
<1>2. DoneRow(r) \in Job
  BY <1>1, RowUpdates DEF DoneRow
<1>. DEFINE retired(e) == IF e \in req[r].retire THEN [exports[e] EXCEPT !.state = "deleted"]
                                                 ELSE exports[e]
            older == [e \in DOMAIN exports |-> retired(e)]
            fresh == [key |-> jobs[req[r].job].key, state |-> "active"]
<1>3. /\ jobs' = [jobs EXCEPT ![req[r].job] = DoneRow(r)]
      /\ mirror' = MergeJob(req[r].mirror, req[r].job, DoneRow(r))
      /\ status' = StatusAfter(req[r].status, DoneRow(r))
      /\ exports' = Append(older, fresh)
      /\ req' = [req EXCEPT ![r] = Idle]
      /\ UNCHANGED <<template, mapping, edits, seconds, crashes, files, late, overlapped>>
  <2>1. DoneRow(r).key = jobs[req[r].job].key
    BY <1>1 DEF DoneRow, Job
  <2>. QED BY <2>1 DEF CommitDone, DoneRow, admin, bound
<1>4. /\ older \in Seq(Export) /\ Len(older) = Len(exports) /\ fresh \in Export
      /\ \A e \in 1..Len(exports) : older[e].key = exports[e].key
  <2>1. exports \in Seq(Export) /\ DOMAIN exports = 1..Len(exports) /\ Len(exports) \in Nat
    BY DEF Types
  <2>2. ASSUME NEW e \in 1..Len(exports)
        PROVE  retired(e) \in Export /\ retired(e).key = exports[e].key
    <3>1. exports[e] \in Export
      BY <2>1
    <3>2. ASSUME NEW row \in Export
          PROVE  /\ [row EXCEPT !.state = "deleted"] \in Export
                 /\ [row EXCEPT !.state = "deleted"].key = row.key
      BY DEF Export
    <3>. QED BY <3>1, <3>2
  <2>3. fresh \in Export
    BY <1>1 DEF Export, Job
  <2>. HIDE DEF retired, fresh
  <2>. QED BY <2>1, <2>2, <2>3
<1>5. fresh.key = jobs[req[r].job].key
  OBVIOUS
<1>. HIDE DEF older, fresh
<1>6. /\ exports' \in Seq(Export) /\ Len(exports') = Len(exports) + 1
      /\ exports'[Len(exports) + 1] = fresh
      /\ \A e \in 1..Len(exports) : exports'[e] = older[e]
  BY <1>3, <1>4 DEF Types
<1>. QED BY <1>1, <1>2, <1>3, <1>4, <1>5, <1>6, ReplaceJob

\* The running rows are rolled back, and the agent may be at work on them.
LEMMA CrashEffect ==
  ASSUME Types, Slots, Crash
  PROVE  /\ jobs' \in Seq(Job) /\ Ids' = Ids /\ Len(jobs') = Len(jobs)
         /\ \A j \in Ids : jobs'[j] = IF jobs[j].status = "running"
                                        THEN [jobs[j] EXCEPT !.status = "gone"] ELSE jobs[j]
         /\ late' \subseteq late \cup {req[r].job : r \in Busy}
         /\ req' = [r \in Requests |-> Idle]
         /\ crashes' = crashes + 1
         /\ UNCHANGED <<template, mapping, edits, seconds, exports, mirror, status, files,
                        overlapped>>
<1>1. \A j \in Ids : [jobs[j] EXCEPT !.status = "gone"] \in Job /\ jobs[j] \in Job
  BY IdsFacts, RowUpdates
<1>2. jobs' = [j \in Ids |-> IF jobs[j].status = "running"
                               THEN [jobs[j] EXCEPT !.status = "gone"] ELSE jobs[j]]
  BY DEF Crash
<1>3. /\ late' \subseteq late \cup {req[r].job : r \in Busy}
      /\ req' = [r \in Requests |-> Idle]
      /\ crashes' = crashes + 1
      /\ UNCHANGED <<template, mapping, edits, seconds, exports, mirror, status, files,
                     overlapped>>
  BY DEF Crash, admin
<1>4. Len(jobs) \in Nat
  BY IdsFacts
<1>5. jobs' \in Seq(Job) /\ Len(jobs') = Len(jobs)
  BY <1>1, <1>2, <1>4 DEF Ids
<1>. QED BY <1>2, <1>3, <1>5 DEF Ids

\* A review approves a committed row, in the table and in the mirror.
ReviewedRow(j) == [jobs[j] EXCEPT !.review = "approved"]

\* What a review writes.
LEMMA ReviewEffect ==
  ASSUME Types, NEW j \in Ids, Review(j)
  PROVE  /\ j \in Committed /\ jobs[j].review = "pending" /\ ReviewedRow(j) \in Job
         /\ Replaced(j, ReviewedRow(j))
         /\ jobs' \in Seq(Job) /\ Len(jobs') = Len(jobs)
         /\ mirror' = MergeJob(mirror, j, ReviewedRow(j))
         /\ overlapped' = (overlapped \/ Busy # {})
         /\ UNCHANGED <<template, mapping, edits, seconds, crashes,
                        exports, status, files, late, req>>
<1>1. jobs[j] \in Job /\ ReviewedRow(j) \in Job
  BY IdsFacts, RowUpdates DEF ReviewedRow
<1>2. /\ j \in Committed /\ jobs[j].review = "pending"
      /\ jobs' = [jobs EXCEPT ![j] = ReviewedRow(j)]
      /\ mirror' = MergeJob(mirror, j, ReviewedRow(j))
      /\ overlapped' = (overlapped \/ Busy # {})
      /\ UNCHANGED <<template, mapping, edits, seconds, crashes,
                     exports, status, files, late, req>>
  <2>1. DOMAIN jobs = Ids
    BY IdsFacts
  <2>. QED BY <2>1 DEF Review, ReviewedRow, admin, bound
<1>. QED BY <1>1, <1>2, ReplaceJob
-----------------------------------------------------------------------------
(* The mirror. *)

\* An interval from one has as many elements as its last.
LEMMA IntervalCount ==
  ASSUME NEW n \in Nat
  PROVE  IsFiniteSet(1..n) /\ Cardinality(1..n) = n
BY FS_Interval

\* Kept(m, keep) lists the entries at the positions in keep, each once.
LEMMA KeptFacts ==
  ASSUME NEW S, NEW m \in Seq(S), NEW keep \in SUBSET (1..Len(m))
  PROVE  /\ Kept(m, keep) \in Seq(S) /\ Len(Kept(m, keep)) = Cardinality(keep)
         /\ \E pos : /\ pos \in [1..Len(Kept(m, keep)) -> keep]
                     /\ \A k \in 1..Len(Kept(m, keep)) : Kept(m, keep)[k] = m[pos[k]]
                     /\ \A k, l \in 1..Len(Kept(m, keep)) : pos[k] = pos[l] => k = l
                     /\ \A i \in keep : \E k \in 1..Len(Kept(m, keep)) : pos[k] = i
<1>1. /\ IsFiniteSet(keep) /\ Cardinality(keep) \in Nat
      /\ keep \subseteq Nat
  <2>1. Len(m) \in Nat
    OBVIOUS
  <2>2. IsFiniteSet(1..Len(m))
    BY <2>1, FS_Interval
  <2>3. IsFiniteSet(keep)
    BY <2>2, FS_Subset
  <2>. QED BY <2>1, <2>3, FS_CardinalityType
<1>. DEFINE c == Cardinality(keep)
            upTo(i) == {h \in keep : h <= i}
            rank == [i \in keep |-> Cardinality(upTo(i))]
            pos == [k \in 1..c |-> CHOOSE i \in keep : Cardinality(upTo(i)) = k]
<1>2. ASSUME NEW i \in keep
      PROVE  IsFiniteSet(upTo(i)) /\ Cardinality(upTo(i)) \in 1..c
  <2>1. upTo(i) \in SUBSET keep /\ i \in upTo(i)
    BY <1>1
  <2>2. IsFiniteSet(upTo(i)) /\ Cardinality(upTo(i)) <= c /\ Cardinality(upTo(i)) \in Nat
    BY <1>1, <2>1, FS_Subset, FS_CardinalityType
  <2>3. Cardinality(upTo(i)) # 0
    BY <2>1, <2>2, FS_EmptySet
  <2>. QED BY <1>1, <2>2, <2>3
<1>3. ASSUME NEW i \in keep, NEW h \in keep, Cardinality(upTo(i)) = Cardinality(upTo(h)), i <= h
      PROVE  i = h
  <2>1. upTo(i) \in SUBSET upTo(h)
    <3>1. i \in Nat /\ h \in Nat
      BY <1>1
    <3>2. ASSUME NEW x \in keep, x <= i PROVE x <= h
      BY <1>1, <1>3, <3>1, <3>2
    <3>. QED BY <3>2
  <2>2. upTo(i) = upTo(h)
    <3>1. IsFiniteSet(upTo(h)) /\ Cardinality(upTo(h)) = Cardinality(upTo(i))
      BY <1>2, <1>3
    <3>. HIDE DEF upTo
    <3>. QED BY <2>1, <3>1, FS_Subset
  <2>3. h \in upTo(h)
    BY <1>1
  <2>4. h \in upTo(i)
    BY <2>2, <2>3
  <2>5. h <= i
    BY <2>4
  <2>. QED BY <1>1, <1>3, <2>5
<1>4. \A i, h \in keep : Cardinality(upTo(i)) = Cardinality(upTo(h)) => i = h
  <2>1. \A i, h \in keep : i <= h \/ h <= i
    BY <1>1
  <2>. HIDE DEF upTo
  <2>. QED BY <1>3, <2>1
<1>5. ASSUME NEW k \in 1..c
      PROVE  \E i \in keep : Cardinality(upTo(i)) = k
  <2>. HIDE DEF upTo
  <2>1. rank \in [keep -> 1..c] /\ \A i, h \in keep : rank[i] = rank[h] => i = h
    BY <1>2, <1>4
  <2>. HIDE DEF rank
  <2>2. rank \in Injection(keep, 1..c)
    BY <2>1, Fun_IsInj
  <2>3. IsFiniteSet(1..c) /\ Cardinality(1..c) = c
    BY <1>1, FS_Interval
  <2>4. rank \in Surjection(keep, 1..c)
    BY <2>2, <2>3, FS_Injection
  <2>5. \E i \in keep : rank[i] = k
    BY <2>4 DEF Surjection
  <2>. QED BY <2>5 DEF rank
<1>6. \A k \in 1..c : pos[k] \in keep /\ Cardinality(upTo(pos[k])) = k
  <2>. HIDE DEF upTo
  <2>. QED BY <1>5
<1>7. Kept(m, keep) = [k \in 1..c |-> m[pos[k]]]
  BY DEF Kept
<1>. HIDE DEF pos, upTo
<1>8. /\ Kept(m, keep) \in Seq(S) /\ Len(Kept(m, keep)) = c
      /\ \A k \in 1..c : Kept(m, keep)[k] = m[pos[k]]
  <2>1. \A k \in 1..c : m[pos[k]] \in S
    <3>1. \A i \in 1..Len(m) : m[i] \in S
      OBVIOUS
    <3>. QED BY <1>6, <3>1
  <2>. HIDE DEF c
  <2>. QED BY <1>1, <1>7, <2>1 DEF c
<1>9. \A i \in keep : \E k \in 1..c : pos[k] = i
  BY <1>2, <1>4, <1>6
<1>10. \A k, l \in 1..c : pos[k] = pos[l] => k = l
  BY <1>6
<1>11. pos \in [1..c -> keep]
  BY <1>6 DEF pos
<1>. QED BY <1>8, <1>9, <1>10, <1>11
\* A merge puts the new entry first, keeps others of the list, each once, and
\* loses one only when the list is full.
LEMMA MergeFacts ==
  ASSUME NEW m \in Seq(Entry), Unique(m), NEW j \in Nat, NEW row \in Job,
         NEW merged, merged = MergeJob(m, j, row)
  PROVE  /\ merged \in Seq(Entry) /\ Len(merged) \in 1..MirrorLimit /\ Unique(merged)
         /\ merged[1] = [id |-> j, job |-> row]
         /\ \A k \in 2..Len(merged) : \E i \in DOMAIN m : m[i].id # j /\ merged[k] = m[i]
         /\ Len(merged) < MirrorLimit =>
              /\ Len(m) < MirrorLimit
              /\ \A i \in DOMAIN m : m[i].id # j => \E k \in DOMAIN merged : merged[k] = m[i]
<1>. DEFINE keep == {i \in DOMAIN m : m[i].id # j}
            others == Others(m, j)
            first == [id |-> j, job |-> row]
            all == <<first>> \o others
<1>1. keep \in SUBSET (1..Len(m)) /\ others = Kept(m, keep) /\ DOMAIN m = 1..Len(m)
  BY DEF Others
<1>2. PICK pos : /\ pos \in [1..Len(others) -> keep]
                 /\ \A k \in 1..Len(others) : others[k] = m[pos[k]]
                 /\ \A k, l \in 1..Len(others) : pos[k] = pos[l] => k = l
                 /\ \A i \in keep : \E k \in 1..Len(others) : pos[k] = i
  <2>. HIDE DEF keep, others
  <2>1. \E pos : /\ pos \in [1..Len(Kept(m, keep)) -> keep]
                 /\ \A k \in 1..Len(Kept(m, keep)) : Kept(m, keep)[k] = m[pos[k]]
                 /\ \A k, l \in 1..Len(Kept(m, keep)) : pos[k] = pos[l] => k = l
                 /\ \A i \in keep : \E k \in 1..Len(Kept(m, keep)) : pos[k] = i
    BY <1>1, KeptFacts, SMTT(60)
  <2>. QED BY <1>1, <2>1
<1>3. others \in Seq(Entry) /\ Len(others) \in Nat /\ Len(others) = Cardinality(keep)
  BY <1>1, KeptFacts
<1>4. first \in Entry
  BY DEF Entry
<1>. HIDE DEF others, first
<1>5. /\ all \in Seq(Entry) /\ Len(all) = Len(others) + 1 /\ all[1] = first
      /\ \A k \in 2..Len(all) : all[k] = others[k - 1]
  BY <1>3, <1>4
<1>. DEFINE n == IF Len(all) < MirrorLimit THEN Len(all) ELSE MirrorLimit
<1>6. merged = SubSeq(all, 1, n)
  BY DEF MergeJob, others, first
<1>7. n \in 1..Len(all) /\ n <= MirrorLimit /\ n \in Nat
  BY <1>3, <1>5, Bounds
<1>. HIDE DEF all, n
<1>8. merged \in Seq(Entry) /\ Len(merged) = n /\ \A k \in 1..n : merged[k] = all[k]
  BY <1>5, <1>6, <1>7
<1>9. merged[1] = first /\ \A k \in 2..n : merged[k] = others[k - 1]
  BY <1>5, <1>7, <1>8
<1>10. \A k \in 2..n : k - 1 \in 1..Len(others)
  BY <1>3, <1>5, <1>7
<1>11. \A k \in 2..n : pos[k - 1] \in keep /\ merged[k] = m[pos[k - 1]]
  BY <1>2, <1>9, <1>10
<1>12. \A k \in 2..n : merged[k].id # j
  BY <1>1, <1>11
<1>13. ASSUME NEW k \in 1..n, NEW l \in 1..n, merged[k].id = merged[l].id
       PROVE  k = l
  <2>1. merged[1].id = j
    BY <1>9 DEF first
  <2>2. CASE k = 1 \/ l = 1
    BY <1>7, <1>12, <1>13, <2>1, <2>2
  <2>3. CASE k # 1 /\ l # 1
    <3>1. k \in 2..n /\ l \in 2..n
      BY <1>7, <2>3
    <3>2. m[pos[k - 1]].id = m[pos[l - 1]].id
      BY <1>11, <1>13, <3>1
    <3>3. pos[k - 1] = pos[l - 1]
      BY <1>11, <3>1, <3>2 DEF Unique
    <3>4. k - 1 = l - 1
      BY <1>2, <1>10, <3>1, <3>3
    <3>. QED BY <3>1, <3>4
  <2>. QED BY <2>2, <2>3
<1>14. ASSUME n < MirrorLimit, NEW i \in DOMAIN m, m[i].id # j
       PROVE  \E k \in 1..n : merged[k] = m[i]
  <2>1. n = Len(all)
    BY <1>5, <1>14, Bounds DEF n
  <2>2. PICK k \in 1..Len(others) : pos[k] = i
    BY <1>2, <1>14
  <2>3. k + 1 \in 2..n /\ (k + 1) - 1 = k
    BY <1>3, <1>5, <2>1
  <2>4. merged[k + 1] = m[i]
    BY <1>11, <2>2, <2>3
  <2>. QED BY <2>3, <2>4, <1>7
<1>15. DOMAIN merged = 1..n
  BY <1>8
<1>16. merged \in Seq(Entry) /\ Len(merged) \in 1..MirrorLimit /\ Unique(merged)
  BY <1>7, <1>8, <1>13, <1>15, Bounds DEF Unique
<1>17. \A k \in 2..Len(merged) : \E i \in DOMAIN m : m[i].id # j /\ merged[k] = m[i]
  BY <1>8, <1>11
<1>19. Len(others) >= Len(m) - 1
  <2>0. Len(m) \in Nat
    OBVIOUS
  <2>1. IsFiniteSet(1..Len(m)) /\ Cardinality(1..Len(m)) = Len(m)
    BY <2>0, IntervalCount
  <2>2. CASE \E p \in 1..Len(m) : m[p].id = j
    <3>1. PICK p \in 1..Len(m) : m[p].id = j
      BY <2>2
    <3>2. keep = (1..Len(m)) \ {p}
      BY <1>1, <3>1 DEF Unique
    <3>3. Cardinality((1..Len(m)) \ {p}) = Len(m) - 1
      BY <2>1, <3>1, FS_RemoveElement
    <3>. HIDE DEF keep
    <3>. QED BY <1>3, <2>0, <3>2, <3>3
  <2>3. CASE ~ \E p \in 1..Len(m) : m[p].id = j
    <3>1. keep = 1..Len(m)
      BY <1>1, <2>3
    <3>. HIDE DEF keep
    <3>. QED BY <1>3, <2>0, <2>1, <3>1
  <2>. QED BY <2>2, <2>3
<1>20. Len(merged) < MirrorLimit => Len(m) < MirrorLimit
  <2>1. ASSUME n < MirrorLimit PROVE n = Len(others) + 1
    BY <1>3, <1>5, <2>1, Bounds DEF n
  <2>2. Len(m) \in Nat
    OBVIOUS
  <2>. QED BY <1>3, <1>7, <1>8, <1>19, <2>1, <2>2, Bounds
<1>18. Len(merged) < MirrorLimit =>
         \A i \in DOMAIN m : m[i].id # j => \E k \in DOMAIN merged : merged[k] = m[i]
  BY <1>8, <1>14, <1>15
<1>. QED BY <1>9, <1>16, <1>17, <1>18, <1>20 DEF first
\* A mirror stays one while the rows it may list do not change.
LEMMA MirrorStays ==
  ASSUME NEW m \in Seq(Entry), NEW table, NEW table2,
         CommittedIn(table) \subseteq CommittedIn(table2),
         \A j \in CommittedIn(table) : table2[j] = table[j]
  PROVE  /\ MirrorOf(m, table) => MirrorOf(m, table2)
         /\ CommittedIn(table2) = CommittedIn(table) /\ MirrorOf(m, table) /\ ExactMirror(m, table)
              => ExactMirror(m, table2)
BY DEF MirrorOf, ExactMirror

\* The merge of row j, as the table now has it, makes a mirror of the table
\* from one that was a mirror before, and keeps it exact.
LEMMA MirrorMerged ==
  ASSUME NEW m \in Seq(Entry), NEW table, NEW table2, MirrorOf(m, table),
         NEW j \in Nat, NEW row \in Job, table2[j] = row,
         CommittedIn(table2) = CommittedIn(table) \cup {j},
         \A i \in CommittedIn(table) \ {j} : table2[i] = table[i],
         NEW merged, merged = MergeJob(m, j, row)
  PROVE  /\ merged \in Seq(Entry) /\ MirrorOf(merged, table2)
         /\ ExactMirror(m, table) => ExactMirror(merged, table2)
<1>1. Unique(m)
  BY DEF MirrorOf
<1>2. /\ merged \in Seq(Entry) /\ Len(merged) \in 1..MirrorLimit /\ Unique(merged)
      /\ merged[1] = [id |-> j, job |-> row]
      /\ \A k \in 2..Len(merged) : \E i \in DOMAIN m : m[i].id # j /\ merged[k] = m[i]
      /\ Len(merged) < MirrorLimit =>
           /\ Len(m) < MirrorLimit
           /\ \A i \in DOMAIN m : m[i].id # j => \E k \in DOMAIN merged : merged[k] = m[i]
  BY <1>1, MergeFacts
<1>3. /\ DOMAIN merged = 1..Len(merged) /\ 1 \in DOMAIN merged
      /\ \A k \in DOMAIN merged : k = 1 \/ k \in 2..Len(merged)
      /\ Len(merged) <= MirrorLimit
  BY <1>2, Bounds
<1>4. ASSUME NEW k \in DOMAIN merged
      PROVE  /\ merged[k].id \in CommittedIn(table2)
             /\ merged[k].job \in {table2[merged[k].id],
                                   [table2[merged[k].id] EXCEPT !.review = "pending"]}
             /\ ExactMirror(m, table) => merged[k].job = table2[merged[k].id]
  <2>1. CASE k = 1
    BY <1>2, <2>1
  <2>2. CASE k # 1
    <3>1. PICK i \in DOMAIN m : m[i].id # j /\ merged[k] = m[i]
      BY <1>2, <1>3, <2>2
    <3>2. m[i].id \in CommittedIn(table) \ {j} /\ table2[m[i].id] = table[m[i].id]
      BY <3>1 DEF MirrorOf
    <3>. QED BY <3>1, <3>2 DEF MirrorOf, ExactMirror
  <2>. QED BY <2>1, <2>2
<1>5. ASSUME ExactMirror(m, table), Len(merged) < MirrorLimit, NEW i \in CommittedIn(table2)
      PROVE  \E k \in DOMAIN merged : merged[k].id = i
  <2>1. CASE i = j
    BY <1>2, <1>3, <2>1
  <2>2. CASE i # j
    <3>1. PICK h \in DOMAIN m : m[h].id = i
      BY <1>2, <1>5, <2>2 DEF ExactMirror
    <3>. QED BY <1>2, <1>5, <2>2, <3>1
  <2>. QED BY <2>1, <2>2
<1>. QED BY <1>2, <1>3, <1>4, <1>5 DEF MirrorOf, ExactMirror
-----------------------------------------------------------------------------
(* The invariant is inductive. *)

\* The empty table satisfies it.
LEMMA InitIInv == Init => IInv
<1>. SUFFICES ASSUME Init PROVE IInv
  OBVIOUS
<1>1. /\ jobs = <<>> /\ exports = <<>> /\ mirror = <<>> /\ status = "analyzed"
      /\ Ids = {} /\ Busy = {} /\ Len(mirror) = 0 /\ DOMAIN mirror = {} /\ Len(exports) = 0
  BY DEF Init, Ids, Busy
<1>2. Types
  <2>1. \A r \in Requests : req[r] = Idle
    BY DEF Init
  <2>2. /\ jobs \in Seq(Job) /\ Len(jobs) = 0 /\ exports \in Seq(Export) /\ mirror \in Seq(Entry)
    BY <1>1
  <2>3. template \in [Keys -> BOOLEAN] /\ mapping \in [Keys -> Mappings]
    BY DEF Init
  <2>4. files \in [Paths -> 0..Len(jobs)] /\ late \subseteq Ids
    BY <2>2 DEF Init
  <2>5. req \in [Requests -> Request]
    BY IdleTyped DEF Init
  <2>6. /\ Len(jobs) <= MaxJobs /\ seconds \in 0..MaxSeconds /\ edits \in Nat /\ crashes \in Nat
        /\ overlapped \in BOOLEAN /\ status \in NoticeStatuses
    <3>1. Len(jobs) <= MaxJobs /\ 0 \in 0..MaxSeconds
      BY <2>2, Bounds
    <3>. QED BY <3>1 DEF Init, NoticeStatuses
  <2>. QED BY <2>2, <2>3, <2>4, <2>5, <2>6 DEF Types
<1>3. Slots
  BY <1>1 DEF Init, Slots
<1>4. Completed = {}
  BY <1>1 DEF Completed
<1>5. Rows
  BY <1>1, <1>4, FS_EmptySet DEF Rows
<1>6. Clean
  BY <1>1 DEF Clean
<1>7. Written
  BY <1>1, <1>4 DEF Init, Written
<1>8. Mirrored
  <2>1. CommittedIn(jobs) = {}
    BY <1>1 DEF CommittedIn
  <2>. QED BY <1>1, <2>1, Bounds DEF Mirrored, MirrorOf, ExactMirror, Unique
<1>. QED BY <1>2, <1>3, <1>5, <1>6, <1>7, <1>8 DEF IInv

\* The committed rows of the table are those a mirror may list.
LEMMA CommittedRows == Committed = CommittedIn(jobs)
BY DEF Committed, CommittedIn, Ids

\* put-fields adds a running row of its own.
LEMMA BeginKeepsIInv ==
  ASSUME IInv, NEW r \in Requests, NEW key \in Keys, NEW override, Begin(r, key, override)
  PROVE  IInv'
<1>1. Types /\ Slots /\ Rows /\ Clean /\ Written /\ Mirrored
  BY DEF IInv
<1>2. PICK row : BeginRow(row, key) /\ jobs' = Append(jobs, row)
  BY <1>1, BeginEffect
<1>3. PICK slot : BeginSlot(slot) /\ req' = [req EXCEPT ![r] = slot]
  BY <1>1, BeginEffect
<1>4. /\ req[r] = Idle /\ Len(jobs) < MaxJobs /\ seconds' \in 0..MaxSeconds
      /\ overlapped' = (overlapped \/ Busy # {})
      /\ UNCHANGED <<template, mapping, edits, crashes, exports, mirror, status, files, late>>
  BY <1>1, BeginEffect
<1>. DEFINE n == Len(jobs) + 1
<1>5. /\ row \in Job /\ jobs \in Seq(Job) /\ Len(jobs) \in Nat /\ Ids = 1..Len(jobs)
  BY <1>1, <1>2, IdsFacts DEF BeginRow, Types, Ids
<1>6. /\ jobs' \in Seq(Job) /\ Len(jobs') = n /\ Ids' = Ids \cup {n} /\ n \notin Ids
      /\ jobs'[n] = row /\ \A j \in Ids : jobs'[j] = jobs[j]
  BY <1>2, <1>5 DEF Ids
<1>. HIDE DEF n
<1>7. /\ r \notin Busy /\ Busy' = Busy \cup {r}
      /\ req'[r] = slot /\ \A q \in Busy : q # r /\ req'[q] = req[q]
      /\ \A q \in Requests \ {r} : req'[q] = req[q]
  <2>1. slot # Idle
    BY <1>3 DEF BeginSlot, Idle
  <2>2. req'[r] = slot /\ \A q \in Requests \ {r} : req'[q] = req[q]
    BY <1>1, <1>3, OneSlotChanges
  <2>3. r \notin Busy
    BY <1>4 DEF Busy
  <2>. QED BY <2>1, <2>2, <2>3 DEF Busy
<1>8. /\ row.status = "running" /\ row.path = <<row.key, row.at>> /\ row.export = 0
      /\ row.error = "none"
  BY <1>2 DEF BeginRow
<1>9. /\ slot \in Request /\ slot.phase = "calling" /\ slot.job = n
      /\ slot.mirror = mirror /\ slot.status = status
  BY <1>3 DEF BeginSlot, n
<1>10. Completed' = Completed /\ Committed' = Committed
  BY <1>6, <1>8 DEF Completed, Committed
<1>11. Types'
  <2>1. Len(jobs') <= MaxJobs
    BY <1>4, <1>5, <1>6, Bounds DEF n
  <2>2. files \in [Paths -> 0..Len(jobs')]
    BY <1>1, <1>5, <1>6 DEF Types, n
  <2>3. req' \in [Requests -> Request]
    BY <1>1, <1>3, <1>9 DEF Types
  <2>4. overlapped' \in BOOLEAN /\ late \subseteq Ids'
    BY <1>1, <1>4, <1>6 DEF Types
  <2>. QED BY <1>1, <1>4, <1>6, <2>1, <2>2, <2>3, <2>4 DEF Types
<1>12. Slots'
  BY <1>1, <1>6, <1>7, <1>8, <1>9 DEF Slots
<1>13. Rows'
  <2>1. \A j \in Ids' : jobs'[j].path = <<jobs'[j].key, jobs'[j].at>>
    BY <1>1, <1>6, <1>8 DEF Rows
  <2>2. ASSUME NEW j \in Ids'
        PROVE CASE jobs'[j].status = "completed" ->
                     /\ jobs'[j].export \in 1..Len(exports') /\ jobs'[j].error = "none"
                     /\ exports'[jobs'[j].export].key = jobs'[j].key
                [] jobs'[j].status = "failed" -> jobs'[j].export = 0 /\ jobs'[j].error # "none"
                [] OTHER                      -> jobs'[j].export = 0 /\ jobs'[j].error = "none"
    <3>1. CASE j = n
      BY <1>6, <1>8, <3>1
    <3>2. CASE j \in Ids
      BY <1>1, <1>4, <1>6, <3>2 DEF Rows
    <3>. QED BY <1>6, <3>1, <3>2
  <2>3. \A j \in Completed : j \in Ids
    BY DEF Completed
  <2>. QED BY <1>1, <1>4, <1>6, <1>10, <2>1, <2>2, <2>3 DEF Rows
<1>14. CleanJob => CleanJob'
  <2>1. Committed \subseteq Ids
    BY DEF Committed
  <2>. QED BY <1>6, <1>10, <2>1 DEF CleanJob
<1>15. Clean'
  BY <1>1, <1>4, <1>7, <1>9, <1>14 DEF Clean
<1>16. Written'
  <2>1. \A p \in Paths : files[p] # 0 => files[p] \in Ids
    BY <1>1, <1>5 DEF Types
  <2>2. \A j \in Completed : j \in Ids
    BY DEF Completed
  <2>3. \A q \in Busy : req[q].job \in Ids
    BY <1>1 DEF Slots
  <2>. QED BY <1>1, <1>4, <1>6, <1>7, <1>9, <1>10, <2>1, <2>2, <2>3 DEF Written
<1>17. Mirrored'
  <2>1. CommittedIn(jobs') = CommittedIn(jobs) /\ \A j \in CommittedIn(jobs) : jobs'[j] = jobs[j]
    BY <1>6, <1>10, CommittedRows DEF Committed, CommittedIn, Ids
  <2>2. mirror \in Seq(Entry) /\ \A q \in Busy : req[q].mirror \in Seq(Entry)
    BY <1>1 DEF Types, Request, Busy
  <2>3. MirrorOf(mirror, jobs') /\ \A q \in Busy : MirrorOf(req[q].mirror, jobs')
    BY <1>1, <2>1, <2>2, MirrorStays DEF Mirrored
  <2>4. ~ overlapped' => /\ Busy = {} /\ ExactMirror(mirror, jobs')
    BY <1>1, <1>4, <2>1, <2>2, MirrorStays DEF Mirrored
  <2>. QED BY <1>4, <1>7, <1>9, <2>3, <2>4 DEF Mirrored
<1>. QED BY <1>11, <1>12, <1>13, <1>15, <1>16, <1>17 DEF IInv
\* A slot that goes on with its request.
LEMMA SlotGoesOn ==
  ASSUME Types, Slots, NEW r \in Busy, NEW slot \in Request, slot.phase # "idle",
         slot.job = req[r].job, slot.mirror = req[r].mirror, slot.status = req[r].status,
         req' = [req EXCEPT ![r] = slot]
  PROVE  /\ Busy' = Busy /\ req' \in [Requests -> Request] /\ req'[r] = slot
         /\ \A q \in Busy \ {r} : req'[q] = req[q]
         /\ \A q \in Busy : /\ req'[q].job = req[q].job /\ req'[q].mirror = req[q].mirror
                            /\ req'[q].status = req[q].status
         /\ \A q \in Requests : req'[q].phase = "idle" => req'[q] = Idle
<1>1. r \in Requests /\ slot # Idle
  BY DEF Busy, Idle
<1>2. req'[r] = slot /\ \A q \in Requests \ {r} : req'[q] = req[q]
  BY <1>1, OneSlotChanges
<1>3. Busy' = Busy
  BY <1>1, <1>2 DEF Busy
<1>4. req' \in [Requests -> Request]
  BY DEF Types
<1>. QED BY <1>1, <1>2, <1>3, <1>4 DEF Busy, Slots

\* A slot whose request is answered.
LEMMA SlotEnds ==
  ASSUME Types, Slots, NEW r \in Busy, req' = [req EXCEPT ![r] = Idle]
  PROVE  /\ Busy' = Busy \ {r} /\ req' \in [Requests -> Request]
         /\ \A q \in Busy' : req'[q] = req[q]
         /\ \A q \in Requests : req'[q].phase = "idle" => req'[q] = Idle
<1>1. r \in Requests
  BY DEF Busy
<1>2. req'[r] = Idle /\ \A q \in Requests \ {r} : req'[q] = req[q]
  BY <1>1, OneSlotChanges
<1>3. Busy' = Busy \ {r}
  BY <1>1, <1>2 DEF Busy
<1>4. req' \in [Requests -> Request]
  BY IdleTyped DEF Types
<1>. QED BY <1>2, <1>3, <1>4 DEF Slots

\* A failed attempt changes no more than the attempts left.
LEMMA AttemptKeepsIInv ==
  ASSUME IInv, NEW r \in Requests, Attempt(r)
  PROVE  IInv'
<1>1. Types /\ Slots /\ Rows /\ Clean /\ Written /\ Mirrored
  BY DEF IInv
<1>2. PICK left \in 0..Retries, b \in BOOLEAN :
        req' = [req EXCEPT ![r] = [req[r] EXCEPT !.left = left, !.connectFailed = b]]
  BY <1>1, AttemptEffect
<1>3. /\ r \in Busy /\ req[r].phase = "calling" /\ late' \subseteq late \cup {req[r].job}
      /\ UNCHANGED <<template, mapping, edits, seconds, crashes,
                     jobs, exports, mirror, status, files, overlapped>>
  BY <1>1, AttemptEffect
<1>. DEFINE slot == [req[r] EXCEPT !.left = left, !.connectFailed = b]
<1>4. /\ slot \in Request /\ slot.phase = "calling" /\ slot.job = req[r].job
      /\ slot.mirror = req[r].mirror /\ slot.status = req[r].status
  <2>1. req[r] \in Request
    BY <1>1 DEF Types
  <2>. QED BY <1>3, <2>1 DEF Request
<1>5. req' = [req EXCEPT ![r] = slot]
  BY <1>2
<1>. HIDE DEF slot
<1>6. /\ Busy' = Busy /\ req' \in [Requests -> Request] /\ req'[r] = slot
      /\ \A q \in Busy \ {r} : req'[q] = req[q]
      /\ \A q \in Busy : /\ req'[q].job = req[q].job /\ req'[q].mirror = req[q].mirror
                         /\ req'[q].status = req[q].status
      /\ \A q \in Requests : req'[q].phase = "idle" => req'[q] = Idle
  BY <1>1, <1>3, <1>4, <1>5, SlotGoesOn
<1>7. Ids' = Ids /\ Completed' = Completed /\ Committed' = Committed
  BY <1>3 DEF Ids, Completed, Committed
<1>8. Types'
  BY <1>1, <1>3, <1>6, <1>7 DEF Types, Slots
<1>9. Slots'
  BY <1>1, <1>3, <1>6, <1>7 DEF Slots
<1>10. Rows'
  BY <1>1, <1>3, <1>7 DEF Rows
<1>11. Clean'
  BY <1>1, <1>3, <1>6, <1>7 DEF Clean, CleanJob
<1>12. Written'
  BY <1>1, <1>3, <1>4, <1>6, <1>7 DEF Written
<1>13. Mirrored'
  BY <1>1, <1>3, <1>6 DEF Mirrored
<1>. QED BY <1>8, <1>9, <1>10, <1>11, <1>12, <1>13 DEF IInv

\* An attempt given up may still write the file of its job.
LEMMA LateWriteKeepsIInv ==
  ASSUME IInv, NEW j \in Ids, LateWrite(j)
  PROVE  IInv'
<1>1. Types /\ Slots /\ Rows /\ Clean /\ Written /\ Mirrored
  BY DEF IInv
<1>2. /\ files' = [files EXCEPT ![jobs[j].path] = j]
      /\ UNCHANGED <<template, mapping, edits, seconds, crashes, jobs, exports, mirror, status,
                     late, req, overlapped>>
  BY DEF LateWrite, admin, bound
<1>3. /\ Ids' = Ids /\ Busy' = Busy /\ Completed' = Completed /\ Committed' = Committed
      /\ jobs[j].path \in Paths /\ j # 0 /\ j \in 0..Len(jobs)
  BY <1>1, <1>2, IdsFacts DEF Ids, Busy, Completed, Committed, Job
<1>4. /\ files' \in [Paths -> 0..Len(jobs)] /\ files'[jobs[j].path] = j
      /\ \A p \in Paths : p # jobs[j].path => files'[p] = files[p]
  BY <1>1, <1>2, <1>3 DEF Types
<1>5. Types'
  BY <1>1, <1>2, <1>3, <1>4 DEF Types
<1>6. Slots'
  BY <1>1, <1>2, <1>3 DEF Slots
<1>7. Rows'
  BY <1>1, <1>2, <1>3 DEF Rows
<1>8. Clean'
  BY <1>1, <1>2, <1>3 DEF Clean, CleanJob
<1>9. Written'
  <2>1. \A p \in Paths : files[p] # 0 => files'[p] # 0
    BY <1>3, <1>4
  <2>2. \A i \in Ids : jobs[i].path \in Paths
    BY <1>1, IdsFacts DEF Job
  <2>3. Completed \subseteq Ids /\ \A r \in Busy : req[r].job \in Ids
    BY <1>1 DEF Completed, Slots
  <2>. QED BY <1>1, <1>2, <1>3, <1>4, <2>1, <2>2, <2>3 DEF Written
<1>10. Mirrored'
  BY <1>1, <1>2, <1>3 DEF Mirrored
<1>. QED BY <1>5, <1>6, <1>7, <1>8, <1>9, <1>10 DEF IInv

\* The administration of templates and a step of nobody leave the rows alone.
LEMMA OthersKeepIInv ==
  ASSUME IInv, (\E key \in Keys : SaveTemplate(key) \/ SaveMapping(key)) \/ UNCHANGED vars
  PROVE  IInv'
<1>1. Types /\ Slots /\ Rows /\ Clean /\ Written /\ Mirrored
  BY DEF IInv
<1>2. UNCHANGED <<seconds, crashes, jobs, exports, mirror, status, files, late, req, overlapped>>
  BY DEF SaveTemplate, SaveMapping, vars, bound
<1>3. Ids' = Ids /\ Busy' = Busy /\ Completed' = Completed /\ Committed' = Committed
  BY <1>2 DEF Ids, Busy, Completed, Committed
<1>4. /\ template' \in [Keys -> BOOLEAN] /\ mapping' \in [Keys -> Mappings] /\ edits' \in Nat
  <2>1. template \in [Keys -> BOOLEAN] /\ mapping \in [Keys -> Mappings] /\ edits \in Nat
    BY <1>1 DEF Types
  <2>2. CASE UNCHANGED vars
    BY <2>1, <2>2 DEF vars, admin
  <2>3. ASSUME NEW key \in Keys, SaveTemplate(key)
        PROVE  template' \in [Keys -> BOOLEAN] /\ mapping' \in [Keys -> Mappings] /\ edits' \in Nat
    <3>1. template' = [template EXCEPT ![key] = ~ template[key]]
          /\ mapping' = mapping /\ edits' = edits + 1
      BY <2>3 DEF SaveTemplate
    <3>2. [template EXCEPT ![key] = ~ template[key]] \in [Keys -> BOOLEAN]
      BY <2>1, Zenon
    <3>. QED BY <2>1, <3>1, <3>2
  <2>4. ASSUME NEW key \in Keys, SaveMapping(key)
        PROVE  template' \in [Keys -> BOOLEAN] /\ mapping' \in [Keys -> Mappings] /\ edits' \in Nat
    BY <2>1, <2>4 DEF SaveMapping
  <2>. QED BY <2>2, <2>3, <2>4
<1>5. Types'
  BY <1>1, <1>2, <1>3, <1>4 DEF Types
<1>6. Slots' /\ Rows'
  BY <1>1, <1>2, <1>3 DEF Slots, Rows
<1>7. Clean' /\ Written'
  BY <1>1, <1>2, <1>3 DEF Clean, CleanJob, Written
<1>8. Mirrored'
  BY <1>1, <1>2, <1>3 DEF Mirrored
<1>. QED BY <1>5, <1>6, <1>7, <1>8 DEF IInv
\* A filled form is recorded in the row of its job.
LEMMA DoneKeepsIInv ==
  ASSUME IInv, NEW r \in Requests, NEW remaining \in BOOLEAN, AgentDone(r, remaining)
  PROVE  IInv'
<1>1. Types /\ Slots /\ Rows /\ Clean /\ Written /\ Mirrored
  BY DEF IInv
<1>. DEFINE j == req[r].job
            row == [jobs[j] EXCEPT !.remaining = remaining]
<1>2. /\ r \in Busy /\ j \in Ids /\ Replaced(j, row)
      /\ jobs' \in Seq(Job) /\ Len(jobs') = Len(jobs)
      /\ files' = [files EXCEPT ![jobs[j].path] = j]
      /\ UNCHANGED <<template, mapping, edits, seconds, crashes,
                     exports, mirror, status, late, overlapped>>
  BY <1>1, DoneEffect
<1>3. PICK set \in SUBSET Nat :
        req' = [req EXCEPT ![r] = [req[r] EXCEPT !.phase = "recording", !.retire = set]]
  BY <1>1, DoneEffect
<1>. DEFINE slot == [req[r] EXCEPT !.phase = "recording", !.retire = set]
<1>4. /\ slot \in Request /\ slot.phase = "recording" /\ slot.job = req[r].job
      /\ slot.mirror = req[r].mirror /\ slot.status = req[r].status
  <2>1. req[r] \in Request
    BY <1>1 DEF Types
  <2>. QED BY <2>1 DEF Request
<1>5. req' = [req EXCEPT ![r] = slot]
  BY <1>3
<1>6. /\ row.key = jobs[j].key /\ row.path = jobs[j].path /\ row.at = jobs[j].at
      /\ row.status = "running" /\ row.export = jobs[j].export /\ row.error = jobs[j].error
      /\ jobs[j].path \in Paths /\ jobs[j].status = "running"
  <2>1. jobs[j] \in Job /\ jobs[j].status = "running"
    BY <1>1, <1>2, IdsFacts DEF Slots
  <2>. QED BY <2>1 DEF Job
<1>. HIDE DEF slot, row, j
<1>7. /\ Busy' = Busy /\ req' \in [Requests -> Request] /\ req'[r] = slot
      /\ \A q \in Busy \ {r} : req'[q] = req[q]
      /\ \A q \in Busy : /\ req'[q].job = req[q].job /\ req'[q].mirror = req[q].mirror
                         /\ req'[q].status = req[q].status
      /\ \A q \in Requests : req'[q].phase = "idle" => req'[q] = Idle
  BY <1>1, <1>2, <1>4, <1>5, SlotGoesOn
<1>8. /\ Ids' = Ids /\ jobs'[j] = row /\ \A i \in Ids \ {j} : jobs'[i] = jobs[i]
      /\ \A i \in Ids : /\ jobs'[i].key = jobs[i].key /\ jobs'[i].path = jobs[i].path
                        /\ jobs'[i].at = jobs[i].at /\ jobs'[i].status = jobs[i].status
                        /\ jobs'[i].export = jobs[i].export /\ jobs'[i].error = jobs[i].error
  BY <1>2, <1>6 DEF Replaced
<1>9. Completed' = Completed /\ Committed' = Committed /\ Completed \subseteq Ids
  BY <1>8 DEF Completed, Committed
<1>10. /\ files' \in [Paths -> 0..Len(jobs)] /\ files'[jobs[j].path] = j /\ j # 0
       /\ \A p \in Paths : p # jobs[j].path => files'[p] = files[p]
  <2>1. j # 0 /\ j \in 0..Len(jobs)
    BY <1>1, <1>2, IdsFacts DEF Ids
  <2>. QED BY <1>1, <1>2, <1>6, <2>1 DEF Types
<1>11. Types'
  BY <1>1, <1>2, <1>7, <1>8, <1>10 DEF Types
<1>12. Slots'
  BY <1>1, <1>7, <1>8 DEF Slots
<1>13. Rows'
  <2>1. \A i \in Ids' : jobs'[i].path = <<jobs'[i].key, jobs'[i].at>>
    BY <1>1, <1>8 DEF Rows
  <2>2. ASSUME NEW i \in Ids'
        PROVE CASE jobs'[i].status = "completed" ->
                     /\ jobs'[i].export \in 1..Len(exports') /\ jobs'[i].error = "none"
                     /\ exports'[jobs'[i].export].key = jobs'[i].key
                [] jobs'[i].status = "failed" -> jobs'[i].export = 0 /\ jobs'[i].error # "none"
                [] OTHER                      -> jobs'[i].export = 0 /\ jobs'[i].error = "none"
    BY <1>1, <1>2, <1>8 DEF Rows
  <2>3. /\ \A i, k \in Completed' : jobs'[i].export = jobs'[k].export => i = k
        /\ \A e \in 1..Len(exports') : \E i \in Completed' : jobs'[i].export = e
        /\ Len(exports') = Cardinality(Completed')
    BY <1>1, <1>2, <1>8, <1>9 DEF Rows
  <2>. QED BY <2>1, <2>2, <2>3 DEF Rows
<1>14. Clean'
  <2>1. \A i \in Committed : i \in Ids /\ i # j
    BY <1>6 DEF Committed
  <2>2. CleanJob => CleanJob'
    BY <1>8, <1>9, <2>1 DEF CleanJob
  <2>. QED BY <1>1, <1>2, <1>7, <2>2 DEF Clean
<1>15. Written'
  <2>1. \A p \in Paths : files'[p] # 0 => jobs'[files'[p]].path = p
    <3>1. \A p \in Paths : files[p] # 0 => files[p] \in Ids
      BY <1>1 DEF Types, Ids
    <3>. QED BY <1>1, <1>2, <1>8, <1>10, <3>1 DEF Written
  <2>2. \A p \in Paths : files[p] # 0 => files'[p] # 0
    BY <1>10
  <2>3. \A i \in Ids : jobs[i].path \in Paths
    BY <1>1, IdsFacts DEF Job
  <2>4. \A i \in Completed : files'[jobs'[i].path] # 0
    BY <1>1, <1>8, <1>9, <2>2, <2>3 DEF Written
  <2>5. ASSUME NEW q \in Busy, req'[q].phase = "recording"
        PROVE  files'[jobs'[req'[q].job].path] # 0
    <3>1. CASE q = r
      BY <1>2, <1>7, <1>8, <1>10, <3>1 DEF j
    <3>2. CASE q # r
      BY <1>1, <1>7, <1>8, <2>2, <2>3, <2>5, <3>2 DEF Written, Slots
    <3>. QED BY <3>1, <3>2
  <2>. QED BY <1>7, <1>9, <2>1, <2>4, <2>5 DEF Written
<1>16. Mirrored'
  <2>1. CommittedIn(jobs') = CommittedIn(jobs) /\ \A i \in CommittedIn(jobs) : jobs'[i] = jobs[i]
    <3>1. j \notin CommittedIn(jobs)
      BY <1>6 DEF CommittedIn
    <3>2. CommittedIn(jobs') = CommittedIn(jobs)
      BY <1>9, CommittedRows DEF Committed, CommittedIn, Ids
    <3>. QED BY <1>8, <3>1, <3>2 DEF CommittedIn, Ids
  <2>2. mirror \in Seq(Entry) /\ \A q \in Busy : req[q].mirror \in Seq(Entry)
    BY <1>1 DEF Types, Request, Busy
  <2>3. MirrorOf(mirror, jobs') /\ \A q \in Busy : MirrorOf(req[q].mirror, jobs')
    BY <1>1, <2>1, <2>2, MirrorStays DEF Mirrored
  <2>4. ~ overlapped => ExactMirror(mirror, jobs')
    BY <1>1, <2>1, <2>2, MirrorStays DEF Mirrored
  <2>. QED BY <1>1, <1>2, <1>7, <2>3, <2>4 DEF Mirrored
<1>. QED BY <1>11, <1>12, <1>13, <1>14, <1>15, <1>16 DEF IInv

\* A job that failed is committed, and merged into the copy its request holds.
LEMMA FailedKeepsIInv ==
  ASSUME IInv, NEW r \in Requests, CommitFailed(r)
  PROVE  IInv'
<1>1. Types /\ Slots /\ Rows /\ Clean /\ Written /\ Mirrored
  BY DEF IInv
<1>. DEFINE j == req[r].job
            row == FailedRow(r)
<1>2. /\ r \in Busy /\ j \in Ids /\ row \in Job /\ Replaced(j, row)
      /\ jobs' \in Seq(Job) /\ Len(jobs') = Len(jobs)
      /\ mirror' = MergeJob(req[r].mirror, j, row)
      /\ req' = [req EXCEPT ![r] = Idle]
      /\ UNCHANGED <<template, mapping, edits, seconds, crashes,
                     exports, status, files, late, overlapped>>
  BY <1>1, FailedEffect
<1>3. /\ row.key = jobs[j].key /\ row.path = jobs[j].path /\ row.at = jobs[j].at
      /\ row.status = "failed" /\ row.export = jobs[j].export /\ row.error # "none"
      /\ jobs[j].status = "running"
  <2>1. jobs[j] \in Job /\ jobs[j].status = "running"
    BY <1>1, <1>2, IdsFacts DEF Slots
  <2>. QED BY <2>1 DEF Job, FailedRow
<1>. HIDE DEF row
<1>4. /\ Busy' = Busy \ {r} /\ req' \in [Requests -> Request]
      /\ \A q \in Busy' : req'[q] = req[q]
      /\ \A q \in Requests : req'[q].phase = "idle" => req'[q] = Idle
  BY <1>1, <1>2, SlotEnds
<1>. HIDE DEF j
<1>5. /\ Ids' = Ids /\ jobs'[j] = row /\ \A i \in Ids \ {j} : jobs'[i] = jobs[i]
      /\ \A i \in Ids : /\ jobs'[i].key = jobs[i].key /\ jobs'[i].path = jobs[i].path
                        /\ jobs'[i].at = jobs[i].at /\ jobs'[i].export = jobs[i].export
  BY <1>2, <1>3 DEF Replaced
<1>6. Completed' = Completed /\ Committed' = Committed \cup {j} /\ Completed \subseteq Ids
  BY <1>2, <1>3, <1>5 DEF Completed, Committed
<1>7. \A q \in Busy' : q \in Busy /\ req[q].job \in Ids /\ req[q].job # j
  BY <1>1, <1>2, <1>4 DEF Slots, j
<1>8. Types'
  <2>1. mirror' \in Seq(Entry)
    <3>1. req[r].mirror \in Seq(Entry) /\ j \in Nat /\ Unique(req[r].mirror)
      BY <1>1, <1>2, IdsFacts DEF Types, Request, Mirrored, MirrorOf, Busy
    <3>. QED BY <1>2, <3>1, MergeFacts
  <2>. QED BY <1>1, <1>2, <1>4, <1>5, <2>1 DEF Types
<1>9. Slots'
  BY <1>1, <1>3, <1>4, <1>5, <1>7 DEF Slots, j
<1>10. Rows'
  <2>1. \A i \in Ids' : jobs'[i].path = <<jobs'[i].key, jobs'[i].at>>
    BY <1>1, <1>5 DEF Rows
  <2>2. ASSUME NEW i \in Ids'
        PROVE CASE jobs'[i].status = "completed" ->
                     /\ jobs'[i].export \in 1..Len(exports') /\ jobs'[i].error = "none"
                     /\ exports'[jobs'[i].export].key = jobs'[i].key
                [] jobs'[i].status = "failed" -> jobs'[i].export = 0 /\ jobs'[i].error # "none"
                [] OTHER                      -> jobs'[i].export = 0 /\ jobs'[i].error = "none"
    <3>1. CASE i = j
      <4>1. jobs[j].export = 0
        BY <1>1, <1>2, <1>3 DEF Rows
      <4>. QED BY <1>3, <1>5, <3>1, <4>1
    <3>2. CASE i # j
      BY <1>1, <1>2, <1>5, <3>2 DEF Rows
    <3>. QED BY <3>1, <3>2
  <2>. QED BY <1>1, <1>2, <1>5, <1>6, <2>1, <2>2 DEF Rows
<1>11. Clean'
  <2>1. \A i \in Committed : i \in Ids /\ i # j
    BY <1>3 DEF Committed
  <2>2. CleanJob => CleanJob'
    BY <1>5, <1>6, <2>1 DEF CleanJob
  <2>. QED BY <1>1, <1>2, <1>4, <1>7, <2>2 DEF Clean
<1>12. Written'
  <2>1. \A p \in Paths : files[p] # 0 => files[p] \in Ids
    BY <1>1 DEF Types, Ids
  <2>. QED BY <1>1, <1>2, <1>4, <1>5, <1>6, <1>7, <2>1 DEF Written
<1>13. Mirrored'
  <2>1. /\ CommittedIn(jobs') = CommittedIn(jobs) \cup {j}
        /\ \A i \in CommittedIn(jobs) : i # j /\ jobs'[i] = jobs[i]
    <3>1. CommittedIn(jobs') = Committed'
      BY DEF Committed, CommittedIn, Ids
    <3>. QED BY <1>3, <1>5, <1>6, <3>1, CommittedRows DEF Committed
  <2>2. /\ req[r].mirror \in Seq(Entry) /\ MirrorOf(req[r].mirror, jobs) /\ j \in Nat
        /\ \A q \in Busy : req[q].mirror \in Seq(Entry)
    BY <1>1, <1>2, IdsFacts DEF Types, Request, Mirrored, Busy
  <2>3. /\ MirrorOf(mirror', jobs')
        /\ ExactMirror(req[r].mirror, jobs) => ExactMirror(mirror', jobs')
    <3>1. PICK copy : copy = req[r].mirror
      OBVIOUS
    <3>2. /\ row \in Job /\ jobs'[j] = row /\ mirror' = MergeJob(copy, j, row)
          /\ copy \in Seq(Entry) /\ MirrorOf(copy, jobs) /\ j \in Nat
          /\ CommittedIn(jobs') = CommittedIn(jobs) \cup {j}
          /\ \A i \in CommittedIn(jobs) \ {j} : jobs'[i] = jobs[i]
      BY <1>2, <1>5, <2>1, <2>2, <3>1
    <3>. HIDE DEF row
    <3>3. /\ MirrorOf(mirror', jobs')
          /\ ExactMirror(copy, jobs) => ExactMirror(mirror', jobs')
      BY <3>2, MirrorMerged
    <3>. QED BY <3>1, <3>3
  <2>4. \A q \in Busy : MirrorOf(req[q].mirror, jobs')
    BY <1>1, <2>1, <2>2, MirrorStays DEF Mirrored
  <2>5. ~ overlapped => ExactMirror(mirror', jobs') /\ Busy' = {}
    BY <1>1, <1>2, <1>4, <2>3 DEF Mirrored
  <2>. QED BY <1>2, <1>4, <1>7, <2>3, <2>4, <2>5 DEF Mirrored
<1>. QED BY <1>8, <1>9, <1>10, <1>11, <1>12, <1>13 DEF IInv
\* A request that records an export has a job without one, so the exports
\* stay within the bound of the jobs.
LEMMA RoomForExport ==
  ASSUME Types, Rows, NEW j \in Ids, j \notin Completed
  PROVE  /\ Len(exports) + 1 \in 1..MaxJobs
         /\ Cardinality(Completed \cup {j}) = Len(exports) + 1
<1>1. Len(jobs) \in Nat /\ Ids = 1..Len(jobs) /\ Len(jobs) <= MaxJobs
  BY IdsFacts DEF Ids, Types
<1>2. IsFiniteSet(Ids) /\ Cardinality(Ids) = Len(jobs)
  BY <1>1, IntervalCount
<1>3. Completed \subseteq Ids /\ Completed \cup {j} \subseteq Ids
  BY DEF Completed
<1>4. IsFiniteSet(Completed) /\ Cardinality(Completed) \in Nat
  BY <1>2, <1>3, FS_Subset, FS_CardinalityType
<1>5. Cardinality(Completed \cup {j}) = Cardinality(Completed) + 1
  BY <1>4, FS_AddElement
<1>6. Cardinality(Completed \cup {j}) <= Len(jobs)
  BY <1>2, <1>3, FS_Subset
<1>7. Len(exports) = Cardinality(Completed)
  BY DEF Rows
<1>. QED BY <1>1, <1>4, <1>5, <1>6, <1>7, Bounds

\* A status advances to form_filled only for a bid form without a gap.
LEMMA StatusFacts ==
  ASSUME NEW s \in NoticeStatuses, NEW row
  PROVE  /\ StatusAfter(s, row) \in NoticeStatuses
         /\ StatusAfter(s, row) = "form_filled" =>
              s = "form_filled" \/ (row.key = "bid_form" /\ ~ row.missing /\ ~ row.remaining)
BY DEF StatusAfter, Advance, Rank, NoticeStatuses

\* A completed job is committed with its export.
LEMMA CompletedKeepsIInv ==
  ASSUME IInv, NEW r \in Requests, CommitDone(r)
  PROVE  IInv'
<1>1. Types /\ Slots /\ Rows /\ Clean /\ Written /\ Mirrored
  BY DEF IInv
<1>. DEFINE j == req[r].job
            row == DoneRow(r)
            n == Len(exports) + 1
<1>2. /\ r \in Busy /\ j \in Ids /\ jobs[j] \in Job /\ jobs[j].status = "running"
      /\ req[r].phase = "recording" /\ j \notin Completed
  BY <1>1, BusyPhase, IdsFacts DEF CommitDone, Slots, Completed
<1>3. n \in 1..MaxJobs /\ Cardinality(Completed \cup {j}) = n
  BY <1>1, <1>2, RoomForExport
<1>4. /\ row \in Job /\ Replaced(j, row)
      /\ jobs' \in Seq(Job) /\ Len(jobs') = Len(jobs)
      /\ exports' \in Seq(Export) /\ Len(exports') = n
      /\ exports'[n].key = jobs[j].key
      /\ \A e \in 1..Len(exports) : exports'[e].key = exports[e].key
      /\ mirror' = MergeJob(req[r].mirror, j, row)
      /\ status' = StatusAfter(req[r].status, row)
      /\ req' = [req EXCEPT ![r] = Idle]
      /\ UNCHANGED <<template, mapping, edits, seconds, crashes, files, late, overlapped>>
  <2>1. Len(exports) + 1 \in 0..MaxJobs
    BY <1>3
  <2>. QED BY <1>1, <2>1, CompletedEffect
<1>5. /\ row.key = jobs[j].key /\ row.path = jobs[j].path /\ row.at = jobs[j].at
      /\ row.status = "completed" /\ row.export = n /\ row.error = jobs[j].error
  BY <1>2 DEF Job, DoneRow
<1>. HIDE DEF row
<1>6. /\ Busy' = Busy \ {r} /\ req' \in [Requests -> Request]
      /\ \A q \in Busy' : req'[q] = req[q]
      /\ \A q \in Requests : req'[q].phase = "idle" => req'[q] = Idle
  BY <1>1, <1>2, <1>4, SlotEnds
<1>. HIDE DEF j
<1>7. /\ Ids' = Ids /\ jobs'[j] = row /\ \A i \in Ids \ {j} : jobs'[i] = jobs[i]
      /\ \A i \in Ids : /\ jobs'[i].key = jobs[i].key /\ jobs'[i].path = jobs[i].path
                        /\ jobs'[i].at = jobs[i].at
  BY <1>4, <1>5 DEF Replaced
<1>8. /\ Completed' = Completed \cup {j} /\ Committed' = Committed \cup {j}
      /\ Completed \subseteq Ids /\ \A i \in Completed : i # j
  BY <1>2, <1>5, <1>7 DEF Completed, Committed
<1>9. \A q \in Busy' : q \in Busy /\ req[q].job \in Ids /\ req[q].job # j
  BY <1>1, <1>2, <1>6 DEF Slots, j
<1>10. /\ req[r].mirror \in Seq(Entry) /\ MirrorOf(req[r].mirror, jobs) /\ j \in Nat
       /\ \A q \in Busy : req[q].mirror \in Seq(Entry) /\ req[q].status \in NoticeStatuses
  BY <1>1, <1>2, IdsFacts DEF Types, Request, Mirrored, Busy
<1>11. /\ status' \in NoticeStatuses
       /\ status' = "form_filled" =>
            \/ req[r].status = "form_filled"
            \/ row.key = "bid_form" /\ ~ row.missing /\ ~ row.remaining
  BY <1>2, <1>4, <1>10, StatusFacts
<1>12. Types'
  <2>1. mirror' \in Seq(Entry)
    BY <1>4, <1>10, MergeFacts DEF MirrorOf
  <2>. QED BY <1>1, <1>4, <1>6, <1>7, <1>11, <2>1 DEF Types
<1>13. Slots'
  <2>1. \A i \in Ids : jobs'[i].status = "running" => i # j /\ jobs[i].status = "running"
    BY <1>5, <1>7
  <2>2. \A q \in Busy : q # r => q \in Busy'
    BY <1>6
  <2>. QED BY <1>1, <1>6, <1>7, <1>9, <2>1, <2>2 DEF Slots, j
<1>14. Rows'
  <2>0. Len(exports) \in Nat /\ n \in Nat /\ n \in 1..n /\ n \notin 1..Len(exports)
        /\ 1..n = (1..Len(exports)) \cup {n}
    BY <1>1 DEF Types
  <2>. HIDE DEF n
  <2>1. \A i \in Ids' : jobs'[i].path = <<jobs'[i].key, jobs'[i].at>>
    BY <1>1, <1>7 DEF Rows
  <2>2. ASSUME NEW i \in Ids'
        PROVE CASE jobs'[i].status = "completed" ->
                     /\ jobs'[i].export \in 1..Len(exports') /\ jobs'[i].error = "none"
                     /\ exports'[jobs'[i].export].key = jobs'[i].key
                [] jobs'[i].status = "failed" -> jobs'[i].export = 0 /\ jobs'[i].error # "none"
                [] OTHER                      -> jobs'[i].export = 0 /\ jobs'[i].error = "none"
    <3>1. CASE i = j
      <4>1. jobs[j].error = "none"
        BY <1>1, <1>2 DEF Rows
      <4>. QED BY <1>4, <1>5, <1>7, <2>0, <3>1, <4>1
    <3>2. CASE i # j
      <4>1. i \in Ids /\ jobs'[i] = jobs[i]
        BY <1>7, <3>2
      <4>. QED BY <1>1, <1>4, <2>0, <4>1 DEF Rows
    <3>. QED BY <3>1, <3>2
  <2>3. \A i \in Completed : jobs'[i].export = jobs[i].export /\ jobs[i].export \in 1..Len(exports)
    BY <1>1, <1>7, <1>8 DEF Rows, Completed
  <2>4. jobs'[j].export = n
    BY <1>5, <1>7
  <2>5. \A i, k \in Completed' : jobs'[i].export = jobs'[k].export => i = k
    BY <1>1, <1>8, <2>0, <2>3, <2>4 DEF Rows
  <2>6. \A e \in 1..Len(exports') : \E i \in Completed' : jobs'[i].export = e
    BY <1>1, <1>4, <1>8, <2>0, <2>3, <2>4 DEF Rows
  <2>7. Len(exports') = Cardinality(Completed')
    BY <1>3, <1>4, <1>8
  <2>. QED BY <2>1, <2>2, <2>5, <2>6, <2>7 DEF Rows
<1>15. Clean'
  <2>1. \A i \in Committed : i \in Ids /\ i # j
    BY <1>2 DEF Committed
  <2>2. CleanJob => CleanJob'
    BY <1>7, <1>8, <2>1 DEF CleanJob
  <2>3. row.key = "bid_form" /\ ~ row.missing /\ ~ row.remaining => CleanJob'
    BY <1>5, <1>7, <1>8 DEF CleanJob
  <2>. QED BY <1>1, <1>2, <1>6, <1>9, <1>11, <2>2, <2>3 DEF Clean
<1>16. Written'
  <2>1. \A p \in Paths : files[p] # 0 => files[p] \in Ids
    BY <1>1 DEF Types, Ids
  <2>2. files[jobs[j].path] # 0
    BY <1>1, <1>2 DEF Written, j
  <2>3. \A p \in Paths : files'[p] # 0 => jobs'[files'[p]].path = p
    BY <1>1, <1>4, <1>7, <2>1 DEF Written
  <2>4. \A i \in Completed' : files'[jobs'[i].path] # 0
    BY <1>1, <1>2, <1>4, <1>7, <1>8, <2>2 DEF Written
  <2>5. \A q \in Busy' : req'[q].phase = "recording" => files'[jobs'[req'[q].job].path] # 0
    BY <1>1, <1>4, <1>6, <1>7, <1>9 DEF Written
  <2>. QED BY <2>3, <2>4, <2>5 DEF Written
<1>17. Mirrored'
  <2>1. /\ CommittedIn(jobs') = CommittedIn(jobs) \cup {j}
        /\ \A i \in CommittedIn(jobs) : i # j /\ jobs'[i] = jobs[i]
    <3>1. CommittedIn(jobs') = Committed'
      BY DEF Committed, CommittedIn, Ids
    <3>. QED BY <1>2, <1>7, <1>8, <3>1, CommittedRows DEF Committed
  <2>2. /\ MirrorOf(mirror', jobs')
        /\ ExactMirror(req[r].mirror, jobs) => ExactMirror(mirror', jobs')
    <3>1. PICK copy : copy = req[r].mirror
      OBVIOUS
    <3>2. /\ row \in Job /\ jobs'[j] = row /\ mirror' = MergeJob(copy, j, row)
          /\ copy \in Seq(Entry) /\ MirrorOf(copy, jobs) /\ j \in Nat
          /\ CommittedIn(jobs') = CommittedIn(jobs) \cup {j}
          /\ \A i \in CommittedIn(jobs) \ {j} : jobs'[i] = jobs[i]
      BY <1>4, <1>7, <1>10, <2>1, <3>1
    <3>. HIDE DEF row
    <3>3. /\ MirrorOf(mirror', jobs')
          /\ ExactMirror(copy, jobs) => ExactMirror(mirror', jobs')
      BY <3>2, MirrorMerged
    <3>. QED BY <3>1, <3>3
  <2>3. \A q \in Busy : MirrorOf(req[q].mirror, jobs')
    BY <1>1, <1>10, <2>1, MirrorStays DEF Mirrored
  <2>4. ~ overlapped => ExactMirror(mirror', jobs') /\ Busy' = {}
    BY <1>1, <1>2, <1>6, <2>2 DEF Mirrored
  <2>. QED BY <1>4, <1>6, <1>9, <2>2, <2>3, <2>4 DEF Mirrored
<1>. QED BY <1>12, <1>13, <1>14, <1>15, <1>16, <1>17 DEF IInv

\* A crash answers every request with silence and rolls its row back.
LEMMA CrashKeepsIInv ==
  ASSUME IInv, Crash
  PROVE  IInv'
<1>1. Types /\ Slots /\ Rows /\ Clean /\ Written /\ Mirrored
  BY DEF IInv
<1>2. /\ jobs' \in Seq(Job) /\ Ids' = Ids /\ Len(jobs') = Len(jobs)
      /\ \A j \in Ids : jobs'[j] = IF jobs[j].status = "running"
                                     THEN [jobs[j] EXCEPT !.status = "gone"] ELSE jobs[j]
      /\ late' \subseteq late \cup {req[r].job : r \in Busy}
      /\ req' = [r \in Requests |-> Idle]
      /\ crashes' = crashes + 1
      /\ UNCHANGED <<template, mapping, edits, seconds, exports, mirror, status, files, overlapped>>
  BY <1>1, CrashEffect
<1>3. Busy' = {} /\ \A r \in Requests : req'[r] = Idle
  BY <1>2 DEF Busy
<1>4. \A j \in Ids : jobs[j].status # "running" => jobs'[j] = jobs[j]
  BY <1>2
<1>5. \A j \in Ids : jobs[j].status = "running" =>
        /\ jobs'[j].status = "gone" /\ jobs'[j].key = jobs[j].key /\ jobs'[j].path = jobs[j].path
        /\ jobs'[j].at = jobs[j].at /\ jobs'[j].export = jobs[j].export
        /\ jobs'[j].error = jobs[j].error
  <2>1. ASSUME NEW row \in Job, NEW gone, gone = [row EXCEPT !.status = "gone"]
        PROVE  /\ gone.status = "gone" /\ gone.key = row.key /\ gone.path = row.path
               /\ gone.at = row.at /\ gone.export = row.export /\ gone.error = row.error
    BY <2>1 DEF Job
  <2>2. \A j \in Ids : jobs[j] \in Job
    BY <1>1, IdsFacts
  <2>. QED BY <1>2, <2>1, <2>2
<1>6. Completed' = Completed /\ Committed' = Committed /\ Completed \subseteq Ids
  BY <1>2, <1>4, <1>5 DEF Completed, Committed
<1>7. Types'
  <2>1. late' \subseteq Ids'
    <3>1. late \subseteq Ids /\ \A r \in Busy : req[r].job \in Ids
      BY <1>1 DEF Types, Slots
    <3>. QED BY <1>2, <3>1
  <2>2. req' \in [Requests -> Request]
    BY <1>2, IdleTyped
  <2>3. crashes' \in Nat
    BY <1>1, <1>2 DEF Types
  <2>. QED BY <1>1, <1>2, <2>1, <2>2, <2>3 DEF Types
<1>8. Slots'
  BY <1>2, <1>3, <1>4, <1>5 DEF Slots, Idle
<1>9. Rows'
  <2>1. \A i \in Ids' : jobs'[i].path = <<jobs'[i].key, jobs'[i].at>>
    BY <1>1, <1>2, <1>4, <1>5 DEF Rows
  <2>2. ASSUME NEW i \in Ids'
        PROVE CASE jobs'[i].status = "completed" ->
                     /\ jobs'[i].export \in 1..Len(exports') /\ jobs'[i].error = "none"
                     /\ exports'[jobs'[i].export].key = jobs'[i].key
                [] jobs'[i].status = "failed" -> jobs'[i].export = 0 /\ jobs'[i].error # "none"
                [] OTHER                      -> jobs'[i].export = 0 /\ jobs'[i].error = "none"
    <3>1. CASE jobs[i].status = "running"
      <4>1. jobs[i].export = 0 /\ jobs[i].error = "none"
        BY <1>1, <1>2, <3>1 DEF Rows
      <4>. QED BY <1>2, <1>5, <3>1, <4>1
    <3>2. CASE jobs[i].status # "running"
      BY <1>1, <1>2, <1>4, <3>2 DEF Rows
    <3>. QED BY <3>1, <3>2
  <2>3. \A i \in Completed : jobs'[i] = jobs[i]
    BY <1>4 DEF Completed
  <2>. QED BY <1>1, <1>2, <1>6, <2>1, <2>2, <2>3 DEF Rows
<1>10. Clean'
  <2>1. \A i \in Committed : jobs'[i] = jobs[i]
    BY <1>4 DEF Committed
  <2>. QED BY <1>1, <1>2, <1>3, <1>6, <2>1 DEF Clean, CleanJob
<1>11. Written'
  <2>1. \A p \in Paths : files[p] # 0 => files[p] \in Ids
    BY <1>1 DEF Types, Ids
  <2>2. \A i \in Ids : jobs'[i].path = jobs[i].path
    BY <1>4, <1>5
  <2>. QED BY <1>1, <1>2, <1>3, <1>6, <2>1, <2>2 DEF Written
<1>12. Mirrored'
  <2>1. CommittedIn(jobs') = CommittedIn(jobs) /\ \A i \in CommittedIn(jobs) : jobs'[i] = jobs[i]
    <3>1. CommittedIn(jobs') = Committed'
      BY DEF Committed, CommittedIn, Ids
    <3>. QED BY <1>4, <1>6, <3>1, CommittedRows DEF Committed
  <2>2. mirror \in Seq(Entry)
    BY <1>1 DEF Types
  <2>3. /\ MirrorOf(mirror, jobs')
        /\ ~ overlapped => ExactMirror(mirror, jobs')
    BY <1>1, <2>1, <2>2, MirrorStays DEF Mirrored
  <2>. QED BY <1>2, <1>3, <2>3 DEF Mirrored
<1>. QED BY <1>7, <1>8, <1>9, <1>10, <1>11, <1>12 DEF IInv

\* A review is merged into the document as it is then; a copy that a request
\* holds is behind by it.
LEMMA ReviewKeepsIInv ==
  ASSUME IInv, NEW j \in Ids, Review(j)
  PROVE  IInv'
<1>1. Types /\ Slots /\ Rows /\ Clean /\ Written /\ Mirrored
  BY DEF IInv
<1>. DEFINE row == ReviewedRow(j)
<1>2. /\ j \in Committed /\ jobs[j].review = "pending" /\ row \in Job
      /\ Replaced(j, row)
      /\ jobs' \in Seq(Job) /\ Len(jobs') = Len(jobs)
      /\ mirror' = MergeJob(mirror, j, row)
      /\ overlapped' = (overlapped \/ Busy # {})
      /\ UNCHANGED <<template, mapping, edits, seconds, crashes, exports, status, files, late, req>>
  BY <1>1, ReviewEffect
<1>3. /\ row.key = jobs[j].key /\ row.path = jobs[j].path /\ row.at = jobs[j].at
      /\ row.status = jobs[j].status /\ row.export = jobs[j].export /\ row.error = jobs[j].error
      /\ row.missing = jobs[j].missing /\ row.remaining = jobs[j].remaining
      /\ [row EXCEPT !.review = "pending"] = jobs[j]
      /\ [jobs[j] EXCEPT !.review = "pending"] = jobs[j]
  <2>1. jobs[j] \in Job
    BY <1>1, IdsFacts
  <2>. QED BY <1>2, <2>1 DEF Job, ReviewedRow
<1>. HIDE DEF row
<1>4. /\ Ids' = Ids /\ jobs'[j] = row /\ \A i \in Ids \ {j} : jobs'[i] = jobs[i]
      /\ \A i \in Ids : /\ jobs'[i].key = jobs[i].key /\ jobs'[i].path = jobs[i].path
                        /\ jobs'[i].at = jobs[i].at /\ jobs'[i].status = jobs[i].status
                        /\ jobs'[i].export = jobs[i].export /\ jobs'[i].error = jobs[i].error
                        /\ jobs'[i].missing = jobs[i].missing
                        /\ jobs'[i].remaining = jobs[i].remaining
  BY <1>2, <1>3 DEF Replaced
<1>5. /\ Busy' = Busy /\ Completed' = Completed /\ Committed' = Committed
      /\ Completed \subseteq Ids /\ Committed \subseteq Ids
  BY <1>2, <1>4 DEF Busy, Completed, Committed
<1>6. mirror \in Seq(Entry) /\ \A q \in Busy : req[q].mirror \in Seq(Entry)
  BY <1>1 DEF Types, Request, Busy
<1>7. j \in Nat /\ MirrorOf(mirror, jobs) /\ \A q \in Busy : MirrorOf(req[q].mirror, jobs)
  BY <1>1, IdsFacts DEF Mirrored
<1>8. Types'
  <2>1. mirror' \in Seq(Entry)
    BY <1>2, <1>6, <1>7, MergeFacts DEF MirrorOf
  <2>2. overlapped' \in BOOLEAN
    BY <1>1, <1>2 DEF Types
  <2>. QED BY <1>1, <1>2, <1>4, <2>1, <2>2 DEF Types
<1>9. Slots'
  BY <1>1, <1>2, <1>4, <1>5 DEF Slots
<1>10. Rows'
  BY <1>1, <1>2, <1>4, <1>5 DEF Rows
<1>11. Clean'
  BY <1>1, <1>2, <1>4, <1>5 DEF Clean, CleanJob
<1>12. Written'
  <2>1. \A p \in Paths : files[p] # 0 => files[p] \in Ids
    BY <1>1 DEF Types, Ids
  <2>2. \A q \in Busy : req[q].job \in Ids
    BY <1>1 DEF Slots
  <2>. QED BY <1>1, <1>2, <1>4, <1>5, <2>1, <2>2 DEF Written
<1>13. Mirrored'
  <2>1. /\ CommittedIn(jobs') = CommittedIn(jobs) /\ j \in CommittedIn(jobs)
        /\ \A i \in CommittedIn(jobs) : i # j => jobs'[i] = jobs[i]
    <3>1. CommittedIn(jobs') = Committed'
      BY DEF Committed, CommittedIn, Ids
    <3>. QED BY <1>2, <1>4, <1>5, <3>1, CommittedRows DEF Committed
  <2>2. /\ MirrorOf(mirror', jobs')
        /\ ExactMirror(mirror, jobs) => ExactMirror(mirror', jobs')
    BY <1>2, <1>4, <1>6, <1>7, <2>1, MirrorMerged
  <2>3. ASSUME NEW q \in Busy
        PROVE  MirrorOf(req[q].mirror, jobs')
    <3>1. MirrorOf(req[q].mirror, jobs)
      BY <1>7
    <3>2. ASSUME NEW i \in DOMAIN req[q].mirror
          PROVE  /\ req[q].mirror[i].id \in CommittedIn(jobs')
                 /\ req[q].mirror[i].job \in
                      {jobs'[req[q].mirror[i].id],
                       [jobs'[req[q].mirror[i].id] EXCEPT !.review = "pending"]}
      <4>1. CASE req[q].mirror[i].id = j
        BY <1>3, <1>4, <2>1, <3>1, <4>1 DEF MirrorOf
      <4>2. CASE req[q].mirror[i].id # j
        BY <2>1, <3>1, <4>2 DEF MirrorOf
      <4>. QED BY <4>1, <4>2
    <3>. QED BY <3>1, <3>2 DEF MirrorOf
  <2>4. ~ overlapped' => ExactMirror(mirror', jobs') /\ Busy = {}
    BY <1>1, <1>2, <2>2 DEF Mirrored
  <2>. QED BY <1>2, <1>5, <2>2, <2>3, <2>4 DEF Mirrored
<1>. QED BY <1>8, <1>9, <1>10, <1>11, <1>12, <1>13 DEF IInv
\* Every step keeps the invariant.
LEMMA NextKeepsIInv == IInv /\ [Next]_vars => IInv'
<1>. SUFFICES ASSUME IInv, [Next]_vars PROVE IInv'
  OBVIOUS
<1>1. ASSUME NEW r \in Requests, NEW key \in Keys, NEW o, Begin(r, key, o) PROVE IInv'
  BY <1>1, BeginKeepsIInv
<1>2. ASSUME NEW r \in Requests, Step(r) PROVE IInv'
  <2>1. CASE Attempt(r)
    BY <2>1, AttemptKeepsIInv
  <2>2. ASSUME NEW remaining \in BOOLEAN, AgentDone(r, remaining) PROVE IInv'
    BY <2>2, DoneKeepsIInv
  <2>3. CASE CommitFailed(r)
    BY <2>3, FailedKeepsIInv
  <2>4. CASE CommitDone(r)
    BY <2>4, CompletedKeepsIInv
  <2>. QED BY <1>2, <2>1, <2>2, <2>3, <2>4 DEF Step, Attempt
<1>3. ASSUME NEW j \in Ids, Review(j) \/ LateWrite(j) PROVE IInv'
  BY <1>3, ReviewKeepsIInv, LateWriteKeepsIInv
<1>4. CASE (\E key \in Keys : SaveTemplate(key) \/ SaveMapping(key)) \/ UNCHANGED vars
  BY <1>4, OthersKeepIInv
<1>5. CASE Crash
  BY <1>5, CrashKeepsIInv
<1>. QED BY <1>1, <1>2, <1>3, <1>4, <1>5 DEF Next

\* IInv holds in every state of every behaviour.
THEOREM Invariance == Spec => []IInv
<1>1. Init => IInv
  BY InitIInv
<1>2. IInv /\ [Next]_vars => IInv'
  BY NextKeepsIInv
<1>. QED BY <1>1, <1>2, PTL DEF Spec
-----------------------------------------------------------------------------
(* The properties the runs check. *)

\* Every variable has its type; the running rows of hwp_generation_jobs are
\* exactly those of the requests in progress.
THEOREM TypeCorrect == Spec => []TypeOK
<1>1. IInv => TypeOK
  <2>. SUFFICES ASSUME IInv PROVE TypeOK
    OBVIOUS
  <2>1. Types /\ Slots /\ Mirrored
    BY DEF IInv
  <2>2. \A j \in Ids : jobs[j] \in Job
    BY <2>1, IdsFacts
  <2>3. \A e \in DOMAIN exports : exports[e] \in [key : Keys, state : {"active", "deleted"}]
    <3>1. \A e \in DOMAIN exports : exports[e] \in Export
      BY <2>1 DEF Types
    <3>. QED BY <3>1 DEF Export
  <2>4. Len(mirror) <= MirrorLimit
        /\ \A i \in DOMAIN mirror : mirror[i].id \in Ids /\ mirror[i].job \in Job
    <3>1. \A i \in DOMAIN mirror : mirror[i] \in Entry
      BY <2>1 DEF Types
    <3>. QED BY <2>1, <3>1, CommittedRows DEF Mirrored, MirrorOf, Entry, Committed
  <2>5. \A r \in Requests : req[r].left \in 0..Retries /\ req[r].connectFailed \in BOOLEAN
    BY <2>1 DEF Types, Request
  <2>6. {j \in Ids : jobs[j].status = "running"} = {req[r].job : r \in Busy}
    BY <2>1 DEF Slots
  <2>. QED BY <2>1, <2>2, <2>3, <2>4, <2>5, <2>6 DEF TypeOK, Types, NoticeStatuses
<1>. QED BY <1>1, Invariance, PTL

\* Every row of notice_exports that put-fields wrote has exactly one completed
\* job that names it, whatever overlaps, is retried or crashes (_record_export
\* and the update of the job in hwp_put_fields).
THEOREM ExportsHaveJobsThm == Spec => []ExportsHaveJobs
<1>1. IInv => ExportsHaveJobs
  <2>. SUFFICES ASSUME IInv PROVE ExportsHaveJobs
    OBVIOUS
  <2>1. Types /\ Rows
    BY DEF IInv
  <2>2. ASSUME NEW e \in DOMAIN exports
        PROVE  \E j \in Committed : /\ {i \in Ids : jobs[i].export = e} = {j}
                                    /\ jobs[j].status = "completed"
                                    /\ jobs[j].key = exports[e].key
    <3>1. e \in 1..Len(exports) /\ e # 0
      BY <2>1 DEF Types
    <3>2. PICK j \in Completed : jobs[j].export = e
      BY <2>1, <3>1 DEF Rows
    <3>3. \A i \in Ids : jobs[i].export = e => i \in Completed
      BY <2>1, <3>1 DEF Rows, Completed
    <3>4. {i \in Ids : jobs[i].export = e} = {j}
      BY <2>1, <3>2, <3>3 DEF Rows, Completed
    <3>5. j \in Committed /\ jobs[j].status = "completed" /\ jobs[j].key = exports[e].key
      BY <2>1, <3>2 DEF Rows, Completed, Committed
    <3>. QED BY <3>4, <3>5
  <2>3. ASSUME NEW j \in Committed
        PROVE  jobs[j].export = 0 <=> jobs[j].error # "none"
    <3>1. j \in Ids /\ jobs[j].status \in {"completed", "failed"}
      BY DEF Committed
    <3>2. 0 \notin 1..Len(exports)
      BY <2>1 DEF Types
    <3>. QED BY <2>1, <3>1, <3>2 DEF Rows
  <2>. QED BY <2>2, <2>3 DEF ExportsHaveJobs
<1>. QED BY <1>1, Invariance, PTL

\* The mirror analysis.document_automation.hwp_jobs invents nothing, and
\* agrees with the table until two requests overlap.
THEOREM MirrorDriftNeedsOverlapThm == Spec => []MirrorDriftNeedsOverlap
<1>1. IInv => MirrorDriftNeedsOverlap
  <2>. SUFFICES ASSUME IInv PROVE MirrorDriftNeedsOverlap
    OBVIOUS
  <2>1. Mirrored
    BY DEF IInv
  <2>2. \A i \in DOMAIN mirror :
          /\ mirror[i].id \in Committed
          /\ mirror[i].job \in {jobs[mirror[i].id],
                                [jobs[mirror[i].id] EXCEPT !.review = "pending"]}
    BY <2>1, CommittedRows DEF Mirrored, MirrorOf
  <2>3. ~ overlapped =>
          /\ \A i \in DOMAIN mirror : mirror[i].job = jobs[mirror[i].id]
          /\ Len(mirror) < MirrorLimit => {mirror[i].id : i \in DOMAIN mirror} = Committed
    BY <2>1, <2>2, CommittedRows DEF Mirrored, ExactMirror
  <2>. QED BY <2>1, <2>2, <2>3 DEF MirrorDriftNeedsOverlap, Mirrored, MirrorOf, Unique
<1>. QED BY <1>1, Invariance, PTL

\* form_filled is only ever written on the strength of a bid form without a
\* missing required value and without a placeholder left, even when the status
\* a request writes back was read long before (_execute_hwp_put_fields).
THEOREM FormFilledWasCleanThm == Spec => []FormFilledWasClean
<1>1. IInv => FormFilledWasClean
  BY DEF IInv, Clean, CleanJob, FormFilledWasClean
<1>. QED BY <1>1, Invariance, PTL

\* The file of an active export holds the values of its own job unless another
\* call for the template came in the same second; an attempt the client gave
\* up writes the file of its own job only (default_output_path).
THEOREM FileIsItsOwnThm == Spec => []FileIsItsOwn
<1>1. IInv => FileIsItsOwn
  <2>. SUFFICES ASSUME IInv, NEW j \in Committed,
                       jobs[j].export # 0,
                       \A i \in Ids \ {j} : jobs[i].key = jobs[j].key => jobs[i].at # jobs[j].at
                PROVE  files[jobs[j].path] = j
    BY DEF FileIsItsOwn
  <2>1. Types /\ Rows /\ Written
    BY DEF IInv
  <2>2. j \in Completed /\ j \in Ids
    BY <2>1 DEF Rows, Committed, Completed
  <2>3. jobs[j].path \in Paths
    BY <2>1, <2>2, IdsFacts DEF Job
  <2>. DEFINE f == files[jobs[j].path]
  <2>4. f \in Ids /\ jobs[f].path = jobs[j].path
    BY <2>1, <2>2, <2>3 DEF Written, Types, Ids
  <2>5. jobs[f].key = jobs[j].key /\ jobs[f].at = jobs[j].at
    <3>1. /\ jobs[f].path = <<jobs[f].key, jobs[f].at>>
          /\ jobs[j].path = <<jobs[j].key, jobs[j].at>>
      BY <2>1, <2>2, <2>4 DEF Rows
    <3>2. <<jobs[f].key, jobs[f].at>> = <<jobs[j].key, jobs[j].at>>
      BY <2>4, <3>1
    <3>. HIDE DEF f
    <3>. QED BY <3>2
  <2>. QED BY <2>4, <2>5
<1>. QED BY <1>1, Invariance, PTL
=============================================================================
