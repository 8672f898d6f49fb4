------------------------------ MODULE HwpJobs ------------------------------
(***************************************************************************)
(* hwp-put-fields for one notice: the template and its field mappings are  *)
(* resolved to input values, the HWP agent on the desktop fills the form   *)
(* over HTTP with retries, and the job row, the export row, the mirror     *)
(* analysis.document_automation.hwp_jobs and the notice status are written *)
(* when the one transaction of the request commits.  Beside it run the     *)
(* reviews of finished jobs and the administration of templates.           *)
(*                                                                         *)
(* Values keep only what the resolution tells apart: a text, white space,  *)
(* the empty string and None.  The order in which overlapping requests get *)
(* the row locks of notice_exports is ExportRegistry's subject; here a     *)
(* commit soft-deletes the rows its UPDATE saw.                            *)
(***************************************************************************)
EXTENDS Naturals, Sequences, FiniteSets

CONSTANTS Requests,      \* slots of the thread pool
          Retries,       \* HwpAgentClient: attempts of one call
          MirrorLimit,   \* jobs the mirror keeps
          Mappings,      \* the field mappings administrators use in this instance
          MaxJobs, MaxSeconds, MaxEdits, MaxCrashes   \* bounds of the instance

Keys == {"bid_form", "proposal"}

Values == {"text", "blank", "", "none"}

\* path: what the context holds at the mapping's context_path.
Mapping == [active : BOOLEAN, required : BOOLEAN, path : Values,
            default : {"text", "none"}, transform : {"none", "strip"}]

ASSUME HwpAssumption ==
  /\ Retries \in Nat \ {0} /\ MirrorLimit \in Nat \ {0}
  /\ Mappings \subseteq Mapping
  /\ {MaxJobs, MaxSeconds, MaxEdits, MaxCrashes} \subseteq Nat

VARIABLES template,    \* hwp_templates.active of each template key
          mapping,     \* document_field_mappings: the one field of each template
          jobs,        \* hwp_generation_jobs in the order of id
          exports,     \* notice_exports in the order of id
          mirror,      \* document_automation.hwp_jobs: copies of rows, newest first
          status,      \* bid_pipeline.status
          files,       \* the job whose values each .hwp file holds; 0 if there is no file
          late,        \* jobs the agent may write although the client was never told
          req,         \* the request of each slot
          seconds, edits, crashes,   \* the clock; two bound counters
          overlapped   \* history: two requests have written the document at once

admin == <<template, mapping, edits>>
bound == <<seconds, crashes>>
vars == <<admin, bound, jobs, exports, mirror, status, files, late, req, overlapped>>

\* The default path; an output_path given by the client is left out.
Paths == Keys \X (0..MaxSeconds)

\* Rows of open transactions are seen by nobody; "gone" rows were rolled back.
JobStates == {"running", "completed", "failed", "gone"}
Job == [key : Keys, path : Paths, at : 0..MaxSeconds, status : JobStates,
        missing : BOOLEAN, remaining : BOOLEAN, export : 0..MaxJobs,
        error : {"none", "unreachable", "failed"}, review : {"pending", "approved"}]

Ids == 1..Len(jobs)
Committed == {j \in Ids : jobs[j].status \in {"completed", "failed"}}

Idle == [phase |-> "idle", job |-> 0, left |-> 0, connectFailed |-> FALSE,
         mirror |-> <<>>, status |-> "analyzed", retire |-> {}]

Busy == {r \in Requests : req[r] # Idle}

Active(k) == {e \in 1..Len(exports) : exports[e] = [key |-> k, state |-> "active"]}

Init == /\ template = [k \in Keys |-> TRUE]
        /\ mapping \in [Keys -> {m \in Mappings : m.active}]     \* as seeded
        /\ jobs = <<>> /\ exports = <<>> /\ mirror = <<>> /\ status = "analyzed"
        /\ files = [p \in Paths |-> 0] /\ late = {}
        /\ req = [r \in Requests |-> Idle]
        /\ seconds = 0 /\ edits = 0 /\ crashes = 0 /\ overlapped = FALSE

-----------------------------------------------------------------------------
(* The value of a field. *)

\* An override hides context and default, an empty one too.
RawValue(m, override) ==
  IF override # "absent" THEN override
  ELSE IF m.path \in {"none", ""} THEN m.default ELSE m.path

\* Every transform but "none" strips; None becomes the empty string.
Rendered(value, transform) ==
  IF value = "none" \/ (value = "blank" /\ transform # "none") THEN "" ELSE value

RequiredMissing(m, override) ==
  m.required /\ Rendered(RawValue(m, override), m.transform) = ""

-----------------------------------------------------------------------------
(* The mirror and the status. *)

\* The entries of m at the positions in keep, in the order they have in m.
Kept(m, keep) ==
  [k \in 1..Cardinality(keep) |->
     m[CHOOSE i \in keep : Cardinality({h \in keep : h <= i}) = k]]

Others(m, j) == Kept(m, {i \in DOMAIN m : m[i].id # j})

Bug_MergeAppends(m, j, row) ==
  LET all == <<[id |-> j, job |-> row]>> \o m
  IN  SubSeq(all, 1, IF Len(all) < MirrorLimit THEN Len(all) ELSE MirrorLimit)

MergeJob(m, j, row) ==
  LET all == <<[id |-> j, job |-> row]>> \o Others(m, j)
  IN  SubSeq(all, 1, IF Len(all) < MirrorLimit THEN Len(all) ELSE MirrorLimit)

Rank(s) == CASE s = "analyzed" -> 0 [] s = "hwp_composed" -> 1 [] s = "form_filled" -> 2

Advance(s, t) == IF Rank(t) > Rank(s) THEN t ELSE s

Bug_RequiredIsOnlyAWarning(s, job) ==
  IF job.key = "bid_form" /\ ~ job.remaining
    THEN Advance(s, "form_filled") ELSE Advance(s, "hwp_composed")

StatusAfter(s, job) ==
  IF job.key = "bid_form" /\ ~ job.missing /\ ~ job.remaining
    THEN Advance(s, "form_filled") ELSE Advance(s, "hwp_composed")

-----------------------------------------------------------------------------
(* One request. *)

Bug_PathWithoutTime(key) == <<key, 0>>

DefaultPath(key) == <<key, seconds'>>

\* The document and the status are read now and written back at the end.
\* Without an active template or mapping the answer is 409.  The clock is
\* looked at here only, so this is where it moves; it starts with the first.
Begin(r, key, override) ==
  /\ req[r] = Idle
  /\ Len(jobs) < MaxJobs
  /\ template[key] /\ mapping[key].active
  /\ seconds' \in IF jobs = <<>> THEN {seconds} ELSE seconds..MaxSeconds
  /\ jobs' = Append(jobs, [key |-> key, at |-> seconds', status |-> "running",
                           path |-> DefaultPath(key),
                           missing |-> RequiredMissing(mapping[key], override),
                           remaining |-> FALSE, export |-> 0, error |-> "none",
                           review |-> "pending"])
  /\ req' = [req EXCEPT ![r] = [Idle EXCEPT !.phase = "calling", !.job = Len(jobs) + 1,
                                            !.left = Retries, !.mirror = mirror,
                                            !.status = status]]
  /\ overlapped' = (overlapped \/ Busy # {})
  /\ UNCHANGED <<admin, crashes, exports, mirror, status, files, late>>

Calling(r) == req[r].phase = "calling" /\ req[r].left > 0

FileWritten(r) == [files EXCEPT ![jobs[req[r].job].path] = req[r].job]

\* 2xx with a JSON body: the agent wrote the file and says whether it left
\* placeholders.  The UPDATE of _record_export sees the rows active now.
AgentDone(r, remaining) ==
  /\ Calling(r)
  /\ files' = FileWritten(r)
  /\ req' = [req EXCEPT ![r].phase = "recording", ![r].retire = Active(jobs[req[r].job].key)]
  /\ jobs' = [jobs EXCEPT ![req[r].job].remaining = remaining]
  /\ UNCHANGED <<admin, bound, exports, mirror, status, late, overlapped>>

\* 4xx, or 2xx with a body that is no JSON object: no further attempt, and
\* no look at how the earlier ones failed.
AgentRefuses(r) ==
  /\ Calling(r)
  /\ req' = [req EXCEPT ![r].left = 0, ![r].connectFailed = FALSE]
  /\ late' = late \cup {req[r].job}
  /\ UNCHANGED <<admin, bound, jobs, exports, mirror, status, files, overlapped>>

\* A slip: the attempts are counted afresh when they are used up.
Bug_RetriesForEver(r) ==
  /\ Calling(r)
  /\ req' = [req EXCEPT ![r].left = IF @ = 1 THEN Retries ELSE @ - 1]
  /\ late' = late \cup {req[r].job}
  /\ UNCHANGED <<admin, bound, jobs, exports, mirror, status, files, overlapped>>

\* 5xx: one attempt less; connect_failed keeps what an earlier attempt left.
AgentError(r) ==
  /\ Calling(r)
  /\ req' = [req EXCEPT ![r].left = @ - 1]
  /\ late' = late \cup {req[r].job}
  /\ UNCHANGED <<admin, bound, jobs, exports, mirror, status, files, overlapped>>

Unreachable(r) ==
  /\ Calling(r)
  /\ req' = [req EXCEPT ![r].left = @ - 1, ![r].connectFailed = TRUE]
  /\ UNCHANGED <<admin, bound, jobs, exports, mirror, status, files, late, overlapped>>

\* The client stops waiting; the agent may still be at work.
ReadTimeout(r) ==
  /\ Calling(r)
  /\ req' = [req EXCEPT ![r].left = @ - 1, ![r].connectFailed = FALSE]
  /\ late' = late \cup {req[r].job}
  /\ UNCHANGED <<admin, bound, jobs, exports, mirror, status, files, overlapped>>

\* The agent was at work all the same, once for each attempt; or it never was.
LateWrite(j) ==
  /\ j \in late
  /\ files' = [files EXCEPT ![jobs[j].path] = j]
  /\ UNCHANGED <<admin, bound, jobs, exports, mirror, status, late, req, overlapped>>

\* A slip: the errors are recorded, the row is forgotten.
Bug_FailureLeavesRowRunning(r) ==
  /\ req[r].phase = "calling" /\ req[r].left = 0
  /\ req' = [req EXCEPT ![r] = Idle]
  /\ UNCHANGED <<admin, bound, jobs, exports, mirror, status, files, late, overlapped>>

\* The attempts are used up: the job fails, its errors are recorded, and the
\* request still commits.
CommitFailed(r) ==
  /\ req[r].phase = "calling" /\ req[r].left = 0
  /\ LET row == [jobs[req[r].job] EXCEPT
                   !.status = "failed",
                   !.error = IF req[r].connectFailed THEN "unreachable" ELSE "failed"]
     IN  /\ jobs' = [jobs EXCEPT ![req[r].job] = row]
         /\ mirror' = MergeJob(req[r].mirror, req[r].job, row)
  /\ req' = [req EXCEPT ![r] = Idle]
  /\ UNCHANGED <<admin, bound, exports, status, files, late, overlapped>>

\* A slip: the job is closed before the export has its id.
Bug_JobBeforeExport(r) ==
  /\ req[r].phase = "recording"
  /\ LET row == [jobs[req[r].job] EXCEPT !.status = "completed"]
     IN  /\ jobs' = [jobs EXCEPT ![req[r].job] = row]
         /\ mirror' = MergeJob(req[r].mirror, req[r].job, row)
         /\ status' = StatusAfter(req[r].status, row)
         /\ exports' = Append(exports, [key |-> row.key, state |-> "active"])
  /\ req' = [req EXCEPT ![r] = Idle]
  /\ UNCHANGED <<admin, bound, files, late, overlapped>>

\* The export replaces the active ones its UPDATE saw, the job names it, and
\* document and status are written over whatever others wrote meanwhile.
CommitDone(r) ==
  /\ req[r].phase = "recording"
  /\ LET row == [jobs[req[r].job] EXCEPT !.status = "completed", !.export = Len(exports) + 1]
         retired(e) == IF e \in req[r].retire THEN [exports[e] EXCEPT !.state = "deleted"]
                                              ELSE exports[e]
     IN  /\ jobs' = [jobs EXCEPT ![req[r].job] = row]
         /\ mirror' = MergeJob(req[r].mirror, req[r].job, row)
         /\ status' = StatusAfter(req[r].status, row)
         /\ exports' = Append([e \in DOMAIN exports |-> retired(e)],
                              [key |-> row.key, state |-> "active"])
  /\ req' = [req EXCEPT ![r] = Idle]
  /\ UNCHANGED <<admin, bound, files, late, overlapped>>

\* The API process dies and its transactions are rolled back.
Crash ==
  /\ crashes < MaxCrashes /\ Busy # {}
  /\ jobs' = [j \in Ids |-> IF jobs[j].status = "running"
                              THEN [jobs[j] EXCEPT !.status = "gone"] ELSE jobs[j]]
  /\ late' = late \cup {req[r].job : r \in {q \in Busy : Calling(q)}}
  /\ req' = [r \in Requests |-> Idle]
  /\ crashes' = crashes + 1
  /\ UNCHANGED <<admin, seconds, exports, mirror, status, files, overlapped>>

-----------------------------------------------------------------------------
(* What others do meanwhile. *)

\* A reviewer decides on a job of this notice, failed or completed: a short
\* transaction that writes the row and merges it into the document.
Review(j) ==
  /\ j \in Committed
  /\ jobs[j].review = "pending"        \* bound: one decision for each job
  /\ jobs' = [jobs EXCEPT ![j].review = "approved"]
  /\ mirror' = MergeJob(mirror, j, [jobs[j] EXCEPT !.review = "approved"])
  /\ overlapped' = (overlapped \/ Busy # {})
  /\ UNCHANGED <<admin, bound, exports, status, files, late, req>>

\* Bound: a request in progress has read them already, and one must be left.
MayEdit == edits < MaxEdits /\ Busy = {} /\ Len(jobs) < MaxJobs

\* POST and PATCH of a template, and of one of its mappings.
SaveTemplate(key) ==
  /\ MayEdit
  /\ edits' = edits + 1
  /\ template' = [template EXCEPT ![key] = ~ @]
  /\ UNCHANGED <<mapping, bound, jobs, exports, mirror, status, files, late, req, overlapped>>

SaveMapping(key) ==
  /\ MayEdit
  /\ edits' = edits + 1
  /\ \E m \in Mappings \ {mapping[key]} : mapping' = [mapping EXCEPT ![key] = m]
  /\ UNCHANGED <<template, bound, jobs, exports, mirror, status, files, late, req, overlapped>>

-----------------------------------------------------------------------------
Step(r) == \/ \E remaining \in BOOLEAN : AgentDone(r, remaining)
           \/ AgentRefuses(r) \/ AgentError(r) \/ Unreachable(r) \/ ReadTimeout(r)
           \/ CommitFailed(r) \/ CommitDone(r)

Next == \/ \E r \in Requests, key \in Keys, o \in {"absent", "text", "blank", ""} :
             Begin(r, key, o)
        \/ \E r \in Requests : Step(r)
        \/ \E j \in Ids : Review(j) \/ LateWrite(j)
        \/ \E key \in Keys : SaveTemplate(key) \/ SaveMapping(key)
        \/ Crash

\* The thread of a request runs, and httpx ends every attempt in bounded time.
Spec == Init /\ [][Next]_vars /\ \A r \in Requests : WF_vars(Step(r))

-----------------------------------------------------------------------------
(* Properties *)

\* Every variable has its type; only the row of a running job belongs to a
\* request in progress.
TypeOK ==
  /\ template \in [Keys -> BOOLEAN] /\ mapping \in [Keys -> Mappings]
  /\ Len(jobs) <= MaxJobs /\ \A j \in Ids : jobs[j] \in Job
  /\ \A e \in DOMAIN exports : exports[e] \in [key : Keys, state : {"active", "deleted"}]
  /\ Len(mirror) <= MirrorLimit
  /\ \A i \in DOMAIN mirror : mirror[i].id \in Ids /\ mirror[i].job \in Job
  /\ status \in {"analyzed", "hwp_composed", "form_filled"}
  /\ files \in [Paths -> 0..Len(jobs)] /\ late \subseteq Ids
  /\ \A r \in Requests : req[r].left \in 0..Retries /\ req[r].connectFailed \in BOOLEAN
  /\ {j \in Ids : jobs[j].status = "running"} = {req[r].job : r \in Busy}

\* The history of put-fields explains every file offered for download: each
\* export row has exactly one completed job that names it, for the same
\* template, and every other committed job failed and says how; whatever
\* overlaps, is retried or crashes.
ExportsHaveJobs ==
  /\ \A e \in DOMAIN exports :
       \E j \in Committed : /\ {i \in Ids : jobs[i].export = e} = {j}
                            /\ jobs[j].status = "completed" /\ jobs[j].key = exports[e].key
  /\ \A j \in Committed : jobs[j].export = 0 <=> jobs[j].error # "none"

\* The mirror never invents: no job twice, none that was rolled back, and an
\* entry differs from its row at most by a review that came later.  It agrees
\* with the table completely as long as no two requests overlapped.
MirrorDriftNeedsOverlap ==
  /\ \A i, k \in DOMAIN mirror : mirror[i].id = mirror[k].id => i = k
  /\ \A i \in DOMAIN mirror :
       /\ mirror[i].id \in Committed
       /\ mirror[i].job \in {jobs[mirror[i].id], [jobs[mirror[i].id] EXCEPT !.review = "pending"]}
  /\ ~ overlapped =>
       /\ \A i \in DOMAIN mirror : mirror[i].job = jobs[mirror[i].id]
       /\ Len(mirror) < MirrorLimit => {mirror[i].id : i \in DOMAIN mirror} = Committed

\* A notice is form_filled only after a put-fields that filled its bid form
\* without a gap: no required value empty, no placeholder left.
FormFilledWasClean ==
  status = "form_filled" =>
    \E j \in Committed : /\ jobs[j].key = "bid_form" /\ jobs[j].status = "completed"
                         /\ ~ jobs[j].missing /\ ~ jobs[j].remaining

\* An export offered for download holds the values of its own job, unless
\* another call for the same template came in the same second; not even an
\* attempt given up long ago changes it.
FileIsItsOwn ==
  \A j \in Committed :
    /\ jobs[j].export # 0 /\ exports[jobs[j].export].state = "active"
    /\ \A i \in Ids \ {j} : jobs[i].key = jobs[j].key => jobs[i].at # jobs[j].at
    => files[jobs[j].path] = j

\* Every request is answered, however the agent behaves.
RequestsEnd == \A r \in Requests : r \in Busy ~> r \notin Busy
=============================================================================
