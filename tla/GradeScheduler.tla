--------------------------- MODULE GradeScheduler ---------------------------
(***************************************************************************)
(* The periodic grading of api/collector/scheduler.py, running beside the  *)
(* grade requests of clients and the handlers that move a notice on.       *)
(*                                                                         *)
(* A tick selects the oldest ungraded "analyzed" notices and grades them   *)
(* one after the other with grade_notice_impl.  A grading is one           *)
(* transaction: read and guard, a long computation, the UPDATE (which      *)
(* locks the row), the Slack alert, the commit.  The notices are numbered  *)
(* in the order of created_at, so a batch is a set taken from its minimum. *)
(***************************************************************************)
EXTENDS NoticeStatus, FiniteSets

CONSTANTS Count,        \* the notices are 1..Count, oldest first
          Poison,       \* notices whose grading always raises an unexpected exception
          BatchLimit,   \* settings.grade_batch_limit
          Attempts,     \* how often a Slack alert is tried (stop_after_attempt(3))
          MaxCrashes,   \* bound: how often the API process dies
          MaxRequests   \* bound: how many grade requests clients make

Notices == 1..Count

ASSUME SchedulerAssumption == /\ Count \in Nat \ {0}
                              /\ Poison \subseteq Notices
                              /\ BatchLimit \in Nat \ {0}
                              /\ Attempts \in Nat \ {0}
                              /\ MaxCrashes \in Nat
                              /\ MaxRequests \in Nat

\* Who runs grade_notice_impl: the scheduler's thread, or a request.
Graders == {"job", "http"}

VARIABLES status,     \* bid_pipeline.status
          graded,     \* bid_pipeline.graded_at IS NOT NULL
          running,    \* a run of _grade_job is in progress (max_instances = 1)
          batch,      \* its notice_nos that are still to be graded
          grading,    \* the transaction of each grader
          alerts,     \* history: Slack alerts each grader has posted about a notice
          commits,    \* history: gradings of a notice each grader has committed
          crashes,    \* how often the process died
          requests    \* how many grade requests were made

vars == <<status, graded, running, batch, grading, alerts, commits, crashes, requests>>

\* computing: the row was read; updated: the UPDATE holds the row lock;
\* alerted: Slack was told (or not), only the commit is missing.
Stages == {"idle", "computing", "updated", "alerted"}

NoGrading == [stage |-> "idle", notice |-> 0]

\* grading_runner._GRADEABLE_STATUSES
GradeableStatuses == {"analyzed"} \cup {"form_filled"} \cup FINAL_STATUSES

Init == /\ status = [n \in Notices |-> "collected"]
        /\ graded = [n \in Notices |-> FALSE]
        /\ running = FALSE
        /\ batch = {}
        /\ grading = [g \in Graders |-> NoGrading]
        /\ alerts = [g \in Graders |-> [n \in Notices |-> 0]]
        /\ commits = [g \in Graders |-> [n \in Notices |-> 0]]
        /\ crashes = 0
        /\ requests = 0

-----------------------------------------------------------------------------
(* One grading: grade_notice_impl. *)

Locked(n) == \E g \in Graders : grading[g].notice = n /\ grading[g].stage \in {"updated", "alerted"}

\* The read and the guard.  A notice that is not gradeable is skipped
\* (GradeInvalidStatusError): the grader stays idle.
Read(g, n) ==
  grading' = IF status[n] \in GradeableStatuses
               THEN [grading EXCEPT ![g] = [stage |-> "computing", notice |-> n]]
               ELSE grading

\* The UPDATE waits for the row lock and keeps it.
Update(g) ==
  /\ grading[g].stage = "computing"
  /\ grading[g].notice \notin Poison
  /\ ~ Locked(grading[g].notice)
  /\ grading' = [grading EXCEPT ![g].stage = "updated"]
  /\ UNCHANGED <<status, graded, running, batch, alerts, commits, crashes, requests>>

\* A plausible slip: the status is checked again before the commit.
Bug_RecheckAfterAlert(g) ==
  /\ grading[g].stage = "alerted"
  /\ LET n == grading[g].notice
     IN  /\ graded' = [graded EXCEPT ![n] = @ \/ status[n] = "analyzed"]
         /\ commits' = [commits EXCEPT ![g][n] = IF status[n] = "analyzed" THEN @ + 1 ELSE @]
  /\ grading' = [grading EXCEPT ![g] = NoGrading]
  /\ UNCHANGED <<status, running, batch, alerts, crashes, requests>>

\* The alert: not asked for (a low total, alert=False), failed, or delivered;
\* an attempt whose answer is lost is repeated although the message arrived.
Alert(g) ==
  /\ grading[g].stage = "updated"
  /\ grading' = [grading EXCEPT ![g].stage = "alerted"]
  /\ \E delivered \in 0..Attempts :
       alerts' = [alerts EXCEPT ![g][grading[g].notice] = @ + delivered]
  /\ UNCHANGED <<status, graded, running, batch, commits, crashes, requests>>

\* The commit: status stays, graded_at is set.
Commit(g) ==
  /\ grading[g].stage = "alerted"
  /\ graded' = [graded EXCEPT ![grading[g].notice] = TRUE]
  /\ commits' = [commits EXCEPT ![g][grading[g].notice] = @ + 1]
  /\ grading' = [grading EXCEPT ![g] = NoGrading]
  /\ UNCHANGED <<status, running, batch, alerts, crashes, requests>>

\* An unexpected exception rolls the transaction back; the job catches it
\* inside its loop and goes on with the batch.
Bug_ExceptionEndsBatch(g) ==
  /\ grading[g].stage = "computing"
  /\ grading[g].notice \in Poison
  /\ grading' = [grading EXCEPT ![g] = NoGrading]
  /\ batch' = IF g = "job" THEN {} ELSE batch
  /\ UNCHANGED <<status, graded, running, alerts, commits, crashes, requests>>

Raise(g) ==
  /\ grading[g].stage = "computing"
  /\ grading[g].notice \in Poison
  /\ grading' = [grading EXCEPT ![g] = NoGrading]
  /\ UNCHANGED <<status, graded, running, batch, alerts, commits, crashes, requests>>

-----------------------------------------------------------------------------
(* The job: _grade_job. *)

\* WHERE status = 'analyzed' AND graded_at IS NULL ORDER BY created_at LIMIT n
Bug_SelectRegardless == {n \in Notices : status[n] = "analyzed"}

Candidates == {n \in Notices : status[n] = "analyzed" /\ ~ graded[n]}

Selected == {n \in Candidates : Cardinality({m \in Candidates : m <= n}) <= BatchLimit}

\* An interval tick; while a run is in progress APScheduler skips it.
Tick ==
  /\ ~ running
  /\ Candidates # {}
  /\ running' = TRUE
  /\ batch' = Selected
  /\ UNCHANGED <<status, graded, grading, alerts, commits, crashes, requests>>

GradeNext ==
  /\ running
  /\ grading["job"] = NoGrading
  /\ \E n \in batch : /\ \A m \in batch : n <= m
                      /\ Read("job", n)
                      /\ batch' = batch \ {n}
  /\ UNCHANGED <<status, graded, running, alerts, commits, crashes, requests>>

EndOfRun ==
  /\ running
  /\ grading["job"] = NoGrading
  /\ batch = {}
  /\ running' = FALSE
  /\ UNCHANGED <<status, graded, batch, grading, alerts, commits, crashes, requests>>

-----------------------------------------------------------------------------
(* Everything else that happens to the notices. *)

\* POST /notices/{notice_no}/grade
GradeRequest(n) ==
  /\ grading["http"] = NoGrading
  /\ requests < MaxRequests
  /\ requests' = requests + 1
  /\ Read("http", n)
  /\ UNCHANGED <<status, graded, running, batch, alerts, commits, crashes>>

\* The other handlers move the status on (NoticePipeline says how); their
\* UPDATE waits while a grading holds the row.
MoveOn(n) ==
  /\ ~ Locked(n)
  /\ \E t \in {"analyzed", "attachments_fetched", "form_filled", "notified"} :
       /\ can_transition(status[n], t)
       /\ status' = [status EXCEPT ![n] = t]
  /\ UNCHANGED <<graded, running, batch, grading, alerts, commits, crashes, requests>>

\* The process dies and restarts: open transactions are rolled back, the
\* batch is forgotten.
Crash ==
  /\ crashes < MaxCrashes
  /\ crashes' = crashes + 1
  /\ running' = FALSE
  /\ batch' = {}
  /\ grading' = [g \in Graders |-> NoGrading]
  /\ UNCHANGED <<status, graded, alerts, commits, requests>>

Next == \/ Tick \/ GradeNext \/ EndOfRun \/ Crash
        \/ \E g \in Graders : Update(g) \/ Alert(g) \/ Commit(g) \/ Raise(g)
        \/ \E n \in Notices : GradeRequest(n) \/ MoveOn(n)

\* The scheduler's timer keeps ticking, its thread keeps running, and every
\* external call of a grading ends by itself (httpx timeouts, three retries).
Fairness == /\ WF_vars(Tick) /\ WF_vars(GradeNext) /\ WF_vars(EndOfRun)
            /\ \A g \in Graders : /\ WF_vars(Update(g)) /\ WF_vars(Alert(g))
                                  /\ WF_vars(Commit(g)) /\ WF_vars(Raise(g))

Spec == Init /\ [][Next]_vars /\ Fairness

-----------------------------------------------------------------------------
(* Properties *)

TypeOK ==
  /\ status \in [Notices -> Statuses]
  /\ graded \in [Notices -> BOOLEAN]
  /\ running \in BOOLEAN
  /\ batch \subseteq Notices
  /\ grading \in [Graders -> [stage : Stages, notice : 0..Count]]
  /\ alerts \in [Graders -> [Notices -> Nat]]
  /\ commits \in [Graders -> [Notices -> Nat]]
  /\ crashes \in 0..MaxCrashes
  /\ requests \in 0..MaxRequests

\* The scheduler announces a notice on Slack in one grading only, plus one for
\* every crash between the alert and the commit (and in each of them at most
\* once per attempt): a tick never selects again what an earlier one graded.
JobAlertsOncePerCrash ==
  \A n \in Notices : alerts["job"][n] <= Attempts * (1 + crashes)

\* An alert that was posted belongs to the grading in progress, to one that was
\* committed, or to one that was lost in a crash: nobody is told a score that
\* an exception or a status check then drops.
AlertsAreStored ==
  \A n \in Notices, g \in Graders :
    LET pending == IF grading[g] = [stage |-> "alerted", notice |-> n] THEN 1 ELSE 0
    IN  alerts[g][n] <= Attempts * (commits[g][n] + crashes + pending)

\* Every notice that waits to be graded is graded, or moves on and is no
\* longer "analyzed": as long as the notices that cannot be graded do not fill
\* a whole batch, they do not keep the younger ones waiting (scheduler.py:120).
EveryNoticeGraded ==
  Cardinality(Poison) < BatchLimit =>
    \A n \in Notices \ Poison :
      (status[n] = "analyzed" /\ ~ graded[n]) ~> (graded[n] \/ status[n] # "analyzed")
=============================================================================
